SPECIFICATION FairSpec
CONSTANTS
    Action = {"open", "write"}
    Needs <- MCNeeds
    MaxActions = 2
    Remark = {"m1", "m2"}
    Ruling = {"usual", "strict", "free", "closed"}
    Rule <- MCRule
    Probe = {"passed", "failed", "failed_retryable", "uncertain", "uncertain_retryable"}
    VerifyLimit = 2
    Redelivery = TRUE
    None = None
INVARIANTS
    ApprovedBeforeDispatch
    DependenciesFirst
    PlanKeepsResults
    RevisionHasEvidence
    SuccessIsEarned
PROPERTIES
    HistoryIsKept
    VerifiedIsAnswered
CHECK_DEADLOCK FALSE
