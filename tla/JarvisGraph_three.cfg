SPECIFICATION Spec
CONSTANTS
    Action = {"open", "write", "note"}
    Needs <- MCNeeds
    MaxActions = 3
    Remark = {"m1"}
    Ruling = {"usual", "free"}
    Rule <- MCRule
    Probe = {"passed", "failed", "failed_retryable"}
    VerifyLimit = 2
    Redelivery = FALSE
    None = None
PROPERTY ImplementsLedger
CHECK_DEADLOCK FALSE
