SPECIFICATION Spec
CHECK_DEADLOCK FALSE
CONSTANTS
    Action = {"read1", "read2", "write"}
    Timeout = {1, 2}
    MaxEdges = 2
    MaxTotal = 5
    MaxPath = 3
    Capability = {"files.read", "files.write"}
    Uses <- MCUses
    ActionRule <- MCActionRule
    Aggregate <- MCAggregate
    Recommendation <- MCRecommendation
    MaxAggregates = 3
    MaxAdvice = 3
    NoRule = NoRule
    Evaluated <- MCEvaluated
INVARIANTS
    RunnableOrCyclic
    CriticalPathIsExact
    StrictestWins
    AdviceOnlyTightens
