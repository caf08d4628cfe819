SPECIFICATION FairSpec
CONSTANTS
    N = 6
    Probe = {p1, p2}
INVARIANTS
    ReleasedInReverse
    WorkNeedsEverything
    AcceptanceMatchesHealth
PROPERTY
    ShutdownTerminates
