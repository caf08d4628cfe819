SPECIFICATION Spec
CHECK_DEADLOCK FALSE
CONSTANTS
    Device = {d1, d2}
    Enabled = {d1, d2}
    Challenge = {c1, c2, c3}
    Login = {l1, l2}
    Request = {q1}
    Nonce = {n1}
    ChallengeLifetime = 2
    SessionLifetime = 3
    Second = 2
    Leeway = 2
    MaxRecords = 2
    MaxPerDevice = 1
    Horizon = 4
SYMMETRY Symmetry
INVARIANTS
    TypeOK
    OneActiveSession
    ChallengeGrantsOnce
    EpochCountsGrants
    AdmittedWasCurrent
    NonceAdmittedOnce
