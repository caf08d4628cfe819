SPECIFICATION Spec
CONSTANTS
    Task = {t1}
    Principal = {p1}
    Key = {k1}
    Hash = {x1}
    Approval = {a1, a2}
    Digest = {d1, d2}
    Request = {r1}
    None = None
    MaxEvents = 5
    MaxTime = 1
INVARIANTS
    RecordedOnce
    
    PagesAreContiguous
PROPERTIES
    ImplementsLedger
    HistoryIsImmutable
    EveryCommitIsNotified
