SPECIFICATION Spec
CONSTANTS
    Task = {t1, t2}
    Principal = {p1, p2}
    Key = {k1}
    Hash = {x1}
    Approval = {a1}
    Digest = {d1}
    Request = {r1, r2}
    None = None
    MaxEvents = 4
    MaxTime = 1
SYMMETRY Symmetry
INVARIANTS
    SequencesContiguous
    OutboxMatchesEvents
    OneTaskPerScope
    PublishedOnce
