SPECIFICATION Spec
CONSTANTS
    Task = {t1}
    Principal = {p1}
    Key = {k1}
    Hash = {x1}
    Approval = {a1}
    Digest = {d1}
    Request = {r1}
    None = None
    MaxEvents = 4
    MaxTime = 1
PROPERTIES
    TerminalNeverReopened
