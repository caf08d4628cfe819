SPECIFICATION Spec
CONSTANTS
    Task = {t1, t2}
    Readable = {t1, t2}
    Conn = {c1, c2}
    MaxConnections = 1
    MaxSubscriptions = 1
    QueueSize = 1
    PageSize = 1
    BadFrames = TRUE
    MaxEvents = 2
INVARIANTS
    TypeOK
    CursorIsWhatWasSeen
    BrokerMatchesRegistry
PROPERTIES
    InOrder
