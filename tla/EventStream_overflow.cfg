SPECIFICATION Spec
CONSTANTS
    Task = {t1, t2}
    Readable = {t1, t2}
    Conn = {c1}
    MaxConnections = 1
    MaxSubscriptions = 2
    QueueSize = 1
    PageSize = 2
    BadFrames = FALSE
    MaxEvents = 1
PROPERTIES
    StreamIsLive
