SPECIFICATION Spec
CONSTANTS
    Task = {t1}
    Readable = {t1}
    Conn = {c1}
    MaxConnections = 1
    MaxSubscriptions = 1
    QueueSize = 2
    PageSize = 2
    BadFrames = FALSE
    MaxEvents = 4
PROPERTIES
    StreamIsLive
