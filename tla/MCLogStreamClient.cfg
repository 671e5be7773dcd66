SPECIFICATION Spec
CONSTANTS
    MaxConns = 2
    NoConn = 0
    BufferCap = 1
    ChunkSize = 2
    Odd = {2}
    MaxRecords = 2
    MaxTimers = 1
INVARIANTS
    EveryRecordAccounted
    HelloFirst
    OneLiveConnection
PROPERTY
    Reconnects
CHECK_DEADLOCK FALSE
