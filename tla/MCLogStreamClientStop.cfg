SPECIFICATION Spec
CONSTANTS
    MaxConns = 2
    NoConn = 0
    BufferCap = 1
    ChunkSize = 2
    Odd = {2}
    MaxRecords = 1
    MaxTimers = 1
PROPERTY
    StopSticks
CHECK_DEADLOCK FALSE
