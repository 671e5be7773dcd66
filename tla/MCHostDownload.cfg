SPECIFICATION HostSpec
CONSTANTS
    file = file
    Sub = {file}
    RingSize = 0
    QueueSize <- MCQueueSize
    MaxPublished = 3
    DrainMax = 1
    RotateSize = 2
    Unencodable = {3}
    MaxFailures = 1
INVARIANT
    DownloadIsFull
CHECK_DEADLOCK FALSE
