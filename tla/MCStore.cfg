SPECIFICATION Spec
CONSTANTS
    writer = writer
    iphone = iphone
    s1 = s1
    Sub = {writer}
    RingSize = 1
    QueueSize <- MCQueueSize
    MaxPublished = 4
    Caller = {"capture"}
    Device = {iphone}
    Session = {s1}
    SessionDevice <- MCSessionDevice
    FlushRows = 2
    MaxFailures = 1
INVARIANTS
    EveryRowInOneStage
    StoredIsCounted
PROPERTIES
    EveryRecordStored
    CloseCompletes
CHECK_DEADLOCK FALSE
