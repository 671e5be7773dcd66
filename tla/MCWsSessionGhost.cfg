SPECIFICATION Spec
CONSTANTS
    Sub = {"c1"}
    NoConn = "none"
    RingSize = 2
    QueueSize <- TwoSlots
    MaxPublished = 0
    SnapLimit = 2
    BatchMax = 2
    CtrlSize = 1
    Device = {"d1"}
    MaxEvents = 2
    Fetch = {"f1"}
    NoAnswer = NoAnswer
PROPERTY
    RemovedDevicesGo
CHECK_DEADLOCK FALSE
