SPECIFICATION Spec
CONSTANTS
    Sub = {"c1"}
    NoConn = "none"
    RingSize = 2
    QueueSize <- TwoSlots
    MaxPublished = 3
    SnapLimit = 2
    BatchMax = 2
    CtrlSize = 1
    Device = {"d1"}
    MaxEvents = 4
    Fetch = {"f1"}
    NoAnswer = NoAnswer
INVARIANT
    HubForgetsConnection
CHECK_DEADLOCK FALSE
