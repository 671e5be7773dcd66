SPECIFICATION Spec
CONSTANTS
    Sub = {"c1", "c2"}
    NoConn = "none"
    RingSize = 1
    QueueSize <- OneSlot
    MaxPublished = 2
    SnapLimit = 1
    BatchMax = 2
    CtrlSize = 1
    Device = {"d1"}
    MaxEvents = 2
    Fetch = {"f1"}
    NoAnswer = NoAnswer
INVARIANTS
    ViewFollowsLog
    EventsLeadToState
PROPERTIES
    EveryRecordShown
    DropsAreShown
    DeviceStateReachesPage
CHECK_DEADLOCK FALSE
