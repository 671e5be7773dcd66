SPECIFICATION FairBusSpec
CONSTANTS
    tab = tab
    writer = writer
    Sub = {tab, writer}
    RingSize = 2
    QueueSize <- MCQueueSize
    MaxPublished = 4
INVARIANTS
    RingIsNewest
    QueueIsNextRun
PROPERTIES
    FanoutSpec
    EveryRecordSettled
CHECK_DEADLOCK FALSE
