SPECIFICATION Spec
CONSTANTS
    Mode = {"syslog", "oslog"}
    MaxTasks = 2
    Request = {"r1"}
    NoTask = 0
INVARIANTS
    WantedIsRegistered
    SessionFollowsTask
    StateFollowsSoleCapture
CHECK_DEADLOCK FALSE
