SPECIFICATION Spec
CONSTANTS
    Mode = {"syslog", "oslog"}
    MaxTasks = 2
    Request = {"r1"}
    NoTask = 0
INVARIANTS
    StreamingIsShown
CHECK_DEADLOCK FALSE
