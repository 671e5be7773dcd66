SPECIFICATION Spec
CONSTANTS
    Mode = {"syslog"}
    MaxTasks = 2
    Request = {"r1"}
    NoTask = 0
PROPERTIES
    StopCompletes
    RetriesUntilStopped
CHECK_DEADLOCK FALSE
