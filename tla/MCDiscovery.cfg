SPECIFICATION Spec
CONSTANTS
    phone = phone
    mobdev = mobdev
    beacon = beacon
    app = app
    Udid = {phone}
    OtherId = {mobdev, beacon, app}
    Address = {"a1"}
    NoAddress = "none"
    NoId = NoId
    Service = {mobdev, beacon}
    Apple = {mobdev}
    Phone <- MCPhone
    TxtId <- MCTxtId
    AgentId <- MCAgentId
    MaxCalls = 2
    MaxResolves = 1
INVARIANTS
    OneRowPerPhone
    LossReachesRow
CHECK_DEADLOCK FALSE
PROPERTY
    GoneIsForgotten
