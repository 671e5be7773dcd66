SPECIFICATION Spec
CONSTANTS
    phone = phone
    address = address
    s1 = s1
    u1 = u1
    u2 = u2
    c1 = c1
    c2 = c2
    Conn = {c1, c2}
    Device = {phone, address}
    Session = {s1, u1, u2}
    Hellos <- MCHellos
    Unnamed <- MCUnnamed
    Nobody = Nobody
    Known = {address}
    MayRaise = {s1}
INVARIANTS
    RowFollowsConnection
    SessionFollowsConnection
PROPERTIES
    ClosedConnectionsEnd
    StopReturns
CHECK_DEADLOCK FALSE
