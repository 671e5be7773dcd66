SPECIFICATION Spec
CONSTANTS
    Address <- MCAddress
    Cabled <- MCCabled
    Bridged <- MCBridged
    Bridging = {TRUE, FALSE}
    Skipped = {r2}
    Beacons <- MCBeacons
    Others <- MCOthers
    Report = {r1, r2}
    Pull = {p1, p2}
    MaxMoves = 2
    MaxRequests = 2
INVARIANTS
    PulledIsPublished
