---------------------------- MODULE MCDeviceOps ----------------------------
(***************************************************************************)
(* A phone with two addresses on Wi-Fi, next to another one on its cable,  *)
(* with two crash reports and two requests at a time.                      *)
(***************************************************************************)
EXTENDS DeviceOps

Object(uniquedeviceid, identifier, serial, ip, devicename, connectiontype) ==
    [uniquedeviceid |-> uniquedeviceid, identifier |-> identifier, serial |-> serial, ip |-> ip,
     devicename |-> devicename, connectiontype |-> connectiontype]

MCAddress == {"192.168.1.7", "fe80::7"}
MCCabled == Object(Missing, "udid", Missing, Missing, Missing, "USB")
MCBridged == Object(Missing, "udid", Missing, Missing, "Phone", "Network")
MCBeacons == {Object("udid", a, Missing, a, "Phone", Missing) : a \in MCAddress}
MCOthers == << Object(Missing, Missing, "other", Missing, "Other", "USB") >>
=============================================================================
