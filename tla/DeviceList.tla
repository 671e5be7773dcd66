----------------------------- MODULE DeviceList -----------------------------
(***************************************************************************)
(* How desktop/idevicetail/engine_device.py turns the output of            *)
(* `usbmux list` and `bonjour mobdev2` into one list of devices.           *)
(*                                                                         *)
(* A JSON object is a record of the keys that matter, Missing where a key  *)
(* is missing or empty.  `usbmux list` has the UDID in Identifier,         *)
(* `bonjour mobdev2` an IP address, and the UDID in UniqueDeviceID.        *)
(* Keys that _norm_dev tries one after the other, with nothing between     *)
(* them, are one field here: serial is udid or serialnumber, ip is ip,     *)
(* networkaddress, ipaddress or address, devicename is devicename or name. *)
(* A connection type is compared without regard to case: "USB" stands for  *)
(* what .upper() makes USB, "Network" for what `wireless` accepts.         *)
(***************************************************************************)
EXTENDS Naturals, Sequences

CONSTANT Address   \* the strings that _looks_like_ip takes for an address

\* What Python takes for false: no key, None, the empty string.
Missing == "none"

JsonObject == [uniquedeviceid : STRING, identifier : STRING, serial : STRING, ip : STRING,
               devicename : STRING, connectiontype : STRING]

\* Python's `a or b or ...`: the first value that is not missing.
FirstSet(values) ==
    IF \A i \in DOMAIN values : values[i] = Missing THEN Missing
    ELSE values[CHOOSE i \in DOMAIN values :
                  values[i] # Missing /\ \A j \in 1 .. i - 1 : values[j] = Missing]

NormDev(g) ==
    [udid |-> FirstSet(<< g.uniquedeviceid, IF g.identifier \in Address THEN Missing ELSE g.identifier,
                         g.serial >>),
     address |-> FirstSet(<< g.ip, IF g.identifier \in Address THEN g.identifier ELSE Missing >>),
     name |-> g.devicename,
     connection |-> g.connectiontype]

\* What an entry becomes when the list has another one of its UDID: a field
\* is filled in where it was empty, and USB wins.
MergedLastWinsMut(cur, d) ==
    [cur EXCEPT !.name = FirstSet(<< @, d.name >>), !.address = FirstSet(<< @, d.address >>),
                !.connection = FirstSet(<< d.connection, @ >>)]
Merged(cur, d) ==
    [cur EXCEPT !.name = FirstSet(<< @, d.name >>), !.address = FirstSet(<< @, d.address >>),
                !.connection = IF d.connection = "USB" THEN "USB" ELSE FirstSet(<< @, d.connection >>)]

Absorb(list, d) ==
    IF d.udid = Missing THEN list
    ELSE IF \E i \in DOMAIN list : list[i].udid = d.udid
    THEN [i \in DOMAIN list |-> IF list[i].udid = d.udid THEN Merged(list[i], d) ELSE list[i]]
    ELSE Append(list, d)

\* The dict by_udid after each number of devices.
ByUdid(devs) ==
    LET after[n \in 0 .. Len(devs)] ==
            IF n = 0 THEN << >> ELSE Absorb(after[n - 1], devs[n])
    IN after

Dedupe(devs) == ByUdid(devs)[Len(devs)]

ParseDeviceList(objects) == Dedupe([i \in DOMAIN objects |-> NormDev(objects[i])])

\* What mobdev2 finds is on the network unless it says otherwise.
UnmarkedMut(devs) == devs
OnNetwork(devs) ==
    [i \in DOMAIN devs |-> [devs[i] EXCEPT !.connection = FirstSet(<< @, "Network" >>)]]

\* list_devices, from the objects each command printed, << >> for one that
\* failed.  It raises only if usbmux failed and there is nothing to return.
ListDevices(mux, mobdev2) ==
    Dedupe(ParseDeviceList(mux) \o OnNetwork(ParseDeviceList(mobdev2)))

\* The transport a listed device is merged with, by PymdDevice.wireless.
Transport(d) == IF d.connection = "Network" THEN "pymd-network" ELSE "pymd-usb"

-----------------------------------------------------------------------------
\* The list said outright: one entry for each UDID, on USB if any entry of it
\* is, with the first name and address that any entry of it has.
Named(u, all) == {i \in DOMAIN all : all[i].udid = u}
EntryFor(u, all) ==
    LET own(i, value) == IF i \in Named(u, all) THEN value ELSE Missing
    IN [udid |-> u,
        address |-> FirstSet([i \in DOMAIN all |-> own(i, all[i].address)]),
        name |-> FirstSet([i \in DOMAIN all |-> own(i, all[i].name)]),
        connection |-> IF \E i \in Named(u, all) : all[i].connection = "USB" THEN "USB"
                       ELSE FirstSet([i \in DOMAIN all |-> own(i, all[i].connection)])]

IsListOf(list, all) ==
    /\ {list[i].udid : i \in DOMAIN list} = {all[i].udid : i \in DOMAIN all} \ {Missing}
    /\ \A i \in DOMAIN list : list[i] = EntryFor(list[i].udid, all)
    /\ \A i, j \in DOMAIN list : list[i].udid = list[j].udid => i = j

IsDeviceList(list, mux, mobdev2) ==
    LET norm(objects) == [i \in DOMAIN objects |-> NormDev(objects[i])]
    IN IsListOf(list, norm(mux) \o OnNetwork(norm(mobdev2)))
=============================================================================
