--------------------------- MODULE DeviceRegistry ---------------------------
(***************************************************************************)
(* The device table of desktop/idevicetail/manager.py (DeviceManager):     *)
(* merge_device, lose_bonjour and the events they send to the pages.       *)
(*                                                                         *)
(* A phone is seen through several sources, each under an id of its own:   *)
(* pymobiledevice3 knows its udid, Bonjour a service key, the agent app an *)
(* id.  Of a row, its address and transports are kept: they are what the   *)
(* rows are matched by.  Its state is modelled in Capture and AgentServer, *)
(* and so is the database row that a new device gets.                      *)
(***************************************************************************)
EXTENDS Integers, FiniteSets

CONSTANTS
    Udid,     \* ids of phones, as pymobiledevice3 knows them
    OtherId,  \* service keys and agent ids
    Address,
    NoAddress,
    NoId

Id == Udid \union OtherId
Transport == {"pymd-usb", "pymd-network", "bonjour-apple", "agent-beacon", "agent"}
Beacon == {"bonjour-apple", "agent-beacon"}

ASSUME RegistryAssumption ==
    /\ Udid \intersect OtherId = {}
    /\ NoAddress \notin Address /\ NoId \notin Id

Row == [address : Address \union {NoAddress}, transports : SUBSET Transport]
Sighting == [id : Id, address : Address \union {NoAddress}, transports : SUBSET Transport]

VARIABLES
    devices,     \* the table: a row for each id in its domain
    bonjourKeys, \* _bonjour_keys: what an id was folded into or attached to, or NoId
    told         \* the table of a page that has had every event

registryVars == <<devices, bonjourKeys, told>>

RegistryInit ==
    /\ devices = << >>
    /\ bonjourKeys = [k \in OtherId |-> NoId]
    /\ told = << >>

Rows == DOMAIN devices

-----------------------------------------------------------------------------
\* The rows with a udid at the address of sighting d.
At(d) == {u \in Rows \intersect Udid : d.address # NoAddress /\ devices[u].address = d.address}

\* The rows that a new row for sighting d replaces: those at its address that
\* have no udid.
FoldedMut(d) == {}
Folded(d) ==
    IF d.id \in Udid /\ d.address # NoAddress
    THEN {k \in Rows \ Udid : devices[k].address = d.address}
    ELSE {}

\* A page is told of the rows that went and of the row that changed.
TellMut(gone, key) ==
    told' = [k \in DOMAIN told \union {key} |-> IF k = key THEN devices'[key] ELSE told[k]]
Tell(gone, key) ==
    told' = [k \in (DOMAIN told \ gone) \union {key} |->
                IF k = key THEN devices'[key] ELSE told[k]]

\* The keys lead to the row of u from now on.
AttachMut(keys, u) ==
    bonjourKeys' = [k \in OtherId |-> IF k \in keys THEN k ELSE bonjourKeys[k]]
Attach(keys, u) ==
    bonjourKeys' = [k \in OtherId |-> IF k \in keys THEN u ELSE bonjourKeys[k]]

\* A row of its own for a sighting, with the transports of those it replaces.
Insert(d) ==
    LET gone == Folded(d)
    IN  /\ devices' = [k \in (Rows \ gone) \union {d.id} |->
                IF k = d.id
                THEN [address |-> d.address,
                      transports |-> d.transports \union UNION {devices[g].transports : g \in gone}]
                ELSE devices[k]]
        /\ Attach(gone, d.id)
        /\ Tell(gone, d.id)

\* A known address is replaced by a newer one, transports only add up.
Update(key, d) ==
    /\ devices' = [devices EXCEPT ![key] =
            [address |-> IF d.address = NoAddress THEN @.address ELSE d.address,
             transports |-> @.transports \union d.transports]]
    /\ Tell({}, key)

\* merge_device.  _identity attaches a Bonjour sighting of an iPhone to the row
\* with a udid at its address.
MergeMut(d) ==
    IF d.id \in Rows THEN Update(d.id, d) /\ UNCHANGED bonjourKeys ELSE Insert(d)
Merge(d) ==
    IF d.id \in OtherId /\ "bonjour-apple" \in d.transports /\ At(d) # {}
    THEN \E u \in At(d) :
            /\ Attach({d.id}, u)
            /\ Update(u, d)
    ELSE IF d.id \in Rows
         THEN Update(d.id, d) /\ UNCHANGED bonjourKeys
         ELSE Insert(d)

\* The row that lose_bonjour finds for key k, if it has one.
Leads(k) == IF bonjourKeys[k] # NoId THEN bonjourKeys[k] ELSE k

\* lose_bonjour, for each of the keys.
LoseMut(keys) ==
    LET hit == keys \intersect Rows
        strip(k) == [devices[k] EXCEPT !.transports = @ \ Beacon]
    IN  /\ devices' = [k \in Rows |-> IF k \in hit THEN strip(k) ELSE devices[k]]
        /\ bonjourKeys' = [k \in OtherId |-> IF k \in keys THEN NoId ELSE bonjourKeys[k]]
        /\ told' = [k \in DOMAIN told |-> IF k \in hit THEN devices'[k] ELSE told[k]]
Lose(keys) ==
    LET hit == {Leads(k) : k \in keys} \intersect Rows
        strip(k) == [devices[k] EXCEPT !.transports = @ \ Beacon]
    IN  /\ devices' = [k \in Rows |-> IF k \in hit THEN strip(k) ELSE devices[k]]
        /\ bonjourKeys' = [k \in OtherId |-> IF k \in keys THEN NoId ELSE bonjourKeys[k]]
        /\ told' = [k \in DOMAIN told |-> IF k \in hit THEN devices'[k] ELSE told[k]]

-----------------------------------------------------------------------------
RegistryTypeOK ==
    /\ Rows \subseteq Id /\ devices \in [Rows -> Row]
    /\ bonjourKeys \in [OtherId -> Udid \union {NoId}]
    \* What a key was attached to is a row.
    /\ \A k \in OtherId : bonjourKeys[k] \in Rows \union {NoId}

\* A page that has had every event shows the table: no change of it, and no row
\* that another one replaced, goes untold.
PageShowsTable == told = devices
=============================================================================
