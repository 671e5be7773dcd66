----------------------------- MODULE DeviceOps -----------------------------
(***************************************************************************)
(* One paired phone and the commands the desktop runs on it: the device    *)
(* list of DeviceManager.refresh, the transport that a command is given,   *)
(* and the crash reports that POST .../crashes pulls and publishes         *)
(* (desktop/idevicetail/manager.py, engine_device.py, server.py).          *)
(***************************************************************************)
EXTENDS DeviceList, Naturals, FiniteSets

CONSTANTS
    Cabled,        \* the object that usbmux prints for the phone on its cable
    Bridged,       \* the one it prints for it on Wi-Fi, where it does so
    Bridging,      \* whether usbmuxd may serve phones on Wi-Fi (not on every Windows)
    Beacons,       \* the objects that mobdev2 prints for it, one for each address
    Others,        \* the objects that usbmux prints for other phones
    Report,        \* the crash reports the phone will ever have
    Skipped,       \* those never published: not a crash report's suffix, or not readable
    Pull,          \* concurrent requests to pull them
    MaxMoves, MaxRequests   \* bounds for model checking only

\* connection_type is "USB" or "Network" (engine_device.py:48); mobdev2 gives none
\* (test_manager_and_devicelist.py:28).  Every object of the phone has its UDID.
ASSUME PhoneAssumption ==
    /\ {Cabled, Bridged} \union Beacons \subseteq JsonObject /\ Others \in Seq(JsonObject)
    /\ Cabled.identifier # Missing
    /\ \A object \in {Cabled, Bridged} \union Beacons : NormDev(object).udid = Cabled.identifier
    /\ \A i \in DOMAIN Others : NormDev(Others[i]).udid # Cabled.identifier
    /\ Cabled.connectiontype = "USB" /\ Bridged.connectiontype = "Network"
    /\ \A b \in Beacons : b.connectiontype \in {Missing, "Network"}

VARIABLES
    cable, wifi,   \* whether the phone is on its cable, on Wi-Fi
    bridges,       \* whether this usbmuxd serves phones on Wi-Fi
    lister,        \* list_devices: "idle", or "mobdev2" once usbmux has run
    mux,           \* what usbmux printed
    transports,    \* Device.transports of the phone, {} before it is known
    fresh,         \* history: "yes" if all of a list was made where the phone is now
    cabled,        \* history: whether usbmux ever printed it on its cable
    onPhone,       \* the reports on the phone
    dest,          \* the files in crashes/<udid>
    pull,          \* each request
    published,     \* how often each report was published
    torn,          \* history: the reports of which a part was published as the whole
    contested,     \* history: the reports of two pulls at once
    passedOver,    \* history: the new files that a failed pull left behind
    moves, requests

netVars == <<cable, wifi, bridges, moves>>
listVars == <<lister, mux, transports, fresh, cabled>>
crashVars == <<onPhone, dest, pull, published, torn, contested, passedOver, requests>>
vars == <<netVars, listVars, crashVars>>

Phone == Cabled.identifier
Idle == [on |-> FALSE]

Init ==
    /\ cable \in BOOLEAN /\ wifi \in BOOLEAN /\ bridges \in Bridging
    /\ lister = "idle" /\ mux = << >> /\ transports = {} /\ fresh = "no" /\ cabled = FALSE
    /\ onPhone = {}
    /\ dest = [r \in Report |-> "none"]
    /\ pull = [p \in Pull |-> Idle]
    /\ published = [r \in Report |-> 0]
    /\ torn = {} /\ contested = {} /\ passedOver = {}
    /\ moves = 0 /\ requests = 0

-----------------------------------------------------------------------------
(* The phone *)

Moves ==
    /\ moves < MaxMoves /\ moves' = moves + 1
    /\ \/ cable' = ~cable /\ wifi' = wifi
       \/ wifi' = ~wifi /\ cable' = cable
    /\ fresh' = "no"
    /\ UNCHANGED <<bridges, lister, mux, transports, cabled, crashVars>>

Crash(r) ==
    /\ r \notin onPhone
    /\ onPhone' = onPhone \union {r}
    /\ UNCHANGED <<netVars, listVars, dest, pull, published, torn, contested, passedOver, requests>>

\* Whether a command gets through: --mobdev2 looks for the phone on the network,
\* the default asks usbmuxd for it.
Reaches(mobdev2) == IF mobdev2 THEN wifi ELSE cable \/ (wifi /\ bridges)

-----------------------------------------------------------------------------
(* refresh: list_devices, then a merge of every device listed *)

MuxPrints ==
    (IF cable THEN << Cabled >> ELSE << >>)
        \o (IF wifi /\ bridges THEN << Bridged >> ELSE << >>) \o Others

\* Each of the two commands may fail, or mobdev2 miss some of the addresses.
MuxAnswers == {MuxPrints, << >>}
BeaconAnswers ==
    {<< >>} \union {<< b >> : b \in Beacons}
        \union {pair \in Beacons \X Beacons : pair[1] # pair[2]}

ListUsb ==
    /\ lister = "idle"
    /\ lister' = "mobdev2"
    /\ mux' \in MuxAnswers
    /\ fresh' = IF mux' # MuxPrints THEN "no" ELSE IF fresh = "yes" THEN "yes" ELSE "half"
    /\ cabled' = (cabled \/ (cable /\ mux' # << >>))
    /\ UNCHANGED <<netVars, transports, crashVars>>

\* merge_device: transports are only ever added.
MergedTransports(found) == transports \union found

ListWifi ==
    /\ lister = "mobdev2"
    /\ \E seen \in BeaconAnswers :
         LET list == ListDevices(mux, seen)
             found == {Transport(list[i]) : i \in {j \in DOMAIN list : list[j].udid = Phone}}
         IN /\ wifi \/ seen = << >>
            /\ transports' = IF found = {} THEN transports ELSE MergedTransports(found)
            /\ fresh' = IF fresh = "half" /\ (wifi => seen # << >>) THEN "yes"
                        ELSE IF fresh = "half" THEN "no" ELSE fresh
    /\ lister' = "idle" /\ mux' = << >>
    /\ UNCHANGED <<netVars, cabled, crashVars>>

\* Start, and every other command: as if on the cable once it was seen on it.
\* Start asks that it was ever seen on Wi-Fi, too; it was seen on one of them.
MobDev2 == "pymd-usb" \notin transports
Known == transports # {}

-----------------------------------------------------------------------------
(* POST .../crashes *)

Files == {r \in Report : dest[r] # "none"}
Pulling == {p \in Pull : pull[p].on}
New(p) == Files \ pull[p].before

\* Which name a request gets does not matter: the first that is free.
Free == CHOOSE p \in Pull : ~pull[p].on

Request(p) ==
    /\ Known /\ ~pull[p].on /\ p = Free
    /\ requests < MaxRequests /\ requests' = requests + 1
    /\ pull' = [pull EXCEPT ![p] = [on |-> TRUE, mobdev2 |-> MobDev2, before |-> Files,
                                    left |-> onPhone, copying |-> {}]]
    /\ contested' = contested \union UNION {Report \ pull[q].before : q \in Pulling}
    /\ UNCHANGED <<netVars, listVars, onPhone, dest, published, torn, passedOver>>

\* The child process copies the reports one after the other, over the files that
\* are there.
CopyBegin(p, r) ==
    /\ pull[p].on /\ pull[p].copying = {} /\ r \in pull[p].left /\ Reaches(pull[p].mobdev2)
    /\ dest' = [dest EXCEPT ![r] = "part"]
    /\ pull' = [pull EXCEPT ![p].copying = {r}]
    /\ UNCHANGED <<netVars, listVars, onPhone, published, torn, contested, passedOver, requests>>

CopyEnd(p, r) ==
    /\ pull[p].on /\ r \in pull[p].copying /\ Reaches(pull[p].mobdev2)
    /\ dest' = [dest EXCEPT ![r] = "whole"]
    /\ pull' = [pull EXCEPT ![p].copying = {}, ![p].left = @ \ {r}]
    /\ UNCHANGED <<netVars, listVars, onPhone, published, torn, contested, passedOver, requests>>

\* The child exits with 0: what is new in the directory is read and published,
\* without a pause.  The loop skips a file whose suffix is not .ips, .crash, .panic
\* or .txt, and one that cannot be read.
PublishableMut(p) == Files
Publishable(p) == New(p)

Answer(p) ==
    /\ pull[p].on /\ pull[p].left = {}
    /\ LET read == Publishable(p) \ Skipped IN
         /\ published' = [r \in Report |-> published[r] + IF r \in read THEN 1 ELSE 0]
         /\ torn' = torn \union {r \in read : dest[r] = "part"}
    /\ pull' = [pull EXCEPT ![p] = Idle]
    /\ UNCHANGED <<netVars, listVars, onPhone, dest, contested, passedOver, requests>>

\* The child exits with an error, or after 180 seconds _run kills it.  The answer
\* is 502; the files that are there stay.
Fails(p) ==
    /\ pull[p].on
    /\ passedOver' = passedOver \union New(p)
    /\ pull' = [pull EXCEPT ![p] = Idle]
    /\ UNCHANGED <<netVars, listVars, onPhone, dest, published, torn, contested, requests>>

-----------------------------------------------------------------------------
Next ==
    \/ Moves \/ ListUsb \/ ListWifi
    \/ \E r \in Report : Crash(r)
    \/ \E p \in Pull : Request(p) \/ Answer(p) \/ Fails(p)
    \/ \E p \in Pull, r \in Report : CopyBegin(p, r) \/ CopyEnd(p, r)

Spec == Init /\ [][Next]_vars

-----------------------------------------------------------------------------
\* However the answers of the two commands overlap, repeat a phone for each of
\* its addresses or miss it, the list has each phone once, with the address it
\* has on the network and on USB if it is on the cable.
ListIsRight ==
    lister = "mobdev2" =>
        \A seen \in BeaconAnswers : IsDeviceList(ListDevices(mux, seen), mux, seen)

\* A command on a phone that was listed where it is now gets through to it, if it
\* is on its cable or was never listed there.
FreshChoiceReaches ==
    fresh = "yes" /\ (cable \/ wifi) /\ (cable \/ ~cabled)
        => Known /\ Reaches(MobDev2)

\* Every report that is in the directory when nobody pulls was published exactly
\* once, as a whole, unless two pulls were after it at once, a pull that failed
\* left it behind, or the loop skips it.
PublishedOnce ==
    /\ \A r \in Report \ contested : published[r] <= 1 /\ r \notin torn
    /\ Pulling = {} => \A r \in Files \ (passedOver \union Skipped) : published[r] >= 1

\* SETUP-iOS.md:90 of a phone that is unplugged: "the desktop discovers it within
\* ~6 s and **Start** works with no cable".
StartWorksUnplugged == fresh = "yes" /\ ~cable /\ wifi => Known /\ Reaches(MobDev2)

\* TESTPLAN.md:38 of Crashes: "`.ips` pulled; a `source=crash` record with process
\* + reason appears".
PulledIsPublished ==
    Pulling = {} => \A r \in Report \ Skipped : dest[r] = "whole" => published[r] >= 1
=============================================================================
