----------------------------- MODULE Discovery ------------------------------
(***************************************************************************)
(* Bonjour discovery (desktop/idevicetail/discovery.py, Discovery) and the *)
(* other sources of sightings, over the device table: the refresh of       *)
(* manager.py with its list of devices, and agents that connect.           *)
(*                                                                         *)
(* zeroconf reports that a service was added, updated or removed; the      *)
(* report schedules a callback, and callbacks run in order.  That of an    *)
(* added service starts a resolve, which takes up to three seconds.  What  *)
(* any source answers may be old by the time it is merged, so it is any    *)
(* address, or none.  Ninety seconds are an entry of _seen that may turn   *)
(* old at any time.                                                        *)
(***************************************************************************)
EXTENDS DeviceRegistry, Sequences

CONSTANTS
    Service,     \* service keys
    Apple,       \* those of _apple-mobdev2._tcp, the others are agent beacons
    Phone,       \* the phone each service is on
    TxtId,       \* the id a service is shown under: its key, or the id in its TXT
    AgentId,     \* the id the agent app of each phone says in hello
    MaxCalls,    \* bound on the callbacks scheduled, for model checking only
    MaxResolves  \* bound on the resolves of a service in progress, the same

ASSUME DiscoveryAssumption ==
    /\ Service \subseteq OtherId /\ Apple \subseteq Service
    /\ Phone \in [Service -> Udid] /\ DOMAIN TxtId = Service
    /\ \A s \in Apple : TxtId[s] = s
    /\ \A s \in Service \ Apple : TxtId[s] \in OtherId \ Apple
    /\ AgentId \in [Udid -> OtherId \ Service]
    /\ MaxCalls \in Nat /\ MaxResolves \in Nat

VARIABLES
    up,        \* the services advertised
    calls,     \* callbacks scheduled by _state_change
    resolving, \* how many resolves of each service are in progress
    seen,      \* _seen: "no", "fresh" or "old"
    reported   \* history: the addresses that Bonjour and the lists gave each phone

vars == <<registryVars, up, calls, resolving, seen, reported>>

Init ==
    /\ RegistryInit
    /\ up = {}
    /\ calls = << >>
    /\ resolving = [s \in Service |-> 0]
    /\ seen = [s \in Service |-> "no"]
    /\ reported = [u \in Udid |-> {}]

Report(u, address) == reported' = [reported EXCEPT ![u] = @ \union {address}]

-----------------------------------------------------------------------------
(* zeroconf *)

Schedule(s, lost) ==
    /\ Len(calls) < MaxCalls
    /\ calls' = Append(calls, [service |-> s, lost |-> lost])
    /\ UNCHANGED <<registryVars, resolving, reported>>

\* _state_change, of a service that was added or updated.
Announce(s) ==
    /\ up' = up \union {s}
    /\ Schedule(s, FALSE)
    /\ UNCHANGED seen

\* _state_change, removed.
Withdraw(s) ==
    /\ s \in up
    /\ up' = up \ {s}
    /\ seen' = [seen EXCEPT ![s] = "no"]
    /\ Schedule(s, TRUE)

\* The callback: lose_bonjour, or a resolve is started.
CallLost ==
    /\ calls # << >> /\ Head(calls).lost
    /\ calls' = Tail(calls)
    /\ Lose({Head(calls).service})
    /\ UNCHANGED <<up, resolving, seen, reported>>

CallResolve ==
    /\ calls # << >> /\ ~Head(calls).lost /\ resolving[Head(calls).service] < MaxResolves
    /\ calls' = Tail(calls)
    /\ resolving' = [resolving EXCEPT ![Head(calls).service] = @ + 1]
    /\ UNCHANGED <<registryVars, up, seen, reported>>

\* A resolve of s ends: answered, with an address or none, or not.
Resolved(s) ==
    /\ resolving[s] > 0
    /\ resolving' = [resolving EXCEPT ![s] = @ - 1]
    /\ \/ \E a \in Address \union {NoAddress} :
            /\ seen' = [seen EXCEPT ![s] = "fresh"]
            /\ Merge([id |-> TxtId[s], address |-> a,
                      transports |-> {IF s \in Apple THEN "bonjour-apple" ELSE "agent-beacon"}])
            /\ Report(Phone[s], a)
       \/ UNCHANGED <<registryVars, seen, reported>>
    /\ UNCHANGED <<up, calls>>

Old(s) ==
    /\ seen[s] = "fresh"
    /\ seen' = [seen EXCEPT ![s] = "old"]
    /\ UNCHANGED <<registryVars, up, calls, resolving, reported>>

Stale == {s \in Service : seen[s] = "old"}

\* A pass of _reap_loop over the entries that have turned old.
ReapMut ==
    /\ Stale \intersect up # {}
    /\ seen' = [s \in Service |-> IF s \in Stale \intersect up THEN "no" ELSE seen[s]]
    /\ Lose(Stale \intersect up)
    /\ UNCHANGED <<up, calls, resolving, reported>>
Reap ==
    /\ Stale # {}
    /\ seen' = [s \in Service |-> IF s \in Stale THEN "no" ELSE seen[s]]
    /\ Lose(Stale)
    /\ UNCHANGED <<up, calls, resolving, reported>>

-----------------------------------------------------------------------------
(* The other sources *)

\* The refresh merges a phone that list_devices gave, seen by cable or Wi-Fi;
\* only the Bonjour half of the list knows an address.
MergeListed(u) ==
    /\ \E a \in Address \union {NoAddress}, t \in {"pymd-usb", "pymd-network"} :
        /\ Merge([id |-> u, address |-> a, transports |-> {t}])
        /\ Report(u, a)
    /\ UNCHANGED <<up, calls, resolving, seen>>

\* The agent app of a phone says hello, or disconnects.
AgentReports(u) ==
    /\ \E a \in Address :
        Merge([id |-> AgentId[u], address |-> a, transports |-> {"agent"}])
    /\ UNCHANGED <<up, calls, resolving, seen, reported>>

-----------------------------------------------------------------------------
Next ==
    \/ \E s \in Service : Announce(s) \/ Withdraw(s) \/ Resolved(s) \/ Old(s)
    \/ CallLost \/ CallResolve \/ Reap
    \/ \E u \in Udid : MergeListed(u) \/ AgentReports(u)

\* The event loop runs callbacks, ends resolves and wakes the reaper.
Spec == /\ Init /\ [][Next]_vars
        /\ WF_vars(CallLost) /\ WF_vars(CallResolve) /\ WF_vars(Reap)
        /\ \A s \in Service : WF_vars(Resolved(s)) /\ WF_vars(Old(s))

-----------------------------------------------------------------------------
DiscoveryTypeOK ==
    /\ RegistryTypeOK
    /\ up \subseteq Service
    /\ calls \in Seq([service : Service, lost : BOOLEAN])
    /\ resolving \in [Service -> 0 .. MaxResolves]
    /\ seen \in [Service -> {"no", "fresh", "old"}]
    /\ reported \in [Udid -> SUBSET (Address \union {NoAddress})]

\* Every source that knows phone u gave the same address for it, and for no
\* other phone.
Agreed(u) ==
    /\ NoAddress \notin reported[u]
    /\ \A a, b \in reported[u] : a = b
    /\ \A v \in Udid \ {u} : reported[u] \intersect reported[v] = {}

\* While the sources agree on its address, a phone has one row, in whatever
\* order Bonjour and pymobiledevice3 come to know it and lose it: a sighting
\* is attached to its row, or folded into it (manager.py:255-263).
OneRowPerPhone ==
    \A s \in Apple : Agreed(Phone[s]) => ~({s, Phone[s]} \subseteq Rows)

\* A loss of service s is still to come: by the reaper, or by a callback.
Awaited(s) ==
    seen[s] # "no" \/ \E i \in DOMAIN calls : calls[i] = [service |-> s, lost |-> TRUE]

\* On the same condition, a row that says it is advertised is the one that a
\* loss of the service leads to, and that loss is still to come, however often
\* the service came and went and however late its resolves were answered.
LossReachesRow ==
    \A u \in Udid : Agreed(u) =>
        \A k \in Rows \intersect ({u} \union {s \in Apple : Phone[s] = u}) :
            "bonjour-apple" \in devices[k].transports =>
                \E s \in Apple : Phone[s] = u /\ Leads(s) = k /\ Awaited(s)

\* So a service that is gone is forgotten, even if a resolve of it was answered
\* after it had gone.
GoneIsForgotten ==
    \A s \in Apple :
        s \notin up ~>
            \/ s \in up \/ ~Agreed(Phone[s])
            \/ \A k \in {s, Phone[s]} \intersect Rows : "bonjour-apple" \notin devices[k].transports

\* manager.py:255: what a phone's new row replaces is "a bonjour-only sighting".
BonjourOnlyIsFolded ==
    [][\A k \in Rows \ Rows' : devices[k].transports \subseteq Beacon]_vars
=============================================================================
