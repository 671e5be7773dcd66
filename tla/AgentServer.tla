---------------------------- MODULE AgentServer -----------------------------
(***************************************************************************)
(* The listener that iOS apps stream to (desktop/idevicetail/              *)
(* engine_agent.py, AgentServer), with what it writes elsewhere: the       *)
(* displayed state of the device (manager.py, merge_device) and the device *)
(* and session rows (store.py).                                            *)
(*                                                                         *)
(* A connection's handler is suspended at one await at a time, named by    *)
(* conn:                                                                   *)
(*   reading   the next frame        greeting  start_session, in _on_hello *)
(*   closing   wait_closed           ending    end_session                 *)
(* "off" and "over" are before and after.  Frames are what the agent sends *)
(* next, in any order a client may choose; their text is left out.  A ping *)
(* and its pong, a record handed to the bus, and a peer that the bind      *)
(* policy refuses leave no trace here.  The store is open; the statements  *)
(* of all tasks run in the order they were issued, so a statement takes    *)
(* effect when it is issued.                                               *)
(***************************************************************************)
EXTENDS Integers, FiniteSets

CONSTANTS
    Conn,         \* connections
    Device,       \* device ids
    Session,      \* session ids
    Hellos,       \* what agents say in hello: [device, session]
    Unnamed,      \* what the server takes each connection for that does not say it
    Nobody,
    Known,        \* devices with a row in the database from an earlier run
    MayRaise      \* bound on the sessions the store fails for, for model checking only

Greeting == [device : Device, session : Session]

ASSUME AgentAssumption ==
    /\ Hellos \subseteq Greeting
    /\ Unnamed \in [Conn -> Greeting]
    /\ Nobody \notin Greeting
    /\ Known \subseteq Device
    \* A session id is a uuid, of one app process or drawn by the server.
    /\ \A g, h \in Hellos \union {Unnamed[c] : c \in Conn} :
          g.session = h.session => g = h

VARIABLES
    conn,       \* where each handler is
    peer,       \* the agent's end: "up", "closed", or "lost" without a word
    greeting,   \* the argument of the _on_hello in progress
    who,        \* device and session_id of _handle
    cancelled,  \* Task.cancel() was called and CancelledError is not raised yet
    row,        \* connection_state of the device's row, or "absent"
    upserting,  \* devices whose upsert_device is scheduled
    stored,     \* devices with a row in the database
    sessions,   \* the session rows
    unsaved,    \* history: sessions whose last store call raised
    phase,      \* where stop() is
    awaited,    \* the handlers stop() still has to wait for
    shared,     \* history: devices two connections have claimed at once
    orphaned    \* history: what a handler has greeted and then lost sight of

connVars == <<conn, peer, greeting, who, cancelled>>
elsewhere == <<row, upserting, stored, sessions, unsaved>>
vars == <<connVars, elsewhere, phase, awaited, shared, orphaned>>

Init ==
    /\ conn = [c \in Conn |-> "off"]
    /\ peer = [c \in Conn |-> "up"]
    /\ greeting = [c \in Conn |-> Nobody]
    /\ who = [c \in Conn |-> Nobody]
    /\ cancelled = [c \in Conn |-> FALSE]
    /\ row = [d \in Device |-> "absent"]
    /\ upserting = {}
    /\ stored = Known
    /\ sessions = [s \in Session |-> "none"] /\ unsaved = {}
    /\ phase = "up"
    /\ awaited = {}
    /\ shared = {}
    /\ orphaned = {}

\* AgentServer._conns
Conns == {c \in Conn : conn[c] \in {"reading", "greeting"}}

\* The connections that speak, or are about to speak, for device d.
Claims(d) ==
    {c \in Conn : /\ conn[c] \in {"reading", "greeting", "closing"}
                  /\ \E h \in {who[c], greeting[c]} \ {Nobody} : h.device = d}

-----------------------------------------------------------------------------
(* Effects on the rest of the program *)

\* The on_device callback: a device that has no row gets one, and an upsert.
OnDevice(d, state) ==
    /\ row' = [row EXCEPT ![d] = state]
    /\ upserting' = IF row[d] = "absent" THEN upserting \union {d} ELSE upserting

\* What a store call does to the session rows, and what is left of it when it
\* raises, which is suppressed: nothing if the statement does, and all of it for
\* a later commit of the connection if the commit does.
Store(s, rows) ==
    \/ sessions' = rows /\ unsaved' = unsaved \ {s}
    \/ s \in MayRaise /\ sessions' \in {sessions, rows} /\ unsaved' = unsaved \union {s}

\* INSERT OR REPLACE, which the foreign key makes raise without the device's row.
StartSession(h) ==
    \/ h.device \notin stored /\ UNCHANGED <<sessions, unsaved>>
    \/ h.device \in stored /\ Store(h.session, [sessions EXCEPT ![h.session] = "open"])

EndSession(s) ==
    Store(s, IF sessions[s] = "open" THEN [sessions EXCEPT ![s] = "ended"] ELSE sessions)

\* The upsert that merge_device has scheduled is issued, or raises: nobody looks
\* at that, and it is not scheduled again.
Upsert(d) ==
    /\ d \in upserting
    /\ upserting' = upserting \ {d}
    /\ stored' \in {stored, stored \union {d}}
    /\ UNCHANGED <<connVars, row, sessions, unsaved, phase, awaited, shared, orphaned>>

-----------------------------------------------------------------------------
(* The handler *)

Running(c, place) == conn[c] = place /\ ~cancelled[c]

Accept(c) ==
    /\ phase = "up" /\ conn[c] = "off"
    /\ conn' = [conn EXCEPT ![c] = "reading"]
    /\ UNCHANGED <<peer, greeting, who, cancelled, elsewhere, phase, awaited, shared, orphaned>>

\* _on_hello up to its await.
OnHelloMut(c, h) ==
    /\ conn' = [conn EXCEPT ![c] = "greeting"]
    /\ greeting' = [greeting EXCEPT ![c] = h]
    /\ IF row[h.device] = "absent" THEN OnDevice(h.device, "streaming")
                                   ELSE UNCHANGED <<row, upserting>>
    /\ StartSession(h)
    /\ shared' = IF Claims(h.device) \ {c} # {} THEN shared \union {h.device} ELSE shared
    /\ UNCHANGED <<peer, who, cancelled, stored, phase, awaited, orphaned>>
OnHello(c, h) ==
    /\ conn' = [conn EXCEPT ![c] = "greeting"]
    /\ greeting' = [greeting EXCEPT ![c] = h]
    /\ OnDevice(h.device, "streaming")
    /\ StartSession(h)
    /\ shared' = IF Claims(h.device) \ {c} # {} THEN shared \union {h.device} ELSE shared
    /\ UNCHANGED <<peer, who, cancelled, stored, phase, awaited, orphaned>>

Hello(c) == Running(c, "reading") /\ \E h \in Hellos : OnHello(c, h)

\* A log or batch frame before any hello: "tolerate" it.
EarlyRecord(c) == Running(c, "reading") /\ who[c] = Nobody /\ OnHello(c, Unnamed[c])

\* _on_hello returns.  What an earlier hello said is forgotten.
GreetedMut(c) ==
    /\ Running(c, "greeting")
    /\ conn' = [conn EXCEPT ![c] = "reading"]
    /\ who' = [who EXCEPT ![c] = greeting[c]]
    /\ orphaned' = orphaned \union ({who[c]} \ {Nobody, greeting[c]})
    /\ UNCHANGED <<peer, greeting, cancelled, elsewhere, phase, awaited, shared>>
Greeted(c) ==
    /\ Running(c, "greeting")
    /\ conn' = [conn EXCEPT ![c] = "reading"]
    /\ who' = [who EXCEPT ![c] = greeting[c]]
    /\ greeting' = [greeting EXCEPT ![c] = Nobody]
    /\ orphaned' = orphaned \union ({who[c]} \ {Nobody, greeting[c]})
    /\ UNCHANGED <<peer, cancelled, elsewhere, phase, awaited, shared>>

\* The frame loop ends: a bye, end of stream, a reset, a bad frame.  Only then
\* does the handler close its end.  A peer that is lost may be noticed, late.
LeaveLoop(c) ==
    /\ conn' = [conn EXCEPT ![c] = "closing"]
    /\ greeting' = [greeting EXCEPT ![c] = Nobody]
    /\ orphaned' = orphaned \union ({greeting[c]} \ {Nobody, who[c]})
    /\ UNCHANGED <<peer, who, elsewhere, phase, awaited, shared>>

Bye(c) == Running(c, "reading") /\ peer[c] = "up" /\ LeaveLoop(c) /\ UNCHANGED cancelled

EndOfStreamMut(c) ==
    Running(c, "reading") /\ peer[c] # "up" /\ who[c] # Nobody
    /\ LeaveLoop(c) /\ UNCHANGED cancelled
EndOfStream(c) == Running(c, "reading") /\ peer[c] # "up" /\ LeaveLoop(c) /\ UNCHANGED cancelled

\* CancelledError at the await, caught like an end of stream.
Cancelled(c) ==
    /\ cancelled[c] /\ conn[c] \in {"reading", "greeting"}
    /\ cancelled' = [cancelled EXCEPT ![c] = FALSE]
    /\ LeaveLoop(c)

\* The rest of the `finally`, once the transport is closed.
ClosedMut(c) ==
    /\ conn[c] = "closing"
    /\ conn' = [conn EXCEPT ![c] = "ending"]
    /\ IF who[c] = Nobody THEN UNCHANGED elsewhere
       ELSE OnDevice(who[c].device, "offline") /\ UNCHANGED <<sessions, unsaved, stored>>
    /\ UNCHANGED <<peer, greeting, who, cancelled, phase, awaited, shared, orphaned>>
Closed(c) ==
    /\ conn[c] = "closing"
    /\ conn' = [conn EXCEPT ![c] = "ending"]
    /\ IF who[c] = Nobody THEN UNCHANGED elsewhere
       ELSE /\ OnDevice(who[c].device, "offline")
            /\ EndSession(who[c].session)
            /\ UNCHANGED stored
    /\ UNCHANGED <<peer, greeting, who, cancelled, phase, awaited, shared, orphaned>>

Over(c) ==
    /\ conn[c] = "ending"
    /\ conn' = [conn EXCEPT ![c] = "over"]
    /\ UNCHANGED <<peer, greeting, who, cancelled, elsewhere, phase, awaited, shared, orphaned>>

\* The agent closes its end, or vanishes; after the loop nothing depends on it.
PeerLeaves(c) ==
    /\ conn[c] \in {"reading", "greeting"} /\ peer[c] = "up"
    /\ \E how \in {"closed", "lost"} : peer' = [peer EXCEPT ![c] = how]
    /\ UNCHANGED <<conn, greeting, who, cancelled, elsewhere, phase, awaited, shared, orphaned>>

-----------------------------------------------------------------------------
(* stop() *)

\* Server.wait_closed returns at once, "closing", or, as of Python 3.12, waits
\* until every connection is closed, "waiting".
Stop ==
    /\ phase = "up"
    /\ phase' \in {"closing", "waiting"}
    /\ UNCHANGED <<connVars, elsewhere, awaited, shared, orphaned>>

\* wait_closed returns: cancel the handlers that are still in _conns.
ServerClosedMut ==
    /\ phase \in {"closing", "waiting"}
    /\ phase' = "cancelling"
    /\ awaited' = Conns
    /\ UNCHANGED <<connVars, elsewhere, shared, orphaned>>
ServerClosed ==
    /\ phase \in {"closing", "waiting"}
    /\ phase = "waiting" => \A c \in Conn : conn[c] \in {"off", "ending", "over"}
    /\ phase' = "cancelling"
    /\ awaited' = Conns
    /\ cancelled' = [c \in Conn |-> c \in Conns]
    /\ UNCHANGED <<conn, peer, greeting, who, elsewhere, shared, orphaned>>

Stopped ==
    /\ phase = "cancelling" /\ \A c \in awaited : conn[c] = "over"
    /\ phase' = "stopped"
    /\ UNCHANGED <<connVars, elsewhere, awaited, shared, orphaned>>

-----------------------------------------------------------------------------
\* The steps of the event loop on a handler, whatever the agent does.
HandlerStep(c) == Greeted(c) \/ Cancelled(c) \/ Closed(c) \/ Over(c)

Next ==
    \/ \E c \in Conn :
        \/ Accept(c) \/ Hello(c) \/ EarlyRecord(c) \/ Bye(c)
        \/ EndOfStream(c) \/ HandlerStep(c) \/ PeerLeaves(c)
    \/ \E d \in Device : Upsert(d)
    \/ Stop \/ ServerClosed \/ Stopped

\* The event loop; and an agent that has closed its end has sent only so many
\* frames before, after which the end of the stream is read.  Nothing makes
\* the server notice an agent that is lost: it reads without a timeout.
Spec == /\ Init /\ [][Next]_vars
        /\ \A c \in Conn : /\ WF_vars(HandlerStep(c))
                          /\ SF_vars(EndOfStream(c) /\ peer[c] = "closed")
        /\ WF_vars(ServerClosed) /\ WF_vars(Stopped)

-----------------------------------------------------------------------------
AgentTypeOK ==
    /\ conn \in [Conn -> {"off", "reading", "greeting", "closing", "ending", "over"}]
    /\ peer \in [Conn -> {"up", "closed", "lost"}]
    /\ greeting \in [Conn -> Greeting \union {Nobody}]
    /\ \A c \in Conn : greeting[c] # Nobody <=> conn[c] = "greeting"
    /\ who \in [Conn -> Greeting \union {Nobody}]
    /\ cancelled \in [Conn -> BOOLEAN]
    /\ \A c \in Conn : cancelled[c] => c \in awaited /\ conn[c] \in {"reading", "greeting"}
    /\ row \in [Device -> {"absent", "streaming", "offline"}]
    /\ upserting \subseteq Device /\ stored \subseteq Device
    /\ sessions \in [Session -> {"none", "open", "ended"}] /\ unsaved \subseteq Session
    /\ phase \in {"up", "closing", "waiting", "cancelling", "stopped"}
    /\ awaited \subseteq Conn
    /\ shared \subseteq Device /\ orphaned \subseteq Greeting

OrphanedDevices == {h.device : h \in orphaned}

\* As long as its connections do not overlap, a device looks streaming exactly
\* while a connection speaks for it: a reconnect, a bye, a lost peer or a stop
\* in any order never leaves a live agent shown offline, or a dead one shown
\* streaming unless its handler has lost sight of it.
RowFollowsConnection ==
    \A d \in Device \ shared :
        /\ Claims(d) # {} => row[d] = "streaming"
        /\ row[d] = "streaming" => Claims(d) # {} \/ d \in OrphanedDevices

\* Some connection speaks for h.
Held(h) == \E c \in Claims(h.device) : h \in {who[c], greeting[c]}

\* On the same condition, and as far as the store's last call for it did not
\* raise, the session of a connection is not ended under it, and a session row
\* is open only while a connection has that session: each one that a handler
\* knows of is ended with its connection, also at stop().
SessionFollowsConnection ==
    \A h \in Greeting : h.device \notin shared /\ h.session \notin unsaved =>
        /\ Held(h) => sessions[h.session] # "ended"
        /\ sessions[h.session] = "open" /\ h \in Hellos => Held(h) \/ h \in orphaned

\* An agent that closes its connection, however early, is given up.
ClosedConnectionsEnd ==
    \A c \in Conn : (conn[c] = "reading" /\ peer[c] = "closed") ~> conn[c] = "over"

\* stop() returns and leaves no handler behind that it had to wait for, unless
\* the server has to wait for an agent that stays.
StopReturns ==
    (phase # "up") ~>
        \/ phase = "stopped" /\ \A c \in awaited : conn[c] = "over"
        \/ phase = "waiting" /\ \E c \in Conn : conn[c] = "reading" /\ peer[c] # "closed"

\* TESTPLAN.md:32, of an agent app killed and launched again: "new `hello`,
\* device flips offline -> streaming".  So the device of the one agent that is
\* still there, connected and past its hello, is shown streaming.
LiveAgentIsShown ==
    \A c \in Conn :
        /\ Running(c, "reading") /\ peer[c] = "up" /\ who[c] # Nobody
        /\ \A o \in Conn \ {c} : conn[o] \notin {"reading", "greeting"} \/ peer[o] # "up"
        => row[who[c].device] = "streaming"
=============================================================================
