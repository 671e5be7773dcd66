------------------------- MODULE AgentServerProofs --------------------------
(***************************************************************************)
(* Proofs about AgentServer, for any connections, devices and greetings.   *)
(***************************************************************************)
EXTENDS AgentServer, TLAPS

\* Everything a handler can be told, or take a connection for.
Said == Hellos \union {Unnamed[c] : c \in Conn}

\* A handler knows only what was said, and nothing before it runs; a device
\* that two connections never claimed at once has one claim at most; and a
\* session row exists only for a device with a row, as its foreign key demands.
AgentShape ==
    /\ \A c \in Conn : {who[c], greeting[c]} \subseteq Said \union {Nobody}
    /\ \A c \in Conn : conn[c] = "off" => who[c] = Nobody
    /\ \A d \in Device \ shared : \A b, c \in Claims(d) : b = c
    /\ \A h \in Said : sessions[h.session] # "none" => h.device \in stored

\* The inductive invariant.
AgentInv ==
    /\ AgentTypeOK
    /\ RowFollowsConnection
    /\ SessionFollowsConnection
    /\ AgentShape

LEMMA SaidIsGreeting ==
    /\ Said \subseteq Greeting /\ Nobody \notin Said
    /\ \A h \in Said : h.device \in Device /\ h.session \in Session
BY AgentAssumption DEF Said, Greeting

LEMMA AgentInit == Init => AgentInv
<1> SUFFICES ASSUME Init PROVE AgentInv
  OBVIOUS
<1> USE AgentAssumption DEF Init
<1>1. AgentTypeOK
  BY DEF AgentTypeOK
<1>2. \A d \in Device : Claims(d) = {}
  BY DEF Claims
<1>3. \A h \in Greeting : h.device \in Device /\ h.session \in Session /\ ~Held(h)
  BY <1>2 DEF Held, Greeting
<1>4. RowFollowsConnection /\ SessionFollowsConnection
  BY <1>2, <1>3 DEF RowFollowsConnection, SessionFollowsConnection
<1>5. AgentShape
  BY <1>2, SaidIsGreeting DEF AgentShape, Greeting
<1> QED BY <1>1, <1>4, <1>5 DEF AgentInv

\* The steps that change no claim and no row.
LEMMA UpsertInv == ASSUME AgentInv, NEW d \in Device, Upsert(d) PROVE AgentInv'
<1> USE AgentAssumption DEF AgentInv, Upsert, connVars, elsewhere
<1>1. AgentTypeOK'
  BY DEF AgentTypeOK, Conns
<1>2. \A e \in Device : Claims(e)' = Claims(e)
  BY DEF AgentTypeOK, Claims, AgentShape
<1>3. RowFollowsConnection'
  BY <1>2 DEF AgentTypeOK, RowFollowsConnection, OrphanedDevices
<1>4. SessionFollowsConnection'
  <2>1. \A h \in Greeting : Held(h)' <=> Held(h)
    BY <1>2 DEF Held, Greeting, Claims, AgentTypeOK
  <2> QED BY <2>1 DEF SessionFollowsConnection
<1>5. AgentShape'
  BY <1>2 DEF AgentTypeOK, AgentShape
<1> QED BY <1>1, <1>3, <1>4, <1>5

LEMMA AcceptInv == ASSUME AgentInv, NEW c \in Conn, Accept(c) PROVE AgentInv'
<1> USE AgentAssumption DEF AgentInv, Accept, connVars, elsewhere
<1>1. AgentTypeOK'
  BY DEF AgentTypeOK, Conns
<1>2. \A d \in Device : Claims(d)' = Claims(d)
  BY DEF AgentTypeOK, Claims, AgentShape
<1>3. RowFollowsConnection'
  BY <1>2 DEF AgentTypeOK, RowFollowsConnection, OrphanedDevices
<1>4. SessionFollowsConnection'
  <2>1. \A h \in Greeting : Held(h)' <=> Held(h)
    BY <1>2 DEF Held, Greeting, Claims, AgentTypeOK
  <2> QED BY <2>1 DEF SessionFollowsConnection
<1>5. AgentShape'
  BY <1>2 DEF AgentTypeOK, AgentShape
<1> QED BY <1>1, <1>3, <1>4, <1>5

LEMMA OverInv == ASSUME AgentInv, NEW c \in Conn, Over(c) PROVE AgentInv'
<1> USE AgentAssumption DEF AgentInv, Over, connVars, elsewhere
<1>1. AgentTypeOK'
  BY DEF AgentTypeOK, Conns
<1>2. \A d \in Device : Claims(d)' = Claims(d)
  BY DEF AgentTypeOK, Claims, AgentShape
<1>3. RowFollowsConnection'
  BY <1>2 DEF AgentTypeOK, RowFollowsConnection, OrphanedDevices
<1>4. SessionFollowsConnection'
  <2>1. \A h \in Greeting : Held(h)' <=> Held(h)
    BY <1>2 DEF Held, Greeting, Claims, AgentTypeOK
  <2> QED BY <2>1 DEF SessionFollowsConnection
<1>5. AgentShape'
  BY <1>2 DEF AgentTypeOK, AgentShape
<1> QED BY <1>1, <1>3, <1>4, <1>5

LEMMA PeerLeavesInv == ASSUME AgentInv, NEW c \in Conn, PeerLeaves(c) PROVE AgentInv'
<1> USE AgentAssumption DEF AgentInv, PeerLeaves, connVars, elsewhere
<1>1. AgentTypeOK'
  BY DEF AgentTypeOK, Conns
<1>2. \A d \in Device : Claims(d)' = Claims(d)
  BY DEF AgentTypeOK, Claims, AgentShape
<1>3. RowFollowsConnection'
  BY <1>2 DEF AgentTypeOK, RowFollowsConnection, OrphanedDevices
<1>4. SessionFollowsConnection'
  <2>1. \A h \in Greeting : Held(h)' <=> Held(h)
    BY <1>2 DEF Held, Greeting, Claims, AgentTypeOK
  <2> QED BY <2>1 DEF SessionFollowsConnection
<1>5. AgentShape'
  BY <1>2 DEF AgentTypeOK, AgentShape
<1> QED BY <1>1, <1>3, <1>4, <1>5

LEMMA StopInv == ASSUME AgentInv, Stop PROVE AgentInv'
<1> USE AgentAssumption DEF AgentInv, Stop, connVars, elsewhere
<1>1. AgentTypeOK'
  BY DEF AgentTypeOK, Conns
<1>2. \A d \in Device : Claims(d)' = Claims(d)
  BY DEF AgentTypeOK, Claims, AgentShape
<1>3. RowFollowsConnection'
  BY <1>2 DEF AgentTypeOK, RowFollowsConnection, OrphanedDevices
<1>4. SessionFollowsConnection'
  <2>1. \A h \in Greeting : Held(h)' <=> Held(h)
    BY <1>2 DEF Held, Greeting, Claims, AgentTypeOK
  <2> QED BY <2>1 DEF SessionFollowsConnection
<1>5. AgentShape'
  BY <1>2 DEF AgentTypeOK, AgentShape
<1> QED BY <1>1, <1>3, <1>4, <1>5

LEMMA ServerClosedInv == ASSUME AgentInv, ServerClosed PROVE AgentInv'
<1> USE AgentAssumption DEF AgentInv, ServerClosed, connVars, elsewhere
<1>1. AgentTypeOK'
  BY DEF AgentTypeOK, Conns
<1>2. \A d \in Device : Claims(d)' = Claims(d)
  BY DEF AgentTypeOK, Claims, AgentShape
<1>3. RowFollowsConnection'
  BY <1>2 DEF AgentTypeOK, RowFollowsConnection, OrphanedDevices
<1>4. SessionFollowsConnection'
  <2>1. \A h \in Greeting : Held(h)' <=> Held(h)
    BY <1>2 DEF Held, Greeting, Claims, AgentTypeOK
  <2> QED BY <2>1 DEF SessionFollowsConnection
<1>5. AgentShape'
  BY <1>2 DEF AgentTypeOK, AgentShape
<1> QED BY <1>1, <1>3, <1>4, <1>5

LEMMA StoppedInv == ASSUME AgentInv, Stopped PROVE AgentInv'
<1> USE AgentAssumption DEF AgentInv, Stopped, connVars, elsewhere
<1>1. AgentTypeOK'
  BY DEF AgentTypeOK, Conns
<1>2. \A d \in Device : Claims(d)' = Claims(d)
  BY DEF AgentTypeOK, Claims, AgentShape
<1>3. RowFollowsConnection'
  BY <1>2 DEF AgentTypeOK, RowFollowsConnection, OrphanedDevices
<1>4. SessionFollowsConnection'
  <2>1. \A h \in Greeting : Held(h)' <=> Held(h)
    BY <1>2 DEF Held, Greeting, Claims, AgentTypeOK
  <2> QED BY <2>1 DEF SessionFollowsConnection
<1>5. AgentShape'
  BY <1>2 DEF AgentTypeOK, AgentShape
<1> QED BY <1>1, <1>3, <1>4, <1>5

\* A hello makes its connection claim the device, which is shared from then on
\* if another one claims it too.
LEMMA OnHelloInv ==
    ASSUME AgentInv, NEW c \in Conn, NEW g \in Said, Running(c, "reading"), OnHello(c, g)
    PROVE  AgentInv'
<1> USE AgentAssumption DEF AgentInv
<1>0. /\ g \in Greeting /\ g # Nobody /\ g.device \in Device /\ g.session \in Session
      /\ conn[c] = "reading" /\ ~cancelled[c] /\ greeting[c] = Nobody
      /\ conn' = [conn EXCEPT ![c] = "greeting"]
      /\ greeting' = [greeting EXCEPT ![c] = g]
      /\ row' = [row EXCEPT ![g.device] = "streaming"]
      /\ \/ g.device \notin stored /\ UNCHANGED <<sessions, unsaved>>
         \/ /\ g.device \in stored
            /\ Store(g.session, [sessions EXCEPT ![g.session] = "open"])
      /\ shared' = IF Claims(g.device) \ {c} # {} THEN shared \union {g.device} ELSE shared
      /\ UNCHANGED <<peer, who, cancelled, stored, phase, awaited, orphaned>>
  BY SaidIsGreeting DEF OnHello, OnDevice, StartSession, Running, AgentTypeOK
<1>1. AgentTypeOK'
  <2>1. sessions' \in [Session -> {"none", "open", "ended"}] /\ unsaved' \subseteq Session
    BY <1>0 DEF AgentTypeOK, Store
  <2> QED BY <1>0, <2>1 DEF AgentTypeOK, OnHello, OnDevice
<1>2. \A d \in Device : Claims(d)' = IF d = g.device THEN Claims(d) \union {c} ELSE Claims(d)
  BY <1>0 DEF AgentTypeOK, Claims
<1>3. RowFollowsConnection'
  <2>1. shared \subseteq shared' /\ OrphanedDevices' = OrphanedDevices
    BY <1>0 DEF OrphanedDevices
  <2>2. row'[g.device] = "streaming" /\ Claims(g.device)' # {}
    BY <1>0, <1>2 DEF AgentTypeOK
  <2>3. \A d \in Device : d # g.device => row'[d] = row[d] /\ Claims(d)' = Claims(d)
    BY <1>0, <1>2 DEF AgentTypeOK
  <2> QED BY <2>1, <2>2, <2>3 DEF RowFollowsConnection
<1>4. ASSUME NEW h \in Greeting PROVE Held(h)' <=> (Held(h) \/ h = g)
  <2>1. h.device \in Device /\ h # Nobody
    BY DEF Greeting
  <2>2. \A b \in Conn : b # c => greeting'[b] = greeting[b]
    BY <1>0
  <2>3. greeting'[c] = g /\ who' = who /\ c \in Claims(g.device)'
    BY <1>0, <1>2 DEF AgentTypeOK
  <2>4. \A d \in Device : Claims(d) \subseteq Conn
    BY DEF Claims
  <2>5. who[c] = h => c \in Claims(h.device)
    BY <1>0, <2>1 DEF Claims
  <2>6. Held(h) => Held(h)'
    BY <1>0, <1>2, <2>1, <2>2, <2>3, <2>4 DEF Held
  <2>7. h = g => Held(h)'
    BY <2>3 DEF Held
  <2>8. Held(h)' => Held(h) \/ h = g
    BY <1>0, <1>2, <2>1, <2>2, <2>3, <2>4, <2>5 DEF Held
  <2> QED BY <2>6, <2>7, <2>8
<1>5. SessionFollowsConnection'
  <2> SUFFICES ASSUME NEW h \in Greeting, h.device \notin shared', h.session \notin unsaved'
               PROVE  /\ Held(h)' => sessions'[h.session] # "ended"
                      /\ sessions'[h.session] = "open" /\ h \in Hellos
                           => Held(h)' \/ h \in orphaned'
    BY DEF SessionFollowsConnection
  <2>1. h.device \notin shared /\ h.session \in Session /\ orphaned' = orphaned
    BY <1>0 DEF Greeting
  <2>2. g.session \in unsaved' \/ sessions'[g.session] # "ended"
    BY <1>0 DEF AgentShape, AgentTypeOK, Store
  <2>3. h.session # g.session =>
          sessions'[h.session] = sessions[h.session] /\ h.session \notin unsaved
    BY <1>0, <2>1 DEF AgentTypeOK, Store
  <2>4. h \in Hellos /\ h.session = g.session => h = g
    BY DEF Said
  <2>5. Held(h)' => sessions'[h.session] # "ended"
    BY <1>4, <2>1, <2>2, <2>3 DEF SessionFollowsConnection
  <2>6. sessions'[h.session] = "open" /\ h \in Hellos => Held(h)' \/ h \in orphaned'
    BY <1>4, <2>1, <2>3, <2>4 DEF SessionFollowsConnection
  <2> QED BY <2>5, <2>6
<1>6. AgentShape'
  <2>1. \A b \in Conn : {who'[b], greeting'[b]} \subseteq Said \union {Nobody}
    BY <1>0 DEF AgentShape, AgentTypeOK
  <2>2. \A b \in Conn : conn'[b] = "off" => who'[b] = Nobody
    BY <1>0 DEF AgentShape, AgentTypeOK
  <2>3. \A d \in Device \ shared' : \A a, b \in Claims(d)' : a = b
    BY <1>0, <1>2 DEF AgentShape
  <2>4. \A h \in Said : sessions'[h.session] # "none" => h.device \in stored'
    <3>1. \A h \in Said : h.session # g.session => sessions'[h.session] = sessions[h.session]
      BY <1>0, SaidIsGreeting DEF AgentTypeOK, Store
    <3>2. \A h \in Said : h.session = g.session => h = g
      BY DEF Said
    <3>3. sessions'[g.session] # "none" => g.device \in stored
      BY <1>0 DEF AgentShape, AgentTypeOK, Store
    <3> QED BY <1>0, <3>1, <3>2, <3>3 DEF AgentShape
  <2> QED BY <2>1, <2>2, <2>3, <2>4 DEF AgentShape
<1> QED BY <1>1, <1>3, <1>5, <1>6

LEMMA GreetedInv == ASSUME AgentInv, NEW c \in Conn, Greeted(c) PROVE AgentInv'
<1> USE AgentAssumption DEF AgentInv, Greeted, Running, elsewhere
<1>1. AgentTypeOK'
  BY DEF AgentTypeOK
<1>2. \A d \in Device : /\ Claims(d)' \subseteq Claims(d)
                        /\ Claims(d) \ Claims(d)' # {} => d \in OrphanedDevices'
  BY DEF AgentTypeOK, Claims, OrphanedDevices
<1>3. RowFollowsConnection'
  BY <1>2 DEF AgentTypeOK, RowFollowsConnection, OrphanedDevices
<1>4. ASSUME NEW h \in Greeting
      PROVE  (Held(h)' => Held(h)) /\ (Held(h) => Held(h)' \/ h \in orphaned')
  BY DEF Held, Greeting, Claims, AgentTypeOK
<1>5. SessionFollowsConnection'
  BY <1>4 DEF SessionFollowsConnection
<1>6. AgentShape'
  BY <1>2 DEF AgentShape, AgentTypeOK
<1> QED BY <1>1, <1>3, <1>5, <1>6

\* The end of the loop, whatever ended it.
LEMMA LeaveLoopInv ==
    ASSUME AgentInv, NEW c \in Conn, conn[c] \in {"reading", "greeting"}, LeaveLoop(c),
           cancelled' = [cancelled EXCEPT ![c] = FALSE]
    PROVE  AgentInv'
<1> USE AgentAssumption DEF AgentInv, LeaveLoop, elsewhere
<1>1. AgentTypeOK'
  BY DEF AgentTypeOK
<1>2. \A d \in Device : /\ Claims(d)' \subseteq Claims(d)
                        /\ Claims(d) \ Claims(d)' # {} => d \in OrphanedDevices'
  BY DEF AgentTypeOK, Claims, OrphanedDevices
<1>3. RowFollowsConnection'
  BY <1>2 DEF AgentTypeOK, RowFollowsConnection, OrphanedDevices
<1>4. ASSUME NEW h \in Greeting
      PROVE  (Held(h)' => Held(h)) /\ (Held(h) => Held(h)' \/ h \in orphaned')
  BY DEF Held, Greeting, Claims, AgentTypeOK
<1>5. SessionFollowsConnection'
  BY <1>4 DEF SessionFollowsConnection
<1>6. AgentShape'
  BY <1>2 DEF AgentShape, AgentTypeOK
<1> QED BY <1>1, <1>3, <1>5, <1>6

\* The finally ends what its connection claims, which nobody else claims
\* unless the device is shared.
LEMMA ClosedInv == ASSUME AgentInv, NEW c \in Conn, Closed(c) PROVE AgentInv'
<1> USE AgentAssumption DEF AgentInv
<1>0. greeting[c] = Nobody /\ conn[c] = "closing" /\ who[c] \in Said \union {Nobody}
  BY DEF Closed, AgentTypeOK, AgentShape
<1>1. CASE who[c] = Nobody
  <2>1. AgentTypeOK'
    BY <1>1 DEF Closed, elsewhere, AgentTypeOK
  <2>2. \A d \in Device : Claims(d)' = Claims(d)
    BY <1>0, <1>1 DEF Closed, AgentTypeOK, Claims
  <2>3. \A h \in Greeting : Held(h)' <=> Held(h)
    BY <2>2 DEF Closed, Held, Greeting
  <2>4. RowFollowsConnection' /\ SessionFollowsConnection'
    BY <1>1, <2>2, <2>3
    DEF Closed, elsewhere, RowFollowsConnection, SessionFollowsConnection, OrphanedDevices
  <2>5. AgentShape'
    BY <1>1, <2>2 DEF Closed, elsewhere, AgentShape, AgentTypeOK
  <2> QED BY <2>1, <2>4, <2>5
<1>2. CASE who[c] # Nobody
  <2> DEFINE g == who[c]
  <2>1. /\ g \in Said /\ g \in Greeting /\ g.device \in Device /\ g.session \in Session
        /\ row' = [row EXCEPT ![g.device] = "offline"]
        /\ Store(g.session, IF sessions[g.session] = "open"
                            THEN [sessions EXCEPT ![g.session] = "ended"] ELSE sessions)
        /\ conn' = [conn EXCEPT ![c] = "ending"]
        /\ UNCHANGED <<peer, greeting, who, cancelled, stored, phase, awaited, shared, orphaned>>
    BY <1>0, <1>2, SaidIsGreeting DEF Closed, OnDevice, EndSession
  <2>2. AgentTypeOK'
    <3>1. sessions' \in [Session -> {"none", "open", "ended"}] /\ unsaved' \subseteq Session
      BY <2>1 DEF AgentTypeOK, Store
    <3> QED BY <1>0, <1>2, <2>1, <3>1 DEF Closed, OnDevice, AgentTypeOK
  <2>3. \A d \in Device : Claims(d)' = IF d = g.device THEN Claims(d) \ {c} ELSE Claims(d)
    BY <1>0, <2>1 DEF AgentTypeOK, Claims
  <2>4. c \in Claims(g.device)
    BY <1>0, <1>2 DEF Claims
  <2>5. g.device \notin shared => Claims(g.device)' = {}
    BY <2>1, <2>3, <2>4 DEF AgentShape
  <2>6. RowFollowsConnection'
    BY <2>1, <2>3, <2>5 DEF AgentTypeOK, RowFollowsConnection, OrphanedDevices
  <2>7. ASSUME NEW h \in Greeting, h.device \notin shared
        PROVE  (Held(h)' <=> Held(h) /\ h.device # g.device)
    BY <2>1, <2>3, <2>5, <2>7 DEF Held, Greeting
  <2>8. ASSUME NEW h \in Greeting, Held(h) PROVE h \in Said
    BY <2>8, SaidIsGreeting DEF Held, AgentShape, Claims
  <2>9. SessionFollowsConnection'
    <3> SUFFICES ASSUME NEW h \in Greeting, h.device \notin shared, h.session \notin unsaved'
                 PROVE  /\ Held(h)' => sessions'[h.session] # "ended"
                        /\ sessions'[h.session] = "open" /\ h \in Hellos
                             => Held(h)' \/ h \in orphaned
      BY <2>1 DEF SessionFollowsConnection
    <3>1. Held(h)' => h.session # g.session
      BY <2>1, <2>7, <2>8 DEF Said
    <3>6. h.session \in Session
      BY DEF Greeting
    <3>7. h.session # g.session =>
            sessions'[h.session] = sessions[h.session] /\ h.session \notin unsaved
      BY <2>1, <3>6 DEF AgentTypeOK, Store
    <3>2. Held(h)' => sessions'[h.session] # "ended"
      BY <2>7, <3>1, <3>7 DEF SessionFollowsConnection
    <3>8. h.session = g.session => sessions'[h.session] # "open"
      BY <2>1, <3>6 DEF AgentTypeOK, Store
    <3>3. sessions'[h.session] = "open" =>
            h # g /\ sessions[h.session] = "open" /\ h.session \notin unsaved
      BY <3>7, <3>8
    <3>4. Held(h) /\ h # g => h.device # g.device
      BY <2>4, <1>0, <1>2, <2>1 DEF Held, AgentShape, Greeting
    <3>5. sessions'[h.session] = "open" /\ h \in Hellos => Held(h)' \/ h \in orphaned
      BY <2>7, <3>3, <3>4 DEF SessionFollowsConnection
    <3> QED BY <3>2, <3>5
  <2>10. AgentShape'
    <3>1. \A h \in Said : sessions'[h.session] # "none" => sessions[h.session] # "none"
      BY <2>1, SaidIsGreeting DEF AgentTypeOK, Store
    <3>2. \A b \in Conn : {who'[b], greeting'[b]} \subseteq Said \union {Nobody}
      BY <2>1 DEF AgentShape
    <3>3. \A b \in Conn : conn'[b] = "off" => who'[b] = Nobody
      BY <2>1 DEF AgentShape, AgentTypeOK
    <3>4. \A d \in Device \ shared' : \A a, b \in Claims(d)' : a = b
      BY <2>1, <2>3 DEF AgentShape
    <3> QED BY <2>1, <3>1, <3>2, <3>3, <3>4 DEF AgentShape
  <2> QED BY <2>2, <2>6, <2>9, <2>10
<1> QED BY <1>1, <1>2

LEMMA AgentStep == AgentInv /\ [Next]_vars => AgentInv'
<1> SUFFICES ASSUME AgentInv, [Next]_vars PROVE AgentInv'
  OBVIOUS
<1>1. ASSUME NEW c \in Conn, Accept(c) \/ Over(c) \/ PeerLeaves(c) PROVE AgentInv'
  BY <1>1, AcceptInv, OverInv, PeerLeavesInv
<1>2. ASSUME NEW c \in Conn, Hello(c) PROVE AgentInv'
  BY <1>2, OnHelloInv DEF Hello, Said
<1>3. ASSUME NEW c \in Conn, EarlyRecord(c) PROVE AgentInv'
  BY <1>3, OnHelloInv DEF EarlyRecord, Said
<1>4. ASSUME NEW c \in Conn, Greeted(c) PROVE AgentInv'
  BY <1>4, GreetedInv
<1>5. ASSUME NEW c \in Conn, Bye(c) \/ EndOfStream(c) \/ Cancelled(c) PROVE AgentInv'
  <2>1. conn[c] \in {"reading", "greeting"} /\ LeaveLoop(c)
    BY <1>5 DEF Bye, EndOfStream, Cancelled, Running
  <2>2. cancelled' = [cancelled EXCEPT ![c] = FALSE]
    BY <1>5 DEF Bye, EndOfStream, Cancelled, Running, AgentInv, AgentTypeOK
  <2> QED BY <2>1, <2>2, LeaveLoopInv
<1>6. ASSUME NEW c \in Conn, Closed(c) PROVE AgentInv'
  BY <1>6, ClosedInv
<1>7. ASSUME NEW d \in Device, Upsert(d) PROVE AgentInv'
  BY <1>7, UpsertInv
<1>8. CASE Stop \/ ServerClosed \/ Stopped
  BY <1>8, StopInv, ServerClosedInv, StoppedInv
<1>9. CASE UNCHANGED vars
  <2>1. \A d \in Device : Claims(d)' = Claims(d)
    BY <1>9 DEF vars, connVars, Claims
  <2>2. \A h \in Greeting : Held(h)' <=> Held(h)
    BY <1>9, <2>1 DEF vars, connVars, Held, Greeting
  <2> QED
    BY <1>9, <2>1, <2>2 DEF vars, connVars, elsewhere, AgentInv, AgentTypeOK,
      RowFollowsConnection, SessionFollowsConnection, OrphanedDevices, AgentShape
<1> QED
  BY <1>1, <1>2, <1>3, <1>4, <1>5, <1>6, <1>7, <1>8, <1>9 DEF Next, HandlerStep

\* The inductive invariant holds in every reachable state.
THEOREM AgentInvariance == Spec => []AgentInv
BY AgentInit, AgentStep, PTL DEF Spec

\* The state of the agent server keeps its type.
THEOREM AgentTypeCorrect == Spec => []AgentTypeOK
BY AgentInvariance, PTL DEF AgentInv

\* The displayed state of a device follows its connection, as long as no two
\* connections have claimed it at once.
THEOREM RowsFollowConnections == Spec => []RowFollowsConnection
BY AgentInvariance, PTL DEF AgentInv

\* So does the session row of the connection, as far as the store's last call for
\* it did not raise: whatever raises before or after, and whoever else connects,
\* a call that succeeds puts the row right again (_on_hello, the finally of
\* _handle).
THEOREM SessionsFollowConnections == Spec => []SessionFollowsConnection
BY AgentInvariance, PTL DEF AgentInv

=============================================================================
