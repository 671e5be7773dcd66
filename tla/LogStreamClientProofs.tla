----------------------- MODULE LogStreamClientProofs -----------------------
(***************************************************************************)
(* What the iOS client does with its connections, for any number of them,  *)
(* of records and of pending timers, and any sizes of buffer and chunk.    *)
(***************************************************************************)
EXTENDS LogStreamClient, FiniteSetTheorems, SequenceTheorems, TLAPS

Batch == Seq(Nat)
Completion == [records : Batch, ok : BOOLEAN]

LinksOK ==
    /\ current \in Conn \union {NoConn}
    /\ link \in [Conn -> {"unused", "preparing", "ready", "failed", "cancelled"}]
    /\ updates \in [Conn -> Seq({"ready", "waiting", "failed", "cancelled"})]

BatchesOK ==
    /\ buffer \in Batch /\ made \in Nat
    /\ pipe \in [Conn -> Seq(Batch)]
    /\ done \in [Conn -> Seq(Completion)]

\* Only a live connection still has batches to process.
PipeIsLive == \A c \in Conn : pipe[c] # << >> => Live(c)

\* Whatever .ready made the client connected has greeted its connection.
ConnectedIsGreeted == state = "connected" /\ current # NoConn => current \in greeted

\* A connection has batches or reports on them only after hello.
BatchesAfterHello == \A c \in Conn : pipe[c] # << >> \/ done[c] # << >> => c \in greeted

\* The inductive invariant.
ClientInv ==
    /\ LinksOK /\ BatchesOK
    /\ OneLiveConnection /\ PipeIsLive /\ ConnectedIsGreeted /\ BatchesAfterHello

LEMMA ClientInit == Init => ClientInv
  BY ClientAssumption
  DEF Init, ClientInv, LinksOK, BatchesOK, OneLiveConnection, Live, PipeIsLive,
      ConnectedIsGreeted, BatchesAfterHello, Batch

LEMMA FailuresType ==
    ASSUME NEW batches \in Seq(Batch)
    PROVE  Failures(batches) \in Seq(Completion)
<1>1. \A i \in 1 .. Len(batches) : [records |-> batches[i], ok |-> FALSE] \in Completion
  BY DEF Completion
<1> QED
  BY <1>1 DEF Failures

LEMMA JoinBatches == ASSUME NEW a \in Batch, NEW b \in Batch PROVE a \o b \in Batch
  BY DEF Batch

LEMMA JoinLists ==
    ASSUME NEW S, NEW s \in Seq(S), NEW t \in Seq(S)
    PROVE  /\ s \o t \in Seq(S) /\ Len(s \o t) = Len(s) + Len(t)
           /\ \A i \in 1 .. Len(s) : (s \o t)[i] = s[i]
           /\ \A i \in 1 .. Len(t) : (s \o t)[Len(s) + i] = t[i]
<1>1. Len(s) \in Nat /\ Len(t) \in Nat
  BY LenProperties
<1>2. s \o t \in Seq(S) /\ Len(s \o t) = Len(s) + Len(t)
  BY ConcatProperties
<1>3. \A i \in 1 .. Len(s) + Len(t) : (s \o t)[i] = IF i <= Len(s) THEN s[i] ELSE t[i - Len(s)]
  BY ConcatProperties
<1>4. \A i \in 1 .. Len(s) : (s \o t)[i] = s[i]
  BY <1>1, <1>3
<1>5. ASSUME NEW i \in 1 .. Len(t) PROVE (s \o t)[Len(s) + i] = t[i]
  <2>1. Len(s) + i \in 1 .. Len(s) + Len(t) /\ ~(Len(s) + i <= Len(s)) /\ (Len(s) + i) - Len(s) = i
    BY <1>1
  <2> QED
    BY <1>3, <2>1
<1> QED
  BY <1>2, <1>4, <1>5

\* What the connections were given, as lists of batches.
GivenOf(reports, batches) ==
    [c \in Conn |-> [b \in DOMAIN reports[c] |-> reports[c][b].records] \o batches[c]]

LEMMA GivenList ==
    ASSUME NEW reports \in [Conn -> Seq(Completion)], NEW batches \in [Conn -> Seq(Batch)]
    PROVE  /\ GivenOf(reports, batches) \in [Conn -> Seq(Batch)]
           /\ \A c \in Conn :
                /\ Len(GivenOf(reports, batches)[c]) = Len(reports[c]) + Len(batches[c])
                /\ \A b \in 1 .. Len(reports[c]) : GivenOf(reports, batches)[c][b] = reports[c][b].records
                /\ \A b \in 1 .. Len(batches[c]) :
                     GivenOf(reports, batches)[c][Len(reports[c]) + b] = batches[c][b]
<1> DEFINE given == GivenOf(reports, batches)
<1>1. ASSUME NEW c \in Conn
      PROVE  /\ given[c] \in Seq(Batch) /\ Len(given[c]) = Len(reports[c]) + Len(batches[c])
             /\ \A b \in 1 .. Len(reports[c]) : given[c][b] = reports[c][b].records
             /\ \A b \in 1 .. Len(batches[c]) : given[c][Len(reports[c]) + b] = batches[c][b]
  <2> DEFINE reported == [b \in DOMAIN reports[c] |-> reports[c][b].records]
  <2>1. reports[c] \in Seq(Completion) /\ batches[c] \in Seq(Batch)
    OBVIOUS
  <2>2. ASSUME NEW b \in 1 .. Len(reports[c]) PROVE reports[c][b].records \in Batch
    <3>1. reports[c][b] \in Completion
      BY <2>1
    <3> QED
      BY <3>1 DEF Completion
  <2>3. /\ reported \in Seq(Batch) /\ Len(reported) = Len(reports[c])
        /\ \A b \in 1 .. Len(reports[c]) : reported[b] = reports[c][b].records
    BY <2>1, <2>2
  <2>4. given[c] = reported \o batches[c]
    BY DEF GivenOf
  <2> HIDE DEF reported, given
  <2>5. PICK told \in Seq(Batch), piped \in Seq(Batch) : told = reported /\ piped = batches[c]
    BY <2>1, <2>3
  <2>6. /\ told \o piped \in Seq(Batch) /\ Len(told \o piped) = Len(told) + Len(piped)
        /\ \A b \in 1 .. Len(told) : (told \o piped)[b] = told[b]
        /\ \A b \in 1 .. Len(piped) : (told \o piped)[Len(told) + b] = piped[b]
    BY ONLY JoinLists, told \in Seq(Batch), piped \in Seq(Batch)
  <2> QED
    BY <2>3, <2>4, <2>5, <2>6
<1>2. given \in [Conn -> Seq(Batch)]
  <2>1. given = [c \in Conn |-> given[c]]
    BY DEF GivenOf
  <2> HIDE DEF given
  <2> QED
    BY <1>1, <2>1
<1> QED
  BY <1>1, <1>2

LEMMA GivenNow == Given = GivenOf(done, pipe)
  BY DEF Given, GivenOf

\* A connection that nothing was given has nothing in its hands.
LEMMA NothingInHand ==
    ASSUME NEW c \in Conn, BatchesOK, pipe[c] = << >>, done[c] = << >>
    PROVE  Given[c] = << >>
<1>1. Given[c] \in Seq(Batch) /\ Len(Given[c]) = Len(done[c]) + Len(pipe[c])
  BY GivenList, GivenNow DEF BatchesOK
<1>2. Len(Given[c]) = 0
  BY <1>1
<1> QED
  BY <1>1, <1>2

\* A step that gives no connection anything and replaces none.
LEMMA Quiet ==
    ASSUME ClientInv, LinksOK', BatchesOK', pipe' = pipe, current' = current,
           link' = link, greeted \subseteq greeted',
           \A c \in Conn : done'[c] # << >> => done[c] # << >>,
           state' = "connected" /\ current # NoConn => state = "connected" \/ current \in greeted'
    PROVE  ClientInv'
<1> USE DEF ClientInv
<1>1. OneLiveConnection' /\ PipeIsLive'
  BY DEF OneLiveConnection, PipeIsLive, Live
<1>2. ConnectedIsGreeted'
  BY DEF ConnectedIsGreeted
<1>3. BatchesAfterHello'
  BY DEF BatchesAfterHello
<1> QED
  BY <1>1, <1>2, <1>3

\* Ending a connection moves its batches to the reports.
LEMMA EndLinkInv ==
    ASSUME ClientInv, NEW c \in Conn, NEW how \in {"failed", "cancelled"}, EndLink(c, how),
           current' = current \/ (current = c /\ current' = NoConn),
           state' = state \/ state' = "idle",
           UNCHANGED <<buffer, made, greeted>>
    PROVE  ClientInv'
<1> USE DEF ClientInv
<1>1. LinksOK'
  BY ClientAssumption DEF LinksOK, EndLink
<1>2. BatchesOK'
  <2>1. Failures(pipe[c]) \in Seq(Completion)
    BY FailuresType DEF BatchesOK
  <2>2. done[c] \o Failures(pipe[c]) \in Seq(Completion)
    BY <2>1 DEF BatchesOK
  <2>3. done' \in [Conn -> Seq(Completion)]
    BY <2>2 DEF BatchesOK, EndLink
  <2>4. pipe' \in [Conn -> Seq(Batch)]
    BY DEF BatchesOK, EndLink
  <2> QED
    BY <2>3, <2>4 DEF BatchesOK
<1>3. \A d \in Conn : Live(d)' => Live(d) /\ d # c
  BY DEF EndLink, LinksOK, Live
<1>4. OneLiveConnection'
  BY <1>3 DEF OneLiveConnection
<1>5. PipeIsLive'
  BY DEF PipeIsLive, EndLink, BatchesOK, LinksOK, Live
<1>6. ConnectedIsGreeted'
  BY DEF ConnectedIsGreeted
<1>7. BatchesAfterHello'
  <2>1. pipe[c] = << >> => Failures(pipe[c]) = << >>
    BY DEF Failures
  <2>2. done[c] \o Failures(pipe[c]) # << >> => done[c] # << >> \/ pipe[c] # << >>
    BY <2>1
  <2>3. \A d \in Conn : d # c => done'[d] = done[d] /\ pipe'[d] = pipe[d]
    BY DEF EndLink, BatchesOK
  <2>4. done'[c] = done[c] \o Failures(pipe[c]) /\ pipe'[c] = << >>
    BY DEF EndLink, BatchesOK
  <2> QED
    BY <2>2, <2>3, <2>4 DEF BatchesAfterHello
<1> QED
  BY <1>1, <1>2, <1>4, <1>5, <1>6, <1>7

\* restart() cancels the connection it replaces, and takes an unused one.
LEMMA RestartInv ==
    ASSUME ClientInv, Restart, UNCHANGED <<buffer, made>> PROVE ClientInv'
<1> USE DEF ClientInv
<1>1. PICK new \in Conn :
        /\ Spare(new)
        /\ IF current # NoConn /\ link[current] # "cancelled"
           THEN /\ link' = [link EXCEPT ![current] = "cancelled", ![new] = "preparing"]
                /\ updates' = [updates EXCEPT ![current] = Append(@, "cancelled")]
                /\ pipe' = [pipe EXCEPT ![current] = << >>]
                /\ done' = [done EXCEPT ![current] = @ \o Failures(pipe[current])]
           ELSE /\ link' = [link EXCEPT ![new] = "preparing"]
                /\ UNCHANGED <<updates, pipe, done>>
        /\ current' = new /\ state' = "connecting"
        /\ greeted' = greeted \ {new}
  BY DEF Restart
<1>2. new # current /\ pipe[new] = << >> /\ done[new] = << >>
  <2>1. ~Live(new)
    BY <1>1 DEF Spare, Live
  <2> QED
    BY <1>1, <2>1 DEF Spare, PipeIsLive
<1>3. ConnectedIsGreeted'
  BY <1>1 DEF ConnectedIsGreeted
<1>4. CASE current # NoConn /\ link[current] # "cancelled"
  <2>1. current \in Conn
    BY <1>4 DEF LinksOK
  <2>2. /\ link' = [link EXCEPT ![current] = "cancelled", ![new] = "preparing"]
        /\ updates' = [updates EXCEPT ![current] = Append(@, "cancelled")]
        /\ pipe' = [pipe EXCEPT ![current] = << >>]
        /\ done' = [done EXCEPT ![current] = @ \o Failures(pipe[current])]
    BY <1>1, <1>4
  <2>3. LinksOK'
    BY <1>1, <2>1, <2>2 DEF LinksOK
  <2>4. Failures(pipe[current]) \in Seq(Completion)
    BY <2>1, FailuresType DEF BatchesOK
  <2>5. done[current] \o Failures(pipe[current]) \in Seq(Completion)
    BY <2>1, <2>4 DEF BatchesOK
  <2>6. BatchesOK'
    <3>1. done' \in [Conn -> Seq(Completion)]
      BY <2>2, <2>5 DEF BatchesOK
    <3>2. pipe' \in [Conn -> Seq(Batch)]
      <4>1. pipe \in [Conn -> Seq(Batch)] /\ << >> \in Seq(Batch)
        BY DEF BatchesOK
      <4>2. pipe' = [pipe EXCEPT ![current] = << >>]
        BY <2>2
      <4> QED
        BY ONLY <4>1, <4>2
    <3> QED
      BY <3>1, <3>2 DEF BatchesOK
  <2>7. \A d \in Conn : Live(d)' => d = new
    BY <2>1, <2>2 DEF OneLiveConnection, Live, LinksOK
  <2>8. OneLiveConnection'
    BY <1>1, <2>7 DEF OneLiveConnection
  <2>9. \A d \in Conn : d # current => pipe'[d] = pipe[d] /\ done'[d] = done[d]
    BY <2>2 DEF BatchesOK
  <2>10. /\ pipe'[current] = << >>
         /\ done'[current] = done[current] \o Failures(pipe[current])
    BY <2>1, <2>2 DEF BatchesOK
  <2>11. PipeIsLive'
    <3>1. \A d \in Conn : d # current => pipe[d] = << >>
      BY DEF PipeIsLive, OneLiveConnection
    <3> QED
      BY <3>1, <2>9, <2>10 DEF PipeIsLive
  <2>12. BatchesAfterHello'
    <3>1. pipe[current] = << >> => Failures(pipe[current]) = << >>
      BY DEF Failures
    <3>2. done[current] \o Failures(pipe[current]) # << >> =>
              done[current] # << >> \/ pipe[current] # << >>
      BY <3>1
    <3>3. \A d \in Conn : d # current /\ (pipe'[d] # << >> \/ done'[d] # << >>)
                            => d \in greeted /\ d # new
      BY <2>9, <1>2 DEF BatchesAfterHello
    <3>4. done'[current] # << >> => current \in greeted /\ current # new
      BY <3>2, <2>10, <2>1, <1>2 DEF BatchesAfterHello
    <3> QED
      BY <3>3, <3>4, <2>10, <1>1 DEF BatchesAfterHello
  <2> QED
    BY <1>3, <2>3, <2>6, <2>8, <2>11, <2>12
<1>5. CASE ~(current # NoConn /\ link[current] # "cancelled")
  <2>1. link' = [link EXCEPT ![new] = "preparing"] /\ UNCHANGED <<updates, pipe, done>>
    BY <1>1, <1>5
  <2>2. LinksOK' /\ BatchesOK'
    BY <1>1, <2>1 DEF LinksOK, BatchesOK
  <2>3. \A d \in Conn : ~Live(d)
    BY <1>5, ClientAssumption DEF OneLiveConnection, Live
  <2>4. \A d \in Conn : Live(d)' => d = new
    BY <2>1, <2>3 DEF Live, LinksOK
  <2>5. OneLiveConnection'
    BY <1>1, <2>4 DEF OneLiveConnection
  <2>6. PipeIsLive'
    BY <2>1, <2>3 DEF PipeIsLive
  <2>7. BatchesAfterHello'
    BY <1>1, <1>2, <2>1 DEF BatchesAfterHello
  <2> QED
    BY <1>3, <2>2, <2>5, <2>6, <2>7
<1> QED
  BY <1>4, <1>5

-----------------------------------------------------------------------------
(* One lemma for each kind of step *)

LEMMA StopInv == ASSUME ClientInv, Stop PROVE ClientInv'
<1> USE DEF ClientInv
<1>1. CASE current # NoConn
  <2>1. current \in Conn /\ EndLink(current, "cancelled")
    BY <1>1 DEF Stop, LinksOK
  <2> QED
    BY <2>1, EndLinkInv DEF Stop, bufferVars
<1>2. CASE current = NoConn
  <2>1. UNCHANGED <<link, updates, pipe, done, greeted, buffer, made, current>>
    BY <1>2 DEF Stop, bufferVars
  <2>2. LinksOK' /\ BatchesOK'
    BY <2>1 DEF LinksOK, BatchesOK
  <2>3. state' = "idle"
    BY DEF Stop
  <2> QED
    BY <2>1, <2>2, <2>3, Quiet
<1> QED
  BY <1>1, <1>2

LEMMA SendInv == ASSUME ClientInv, Send PROVE ClientInv'
<1> USE DEF ClientInv
<1>1. UNCHANGED <<state, current, connVars>> /\ made' = made + 1
  BY DEF Send
<1>2. LinksOK'
  BY <1>1 DEF LinksOK, connVars
<1>3. BatchesOK'
  <2> DEFINE records == Append(buffer, made')
             over == IF Len(records) > BufferCap THEN Len(records) - BufferCap ELSE 0
  <2>1. records \in Batch /\ made' \in Nat
    BY <1>1 DEF BatchesOK, Batch
  <2>2. over \in Nat
    BY <2>1, ClientAssumption DEF Batch
  <2>3. buffer' = SubSeq(records, over + 1, Len(records))
    BY DEF Send
  <2> HIDE DEF records, over
  <2>4. buffer' \in Batch
    BY <2>1, <2>2, <2>3 DEF Batch
  <2> QED
    BY <2>1, <2>4, <1>1 DEF BatchesOK, connVars
<1> QED
  BY <1>1, <1>2, <1>3, Quiet DEF connVars

LEMMA FlushInv == ASSUME ClientInv, Flush PROVE ClientInv'
<1> USE DEF ClientInv
<1>1. UNCHANGED <<state, current, made, link, updates, greeted>>
  BY DEF Flush
<1>2. LinksOK' /\ OneLiveConnection' /\ ConnectedIsGreeted'
  BY <1>1 DEF LinksOK, OneLiveConnection, Live, ConnectedIsGreeted
<1>3. CASE state = "connected" /\ current # NoConn /\ buffer # << >>
  <2> DEFINE k == Chunk(ChunkSize)
             part == SubSeq(buffer, 1, k)
  <2>1. k \in Nat /\ k <= Len(buffer)
    BY ClientAssumption DEF Chunk, BatchesOK, Batch
  <2>2. /\ buffer' = SubSeq(buffer, k + 1, Len(buffer))
        /\ \/ UNCHANGED <<pipe, done>>
           \/ /\ Live(current) /\ pipe' = [pipe EXCEPT ![current] = Append(@, part)]
              /\ UNCHANGED done
           \/ /\ done' = [done EXCEPT ![current] = @ \o Failures(<<part>>)]
              /\ UNCHANGED pipe
    BY <1>3 DEF Flush
  <2> HIDE DEF k
  <2>3. part \in Batch /\ buffer' \in Batch
    <3>1. buffer \in Seq(Nat)
      BY DEF BatchesOK, Batch
    <3>2. SubSeq(buffer, 1, k) \in Seq(Nat)
      BY <3>1, <2>1
    <3>3. SubSeq(buffer, k + 1, Len(buffer)) \in Seq(Nat)
      BY <3>1, <2>1
    <3> QED
      BY <3>2, <3>3, <2>2 DEF Batch
  <2>4. current \in Conn /\ current \in greeted
    BY <1>3 DEF LinksOK, ConnectedIsGreeted
  <2> HIDE DEF part
  <2>5. CASE Live(current) /\ pipe' = [pipe EXCEPT ![current] = Append(@, part)] /\ UNCHANGED done
    <3>1. pipe' = [pipe EXCEPT ![current] = Append(@, part)] /\ UNCHANGED done
      BY <2>5
    <3>2. BatchesOK'
      <4>1. Append(pipe[current], part) \in Seq(Batch)
        BY <2>3, <2>4 DEF BatchesOK
      <4>2. pipe' \in [Conn -> Seq(Batch)]
        BY <3>1, <4>1 DEF BatchesOK
      <4> QED
        BY <3>1, <4>2, <2>3, <1>1 DEF BatchesOK
    <3>3. PipeIsLive' /\ BatchesAfterHello'
      BY <3>1, <2>4, <2>5, <1>1 DEF PipeIsLive, BatchesAfterHello, BatchesOK, Live
    <3> QED
      BY <1>2, <3>2, <3>3
  <2>6. CASE done' = [done EXCEPT ![current] = @ \o Failures(<<part>>)] /\ UNCHANGED pipe
    <3>1. done' = [done EXCEPT ![current] = @ \o Failures(<<part>>)] /\ UNCHANGED pipe
      BY <2>6
    <3>2. Failures(<<part>>) \in Seq(Completion)
      <4>1. <<part>> \in Seq(Batch)
        BY <2>3
      <4> QED
        BY <4>1, FailuresType
    <3>3. BatchesOK'
      <4>1. done[current] \o Failures(<<part>>) \in Seq(Completion)
        BY <3>2, <2>4 DEF BatchesOK
      <4>2. done' \in [Conn -> Seq(Completion)]
        BY <3>1, <4>1 DEF BatchesOK
      <4> QED
        BY <3>1, <4>2, <2>3, <1>1 DEF BatchesOK
    <3>4. PipeIsLive' /\ BatchesAfterHello'
      BY <3>1, <2>4, <1>1 DEF PipeIsLive, BatchesAfterHello, BatchesOK, Live
    <3> QED
      BY <1>2, <3>3, <3>4
  <2>7. CASE UNCHANGED <<pipe, done>>
    <3>1. BatchesOK' /\ PipeIsLive' /\ BatchesAfterHello'
      BY <2>3, <2>7, <1>1 DEF BatchesOK, PipeIsLive, BatchesAfterHello, Live
    <3> QED
      BY <1>2, <3>1
  <2> QED
    BY <2>2, <2>5, <2>6, <2>7
<1>4. CASE ~(state = "connected" /\ current # NoConn /\ buffer # << >>)
  <2>1. UNCHANGED <<pipe, buffer, done>>
    BY <1>4 DEF Flush
  <2> QED
    BY <1>1, <1>2, <2>1, Quiet DEF BatchesOK
<1> QED
  BY <1>3, <1>4

LEMMA UpdateInv == ASSUME ClientInv, NEW c \in Conn, Update(c) PROVE ClientInv'
<1> USE DEF ClientInv
<1>1. /\ UNCHANGED <<current, buffer, made, link, pipe, done>>
      /\ updates[c] # << >> /\ updates' = [updates EXCEPT ![c] = Tail(@)]
  BY DEF Update
<1>2. LinksOK' /\ BatchesOK'
  BY <1>1 DEF LinksOK, BatchesOK
<1>3. greeted \subseteq greeted'
  BY DEF Update, Ready
<1>4. state' = "connected" /\ current # NoConn => current \in greeted'
  BY DEF Update, Ready, LoseConnection
<1> QED
  BY <1>1, <1>2, <1>3, <1>4, Quiet

LEMMA CompletedInv == ASSUME ClientInv, NEW c \in Conn, Completed(c) PROVE ClientInv'
<1> USE DEF ClientInv
<1>1. /\ UNCHANGED <<current, made, link, updates, pipe, greeted>>
      /\ done[c] # << >> /\ done' = [done EXCEPT ![c] = Tail(@)]
  BY DEF Completed
<1>2. Head(done[c]) \in Completion /\ Tail(done[c]) \in Seq(Completion)
  BY <1>1 DEF BatchesOK
<1>3. BatchesOK'
  <2>1. buffer' = buffer \/ buffer' = Head(done[c]).records \o buffer
    BY DEF Completed
  <2>2. buffer' \in Batch
    <3>1. Head(done[c]).records \in Batch /\ buffer \in Batch
      BY <1>2 DEF Completion, BatchesOK
    <3>2. Head(done[c]).records \o buffer \in Batch
      BY <3>1, JoinBatches
    <3> QED
      BY <2>1, <3>1, <3>2
  <2>3. done' \in [Conn -> Seq(Completion)]
    BY <1>1, <1>2 DEF BatchesOK
  <2> QED
    BY <1>1, <2>2, <2>3 DEF BatchesOK
<1>4. LinksOK'
  BY <1>1 DEF LinksOK
<1>5. state' = state \/ state' = "waiting"
  BY DEF Completed, LoseConnection
<1>6. \A d \in Conn : done'[d] # << >> => done[d] # << >>
  BY <1>1 DEF BatchesOK
<1> QED
  BY <1>1, <1>3, <1>4, <1>5, <1>6, Quiet

\* Receives, pings and reports of no route move no batch.
LEMMA SmallStepsInv ==
    ASSUME ClientInv, NEW c \in Conn, Received(c) \/ Ping \/ Pinged(c) \/ NoRoute(c)
    PROVE  ClientInv'
<1> USE DEF ClientInv
<1>1. UNCHANGED <<current, buffer, made, link, pipe, done, greeted>>
  BY DEF Received, Ping, Pinged, NoRoute, bufferVars, ClientFrame
<1>2. updates' = updates \/ updates' = [updates EXCEPT ![c] = Append(@, "waiting")]
  BY DEF Received, Ping, Pinged, NoRoute
<1>3. LinksOK' /\ BatchesOK'
  <2>1. updates' \in [Conn -> Seq({"ready", "waiting", "failed", "cancelled"})]
    <3>1. Append(updates[c], "waiting") \in Seq({"ready", "waiting", "failed", "cancelled"})
      BY DEF LinksOK
    <3> QED
      BY <3>1, <1>2 DEF LinksOK
  <2> QED
    BY <1>1, <2>1 DEF LinksOK, BatchesOK
<1>4. state' = state \/ state' = "waiting"
  BY DEF Received, Ping, Pinged, NoRoute, LoseConnection, ClientFrame
<1> QED
  BY <1>1, <1>3, <1>4, Quiet

LEMMA EstablishInv == ASSUME ClientInv, NEW c \in Conn, Establish(c) PROVE ClientInv'
<1> USE DEF ClientInv
<1>1. /\ link[c] = "preparing" /\ link' = [link EXCEPT ![c] = "ready"]
      /\ updates' = [updates EXCEPT ![c] = Append(@, "ready")]
      /\ UNCHANGED <<state, current, buffer, made, pipe, done, greeted>>
  BY DEF Establish, ClientFrame, bufferVars
<1>2. LinksOK' /\ BatchesOK'
  BY <1>1 DEF LinksOK, BatchesOK
<1>3. \A d \in Conn : Live(d)' <=> Live(d)
  BY <1>1 DEF Live, LinksOK
<1>4. OneLiveConnection' /\ PipeIsLive' /\ ConnectedIsGreeted' /\ BatchesAfterHello'
  BY <1>1, <1>3 DEF OneLiveConnection, PipeIsLive, ConnectedIsGreeted, BatchesAfterHello
<1> QED
  BY <1>2, <1>4

LEMMA ProcessInv == ASSUME ClientInv, NEW c \in Conn, Process(c) PROVE ClientInv'
<1> USE DEF ClientInv
<1>1. /\ pipe[c] # << >> /\ pipe' = [pipe EXCEPT ![c] = Tail(@)]
      /\ done' = [done EXCEPT ![c] = Append(@, [records |-> Head(pipe[c]), ok |-> TRUE])]
      /\ UNCHANGED <<state, current, buffer, made, link, updates, greeted>>
  BY DEF Process, ClientFrame, bufferVars
<1>2. Head(pipe[c]) \in Batch /\ Tail(pipe[c]) \in Seq(Batch)
  BY <1>1 DEF BatchesOK
<1>3. [records |-> Head(pipe[c]), ok |-> TRUE] \in Completion
  BY <1>2 DEF Completion
<1>4. BatchesOK'
  BY <1>1, <1>2, <1>3 DEF BatchesOK
<1>5. LinksOK' /\ OneLiveConnection' /\ ConnectedIsGreeted'
  BY <1>1 DEF LinksOK, OneLiveConnection, ConnectedIsGreeted, Live
<1>6. \A d \in Conn : /\ pipe'[d] # << >> => pipe[d] # << >>
                      /\ done'[d] # << >> => done[d] # << >> \/ pipe[d] # << >>
  BY <1>1 DEF BatchesOK
<1>7. PipeIsLive' /\ BatchesAfterHello'
  BY <1>1, <1>6 DEF PipeIsLive, BatchesAfterHello, Live
<1> QED
  BY <1>4, <1>5, <1>7

-----------------------------------------------------------------------------
LEMMA ClientStep == ClientInv /\ [Next]_vars => ClientInv'
<1> SUFFICES ASSUME ClientInv, [Next]_vars PROVE ClientInv'
  OBVIOUS
<1>1. CASE Connect
  BY <1>1, RestartInv DEF Connect, bufferVars
<1>2. CASE Stop
  BY <1>2, StopInv
<1>3. CASE Send
  BY <1>3, SendInv
<1>4. CASE Flush
  BY <1>4, FlushInv
<1>5. CASE Ping
  <2>1. PICK c \in Conn : TRUE
    BY ClientAssumption DEF Conn
  <2> QED
    BY <1>5, <2>1, SmallStepsInv
<1>6. CASE Timer
  <2>1. CASE state = "waiting"
    BY <1>6, <2>1, RestartInv DEF Timer, bufferVars
  <2>2. CASE state # "waiting"
    <3>1. UNCHANGED <<state, current, connVars, bufferVars>>
      BY <1>6, <2>2 DEF Timer
    <3> QED
      BY <3>1, Quiet DEF ClientInv, connVars, bufferVars, LinksOK, BatchesOK
  <2> QED
    BY <2>1, <2>2
<1>7. ASSUME NEW c \in Conn, Callback(c) PROVE ClientInv'
  BY <1>7, UpdateInv, CompletedInv, SmallStepsInv DEF Callback
<1>8. ASSUME NEW c \in Conn, Break(c) PROVE ClientInv'
  <2>1. EndLink(c, "failed") /\ UNCHANGED <<state, current, buffer, made, greeted>>
    BY <1>8 DEF Break, ClientFrame, bufferVars
  <2> QED
    BY <2>1, EndLinkInv
<1>9. ASSUME NEW c \in Conn, Establish(c) \/ NoRoute(c) \/ Process(c) PROVE ClientInv'
  BY <1>9, EstablishInv, SmallStepsInv, ProcessInv
<1>10. CASE UNCHANGED vars
  BY <1>10 DEF vars, connVars, bufferVars, ClientInv, LinksOK, BatchesOK, OneLiveConnection,
     PipeIsLive, Live, ConnectedIsGreeted, BatchesAfterHello
<1> QED
  BY <1>1, <1>2, <1>3, <1>4, <1>5, <1>6, <1>7, <1>8, <1>9, <1>10 DEF Next

LEMMA ClientAlways == Spec => []ClientInv
<1>1. Spec => Init /\ [][Next]_vars
  BY PTL DEF Spec
<1> QED
  BY <1>1, ClientInit, ClientStep, PTL

\* The connection that a restart or a stop() gives up is closed, however late
\* its reports are and however often it is replaced (restart and stop of
\* LogStreamClient.swift).
THEOREM NoStrayConnection == Spec => []OneLiveConnection
<1>1. ClientInv => OneLiveConnection
  BY DEF ClientInv
<1> QED
  BY <1>1, ClientAlways, PTL

\* The desktop never gets a record from a client that has not said who it is:
\* hello comes first on every connection, also when .ready is reported by a
\* connection that was replaced (stateUpdateHandler and flush).
THEOREM HelloComesFirst == Spec => []HelloFirst
<1>1. ClientInv => HelloFirst
  BY NothingInHand DEF ClientInv, HelloFirst, BatchesAfterHello
<1> QED
  BY <1>1, ClientAlways, PTL

-----------------------------------------------------------------------------
(* The records, as a buffer, the batches given to connections, and those gone *)

Apart(buf, given, snt) ==
    /\ IsInjective(buf) /\ HandedOnce(given)
    /\ ToSet(buf) \intersect HandedOf(given) = {}
    /\ (ToSet(buf) \union HandedOf(given)) \intersect snt = {}

\* Connection c's batch b has the record n at i.
At(given, c, b, i, n) ==
    /\ c \in Conn /\ b \in 1 .. Len(given[c]) /\ i \in 1 .. Len(given[c][b])
    /\ given[c][b][i] = n

\* flush() gives a batch, a report takes the oldest one.
AddBatch(given, c, batch) == [given EXCEPT ![c] = Append(@, batch)]
DropBatch(given, c) == [given EXCEPT ![c] = Tail(@)]
FirstOf(s, k) == SubSeq(s, 1, k)
Rest(s, k) == SubSeq(s, k + 1, Len(s))

LEMMA HandedMeans ==
    ASSUME NEW given \in [Conn -> Seq(Batch)]
    PROVE  \A n : n \in HandedOf(given) <=> \E c, b, i : At(given, c, b, i, n)
<1> SUFFICES ASSUME NEW n PROVE n \in HandedOf(given) <=> \E c, b, i : At(given, c, b, i, n)
  OBVIOUS
<1>1. ASSUME NEW c \in Conn, NEW batch PROVE batch \in ToSet(given[c]) <=> \E b \in 1 .. Len(given[c]) : given[c][b] = batch
  <2>1. DOMAIN given[c] = 1 .. Len(given[c])
    OBVIOUS
  <2> QED
    BY <2>1 DEF ToSet
<1>2. ASSUME NEW batch \in Batch
      PROVE  n \in ToSet(batch) <=> \E i \in 1 .. Len(batch) : batch[i] = n
  BY DEF Batch, ToSet
<1>3. n \in HandedOf(given) <=> \E c \in Conn : \E batch \in ToSet(given[c]) : n \in ToSet(batch)
  BY Zenon DEF HandedOf
<1>4. \A c \in Conn : \A b \in 1 .. Len(given[c]) : given[c][b] \in Batch
  OBVIOUS
<1>5. n \in HandedOf(given) <=> \E c \in Conn : \E b \in 1 .. Len(given[c]) : n \in ToSet(given[c][b])
  <2>1. ASSUME NEW c \in Conn, NEW batch \in ToSet(given[c]), n \in ToSet(batch)
        PROVE  \E b \in 1 .. Len(given[c]) : n \in ToSet(given[c][b])
    BY <1>1, <2>1
  <2>2. ASSUME NEW c \in Conn, NEW b \in 1 .. Len(given[c]), n \in ToSet(given[c][b])
        PROVE  \E batch \in ToSet(given[c]) : n \in ToSet(batch)
    BY <1>1, <2>2
  <2> QED
    BY <1>3, <2>1, <2>2
<1>6. n \in HandedOf(given) <=> \E c \in Conn : \E b \in 1 .. Len(given[c]) :
                                   \E i \in 1 .. Len(given[c][b]) : given[c][b][i] = n
  BY <1>2, <1>4, <1>5, Zenon
<1> QED
  BY <1>6, Zenon DEF At

LEMMA OnceMeans ==
    ASSUME NEW given
    PROVE  HandedOnce(given) <=>
             \A c, a, i, d, b, j, n :
                At(given, c, a, i, n) /\ At(given, d, b, j, n) => c = d /\ a = b /\ i = j
<1>1. ASSUME HandedOnce(given), NEW c, NEW a, NEW i, NEW d, NEW b, NEW j, NEW n,
             At(given, c, a, i, n), At(given, d, b, j, n)
      PROVE  c = d /\ a = b /\ i = j
  <2>1. /\ c \in Conn /\ a \in 1 .. Len(given[c]) /\ i \in 1 .. Len(given[c][a])
        /\ d \in Conn /\ b \in 1 .. Len(given[d]) /\ j \in 1 .. Len(given[d][b])
        /\ given[c][a][i] = given[d][b][j]
    BY <1>1 DEF At
  <2>2. \A x \in 1 .. Len(given[c]), y \in 1 .. Len(given[d]) :
          \A k \in 1 .. Len(given[c][x]), l \in 1 .. Len(given[d][y]) :
            given[c][x][k] = given[d][y][l] => c = d /\ x = y /\ k = l
    BY <1>1, <2>1 DEF HandedOnce
  <2>3. \A k \in 1 .. Len(given[c][a]), l \in 1 .. Len(given[d][b]) :
            given[c][a][k] = given[d][b][l] => c = d /\ a = b /\ k = l
    BY ONLY <2>1, <2>2, Zenon
  <2> QED
    BY ONLY <2>1, <2>3, Zenon
<1>2. ASSUME \A c, a, i, d, b, j, n :
                At(given, c, a, i, n) /\ At(given, d, b, j, n) => c = d /\ a = b /\ i = j
      PROVE  HandedOnce(given)
  <2> SUFFICES ASSUME NEW c \in Conn, NEW d \in Conn,
                      NEW a \in 1 .. Len(given[c]), NEW b \in 1 .. Len(given[d]),
                      NEW i \in 1 .. Len(given[c][a]), NEW j \in 1 .. Len(given[d][b]),
                      given[c][a][i] = given[d][b][j]
               PROVE  c = d /\ a = b /\ i = j
    BY DEF HandedOnce
  <2>1. PICK n : n = given[c][a][i]
    OBVIOUS
  <2>2. At(given, c, a, i, n) /\ At(given, d, b, j, n)
    BY <2>1 DEF At
  <2> HIDE <2>1
  <2> QED
    BY ONLY <1>2, <2>2, Zenon
<1> QED
  BY <1>1, <1>2

LEMMA InBatch ==
    ASSUME NEW s \in Batch
    PROVE  /\ Len(s) \in Nat /\ DOMAIN s = 1 .. Len(s)
           /\ \A n : n \in ToSet(s) <=> \E i \in 1 .. Len(s) : s[i] = n
  BY DEF Batch, ToSet

LEMMA FlushAt ==
    ASSUME NEW given \in [Conn -> Seq(Batch)], NEW c \in Conn, NEW front \in Batch
    PROVE  /\ AddBatch(given, c, front) \in [Conn -> Seq(Batch)]
           /\ \A d, b, i, n : At(AddBatch(given, c, front), d, b, i, n) <=>
                \/ At(given, d, b, i, n)
                \/ d = c /\ b = Len(given[c]) + 1 /\ i \in 1 .. Len(front) /\ front[i] = n
           /\ \A b, i, n : At(given, c, b, i, n) => b # Len(given[c]) + 1
<1> DEFINE next == AddBatch(given, c, front)
<1>1. /\ next \in [Conn -> Seq(Batch)]
      /\ \A d \in Conn : d # c => next[d] = given[d]
      /\ Len(given[c]) \in Nat /\ Len(next[c]) = Len(given[c]) + 1
      /\ \A b \in 1 .. Len(given[c]) : next[c][b] = given[c][b]
      /\ next[c][Len(given[c]) + 1] = front
  BY DEF AddBatch
<1> HIDE DEF next
<1>2. ASSUME NEW d \in Conn, d # c, NEW b, NEW i, NEW n
      PROVE  At(next, d, b, i, n) <=> At(given, d, b, i, n)
  BY <1>1, <1>2, Zenon DEF At
<1>3. ASSUME NEW b \in 1 .. Len(given[c]), NEW i, NEW n
      PROVE  At(next, c, b, i, n) <=> At(given, c, b, i, n)
  <2>1. b \in 1 .. Len(next[c])
    BY <1>1
  <2> QED
    BY <1>1, <2>1, Zenon DEF At
<1>4. ASSUME NEW b, b = Len(given[c]) + 1, NEW i, NEW n
      PROVE  /\ At(next, c, b, i, n) <=> i \in 1 .. Len(front) /\ front[i] = n
             /\ ~At(given, c, b, i, n)
  <2>1. b \in 1 .. Len(next[c]) /\ next[c][b] = front /\ b \notin 1 .. Len(given[c])
    BY <1>1, <1>4
  <2> QED
    BY <2>1, Zenon DEF At
<1>5. ASSUME NEW b, b \notin 1 .. Len(given[c]), b # Len(given[c]) + 1, NEW i, NEW n
      PROVE  ~At(next, c, b, i, n) /\ ~At(given, c, b, i, n)
  <2>1. b \notin 1 .. Len(next[c])
    BY <1>1, <1>5
  <2> QED
    BY <1>5, <2>1, Zenon DEF At
<1>6. \A d, b, i, n : At(next, d, b, i, n) \/ At(given, d, b, i, n) => d \in Conn
  BY DEF At
<1>7. Len(given[c]) + 1 \notin 1 .. Len(given[c])
  BY <1>1
<1>8. ASSUME NEW d, NEW b, NEW i, NEW n
      PROVE  At(next, d, b, i, n) <=>
                \/ At(given, d, b, i, n)
                \/ d = c /\ b = Len(given[c]) + 1 /\ i \in 1 .. Len(front) /\ front[i] = n
  <2>1. CASE d # c
    BY <1>2, <1>6, <2>1, Zenon
  <2>2. CASE d = c /\ b \in 1 .. Len(given[c])
    BY <1>3, <1>7, <2>2, Zenon
  <2>3. CASE d = c /\ b = Len(given[c]) + 1
    BY <1>4, <2>3, Zenon
  <2>4. CASE d = c /\ b \notin 1 .. Len(given[c]) /\ b # Len(given[c]) + 1
    BY <1>5, <2>4, Zenon
  <2> QED
    BY <2>1, <2>2, <2>3, <2>4, Zenon
<1>9. \A b, i, n : At(given, c, b, i, n) => b # Len(given[c]) + 1
  BY <1>4, Zenon
<1> QED
  BY <1>1, <1>8, <1>9, Zenon DEF next

LEMMA TakeAt ==
    ASSUME NEW given \in [Conn -> Seq(Batch)], NEW c \in Conn, given[c] # << >>
    PROVE  /\ DropBatch(given, c) \in [Conn -> Seq(Batch)] /\ Head(given[c]) \in Batch
           /\ \A i, n : At(given, c, 1, i, n) <=> i \in 1 .. Len(Head(given[c])) /\ Head(given[c])[i] = n
           /\ \A d, b, i, n : At(DropBatch(given, c), d, b, i, n) =>
                b \in Nat \ {0} /\ At(given, d, IF d = c THEN b + 1 ELSE b, i, n)
           /\ \A d, b, i, n : At(given, d, b, i, n) =>
                \/ d = c /\ b = 1
                \/ At(DropBatch(given, c), d, IF d = c THEN b - 1 ELSE b, i, n)
<1> DEFINE next == DropBatch(given, c)
           first == Head(given[c])
<1>1. given[c] \in Seq(Batch) /\ given[c] # << >>
  OBVIOUS
<1>2. /\ Tail(given[c]) \in Seq(Batch) /\ Len(Tail(given[c])) = Len(given[c]) - 1
      /\ \A b \in 1 .. Len(given[c]) - 1 : Tail(given[c])[b] = given[c][b + 1]
  BY <1>1
<1>3. given[c][1] = first /\ first \in Batch /\ 1 \in 1 .. Len(given[c]) /\ Len(given[c]) \in Nat
  BY <1>1
<1>4. /\ next \in [Conn -> Seq(Batch)] /\ next[c] = Tail(given[c])
      /\ \A d \in Conn : d # c => next[d] = given[d]
  BY <1>2 DEF DropBatch
<1> HIDE DEF next, first
<1>5. \A i, n : At(given, c, 1, i, n) <=> i \in 1 .. Len(first) /\ first[i] = n
  BY <1>3, Zenon DEF At
<1>6. ASSUME NEW d, d # c, NEW b, NEW i, NEW n
      PROVE  At(next, d, b, i, n) <=> At(given, d, b, i, n)
  BY <1>4, <1>6, Zenon DEF At
<1>7. ASSUME NEW b, NEW i, NEW n, At(next, c, b, i, n)
      PROVE  b \in Nat \ {0} /\ At(given, c, b + 1, i, n)
  <2>1. b \in 1 .. Len(given[c]) - 1 /\ i \in 1 .. Len(next[c][b]) /\ next[c][b][i] = n
    BY <1>2, <1>4, <1>7 DEF At
  <2>2. b \in Nat \ {0} /\ b + 1 \in 1 .. Len(given[c]) /\ next[c][b] = given[c][b + 1]
    BY <1>2, <1>3, <1>4, <2>1
  <2> QED
    BY <2>1, <2>2, Zenon DEF At
<1>8. ASSUME NEW b, NEW i, NEW n, At(given, c, b, i, n), b # 1
      PROVE  At(next, c, b - 1, i, n)
  <2>1. b \in 1 .. Len(given[c]) /\ i \in 1 .. Len(given[c][b]) /\ given[c][b][i] = n
    BY <1>8 DEF At
  <2>2. b - 1 \in 1 .. Len(next[c]) /\ (b - 1) + 1 = b /\ b - 1 \in 1 .. Len(given[c]) - 1
    BY <1>2, <1>3, <1>4, <1>8, <2>1
  <2>3. next[c][b - 1] = given[c][b]
    BY <1>2, <1>4, <2>2
  <2> QED
    BY <2>1, <2>2, <2>3, Zenon DEF At
<1>9. ASSUME NEW d, NEW b, NEW i, NEW n, d # c, At(next, d, b, i, n) PROVE b \in Nat \ {0}
  <2>1. b \in 1 .. Len(given[d]) /\ d \in Conn
    BY <1>4, <1>9 DEF At
  <2> QED
    BY <2>1
<1>10. ASSUME NEW d, NEW b, NEW i, NEW n, At(next, d, b, i, n)
       PROVE  b \in Nat \ {0} /\ At(given, d, IF d = c THEN b + 1 ELSE b, i, n)
  <2>1. CASE d = c
    BY <1>7, <1>10, <2>1, Zenon
  <2>2. CASE d # c
    BY <1>6, <1>9, <1>10, <2>2, Zenon
  <2> QED
    BY <2>1, <2>2
<1>11. ASSUME NEW d, NEW b, NEW i, NEW n, At(given, d, b, i, n), ~(d = c /\ b = 1)
       PROVE  At(next, d, IF d = c THEN b - 1 ELSE b, i, n)
  <2>1. CASE d = c
    BY <1>8, <1>11, <2>1, Zenon
  <2>2. CASE d # c
    BY <1>6, <1>11, <2>2, Zenon
  <2> QED
    BY <2>1, <2>2
<1> QED
  BY <1>3, <1>4, <1>5, <1>10, <1>11, Zenon DEF next, first

\* A batch or a buffer by its records.
LEMMA SplitBatch ==
    ASSUME NEW buf \in Batch, IsInjective(buf), NEW k \in 0 .. Len(buf)
    PROVE  /\ FirstOf(buf, k) \in Batch /\ Rest(buf, k) \in Batch /\ IsInjective(FirstOf(buf, k)) /\ IsInjective(Rest(buf, k))
           /\ ToSet(buf) = ToSet(FirstOf(buf, k)) \union ToSet(Rest(buf, k))
           /\ ToSet(FirstOf(buf, k)) \intersect ToSet(Rest(buf, k)) = {}
           /\ Len(FirstOf(buf, k)) = k
<1> DEFINE front == FirstOf(buf, k)
           rest == Rest(buf, k)
<1>1. buf \in Seq(Nat) /\ Len(buf) \in Nat /\ k \in Nat /\ k <= Len(buf)
  BY DEF Batch
<1>2. front \in Seq(Nat) /\ Len(front) = k /\ \A i \in 1 .. k : front[i] = buf[i]
  BY <1>1 DEF FirstOf
<1>3. rest \in Seq(Nat) /\ Len(rest) = Len(buf) - k
  BY <1>1 DEF Rest
<1>4. \A i \in 1 .. Len(buf) - k : rest[i] = buf[k + i]
  BY <1>1, <1>3 DEF Rest
<1>5. \A i, j \in 1 .. Len(buf) : buf[i] = buf[j] => i = j
  BY InBatch DEF IsInjective
<1>6. front \in Batch /\ rest \in Batch
  BY <1>2, <1>3 DEF Batch
<1> HIDE DEF front, rest
<1>7. \A i \in 1 .. Len(front) : i \in 1 .. Len(buf) /\ front[i] = buf[i] /\ i <= k
  BY <1>1, <1>2
<1>8. \A i \in 1 .. Len(rest) : k + i \in 1 .. Len(buf) /\ rest[i] = buf[k + i] /\ k + i > k
  BY <1>1, <1>3, <1>4
<1>9. IsInjective(front)
  BY <1>5, <1>6, <1>7, InBatch DEF IsInjective
<1>10. IsInjective(rest)
  <2>1. ASSUME NEW i \in 1 .. Len(rest), NEW j \in 1 .. Len(rest), rest[i] = rest[j] PROVE i = j
    <3>1. k + i = k + j
      BY <1>5, <1>8, <2>1
    <3> QED
      BY <1>1, <3>1
  <2> QED
    BY <1>6, <2>1, InBatch DEF IsInjective
<1>11. ASSUME NEW n, n \in ToSet(buf) PROVE n \in ToSet(front) \union ToSet(rest)
  <2>1. PICK i \in 1 .. Len(buf) : buf[i] = n
    BY <1>11, InBatch
  <2>2. CASE i <= k
    <3>1. i \in 1 .. Len(front) /\ front[i] = n
      BY <1>1, <1>2, <2>1, <2>2
    <3> QED
      BY <1>6, <3>1, InBatch
  <2>3. CASE i > k
    <3>1. i - k \in 1 .. Len(rest) /\ k + (i - k) = i
      BY <1>1, <1>3, <2>3
    <3>2. rest[i - k] = n
      BY <1>8, <2>1, <3>1
    <3> QED
      BY <1>6, <3>1, <3>2, InBatch
  <2> QED
    BY <1>1, <2>2, <2>3
<1>12. ASSUME NEW n, n \in ToSet(front) PROVE n \in ToSet(buf)
  BY <1>6, <1>7, <1>12, InBatch
<1>13. ASSUME NEW n, n \in ToSet(rest) PROVE n \in ToSet(buf)
  BY <1>6, <1>8, <1>13, InBatch
<1>14. ASSUME NEW n, n \in ToSet(front), n \in ToSet(rest) PROVE FALSE
  <2>1. PICK i \in 1 .. Len(front) : front[i] = n
    BY <1>6, <1>14, InBatch
  <2>2. PICK j \in 1 .. Len(rest) : rest[j] = n
    BY <1>6, <1>14, InBatch
  <2>3. i = k + j
    BY <1>5, <1>7, <1>8, <2>1, <2>2
  <2>4. i <= k /\ k + j > k
    BY <1>7, <1>8
  <2> QED
    BY <1>1, <2>3, <2>4
<1> QED
  BY <1>2, <1>6, <1>9, <1>10, <1>11, <1>12, <1>13, <1>14 DEF front, rest

LEMMA JoinApart ==
    ASSUME NEW s \in Batch, NEW t \in Batch, IsInjective(s), IsInjective(t),
           ToSet(s) \intersect ToSet(t) = {}
    PROVE  /\ s \o t \in Batch /\ IsInjective(s \o t)
           /\ ToSet(s \o t) = ToSet(s) \union ToSet(t)
<1> DEFINE u == s \o t
<1>1. s \in Seq(Nat) /\ t \in Seq(Nat) /\ Len(s) \in Nat /\ Len(t) \in Nat
  BY DEF Batch
<1>2. /\ u \in Batch /\ Len(u) = Len(s) + Len(t)
      /\ \A i \in 1 .. Len(s) : u[i] = s[i]
      /\ \A i \in 1 .. Len(t) : u[Len(s) + i] = t[i]
  BY <1>1, JoinLists DEF Batch
<1> HIDE DEF u
<1>3. ASSUME NEW i \in 1 .. Len(u)
      PROVE  \/ i \in 1 .. Len(s) /\ u[i] = s[i]
             \/ i - Len(s) \in 1 .. Len(t) /\ u[i] = t[i - Len(s)] /\ i \in Int
  <2>1. CASE i <= Len(s)
    BY <1>1, <1>2, <2>1
  <2>2. CASE i > Len(s)
    <3>1. i - Len(s) \in 1 .. Len(t) /\ Len(s) + (i - Len(s)) = i
      BY <1>1, <1>2, <2>2
    <3> QED
      BY <1>2, <3>1
  <2> QED
    BY <1>1, <2>1, <2>2
<1>4. ASSUME NEW i \in 1 .. Len(s), NEW j \in 1 .. Len(t) PROVE s[i] # t[j]
  BY InBatch
<1>5. /\ \A i, j \in 1 .. Len(s) : s[i] = s[j] => i = j
      /\ \A i, j \in 1 .. Len(t) : t[i] = t[j] => i = j
  BY InBatch DEF IsInjective
<1>6. ASSUME NEW i \in 1 .. Len(u), NEW j \in 1 .. Len(u), u[i] = u[j] PROVE i = j
  <2>1. CASE i \in 1 .. Len(s) /\ u[i] = s[i]
    <3>1. j \in 1 .. Len(s) /\ u[j] = s[j]
      BY <1>3, <1>4, <1>6, <2>1
    <3> QED
      BY <1>5, <1>6, <2>1, <3>1
  <2>2. CASE i - Len(s) \in 1 .. Len(t) /\ u[i] = t[i - Len(s)] /\ i \in Int
    <3>1. j - Len(s) \in 1 .. Len(t) /\ u[j] = t[j - Len(s)] /\ j \in Int
      BY <1>3, <1>4, <1>6, <2>2
    <3>2. i - Len(s) = j - Len(s)
      BY <1>5, <1>6, <2>2, <3>1
    <3> QED
      BY <1>1, <2>2, <3>1, <3>2
  <2> QED
    BY <1>3, <2>1, <2>2
<1>7. IsInjective(u)
  BY <1>2, <1>6, InBatch DEF IsInjective
<1>8. ASSUME NEW n PROVE n \in ToSet(u) <=> n \in ToSet(s) \/ n \in ToSet(t)
  <2>1. \A i \in 1 .. Len(s) : i \in 1 .. Len(u)
    BY <1>1, <1>2
  <2>2. \A i \in 1 .. Len(t) : Len(s) + i \in 1 .. Len(u)
    BY <1>1, <1>2
  <2>3. ASSUME n \in ToSet(u) PROVE n \in ToSet(s) \/ n \in ToSet(t)
    BY <1>2, <1>3, <2>3, InBatch
  <2>4. ASSUME n \in ToSet(s) PROVE n \in ToSet(u)
    BY <1>2, <2>1, <2>4, InBatch
  <2>5. ASSUME n \in ToSet(t) PROVE n \in ToSet(u)
    BY <1>2, <2>2, <2>5, InBatch
  <2> QED
    BY <2>3, <2>4, <2>5
<1> QED
  BY <1>2, <1>7, <1>8 DEF u

\* flush(): the front of the buffer becomes the last batch of a connection.
LEMMA FlushApart ==
    ASSUME NEW buf \in Batch, NEW given \in [Conn -> Seq(Batch)], NEW snt, Apart(buf, given, snt),
           NEW c \in Conn, NEW k \in 0 .. Len(buf)
    PROVE  /\ Apart(Rest(buf, k), AddBatch(given, c, FirstOf(buf, k)), snt)
           /\ ToSet(Rest(buf, k)) \union HandedOf(AddBatch(given, c, FirstOf(buf, k))) = ToSet(buf) \union HandedOf(given)
<1> DEFINE front == FirstOf(buf, k)
           rest == Rest(buf, k)
           next == AddBatch(given, c, front)
<1>1. /\ front \in Batch /\ rest \in Batch /\ IsInjective(front) /\ IsInjective(rest)
      /\ ToSet(buf) = ToSet(front) \union ToSet(rest)
      /\ ToSet(front) \intersect ToSet(rest) = {}
  <2>1. IsInjective(buf)
    BY DEF Apart
  <2> QED
    BY <2>1, SplitBatch
<1>2. /\ next \in [Conn -> Seq(Batch)]
      /\ \A d, b, i, n : At(next, d, b, i, n) <=>
           \/ At(given, d, b, i, n)
           \/ d = c /\ b = Len(given[c]) + 1 /\ i \in 1 .. Len(front) /\ front[i] = n
  BY <1>1, FlushAt
<1> HIDE DEF front, rest, next
<1>3. /\ \A n : n \in HandedOf(given) <=> \E d, b, i : At(given, d, b, i, n)
      /\ \A n : n \in HandedOf(next) <=> \E d, b, i : At(next, d, b, i, n)
      /\ \A n : n \in ToSet(front) <=> \E i \in 1 .. Len(front) : front[i] = n
  BY <1>1, <1>2, HandedMeans, InBatch
<1>4. HandedOf(next) = HandedOf(given) \union ToSet(front)
  <2>1. ASSUME NEW n PROVE n \in HandedOf(next) <=> n \in HandedOf(given) \/ n \in ToSet(front)
    BY <1>2, <1>3, Zenon
  <2> QED
    BY <2>1
<1>5. HandedOf(given) \intersect ToSet(front) = {}
  BY <1>1 DEF Apart
<1>6. HandedOnce(next)
  <2>1. ASSUME NEW d, NEW a, NEW i, NEW e, NEW b, NEW j, NEW n,
               At(next, d, a, i, n), At(next, e, b, j, n)
        PROVE  d = e /\ a = b /\ i = j
    <3>1. CASE n \in ToSet(front)
      <4>1. ~ \E f, g, h : At(given, f, g, h, n)
        BY <1>3, <1>5, <3>1
      <4>2. d = c /\ a = Len(given[c]) + 1 /\ i \in 1 .. Len(front) /\ front[i] = n
        BY <1>2, <2>1, <4>1, Zenon
      <4>5. e = c /\ b = Len(given[c]) + 1 /\ j \in 1 .. Len(front) /\ front[j] = n
        BY <1>2, <2>1, <4>1, Zenon
      <4>3. DOMAIN front = 1 .. Len(front)
        BY <1>1, InBatch
      <4> QED
        BY <1>1, <4>2, <4>5, <4>3, Zenon DEF IsInjective
    <3>2. CASE n \notin ToSet(front)
      <4>1. At(given, d, a, i, n) /\ At(given, e, b, j, n)
        BY <1>2, <1>3, <2>1, <3>2, Zenon
      <4> QED
        BY <4>1, OnceMeans, Zenon DEF Apart
    <3> QED
      BY <3>1, <3>2
  <2> QED
    BY <2>1, OnceMeans, Zenon
<1> QED
  BY <1>1, <1>4, <1>5, <1>6 DEF Apart, front, rest, next

\* A report takes the oldest batch of a connection.
LEMMA TakeFirst ==
    ASSUME NEW given \in [Conn -> Seq(Batch)], HandedOnce(given), NEW c \in Conn, given[c] # << >>
    PROVE  /\ Head(given[c]) \in Batch /\ IsInjective(Head(given[c])) /\ HandedOnce(DropBatch(given, c))
           /\ HandedOf(given) = HandedOf(DropBatch(given, c)) \union ToSet(Head(given[c]))
           /\ HandedOf(DropBatch(given, c)) \intersect ToSet(Head(given[c])) = {}
<1> DEFINE next == DropBatch(given, c)
           first == Head(given[c])
<1>1. /\ next \in [Conn -> Seq(Batch)] /\ first \in Batch
      /\ \A i, n : At(given, c, 1, i, n) <=> i \in 1 .. Len(first) /\ first[i] = n
      /\ \A d, b, i, n : At(next, d, b, i, n) =>
           b \in Nat \ {0} /\ At(given, d, IF d = c THEN b + 1 ELSE b, i, n)
      /\ \A d, b, i, n : At(given, d, b, i, n) =>
           \/ d = c /\ b = 1
           \/ At(next, d, IF d = c THEN b - 1 ELSE b, i, n)
  BY TakeAt
<1> HIDE DEF next, first
<1>2. /\ \A n : n \in HandedOf(given) <=> \E d, b, i : At(given, d, b, i, n)
      /\ \A n : n \in HandedOf(next) <=> \E d, b, i : At(next, d, b, i, n)
      /\ \A n : n \in ToSet(first) <=> \E i \in 1 .. Len(first) : first[i] = n
      /\ DOMAIN first = 1 .. Len(first)
  BY <1>1, HandedMeans, InBatch
<1>3. \A d, a, i, e, b, j, n : At(given, d, a, i, n) /\ At(given, e, b, j, n) => d = e /\ a = b /\ i = j
  BY OnceMeans, Zenon
<1>4. IsInjective(first)
  <2>1. ASSUME NEW i \in 1 .. Len(first), NEW j \in 1 .. Len(first), first[i] = first[j] PROVE i = j
    <3>1. At(given, c, 1, i, first[i]) /\ At(given, c, 1, j, first[i])
      BY <1>1, <2>1, Zenon
    <3> QED
      BY <1>3, <3>1, Zenon
  <2> QED
    BY <1>2, <2>1 DEF IsInjective
<1>5. HandedOnce(next)
  <2>1. ASSUME NEW d, NEW a, NEW i, NEW e, NEW b, NEW j, NEW n,
               At(next, d, a, i, n), At(next, e, b, j, n)
        PROVE  d = e /\ a = b /\ i = j
    <3>1. /\ a \in Nat /\ At(given, d, IF d = c THEN a + 1 ELSE a, i, n)
          /\ b \in Nat /\ At(given, e, IF e = c THEN b + 1 ELSE b, j, n)
      BY <1>1, <2>1
    <3>2. d = e /\ i = j /\ (IF d = c THEN a + 1 ELSE a) = (IF e = c THEN b + 1 ELSE b)
      BY <1>3, <3>1, Zenon
    <3> QED
      BY <3>1, <3>2
  <2> QED
    BY <2>1, OnceMeans, Zenon
<1>6. ASSUME NEW n, n \in HandedOf(next) PROVE n \in HandedOf(given) /\ n \notin ToSet(first)
  <2>1. PICK d, b, i : At(next, d, b, i, n)
    BY <1>2, <1>6, Zenon
  <2>2. PICK a : a = IF d = c THEN b + 1 ELSE b
    OBVIOUS
  <2>3. At(given, d, a, i, n) /\ ~(d = c /\ a = 1)
    BY <1>1, <2>1, <2>2
  <2>4. n \notin ToSet(first)
    <3>1. ASSUME NEW j \in 1 .. Len(first), first[j] = n PROVE FALSE
      <4>1. At(given, c, 1, j, n)
        BY <1>1, <3>1, Zenon
      <4> QED
        BY <1>3, <2>3, <4>1, Zenon
    <3> QED
      BY <1>2, <3>1, Zenon
  <2> QED
    BY <1>2, <2>3, <2>4, Zenon
<1>7. ASSUME NEW n, n \in HandedOf(given) PROVE n \in HandedOf(next) \/ n \in ToSet(first)
  <2>1. PICK d, b, i : At(given, d, b, i, n)
    BY <1>2, <1>7, Zenon
  <2>2. CASE d = c /\ b = 1
    BY <1>1, <1>2, <2>1, <2>2, Zenon
  <2>3. CASE ~(d = c /\ b = 1)
    BY <1>1, <1>2, <2>1, <2>3, Zenon
  <2> QED
    BY <2>2, <2>3
<1>8. ASSUME NEW n, n \in ToSet(first) PROVE n \in HandedOf(given)
  BY <1>1, <1>2, <1>8, Zenon
<1> QED
  BY <1>1, <1>4, <1>5, <1>6, <1>7, <1>8 DEF next, first

-----------------------------------------------------------------------------
(* Every record in one place *)

\* The records that have left the client, counted or not.
Gone == sent \union lost

\* A record that cannot be encoded takes its chunk with it and no more.
LossBounded == Cardinality(lost) <= ChunkSize * Cardinality(lost \intersect Odd)

AccountInv ==
    /\ ClientInv
    /\ Apart(buffer, Given, Gone)
    /\ sent \intersect lost = {} /\ LossBounded
    /\ Held \union Gone \subseteq 1 .. made
    /\ dropped \in Nat
    /\ Cardinality(Held \union Gone) + dropped = made

LEMMA AccountInit == Init => AccountInv
<1> SUFFICES ASSUME Init PROVE AccountInv
  OBVIOUS
<1>1. /\ ClientInv /\ buffer = << >> /\ sent = {} /\ lost = {} /\ dropped = 0 /\ made = 0
      /\ \A c \in Conn : pipe[c] = << >> /\ done[c] = << >>
  BY ClientInit DEF Init
<1>2. Given \in [Conn -> Seq(Batch)] /\ \A c \in Conn : Given[c] = << >>
  BY <1>1, GivenList, GivenNow, NothingInHand DEF ClientInv, BatchesOK
<1>3. \A c, b, i, n : ~At(Given, c, b, i, n)
  BY <1>2 DEF At
<1>4. HandedOf(Given) = {} /\ HandedOnce(Given)
  BY <1>2, <1>3, HandedMeans, OnceMeans, Zenon
<1>5. ToSet(buffer) = {} /\ IsInjective(buffer)
  BY <1>1 DEF ToSet, IsInjective
<1>6. Held \union Gone = {}
  BY <1>1, <1>4, <1>5 DEF Held, Gone
<1>7. LossBounded
  <2>1. lost = {} /\ lost \intersect Odd = {}
    BY <1>1
  <2> QED
    BY <2>1, FS_EmptySet, ClientAssumption DEF LossBounded
<1> QED
  BY <1>1, <1>4, <1>5, <1>6, <1>7, FS_EmptySet DEF AccountInv, Apart

\* A step that hands nothing over.
LEMMA KeepAccount ==
    ASSUME AccountInv, ClientInv', UNCHANGED <<buffer, sent, lost, dropped, made, Given>>
    PROVE  AccountInv'
  BY DEF AccountInv, Held, Gone, LossBounded

\* A step that only moves records between places.
LEMMA MoveAccount ==
    ASSUME AccountInv, ClientInv', Apart(buffer', Given', Gone'), UNCHANGED <<dropped, made>>,
           (sent \intersect lost = {})', LossBounded',
           ToSet(buffer') \union HandedOf(Given') \union Gone' =
               ToSet(buffer) \union HandedOf(Given) \union Gone
    PROVE  AccountInv'
<1>1. (Held \union Gone)' = Held \union Gone
  BY DEF Held
<1>2. Apart(buffer, Given, Gone)'
  BY DEF Apart, HandedOnce, HandedOf
<1> QED
  BY <1>1, <1>2 DEF AccountInv

LEMMA SameList ==
    ASSUME NEW S, NEW s \in Seq(S), NEW t \in Seq(S), Len(s) = Len(t),
           \A i \in 1 .. Len(s) : s[i] = t[i]
    PROVE  s = t
  OBVIOUS

\* A list of batches is what a connection with these reports and these batches
\* to process was given.
Matches(list, reports, batches) ==
    /\ Len(list) = Len(reports) + Len(batches)
    /\ \A b \in 1 .. Len(reports) : list[b] = reports[b].records
    /\ \A b \in 1 .. Len(batches) : list[Len(reports) + b] = batches[b]

LEMMA MatchesOne ==
    ASSUME NEW reports \in Seq(Completion), NEW batches \in Seq(Batch),
           NEW s \in Seq(Batch), NEW t \in Seq(Batch),
           Matches(s, reports, batches), Matches(t, reports, batches)
    PROVE  s = t
<1>1. Len(reports) \in Nat /\ Len(batches) \in Nat /\ Len(s) = Len(t)
      /\ Len(s) = Len(reports) + Len(batches)
  BY DEF Matches
<1>2. ASSUME NEW b \in 1 .. Len(s) PROVE s[b] = t[b]
  <2>1. CASE b <= Len(reports)
    <3>1. b \in 1 .. Len(reports)
      BY <1>1, <2>1
    <3> QED
      BY <3>1 DEF Matches
  <2>2. CASE b > Len(reports)
    <3>1. PICK e : e = b - Len(reports)
      OBVIOUS
    <3>2. e \in 1 .. Len(batches) /\ Len(reports) + e = b
      BY <1>1, <2>2, <3>1
    <3> QED
      BY <3>2, Zenon DEF Matches
  <2> QED
    BY <1>1, <2>1, <2>2
<1> QED
  BY <1>1, <1>2, SameList

LEMMA GivenMatches ==
    ASSUME NEW reports \in [Conn -> Seq(Completion)], NEW batches \in [Conn -> Seq(Batch)],
           NEW c \in Conn
    PROVE  /\ GivenOf(reports, batches)[c] \in Seq(Batch)
           /\ Matches(GivenOf(reports, batches)[c], reports[c], batches[c])
BY GivenList DEF Matches

\* When a step leaves the other connections alone, what c was given tells all.
OnlyAt(c, reports, batches, reported, piped) ==
    \A d \in Conn : d # c => reported[d] = reports[d] /\ piped[d] = batches[d]

SetBatches(given, c, list) == [given EXCEPT ![c] = list]

LEMMA ChangeGiven ==
    ASSUME NEW reports \in [Conn -> Seq(Completion)], NEW batches \in [Conn -> Seq(Batch)],
           NEW reported \in [Conn -> Seq(Completion)], NEW piped \in [Conn -> Seq(Batch)],
           NEW c \in Conn, NEW list \in Seq(Batch), Matches(list, reported[c], piped[c]),
           OnlyAt(c, reports, batches, reported, piped)
    PROVE  GivenOf(reported, piped) = SetBatches(GivenOf(reports, batches), c, list)
<1>1. PICK old \in [Conn -> Seq(Batch)] : old = GivenOf(reports, batches)
  BY ONLY GivenList, reports \in [Conn -> Seq(Completion)], batches \in [Conn -> Seq(Batch)]
<1>2. PICK new \in [Conn -> Seq(Batch)] : new = GivenOf(reported, piped)
  BY ONLY GivenList, reported \in [Conn -> Seq(Completion)], piped \in [Conn -> Seq(Batch)]
<1>3. ASSUME NEW d \in Conn, d # c PROVE new[d] = old[d]
  BY <1>1, <1>2, <1>3 DEF GivenOf, OnlyAt
<1>4. Matches(new[c], reported[c], piped[c])
  BY ONLY <1>2, GivenMatches, c \in Conn, reported \in [Conn -> Seq(Completion)],
          piped \in [Conn -> Seq(Batch)]
<1>5. new[c] = list
  <2>1. new[c] \in Seq(Batch) /\ reported[c] \in Seq(Completion) /\ piped[c] \in Seq(Batch)
    OBVIOUS
  <2> QED
    BY ONLY <1>4, <2>1, MatchesOne, list \in Seq(Batch), Matches(list, reported[c], piped[c])
<1> QED
  BY ONLY <1>1, <1>2, <1>3, <1>5, c \in Conn DEF SetBatches

LEMMA AddLast ==
    ASSUME NEW S, NEW s \in Seq(S), NEW x \in S
    PROVE  /\ Append(s, x) \in Seq(S) /\ Len(s) \in Nat /\ Len(Append(s, x)) = Len(s) + 1
           /\ \A i \in 1 .. Len(s) : Append(s, x)[i] = s[i]
           /\ Append(s, x)[Len(s) + 1] = x
  OBVIOUS

LEMMA DropFirst ==
    ASSUME NEW S, NEW s \in Seq(S), s # << >>
    PROVE  /\ Tail(s) \in Seq(S) /\ Len(s) \in Nat \ {0} /\ Len(Tail(s)) = Len(s) - 1
           /\ Head(s) \in S /\ Head(s) = s[1]
           /\ \A i \in 1 .. Len(s) - 1 : Tail(s)[i] = s[i + 1]
  OBVIOUS

\* A live connection is given a batch.
LEMMA MatchesPiped ==
    ASSUME NEW reports \in Seq(Completion), NEW batches \in Seq(Batch), NEW list \in Seq(Batch),
           NEW batch \in Batch, Matches(list, reports, batches)
    PROVE  Matches(Append(list, batch), reports, Append(batches, batch))
<1>1. Len(list) = Len(reports) + Len(batches) /\ Len(reports) \in Nat /\ Len(batches) \in Nat
  BY DEF Matches
<1>2. PICK new : new = Append(list, batch)
  OBVIOUS
<1>3. PICK piped : piped = Append(batches, batch)
  OBVIOUS
<1>4. /\ Len(new) = Len(list) + 1 /\ new[Len(list) + 1] = batch
      /\ \A i \in 1 .. Len(list) : new[i] = list[i]
      /\ Len(piped) = Len(batches) + 1 /\ piped[Len(batches) + 1] = batch
      /\ \A i \in 1 .. Len(batches) : piped[i] = batches[i]
  BY ONLY <1>2, <1>3, AddLast, list \in Seq(Batch), batches \in Seq(Batch), batch \in Batch
<1>5. ASSUME NEW b \in 1 .. Len(reports) PROVE new[b] = reports[b].records
  <2>1. b \in 1 .. Len(list)
    BY <1>1
  <2> QED
    BY <1>4, <2>1 DEF Matches
<1>6. ASSUME NEW b \in 1 .. Len(piped) PROVE new[Len(reports) + b] = piped[b]
  <2>1. CASE b <= Len(batches)
    <3>1. b \in 1 .. Len(batches) /\ Len(reports) + b \in 1 .. Len(list)
      BY <1>1, <2>1
    <3> QED
      BY <1>4, <3>1 DEF Matches
  <2>2. CASE b > Len(batches)
    <3>1. b = Len(batches) + 1 /\ Len(reports) + b = Len(list) + 1
      <4>1. Len(piped) = Len(batches) + 1
        BY <1>4
      <4> QED
        BY ONLY <1>1, <2>2, <4>1, b \in 1 .. Len(piped)
    <3> QED
      BY <1>4, <3>1
  <2> QED
    BY <1>1, <2>1, <2>2
<1>7. Len(new) = Len(reports) + Len(piped)
  BY <1>1, <1>4
<1> QED
  BY ONLY <1>2, <1>3, <1>5, <1>6, <1>7 DEF Matches

\* A report is added for a batch that was the first to process.
LEMMA MatchesReported ==
    ASSUME NEW reports \in Seq(Completion), NEW batches \in Seq(Batch), NEW list \in Seq(Batch),
           NEW report \in Completion, batches # << >>, report.records = Head(batches),
           Matches(list, reports, batches)
    PROVE  Matches(list, Append(reports, report), Tail(batches))
<1>1. Len(list) = Len(reports) + Len(batches) /\ Len(reports) \in Nat /\ Len(batches) \in Nat \ {0}
  BY DEF Matches
<1>2. PICK new : new = Append(reports, report)
  OBVIOUS
<1>3. PICK rest : rest = Tail(batches)
  OBVIOUS
<1>4. /\ Len(new) = Len(reports) + 1 /\ new[Len(reports) + 1] = report
      /\ \A i \in 1 .. Len(reports) : new[i] = reports[i]
  BY ONLY <1>2, AddLast, reports \in Seq(Completion), report \in Completion
<1>5. /\ Len(rest) = Len(batches) - 1 /\ Head(batches) = batches[1]
      /\ \A i \in 1 .. Len(batches) - 1 : rest[i] = batches[i + 1]
  BY ONLY <1>3, DropFirst, batches \in Seq(Batch), batches # << >>
<1>6. ASSUME NEW b \in 1 .. Len(new) PROVE list[b] = new[b].records
  <2>1. CASE b <= Len(reports)
    <3>1. b \in 1 .. Len(reports)
      BY <1>1, <2>1
    <3> QED
      BY <1>4, <3>1 DEF Matches
  <2>2. CASE b > Len(reports)
    <3>1. b = Len(reports) + 1 /\ 1 \in 1 .. Len(batches)
      BY <1>1, <1>4, <2>2
    <3>2. list[Len(reports) + 1] = batches[1]
      BY <3>1 DEF Matches
    <3> QED
      BY <1>4, <1>5, <3>1, <3>2
  <2> QED
    BY <1>1, <2>1, <2>2
<1>7. ASSUME NEW b \in 1 .. Len(rest) PROVE list[Len(new) + b] = rest[b]
  <2>1. /\ b \in 1 .. Len(batches) - 1 /\ b + 1 \in 1 .. Len(batches)
        /\ Len(new) + b = Len(reports) + (b + 1)
    BY <1>1, <1>4, <1>5
  <2>2. list[Len(reports) + (b + 1)] = batches[b + 1]
    BY <2>1 DEF Matches
  <2> QED
    BY <1>5, <2>1, <2>2
<1>8. Len(list) = Len(new) + Len(rest)
  BY <1>1, <1>4, <1>5
<1> QED
  BY ONLY <1>2, <1>3, <1>6, <1>7, <1>8 DEF Matches

\* A connection that has ended reports a batch at once.
LEMMA MatchesFailed ==
    ASSUME NEW reports \in Seq(Completion), NEW list \in Seq(Batch),
           NEW batch \in Batch, Matches(list, reports, << >>)
    PROVE  Matches(Append(list, batch), Append(reports, [records |-> batch, ok |-> FALSE]), << >>)
<1>1. << >> \in Seq(Batch) /\ [records |-> batch, ok |-> FALSE] \in Completion
  BY DEF Completion
<1>2. Append(<< >>, batch) \in Seq(Batch) /\ Append(<< >>, batch) # << >>
      /\ Head(Append(<< >>, batch)) = batch /\ Tail(Append(<< >>, batch)) = << >>
      /\ Append(list, batch) \in Seq(Batch)
  OBVIOUS
<1>3. Matches(Append(list, batch), reports, Append(<< >>, batch))
  BY ONLY <1>1, MatchesPiped, reports \in Seq(Completion), list \in Seq(Batch), batch \in Batch,
          Matches(list, reports, << >>)
<1>4. [records |-> batch, ok |-> FALSE].records = Head(Append(<< >>, batch))
  BY <1>2
<1> QED
  BY ONLY <1>1, <1>2, <1>3, <1>4, MatchesReported, reports \in Seq(Completion)

\* The oldest report is taken.
LEMMA MatchesTaken ==
    ASSUME NEW reports \in Seq(Completion), NEW batches \in Seq(Batch), NEW list \in Seq(Batch),
           reports # << >>, Matches(list, reports, batches)
    PROVE  /\ list # << >> /\ Head(list) = Head(reports).records
           /\ Matches(Tail(list), Tail(reports), batches)
<1>1. Len(list) = Len(reports) + Len(batches) /\ Len(reports) \in Nat \ {0} /\ Len(batches) \in Nat
  BY DEF Matches
<1>2. list # << >>
  BY <1>1
<1>3. PICK new : new = Tail(list)
  OBVIOUS
<1>4. PICK rest : rest = Tail(reports)
  OBVIOUS
<1>5. /\ Len(new) = Len(list) - 1 /\ Head(list) = list[1]
      /\ \A i \in 1 .. Len(list) - 1 : new[i] = list[i + 1]
  BY ONLY <1>2, <1>3, DropFirst, list \in Seq(Batch)
<1>6. /\ Len(rest) = Len(reports) - 1 /\ Head(reports) = reports[1]
      /\ \A i \in 1 .. Len(reports) - 1 : rest[i] = reports[i + 1]
  BY ONLY <1>4, DropFirst, reports \in Seq(Completion), reports # << >>
<1>7. Head(list) = Head(reports).records
  <2>1. 1 \in 1 .. Len(reports)
    BY <1>1
  <2> QED
    BY <1>5, <1>6, <2>1 DEF Matches
<1>8. ASSUME NEW b \in 1 .. Len(rest) PROVE new[b] = rest[b].records
  <2>1. b \in 1 .. Len(list) - 1 /\ b \in 1 .. Len(reports) - 1 /\ b + 1 \in 1 .. Len(reports)
    BY <1>1, <1>6
  <2>2. list[b + 1] = reports[b + 1].records
    BY <2>1 DEF Matches
  <2> QED
    BY <1>5, <1>6, <2>1, <2>2
<1>9. ASSUME NEW b \in 1 .. Len(batches) PROVE new[Len(rest) + b] = batches[b]
  <2>1. Len(rest) + b \in 1 .. Len(list) - 1 /\ (Len(rest) + b) + 1 = Len(reports) + b
    BY <1>1, <1>6
  <2>2. list[Len(reports) + b] = batches[b]
    BY DEF Matches
  <2>3. new[Len(rest) + b] = list[(Len(rest) + b) + 1]
    BY <1>5, <2>1
  <2> QED
    BY <2>1, <2>2, <2>3
<1>10. Len(new) = Len(rest) + Len(batches)
  BY <1>1, <1>5, <1>6
<1> QED
  BY ONLY <1>2, <1>3, <1>4, <1>7, <1>8, <1>9, <1>10 DEF Matches

\* A connection that ends fails what it has not processed, in the same order.
LEMMA MatchesEnded ==
    ASSUME NEW reports \in Seq(Completion), NEW batches \in Seq(Batch), NEW list \in Seq(Batch),
           Matches(list, reports, batches)
    PROVE  Matches(list, reports \o Failures(batches), << >>)
<1>1. PICK failed \in Seq(Completion) :
        /\ failed = Failures(batches)
        /\ Len(failed) = Len(batches) /\ \A b \in 1 .. Len(batches) : failed[b].records = batches[b]
  <2>1. /\ Failures(batches) \in Seq(Completion) /\ Len(Failures(batches)) = Len(batches)
        /\ \A b \in 1 .. Len(batches) : Failures(batches)[b].records = batches[b]
    BY FailuresType DEF Failures
  <2> QED
    BY <2>1
<1>2. PICK new : new = reports \o failed
  OBVIOUS
<1>3. /\ Len(new) = Len(reports) + Len(failed)
      /\ \A b \in 1 .. Len(reports) : new[b] = reports[b]
      /\ \A b \in 1 .. Len(failed) : new[Len(reports) + b] = failed[b]
  BY ONLY <1>2, JoinLists, reports \in Seq(Completion), failed \in Seq(Completion)
<1>4. /\ Len(list) = Len(reports) + Len(batches) /\ Len(reports) \in Nat /\ Len(batches) \in Nat
      /\ Len(<< >>) = 0
  BY DEF Matches
<1>5. ASSUME NEW b \in 1 .. Len(new) PROVE list[b] = new[b].records
  <2>1. CASE b <= Len(reports)
    <3>1. b \in 1 .. Len(reports)
      BY <1>4, <2>1
    <3> QED
      BY <1>3, <3>1 DEF Matches
  <2>2. CASE b > Len(reports)
    <3>1. PICK e : e = b - Len(reports)
      OBVIOUS
    <3>2. e \in 1 .. Len(batches) /\ e \in 1 .. Len(failed) /\ Len(reports) + e = b
      BY <1>1, <1>3, <1>4, <2>2, <3>1
    <3>3. list[Len(reports) + e] = batches[e]
      BY <3>2 DEF Matches
    <3> QED
      BY <1>1, <1>3, <3>2, <3>3
  <2> QED
    BY <1>4, <2>1, <2>2
<1>6. Len(list) = Len(new) + Len(<< >>)
  BY <1>1, <1>3, <1>4
<1>7. \A b \in 1 .. Len(<< >>) : list[Len(new) + b] = << >>[b]
  BY <1>4
<1> QED
  BY ONLY <1>1, <1>2, <1>5, <1>6, <1>7 DEF Matches

LEMMA GivenChanges ==
    ASSUME BatchesOK, BatchesOK', NEW c \in Conn, NEW list \in Seq(Batch),
           Matches(list, done'[c], pipe'[c]),
           \A d \in Conn : d # c => done'[d] = done[d] /\ pipe'[d] = pipe[d]
    PROVE  Given' = [Given EXCEPT ![c] = list]
<1>1. PICK reports \in [Conn -> Seq(Completion)], batches \in [Conn -> Seq(Batch)] :
        reports = done /\ batches = pipe
  BY DEF BatchesOK
<1>2. PICK reported \in [Conn -> Seq(Completion)], piped \in [Conn -> Seq(Batch)] :
        reported = done' /\ piped = pipe'
  BY DEF BatchesOK
<1>3. Matches(list, reported[c], piped[c])
  BY <1>2
<1>4. OnlyAt(c, reports, batches, reported, piped)
  BY <1>1, <1>2 DEF OnlyAt
<1>5. GivenOf(reported, piped) = SetBatches(GivenOf(reports, batches), c, list)
  BY ONLY <1>3, <1>4, ChangeGiven, c \in Conn, list \in Seq(Batch),
          reports \in [Conn -> Seq(Completion)], batches \in [Conn -> Seq(Batch)],
          reported \in [Conn -> Seq(Completion)], piped \in [Conn -> Seq(Batch)]
<1>6. Given = GivenOf(reports, batches) /\ Given' = GivenOf(reported, piped)
  BY <1>1, <1>2 DEF Given, GivenOf
<1> QED
  BY <1>5, <1>6 DEF SetBatches

LEMMA EndedGiven ==
    ASSUME BatchesOK, NEW c \in Conn,
           pipe' = [pipe EXCEPT ![c] = << >>],
           done' = [done EXCEPT ![c] = @ \o Failures(pipe[c])], BatchesOK'
    PROVE  Given' = Given
<1>1. /\ done \in [Conn -> Seq(Completion)] /\ pipe \in [Conn -> Seq(Batch)]
      /\ done' \in [Conn -> Seq(Completion)] /\ pipe' \in [Conn -> Seq(Batch)]
  BY DEF BatchesOK
<1>2. /\ pipe'[c] = << >> /\ done'[c] = done[c] \o Failures(pipe[c])
      /\ \A d \in Conn : d # c => done'[d] = done[d] /\ pipe'[d] = pipe[d]
  BY <1>1
<1>3. PICK list \in Seq(Batch) : list = Given[c] /\ Matches(list, done[c], pipe[c])
  BY <1>1, GivenMatches, GivenNow
<1>4. Matches(list, done'[c], pipe'[c])
  BY <1>1, <1>2, <1>3, MatchesEnded
<1>5. Given' = [Given EXCEPT ![c] = list]
  BY <1>2, <1>4, GivenChanges
<1>6. Given \in [Conn -> Seq(Batch)]
  BY <1>1, GivenList, GivenNow
<1> QED
  BY ONLY <1>3, <1>5, <1>6, c \in Conn

LEMMA EndLinkAccount ==
    ASSUME AccountInv, ClientInv', NEW c \in Conn, NEW how, EndLink(c, how),
           UNCHANGED <<buffer, sent, lost, dropped, made>>
    PROVE  AccountInv'
<1>1. BatchesOK /\ BatchesOK'
  BY DEF AccountInv, ClientInv
<1>2. Given' = Given
  BY <1>1, EndedGiven DEF EndLink
<1> QED
  BY <1>2, KeepAccount

LEMMA RestartAccount ==
    ASSUME AccountInv, ClientInv', Restart, UNCHANGED <<buffer, sent, lost, dropped, made>>
    PROVE  AccountInv'
<1>1. BatchesOK /\ BatchesOK' /\ current \in Conn \union {NoConn}
  BY DEF AccountInv, ClientInv, LinksOK
<1>2. CASE current # NoConn /\ link[current] # "cancelled"
  <2>1. /\ current \in Conn /\ pipe' = [pipe EXCEPT ![current] = << >>]
        /\ done' = [done EXCEPT ![current] = @ \o Failures(pipe[current])]
    BY <1>1, <1>2 DEF Restart
  <2>2. Given' = Given
    BY <1>1, <2>1, EndedGiven
  <2> QED
    BY <2>2, KeepAccount
<1>3. CASE ~(current # NoConn /\ link[current] # "cancelled")
  <2>1. UNCHANGED <<pipe, done>>
    BY <1>3 DEF Restart
  <2>2. Given' = Given
    BY <2>1 DEF Given
  <2> QED
    BY <2>2, KeepAccount
<1> QED
  BY <1>2, <1>3

LEMMA ProcessAccount ==
    ASSUME AccountInv, ClientInv', NEW c \in Conn, Process(c) PROVE AccountInv'
<1>1. /\ done \in [Conn -> Seq(Completion)] /\ pipe \in [Conn -> Seq(Batch)]
      /\ done' \in [Conn -> Seq(Completion)] /\ pipe' \in [Conn -> Seq(Batch)]
  BY DEF AccountInv, ClientInv, BatchesOK
<1>2. PICK report : report = [records |-> Head(pipe[c]), ok |-> TRUE]
  OBVIOUS
<1>3. /\ pipe[c] # << >> /\ pipe' = [pipe EXCEPT ![c] = Tail(@)]
      /\ done' = [done EXCEPT ![c] = Append(@, report)]
      /\ UNCHANGED <<buffer, sent, lost, dropped, made>>
  BY <1>2 DEF Process, ClientFrame, bufferVars
<1>4. /\ pipe'[c] = Tail(pipe[c]) /\ done'[c] = Append(done[c], report)
      /\ \A d \in Conn : d # c => done'[d] = done[d] /\ pipe'[d] = pipe[d]
  BY <1>1, <1>3
<1>5. PICK list \in Seq(Batch) : list = Given[c] /\ Matches(list, done[c], pipe[c])
  BY <1>1, GivenMatches, GivenNow
<1>6. report \in Completion /\ report.records = Head(pipe[c])
  BY <1>1, <1>2, <1>3, DropFirst DEF Completion
<1>7. Matches(list, done'[c], pipe'[c])
  <2>1. done[c] \in Seq(Completion) /\ pipe[c] \in Seq(Batch)
    BY <1>1
  <2>2. Matches(list, Append(done[c], report), Tail(pipe[c]))
    BY ONLY <1>3, <1>5, <1>6, <2>1, list \in Seq(Batch), MatchesReported
  <2> QED
    BY <1>4, <2>2
<1>8. Given' = [Given EXCEPT ![c] = list]
  <2>1. BatchesOK /\ BatchesOK'
    BY DEF AccountInv, ClientInv
  <2> QED
    BY ONLY <1>4, <1>7, <2>1, c \in Conn, list \in Seq(Batch), GivenChanges
<1>9. Given \in [Conn -> Seq(Batch)]
  BY <1>1, GivenList, GivenNow
<1>10. Given' = Given
  BY ONLY <1>5, <1>8, <1>9, c \in Conn
<1> QED
  BY <1>3, <1>10, KeepAccount

LEMMA CompletedAccount ==
    ASSUME AccountInv, ClientInv', NEW c \in Conn, Completed(c) PROVE AccountInv'
<1>1. /\ done \in [Conn -> Seq(Completion)] /\ pipe \in [Conn -> Seq(Batch)]
      /\ done' \in [Conn -> Seq(Completion)] /\ pipe' \in [Conn -> Seq(Batch)]
      /\ buffer \in Batch
  BY DEF AccountInv, ClientInv, BatchesOK
<1>2. /\ done[c] # << >> /\ done' = [done EXCEPT ![c] = Tail(@)]
      /\ UNCHANGED <<pipe, lost, dropped, made>>
  BY DEF Completed
<1>3. /\ pipe'[c] = pipe[c] /\ done'[c] = Tail(done[c])
      /\ \A d \in Conn : d # c => done'[d] = done[d] /\ pipe'[d] = pipe[d]
  BY <1>1, <1>2
<1>4. PICK list \in Seq(Batch) : list = Given[c] /\ Matches(list, done[c], pipe[c])
  BY <1>1, GivenMatches, GivenNow
<1>5. list # << >> /\ Head(list) = Head(done[c]).records /\ Matches(Tail(list), done'[c], pipe'[c])
  <2>1. done[c] \in Seq(Completion) /\ pipe[c] \in Seq(Batch)
    BY <1>1
  <2>2. /\ list # << >> /\ Head(list) = Head(done[c]).records
        /\ Matches(Tail(list), Tail(done[c]), pipe[c])
    BY ONLY <1>2, <1>4, <2>1, list \in Seq(Batch), MatchesTaken
  <2> QED
    BY <1>3, <2>2
<1>6. Tail(list) \in Seq(Batch)
  BY <1>5
<1>7. Given' = [Given EXCEPT ![c] = Tail(list)]
  <2>1. BatchesOK /\ BatchesOK'
    BY DEF AccountInv, ClientInv
  <2> QED
    BY ONLY <1>3, <1>5, <1>6, <2>1, c \in Conn, GivenChanges
<1>8. PICK given \in [Conn -> Seq(Batch)] : given = Given
  BY <1>1, GivenList, GivenNow
<1>9. Given' = DropBatch(given, c)
  BY <1>4, <1>7, <1>8 DEF DropBatch
<1>10. PICK first : first = Head(done[c]).records
  OBVIOUS
<1>11. given[c] # << >> /\ Head(given[c]) = first
  BY <1>4, <1>5, <1>8, <1>10
<1>12. PICK kept \in [Conn -> Seq(Batch)] : kept = DropBatch(given, c)
  BY ONLY <1>11, TakeAt, given \in [Conn -> Seq(Batch)], c \in Conn
<1>13. /\ IsInjective(buffer) /\ HandedOnce(given) /\ ToSet(buffer) \intersect HandedOf(given) = {}
       /\ (ToSet(buffer) \union HandedOf(given)) \intersect Gone = {}
       /\ sent \intersect lost = {} /\ LossBounded'
  BY <1>2, <1>8 DEF AccountInv, Apart, LossBounded
<1>14. /\ first \in Batch /\ IsInjective(first) /\ HandedOnce(kept)
       /\ HandedOf(given) = HandedOf(kept) \union ToSet(first)
       /\ HandedOf(kept) \intersect ToSet(first) = {}
  BY ONLY <1>11, <1>12, <1>13, TakeFirst, given \in [Conn -> Seq(Batch)], c \in Conn
<1>15. CASE Head(done[c]).ok
  <2>1. /\ Gone' = Gone \union ToSet(first) /\ buffer' = buffer
        /\ sent' = sent \union ToSet(first)
    BY <1>2, <1>10, <1>15 DEF Completed, Gone
  <2>2. Apart(buffer', Given', Gone')
    BY <1>9, <1>12, <1>13, <1>14, <2>1 DEF Apart
  <2>3. ToSet(buffer') \union HandedOf(Given') \union Gone' =
            ToSet(buffer) \union HandedOf(Given) \union Gone
    BY <1>8, <1>9, <1>12, <1>14, <2>1
  <2>4. (sent \intersect lost = {})'
    BY <1>2, <1>13, <1>14, <2>1 DEF Gone
  <2> QED
    BY <1>2, <1>13, <2>2, <2>3, <2>4, MoveAccount
<1>16. CASE ~Head(done[c]).ok
  <2>1. buffer' = first \o buffer /\ sent' = sent /\ Gone' = Gone
    BY <1>2, <1>10, <1>16 DEF Completed, Gone
  <2>2. ToSet(first) \intersect ToSet(buffer) = {}
    BY <1>13, <1>14
  <2>3. IsInjective(first \o buffer) /\ ToSet(first \o buffer) = ToSet(first) \union ToSet(buffer)
    BY ONLY <1>1, <1>13, <1>14, <2>2, JoinApart
  <2>4. Apart(buffer', Given', Gone')
    BY <1>9, <1>12, <1>13, <1>14, <2>1, <2>3 DEF Apart
  <2>5. ToSet(buffer') \union HandedOf(Given') \union Gone' =
            ToSet(buffer) \union HandedOf(Given) \union Gone
    BY <1>8, <1>9, <1>12, <1>14, <2>1, <2>3
  <2> QED
    BY <1>2, <1>13, <2>1, <2>4, <2>5, MoveAccount
<1> QED
  BY <1>15, <1>16

LEMMA OneFailure ==
    ASSUME NEW batch \in Batch
    PROVE  Failures(<<batch>>) = <<[records |-> batch, ok |-> FALSE]>>
<1>1. PICK batches \in Seq(Batch) : batches = <<batch>> /\ Len(batches) = 1 /\ batches[1] = batch
  <2>1. <<batch>> \in Seq(Batch) /\ Len(<<batch>>) = 1 /\ <<batch>>[1] = batch
    OBVIOUS
  <2> QED
    BY <2>1, Zenon
<1>2. PICK report \in Completion : report = [records |-> batch, ok |-> FALSE]
  BY DEF Completion
<1>3. PICK s \in Seq(Completion) : s = <<report>> /\ Len(s) = 1 /\ s[1] = report
  <2>1. <<report>> \in Seq(Completion) /\ Len(<<report>>) = 1 /\ <<report>>[1] = report
    OBVIOUS
  <2> QED
    BY <2>1, Zenon
<1>4. PICK t \in Seq(Completion) : t = Failures(batches)
  BY ONLY FailuresType, batches \in Seq(Batch)
<1>5. t = [i \in 1 .. Len(batches) |-> [records |-> batches[i], ok |-> FALSE]]
  BY <1>4 DEF Failures
<1>6. Len(t) = 1 /\ t[1] = report
  <2>1. Len(batches) = 1 /\ Len(batches) \in Nat
    BY <1>1
  <2>2. Len(t) = Len(batches)
    BY ONLY <1>5, <2>1
  <2>3. 1 \in 1 .. Len(batches)
    BY <2>1
  <2>4. t[1] = [records |-> batches[1], ok |-> FALSE]
    BY ONLY <1>5, <2>3
  <2> QED
    BY <1>1, <1>2, <2>1, <2>2, <2>4, Zenon
<1>7. s = t
  BY <1>3, <1>6, SameList
<1> QED
  BY <1>1, <1>2, <1>3, <1>4, <1>7

\* A list without repetitions has as many records as it is long.
LEMMA CountOnce ==
    ASSUME NEW s \in Batch, IsInjective(s)
    PROVE  IsFiniteSet(ToSet(s)) /\ Cardinality(ToSet(s)) = Len(s)
<1> DEFINE f == [i \in 1 .. Len(s) |-> s[i]]
<1>1. Len(s) \in Nat /\ DOMAIN s = 1 .. Len(s) /\ ToSet(s) = {s[i] : i \in 1 .. Len(s)}
  BY DEF ToSet, Batch
<1>2. f \in [1 .. Len(s) -> ToSet(s)] /\ \A t \in ToSet(s) : \E i \in 1 .. Len(s) : f[i] = t
  BY <1>1
<1>3. \A i, j \in 1 .. Len(s) : f[i] = f[j] => i = j
  BY <1>1 DEF IsInjective
<1>4. f \in Bijection(1 .. Len(s), ToSet(s))
  <2>1. \A a, b \in DOMAIN f : f[a] = f[b] => a = b
    BY <1>3
  <2> HIDE DEF f
  <2> QED
    BY <1>2, <2>1 DEF Bijection, Injection, Surjection, IsInjective
<1>5. ExistsBijection(1 .. Len(s), ToSet(s))
  BY <1>4 DEF ExistsBijection
<1> QED
  BY <1>1, <1>5, FS_CountingElements, FS_NatBijection

\* What a chunk that cannot be encoded adds to the loss.
LEMMA ChunkLost ==
    ASSUME NEW gone, NEW chunk, IsFiniteSet(gone), IsFiniteSet(chunk),
           gone \intersect chunk = {}, chunk \intersect Odd # {},
           Cardinality(chunk) <= ChunkSize,
           Cardinality(gone) <= ChunkSize * Cardinality(gone \intersect Odd)
    PROVE  Cardinality(gone \union chunk) <= ChunkSize * Cardinality((gone \union chunk) \intersect Odd)
<1>1. PICK n : n \in chunk /\ n \in Odd /\ n \notin gone \intersect Odd
  OBVIOUS
<1>2. /\ IsFiniteSet(gone \union chunk) /\ IsFiniteSet(gone \intersect Odd)
      /\ IsFiniteSet((gone \union chunk) \intersect Odd)
  BY FS_Union, FS_Subset
<1>3. Cardinality((gone \intersect Odd) \union {n}) = Cardinality(gone \intersect Odd) + 1
  BY <1>1, <1>2, FS_AddElement
<1>4. Cardinality((gone \intersect Odd) \union {n}) <= Cardinality((gone \union chunk) \intersect Odd)
  <2>1. (gone \intersect Odd) \union {n} \in SUBSET ((gone \union chunk) \intersect Odd)
    BY <1>1
  <2> QED
    BY <1>2, <2>1, FS_Subset
<1>5. Cardinality(gone \union chunk) = Cardinality(gone) + Cardinality(chunk)
  <2>1. /\ Cardinality(gone \union chunk) =
               Cardinality(gone) + Cardinality(chunk) - Cardinality(gone \intersect chunk)
        /\ Cardinality(gone) \in Nat /\ Cardinality(chunk) \in Nat
    BY FS_Union, FS_CardinalityType
  <2>2. Cardinality(gone \intersect chunk) = 0
    BY FS_EmptySet
  <2> QED
    BY ONLY <2>1, <2>2
<1>6. \A c, m, k, a, b \in Nat : m + 1 <= k /\ a <= c * m /\ b <= c => a + b <= c * k
  <2> SUFFICES ASSUME NEW c \in Nat, NEW m \in Nat, NEW k \in Nat, NEW a \in Nat, NEW b \in Nat,
                      m + 1 <= k, a <= c * m, b <= c
               PROVE  a + b <= c * k
    OBVIOUS
  <2>1. PICK d \in Nat : k = (m + 1) + d
    <3>1. k - (m + 1) \in Nat /\ k = (m + 1) + (k - (m + 1))
      OBVIOUS
    <3> QED
      BY <3>1
  <2>2. c * k = c * m + c + c * d /\ c * d \in Nat /\ c * m \in Nat
    BY <2>1
  <2> QED
    BY <2>2
<1>7. /\ Cardinality(gone) \in Nat /\ Cardinality(chunk) \in Nat /\ ChunkSize \in Nat
      /\ Cardinality(gone \intersect Odd) \in Nat
      /\ Cardinality((gone \union chunk) \intersect Odd) \in Nat
  BY <1>2, FS_CardinalityType, ClientAssumption
<1>8. PICK m \in Nat, k \in Nat, a \in Nat, b \in Nat :
        /\ m = Cardinality(gone \intersect Odd)
        /\ k = Cardinality((gone \union chunk) \intersect Odd)
        /\ a = Cardinality(gone) /\ b = Cardinality(chunk)
  BY <1>7
<1>9. m + 1 <= k /\ a <= ChunkSize * m /\ b <= ChunkSize
  BY <1>3, <1>4, <1>8
<1>10. a + b <= ChunkSize * k
  BY ONLY <1>6, <1>7, <1>9, m \in Nat, k \in Nat, a \in Nat, b \in Nat, Zenon
<1> QED
  BY ONLY <1>5, <1>8, <1>10

LEMMA FlushAccount == ASSUME AccountInv, ClientInv', Flush PROVE AccountInv'
<1>1. /\ done \in [Conn -> Seq(Completion)] /\ pipe \in [Conn -> Seq(Batch)]
      /\ done' \in [Conn -> Seq(Completion)] /\ pipe' \in [Conn -> Seq(Batch)]
      /\ buffer \in Batch /\ current \in Conn \union {NoConn}
      /\ BatchesOK /\ BatchesOK' /\ PipeIsLive
  BY DEF AccountInv, ClientInv, BatchesOK, LinksOK
<1>2. UNCHANGED <<sent, dropped, made>> /\ sent \intersect lost = {} /\ LossBounded
  BY DEF Flush, AccountInv
<1>3. CASE ~(state = "connected" /\ current # NoConn /\ buffer # << >>)
  <2>1. UNCHANGED <<pipe, buffer, done, lost>>
    BY <1>3 DEF Flush
  <2>2. Given' = Given
    BY <2>1 DEF Given
  <2> QED
    BY <1>2, <2>1, <2>2, KeepAccount
<1>4. CASE state = "connected" /\ current # NoConn /\ buffer # << >>
  <2>1. PICK k : k = Chunk(ChunkSize)
    OBVIOUS
  <2>2. k \in 0 .. Len(buffer)
    BY <1>1, <2>1, ClientAssumption DEF Chunk, Batch
  <2>3. PICK c \in Conn : c = current
    BY <1>1, <1>4
  <2>4. PICK front \in Batch : front = FirstOf(buffer, k)
    <3>1. IsInjective(buffer)
      BY DEF AccountInv, Apart
    <3> QED
      BY ONLY <1>1, <2>2, <3>1, SplitBatch
  <2>5. /\ buffer' = Rest(buffer, k)
        /\ \/ /\ Unencodable(front)
              /\ lost' = lost \union ToSet(front)
              /\ pipe' = pipe /\ done' = done
           \/ /\ lost' = lost
              /\ IF Live(c)
                 THEN /\ pipe' = [pipe EXCEPT ![c] = Append(@, front)]
                      /\ done' = done
                 ELSE /\ done' = [done EXCEPT ![c] = @ \o Failures(<<front>>)]
                      /\ pipe' = pipe
    BY <1>4, <2>1, <2>3, <2>4 DEF Flush, FirstOf, Rest
  <2>6. CASE /\ Unencodable(front) /\ lost' = lost \union ToSet(front)
             /\ pipe' = pipe /\ done' = done
    <3>1. /\ IsInjective(buffer) /\ HandedOnce(Given)
          /\ ToSet(buffer) \intersect HandedOf(Given) = {}
          /\ (ToSet(buffer) \union HandedOf(Given)) \intersect Gone = {}
          /\ Held \union Gone \subseteq 1 .. made /\ made \in Nat
      BY DEF AccountInv, Apart, ClientInv, BatchesOK
    <3>2. PICK rest \in Batch :
            /\ rest = Rest(buffer, k) /\ IsInjective(rest) /\ IsInjective(front)
            /\ ToSet(buffer) = ToSet(front) \union ToSet(rest)
            /\ ToSet(front) \intersect ToSet(rest) = {} /\ Len(front) = k
      BY ONLY <1>1, <2>2, <2>4, <3>1, SplitBatch
    <3>3. Given' = Given /\ Gone' = Gone \union ToSet(front) /\ buffer' = rest
      BY <1>2, <2>5, <2>6, <3>2 DEF Given, Gone
    <3>4. Apart(rest, Given, Gone \union ToSet(front))
      BY <3>1, <3>2 DEF Apart
    <3>5. Apart(buffer', Given', Gone')
      BY <3>3, <3>4
    <3>6. ToSet(buffer') \union HandedOf(Given') \union Gone' =
              ToSet(buffer) \union HandedOf(Given) \union Gone
      BY <3>2, <3>3
    <3>7. (sent \intersect lost = {})'
      BY <1>2, <2>6, <3>1, <3>2 DEF Gone
    <3>8. LossBounded'
      <4>1. IsFiniteSet(lost) /\ IsFiniteSet(ToSet(front)) /\ Cardinality(ToSet(front)) = k
        <5>1. lost \in SUBSET (1 .. made) /\ IsFiniteSet(1 .. made)
          BY <3>1, FS_Interval DEF Gone
        <5> QED
          BY <3>2, <5>1, FS_Subset, CountOnce
      <4>2. k <= ChunkSize
        BY <1>1, <2>1, ClientAssumption DEF Chunk, Batch
      <4>3. lost \intersect ToSet(front) = {} /\ ToSet(front) \intersect Odd # {}
        BY <2>6, <3>1, <3>2 DEF Gone, Unencodable
      <4>4. Cardinality(lost \union ToSet(front)) <=
                ChunkSize * Cardinality((lost \union ToSet(front)) \intersect Odd)
        BY <1>2, <4>1, <4>2, <4>3, ChunkLost DEF LossBounded
      <4> QED
        BY <2>6, <4>4 DEF LossBounded
    <3> QED
      BY <1>2, <3>5, <3>6, <3>7, <3>8, MoveAccount
  <2>7. CASE /\ lost' = lost
             /\ IF Live(c)
                THEN /\ pipe' = [pipe EXCEPT ![c] = Append(@, front)]
                     /\ done' = done
                ELSE /\ done' = [done EXCEPT ![c] = @ \o Failures(<<front>>)]
                     /\ pipe' = pipe
    <3>5. /\ Gone' = Gone /\ buffer' = Rest(buffer, k)
          /\ (sent \intersect lost = {})' /\ LossBounded'
          /\ IF Live(c)
             THEN /\ pipe' = [pipe EXCEPT ![c] = Append(@, front)]
                  /\ done' = done
             ELSE /\ done' = [done EXCEPT ![c] = @ \o Failures(<<front>>)]
                  /\ pipe' = pipe
      BY <1>2, <2>5, <2>7 DEF Gone, LossBounded
    <3>6. PICK list \in Seq(Batch) : list = Given[c] /\ Matches(list, done[c], pipe[c])
      BY <1>1, GivenMatches, GivenNow
    <3>7. /\ Matches(Append(list, front), done'[c], pipe'[c])
          /\ \A d \in Conn : d # c => done'[d] = done[d] /\ pipe'[d] = pipe[d]
      <4>1. CASE Live(c)
        <5>1. /\ done'[c] = done[c] /\ pipe'[c] = Append(pipe[c], front)
              /\ \A d \in Conn : d # c => done'[d] = done[d] /\ pipe'[d] = pipe[d]
          BY <1>1, <3>5, <4>1
        <5>2. done[c] \in Seq(Completion) /\ pipe[c] \in Seq(Batch)
          BY <1>1
        <5>3. Matches(Append(list, front), done[c], Append(pipe[c], front))
          BY ONLY <3>6, <5>2, list \in Seq(Batch), front \in Batch, MatchesPiped
        <5> QED
          BY <5>1, <5>3
      <4>2. CASE ~Live(c)
        <5>1. pipe[c] = << >>
          BY <1>1, <4>2 DEF PipeIsLive
        <5>2. Failures(<<front>>) = <<[records |-> front, ok |-> FALSE]>>
          BY OneFailure
        <5>3. done[c] \in Seq(Completion) /\ [records |-> front, ok |-> FALSE] \in Completion
          BY <1>1 DEF Completion
        <5>4. done[c] \o <<[records |-> front, ok |-> FALSE]>> =
                  Append(done[c], [records |-> front, ok |-> FALSE])
          BY <5>3
        <5>5. /\ pipe'[c] = << >>
              /\ done'[c] = Append(done[c], [records |-> front, ok |-> FALSE])
              /\ \A d \in Conn : d # c => done'[d] = done[d] /\ pipe'[d] = pipe[d]
          BY <1>1, <3>5, <4>2, <5>1, <5>2, <5>4
        <5>6. Matches(Append(list, front), Append(done[c], [records |-> front, ok |-> FALSE]), << >>)
          BY ONLY <3>6, <5>1, <5>3, list \in Seq(Batch), front \in Batch, MatchesFailed
        <5> QED
          BY <5>5, <5>6
      <4> QED
        BY <4>1, <4>2
    <3>8. Append(list, front) \in Seq(Batch)
      BY AddLast
    <3>9. Given' = [Given EXCEPT ![c] = Append(list, front)]
      BY ONLY <1>1, <3>7, <3>8, c \in Conn, GivenChanges
    <3>10. PICK given \in [Conn -> Seq(Batch)] : given = Given
      BY <1>1, GivenList, GivenNow
    <3>11. Given' = AddBatch(given, c, front)
      BY <3>6, <3>9, <3>10 DEF AddBatch
    <3>12. Apart(buffer, given, Gone)
      BY <3>10 DEF AccountInv
    <3>13. /\ Apart(Rest(buffer, k), AddBatch(given, c, FirstOf(buffer, k)), Gone)
           /\ ToSet(Rest(buffer, k)) \union HandedOf(AddBatch(given, c, FirstOf(buffer, k))) =
                  ToSet(buffer) \union HandedOf(given)
      BY ONLY <1>1, <2>2, <3>12, c \in Conn, given \in [Conn -> Seq(Batch)], FlushApart
    <3>14. Apart(buffer', Given', Gone')
      BY <1>2, <2>4, <3>5, <3>11, <3>13
    <3>15. ToSet(buffer') \union HandedOf(Given') \union Gone' =
               ToSet(buffer) \union HandedOf(Given) \union Gone
      BY <1>2, <2>4, <3>5, <3>10, <3>11, <3>13
    <3> QED
      BY <1>2, <3>5, <3>14, <3>15, MoveAccount
  <2> QED
    BY <2>5, <2>6, <2>7
<1> QED
  BY <1>3, <1>4

\* send(): the new record is in no place yet, and those over the cap leave the
\* buffer for droppedCount.
LEMMA SendAccount == ASSUME AccountInv, ClientInv', Send PROVE AccountInv'
<1>1. /\ buffer \in Batch /\ made \in Nat /\ dropped \in Nat
      /\ IsInjective(buffer) /\ HandedOnce(Given) /\ ToSet(buffer) \intersect HandedOf(Given) = {}
      /\ (ToSet(buffer) \union HandedOf(Given)) \intersect Gone = {}
      /\ ToSet(buffer) \union HandedOf(Given) \union Gone \subseteq 1 .. made
      /\ Cardinality(ToSet(buffer) \union HandedOf(Given) \union Gone) + dropped = made
  BY DEF AccountInv, ClientInv, BatchesOK, Apart, Held
<1>2. PICK n \in Nat : n = made + 1
  BY <1>1
<1>3. n \notin ToSet(buffer) \union HandedOf(Given) \union Gone
  BY <1>1, <1>2
<1>4. PICK one \in Batch : one = <<n>>
  <2>1. <<n>> \in Seq(Nat)
    OBVIOUS
  <2> QED
    BY <2>1 DEF Batch
<1>5. IsInjective(one) /\ ToSet(one) = {n} /\ Append(buffer, n) = buffer \o one
  BY <1>1, <1>4 DEF IsInjective, ToSet, Batch
<1>6. PICK records \in Batch : records = Append(buffer, n) /\ IsInjective(records)
                            /\ ToSet(records) = ToSet(buffer) \union {n}
  <2>1. ToSet(buffer) \intersect ToSet(one) = {}
    BY <1>3, <1>5
  <2>2. /\ buffer \o one \in Batch /\ IsInjective(buffer \o one)
        /\ ToSet(buffer \o one) = ToSet(buffer) \union ToSet(one)
    BY ONLY <1>1, <1>4, <1>5, <2>1, one \in Batch, JoinApart
  <2> QED
    BY <1>5, <2>2
<1>7. PICK over : over = IF Len(records) > BufferCap THEN Len(records) - BufferCap ELSE 0
  OBVIOUS
<1>8. over \in Nat /\ over \in 0 .. Len(records)
  BY <1>7, ClientAssumption, InBatch
<1>9. /\ buffer' = Rest(records, over) /\ dropped' = dropped + over /\ made' = n
      /\ sent' = sent /\ lost' = lost /\ Gone' = Gone /\ Given' = Given
  BY <1>2, <1>6, <1>7 DEF Send, Rest, Given, Gone, connVars
<1>10. PICK front \in Batch, rest \in Batch :
         /\ front = FirstOf(records, over) /\ rest = Rest(records, over)
         /\ IsInjective(front) /\ IsInjective(rest)
         /\ ToSet(records) = ToSet(front) \union ToSet(rest)
         /\ ToSet(front) \intersect ToSet(rest) = {} /\ Len(front) = over
  BY ONLY <1>6, <1>8, records \in Batch, SplitBatch
<1>11. PICK places : places = ToSet(buffer) \union HandedOf(Given) \union Gone
  OBVIOUS
<1>12. PICK left : left = ToSet(rest) \union HandedOf(Given) \union Gone
  OBVIOUS
<1>13. places \union {n} = left \union ToSet(front) /\ left \intersect ToSet(front) = {}
  BY <1>1, <1>3, <1>6, <1>10, <1>11, <1>12
<1>14. IsFiniteSet(places) /\ n \notin places
  <2>1. places \in SUBSET (1 .. made) /\ IsFiniteSet(1 .. made)
    BY <1>1, <1>11, FS_Interval
  <2> QED
    BY <1>3, <1>11, <2>1, FS_Subset
<1>15. /\ IsFiniteSet(places \union {n}) /\ Cardinality(places \union {n}) = Cardinality(places) + 1
       /\ Cardinality(places) \in Nat
  BY <1>14, FS_AddElement, FS_CardinalityType
<1>16. IsFiniteSet(left) /\ IsFiniteSet(ToSet(front)) /\ Cardinality(ToSet(front)) = over
  <2>1. left \in SUBSET (places \union {n})
    BY <1>13
  <2>2. IsFiniteSet(left)
    BY ONLY <1>15, <2>1, FS_Subset
  <2> QED
    BY <1>10, <2>2, CountOnce
<1>17. Cardinality(left \union ToSet(front)) = Cardinality(left) + over
  <2>1. /\ Cardinality(left \union ToSet(front)) =
               Cardinality(left) + Cardinality(ToSet(front)) - Cardinality(left \intersect ToSet(front))
        /\ Cardinality(left) \in Nat
    BY ONLY <1>16, FS_Union, FS_CardinalityType
  <2>2. Cardinality(left \intersect ToSet(front)) = 0
    BY <1>13, FS_EmptySet
  <2> QED
    BY ONLY <1>8, <1>16, <2>1, <2>2
<1>18. Cardinality(left) + dropped' = made'
  <2>1. Cardinality(left) \in Nat
    BY <1>16, FS_CardinalityType
  <2>2. Cardinality(places) + 1 = Cardinality(left) + over
    BY <1>13, <1>15, <1>17
  <2>3. Cardinality(places) + dropped = made
    BY <1>1, <1>11
  <2> QED
    BY ONLY <1>1, <1>2, <1>8, <1>9, <1>15, <2>1, <2>2, <2>3
<1>19. Apart(buffer', Given', Gone')
  BY <1>1, <1>3, <1>6, <1>9, <1>10 DEF Apart
<1>20. left \subseteq 1 .. made' /\ dropped' \in Nat
  <2>1. n \in 1 .. made' /\ \A m \in 1 .. made : m \in 1 .. made'
    BY <1>1, <1>2, <1>9
  <2> QED
    BY <1>1, <1>8, <1>9, <1>11, <1>13, <2>1
<1>21. (Held \union Gone)' = left
  BY <1>9, <1>10, <1>12 DEF Held
<1>22. Apart(buffer, Given, Gone)'
  BY <1>19 DEF Apart, HandedOnce, HandedOf
<1>23. (sent \intersect lost = {})' /\ LossBounded'
  BY <1>9 DEF AccountInv, LossBounded
<1> QED
  BY <1>18, <1>20, <1>21, <1>22, <1>23 DEF AccountInv

LEMMA AccountStep == AccountInv /\ [Next]_vars => AccountInv'
<1> SUFFICES ASSUME AccountInv, [Next]_vars PROVE AccountInv'
  OBVIOUS
<1>1. ClientInv'
  BY ClientStep DEF AccountInv
<1>2. CASE Connect
  BY <1>1, <1>2, RestartAccount DEF Connect, bufferVars
<1>3. CASE Stop
  <2>1. UNCHANGED <<buffer, sent, lost, dropped, made>>
    BY <1>3 DEF Stop, bufferVars
  <2>2. CASE current # NoConn
    <3>1. current \in Conn /\ EndLink(current, "cancelled")
      BY <1>3, <2>2 DEF Stop, AccountInv, ClientInv, LinksOK
    <3> QED
      BY <1>1, <2>1, <3>1, EndLinkAccount
  <2>3. CASE current = NoConn
    <3>1. Given' = Given
      BY <1>3, <2>3 DEF Stop, Given
    <3> QED
      BY <1>1, <2>1, <3>1, KeepAccount
  <2> QED
    BY <2>2, <2>3
<1>4. CASE Send
  BY <1>1, <1>4, SendAccount
<1>5. CASE Flush
  BY <1>1, <1>5, FlushAccount
<1>6. ASSUME UNCHANGED <<buffer, sent, lost, dropped, made, pipe, done>> PROVE AccountInv'
  <2>1. Given' = Given
    BY <1>6 DEF Given
  <2> QED
    BY <1>1, <1>6, <2>1, KeepAccount
<1>7. CASE Timer
  <2>1. CASE state = "waiting"
    BY <1>1, <1>7, <2>1, RestartAccount DEF Timer, bufferVars
  <2>2. CASE state # "waiting"
    BY <1>6, <1>7, <2>2 DEF Timer, bufferVars, connVars
  <2> QED
    BY <2>1, <2>2
<1>8. CASE Ping
  BY <1>6, <1>8 DEF Ping, bufferVars
<1>9. ASSUME NEW c \in Conn, Completed(c) PROVE AccountInv'
  BY <1>1, <1>9, CompletedAccount
<1>10. ASSUME NEW c \in Conn, Update(c) \/ Received(c) \/ Pinged(c) \/ Establish(c) \/ NoRoute(c)
       PROVE  AccountInv'
  BY <1>6, <1>10 DEF Update, Received, Pinged, Establish, NoRoute, ClientFrame, bufferVars
<1>11. ASSUME NEW c \in Conn, Break(c) PROVE AccountInv'
  BY <1>1, <1>11, EndLinkAccount DEF Break, ClientFrame, bufferVars
<1>12. ASSUME NEW c \in Conn, Process(c) PROVE AccountInv'
  BY <1>1, <1>12, ProcessAccount
<1>13. CASE UNCHANGED vars
  BY <1>6, <1>13 DEF vars, bufferVars, connVars
<1> QED
  BY <1>2, <1>3, <1>4, <1>5, <1>7, <1>8, <1>9, <1>10, <1>11, <1>12, <1>13 DEF Next, Callback

\* A record that was logged is in exactly one place: the buffer, a connection's
\* hands, sentCount or droppedCount, through failed batches put back, connections
\* replaced under them and late reports (send, flush and its completion in
\* LogStreamClient.swift).  The one way out that no counter shows is a chunk that
\* cannot be encoded (LogStreamClient.swift:196), which takes at most ChunkSize
\* records for each record JSON cannot hold.
THEOREM EachRecordInOnePlace == Spec => []EveryRecordAccounted
<1>1. AccountInv => EveryRecordAccounted
  <2> SUFFICES ASSUME AccountInv PROVE EveryRecordAccounted
    OBVIOUS
  <2>1. Held \union Gone = Held \union sent \union lost
    BY DEF Gone
  <2> QED
    BY <2>1 DEF AccountInv, Apart, LossBounded, Gone, EveryRecordAccounted, Held
<1>2. Init => AccountInv
  BY AccountInit
<1>3. AccountInv /\ [Next]_vars => AccountInv'
  BY AccountStep
<1>4. Spec => Init /\ [][Next]_vars
  BY PTL DEF Spec
<1> QED
  BY <1>1, <1>2, <1>3, <1>4, PTL
-----------------------------------------------------------------------------
(* The types *)

\* No batch is empty, or longer than a chunk while it waits to be processed.
Fits(batches) == \A i \in 1 .. Len(batches) : batches[i] # << >> /\ Len(batches[i]) <= ChunkSize
Filled(reports) == \A i \in 1 .. Len(reports) : reports[i].records # << >>

\* What the invariants above leave open of the type.
FlagsOK ==
    /\ state \in {"idle", "connecting", "connected", "waiting"}
    /\ timers \in 0 .. MaxTimers
    /\ flushScheduled \in BOOLEAN
    /\ made <= MaxRecords
    /\ receiving \subseteq Conn /\ pinging \subseteq Conn /\ greeted \subseteq Conn
    /\ \A c \in Conn : Fits(pipe[c]) /\ Filled(done[c])

LEMMA NothingFits == Fits(<< >>) /\ Filled(<< >>)
  BY DEF Fits, Filled

LEMMA FilledJoin ==
    ASSUME NEW s \in Seq(Completion), NEW t \in Seq(Completion), Filled(s), Filled(t)
    PROVE  Filled(s \o t)
<1>1. /\ Len(s \o t) = Len(s) + Len(t) /\ Len(s) \in Nat /\ Len(t) \in Nat
      /\ \A i \in 1 .. Len(s) : (s \o t)[i] = s[i]
      /\ \A i \in 1 .. Len(t) : (s \o t)[Len(s) + i] = t[i]
  BY JoinLists, LenProperties
<1> SUFFICES ASSUME NEW i \in 1 .. Len(s \o t) PROVE (s \o t)[i].records # << >>
  BY DEF Filled
<1>2. CASE i \in 1 .. Len(s)
  BY <1>1, <1>2 DEF Filled
<1>3. CASE i \notin 1 .. Len(s)
  <2>1. i - Len(s) \in 1 .. Len(t) /\ Len(s) + (i - Len(s)) = i
    BY <1>1, <1>3
  <2>2. (s \o t)[i] = t[i - Len(s)]
    BY <1>1, <2>1
  <2> QED
    BY <2>1, <2>2 DEF Filled
<1> QED
  BY <1>2, <1>3

LEMMA FilledFailures ==
    ASSUME NEW batches \in Seq(Batch), Fits(batches) PROVE Filled(Failures(batches))
<1>1. /\ Len(batches) \in Nat /\ Len(Failures(batches)) = Len(batches)
      /\ \A i \in 1 .. Len(batches) : Failures(batches)[i].records = batches[i]
  BY DEF Failures
<1> QED
  BY <1>1 DEF Fits, Filled

\* What a connection that ends makes of its batches.
LEMMA EndFits ==
    ASSUME ClientInv, FlagsOK, NEW c \in Conn,
           pipe' = [pipe EXCEPT ![c] = << >>],
           done' = [done EXCEPT ![c] = @ \o Failures(pipe[c])]
    PROVE  \A d \in Conn : Fits(pipe'[d]) /\ Filled(done'[d])
<1>1. /\ pipe \in [Conn -> Seq(Batch)] /\ done \in [Conn -> Seq(Completion)]
      /\ Fits(pipe[c]) /\ Filled(done[c])
  BY DEF ClientInv, BatchesOK, FlagsOK
<1>2. pipe[c] \in Seq(Batch) /\ done[c] \in Seq(Completion)
  BY <1>1
<1>3. Failures(pipe[c]) \in Seq(Completion) /\ Filled(Failures(pipe[c]))
  BY <1>1, <1>2, FailuresType, FilledFailures
<1>4. Filled(done[c] \o Failures(pipe[c]))
  BY <1>1, <1>2, <1>3, FilledJoin
<1>5. \A d \in Conn : /\ pipe'[d] = IF d = c THEN << >> ELSE pipe[d]
                      /\ done'[d] = IF d = c THEN done[c] \o Failures(pipe[c]) ELSE done[d]
  BY <1>1
<1> QED
  BY <1>4, <1>5, NothingFits DEF FlagsOK

LEMMA FlushFits == ASSUME ClientInv, FlagsOK, Flush PROVE FlagsOK'
<1> DEFINE k == Chunk(ChunkSize)
           batch == SubSeq(buffer, 1, k)
<1>1. /\ UNCHANGED <<state, timers, made, receiving, pinging, greeted>>
      /\ flushScheduled' = FALSE
  BY DEF Flush
<1>2. /\ pipe \in [Conn -> Seq(Batch)] /\ done \in [Conn -> Seq(Completion)]
      /\ buffer \in Seq(Nat) /\ current \in Conn \union {NoConn}
  BY DEF ClientInv, BatchesOK, LinksOK, Batch
<1>3. CASE current # NoConn /\ buffer # << >> /\ state = "connected"
  <2>1. /\ \/ pipe' = [pipe EXCEPT ![current] = Append(@, batch)] /\ done' = done
           \/ pipe' = pipe /\ done' = [done EXCEPT ![current] = @ \o Failures(<<batch>>)]
           \/ pipe' = pipe /\ done' = done
        /\ current \in Conn
    BY <1>2, <1>3 DEF Flush
  <2>2. k \in 1 .. Len(buffer) /\ k <= ChunkSize
    BY <1>2, <1>3, ClientAssumption DEF Chunk
  <2>3. batch \in Seq(Nat) /\ Len(batch) = k /\ Len(batch) # 0
    BY <1>2, <2>2
  <2>4. batch \in Batch /\ batch # << >> /\ Len(batch) <= ChunkSize
    BY <2>2, <2>3 DEF Batch
  <2> HIDE DEF batch, k
  <2>5. CASE pipe' = [pipe EXCEPT ![current] = Append(@, batch)] /\ done' = done
    <3>1. pipe[current] \in Seq(Batch) /\ Fits(pipe[current])
      BY <1>2, <2>1 DEF FlagsOK
    <3>2. /\ Len(Append(pipe[current], batch)) = Len(pipe[current]) + 1
          /\ Append(pipe[current], batch)[Len(pipe[current]) + 1] = batch
          /\ \A i \in 1 .. Len(pipe[current]) : Append(pipe[current], batch)[i] = pipe[current][i]
          /\ Len(pipe[current]) \in Nat
      BY <2>4, <3>1
    <3>3. \A i \in 1 .. Len(pipe[current]) + 1 : i \in 1 .. Len(pipe[current]) \/ i = Len(pipe[current]) + 1
      BY <3>2
    <3>4. Fits(Append(pipe[current], batch))
      BY <2>4, <3>1, <3>2, <3>3 DEF Fits
    <3>5. \A d \in Conn : Fits(pipe'[d])
      BY <1>2, <2>5, <3>4 DEF FlagsOK
    <3> QED
      BY <1>1, <2>5, <3>5 DEF FlagsOK
  <2>6. CASE pipe' = pipe /\ done' = [done EXCEPT ![current] = @ \o Failures(<<batch>>)]
    <3>1. << batch >> \in Seq(Batch) /\ Fits(<< batch >>)
      BY <2>4 DEF Fits
    <3>2. Failures(<< batch >>) \in Seq(Completion) /\ Filled(Failures(<< batch >>))
      BY <3>1, FailuresType, FilledFailures
    <3>3. done[current] \in Seq(Completion) /\ Filled(done[current])
      BY <1>2, <2>1 DEF FlagsOK
    <3>4. Filled(done[current] \o Failures(<< batch >>))
      BY <3>2, <3>3, FilledJoin
    <3>5. \A d \in Conn : Filled(done'[d])
      BY <1>2, <2>6, <3>4 DEF FlagsOK
    <3> QED
      BY <1>1, <2>6, <3>5 DEF FlagsOK
  <2>7. CASE pipe' = pipe /\ done' = done
    BY <1>1, <2>7 DEF FlagsOK
  <2> QED
    BY <2>1, <2>5, <2>6, <2>7 DEF batch, k
<1>4. CASE ~(current # NoConn /\ buffer # << >> /\ state = "connected")
  <2>1. pipe' = pipe /\ done' = done
    BY <1>4 DEF Flush
  <2> QED
    BY <1>1, <2>1 DEF FlagsOK
<1> QED
  BY <1>3, <1>4

LEMMA ReportFits ==
    ASSUME ClientInv, FlagsOK, NEW c \in Conn, Completed(c) \/ Process(c) PROVE FlagsOK'
<1>1. /\ pipe \in [Conn -> Seq(Batch)] /\ done \in [Conn -> Seq(Completion)]
      /\ Fits(pipe[c]) /\ Filled(done[c])
  BY DEF ClientInv, BatchesOK, FlagsOK
<1>2. pipe[c] \in Seq(Batch) /\ done[c] \in Seq(Completion)
  BY <1>1
<1>3. CASE Completed(c)
  <2>1. /\ UNCHANGED <<made, pipe, receiving, pinging, greeted>>
        /\ done[c] # << >> /\ done' = [done EXCEPT ![c] = Tail(@)]
        /\ (state' = state /\ timers' = timers) \/ LoseConnection
        /\ flushScheduled' \in BOOLEAN
    BY <1>3 DEF Completed, FlagsOK
  <2>2. state' \in {"idle", "connecting", "connected", "waiting"} /\ timers' \in 0 .. MaxTimers
    BY <2>1, ClientAssumption DEF LoseConnection, FlagsOK
  <2>3. Filled(Tail(done[c]))
    <3>1. /\ Len(done[c]) \in Nat /\ Len(Tail(done[c])) = Len(done[c]) - 1
          /\ \A i \in 1 .. Len(done[c]) - 1 : Tail(done[c])[i] = done[c][i + 1]
      BY <1>2, <2>1
    <3>2. \A i \in 1 .. Len(done[c]) - 1 : i + 1 \in 1 .. Len(done[c])
      BY <3>1
    <3> QED
      BY <1>1, <3>1, <3>2 DEF Filled
  <2>4. \A d \in Conn : Filled(done'[d])
    BY <1>1, <2>1, <2>3 DEF FlagsOK
  <2> QED
    BY <2>1, <2>2, <2>4 DEF FlagsOK
<1>4. CASE Process(c)
  <2> DEFINE report == [records |-> Head(pipe[c]), ok |-> TRUE]
  <2>1. /\ UNCHANGED <<state, timers, flushScheduled, made, receiving, pinging, greeted>>
        /\ pipe[c] # << >> /\ pipe' = [pipe EXCEPT ![c] = Tail(@)]
        /\ done' = [done EXCEPT ![c] = Append(@, report)]
    BY <1>4 DEF Process, ClientFrame, bufferVars
  <2>2. Head(pipe[c]) \in Batch /\ Head(pipe[c]) # << >>
    BY <1>1, <1>2, <2>1 DEF Fits
  <2>3. Fits(Tail(pipe[c]))
    BY <1>1, <1>2, <2>1 DEF Fits
  <2>4. report \in Completion /\ report.records # << >>
    BY <2>2 DEF Completion
  <2> HIDE DEF report
  <2>5. /\ Len(Append(done[c], report)) = Len(done[c]) + 1 /\ Len(done[c]) \in Nat
        /\ Append(done[c], report)[Len(done[c]) + 1] = report
        /\ \A i \in 1 .. Len(done[c]) : Append(done[c], report)[i] = done[c][i]
    BY <1>2, <2>4
  <2>6. \A i \in 1 .. Len(done[c]) + 1 : i \in 1 .. Len(done[c]) \/ i = Len(done[c]) + 1
    BY <2>5
  <2>7. Filled(Append(done[c], report))
    BY <1>1, <2>4, <2>5, <2>6 DEF Filled
  <2>8. \A d \in Conn : Fits(pipe'[d]) /\ Filled(done'[d])
    BY <1>1, <2>1, <2>3, <2>7 DEF FlagsOK
  <2> QED
    BY <2>1, <2>8 DEF FlagsOK
<1> QED
  BY <1>3, <1>4

LEMMA RestartFits ==
    ASSUME ClientInv, FlagsOK, Restart
    PROVE  /\ state' = "connecting" /\ UNCHANGED <<receiving, pinging>> /\ greeted' \subseteq greeted
           /\ \A d \in Conn : Fits(pipe'[d]) /\ Filled(done'[d])
<1>1. /\ state' = "connecting" /\ UNCHANGED <<receiving, pinging>> /\ greeted' \subseteq greeted
      /\ \/ UNCHANGED <<pipe, done>>
         \/ /\ current # NoConn
            /\ pipe' = [pipe EXCEPT ![current] = << >>]
            /\ done' = [done EXCEPT ![current] = @ \o Failures(pipe[current])]
  BY DEF Restart, ConnFrame
<1>2. CASE UNCHANGED <<pipe, done>>
  BY <1>1, <1>2 DEF FlagsOK
<1>3. CASE ~UNCHANGED <<pipe, done>>
  <2>1. current \in Conn
    BY <1>1, <1>3 DEF ClientInv, LinksOK
  <2> QED
    BY <1>1, <1>3, <2>1, EndFits
<1> QED
  BY <1>2, <1>3

LEMMA FlagsStep == ClientInv /\ FlagsOK /\ [Next]_vars => FlagsOK'
<1> SUFFICES ASSUME ClientInv, FlagsOK, [Next]_vars PROVE FlagsOK'
  OBVIOUS
<1> USE ClientAssumption
<1>0. /\ timers \in Nat /\ made \in Nat /\ MaxTimers \in Nat /\ current \in Conn \union {NoConn}
  BY DEF FlagsOK, ClientInv, BatchesOK, LinksOK
<1>1. CASE Connect
  BY <1>1, RestartFits DEF Connect, bufferVars, FlagsOK
<1>2. CASE Stop
  <2>1. /\ state' = "idle" /\ UNCHANGED <<timers, flushScheduled, made, receiving, pinging, greeted>>
    BY <1>2 DEF Stop, bufferVars
  <2>2. \A d \in Conn : Fits(pipe'[d]) /\ Filled(done'[d])
    <3>1. CASE current = NoConn
      BY <1>2, <3>1 DEF Stop, FlagsOK
    <3>2. CASE current # NoConn
      <4>1. EndLink(current, "cancelled") /\ current \in Conn
        BY <1>0, <1>2, <3>2 DEF Stop
      <4> QED
        BY <4>1, EndFits DEF EndLink
    <3> QED
      BY <3>1, <3>2
  <2> QED
    BY <2>1, <2>2 DEF FlagsOK
<1>3. CASE Send
  BY <1>0, <1>3 DEF Send, connVars, FlagsOK
<1>4. CASE Flush
  BY <1>4, FlushFits
<1>5. CASE Timer
  <2>1. timers' \in 0 .. MaxTimers
    BY <1>0, <1>5 DEF Timer, FlagsOK
  <2>2. CASE state = "waiting"
    BY <1>5, <2>1, <2>2, RestartFits DEF Timer, bufferVars, FlagsOK
  <2>3. CASE state # "waiting"
    BY <1>5, <2>1, <2>3 DEF Timer, bufferVars, connVars, FlagsOK
  <2> QED
    BY <2>2, <2>3
<1>6. CASE Ping
  BY <1>0, <1>6 DEF Ping, bufferVars, FlagsOK
<1>7. ASSUME NEW c \in Conn, Completed(c) \/ Process(c) PROVE FlagsOK'
  BY <1>7, ReportFits
<1>8. ASSUME NEW c \in Conn, Update(c) \/ Received(c) \/ Pinged(c) PROVE FlagsOK'
  <2>1. UNCHANGED <<made, pipe, done>>
    BY <1>8 DEF Update, Received, Pinged, bufferVars
  <2>2. timers' \in 0 .. MaxTimers
    BY <1>0, <1>8 DEF Update, Ready, Received, Pinged, LoseConnection, FlagsOK
  <2>3. /\ state' \in {"idle", "connecting", "connected", "waiting"}
        /\ flushScheduled' \in BOOLEAN
    BY <1>8 DEF Update, Ready, Received, Pinged, LoseConnection, bufferVars, FlagsOK
  <2>4. receiving' \subseteq Conn /\ pinging' \subseteq Conn /\ greeted' \subseteq Conn
    BY <1>0, <1>8 DEF Update, Ready, Received, Pinged, FlagsOK
  <2> QED
    BY <2>1, <2>2, <2>3, <2>4 DEF FlagsOK
<1>9. ASSUME NEW c \in Conn, Establish(c) \/ NoRoute(c) PROVE FlagsOK'
  BY <1>9 DEF Establish, NoRoute, ClientFrame, bufferVars, FlagsOK
<1>10. ASSUME NEW c \in Conn, Break(c) PROVE FlagsOK'
  BY <1>10, EndFits DEF Break, EndLink, ClientFrame, bufferVars, FlagsOK
<1>11. CASE UNCHANGED vars
  BY <1>11 DEF vars, bufferVars, connVars, FlagsOK
<1> QED
  BY <1>1, <1>2, <1>3, <1>4, <1>5, <1>6, <1>7, <1>8, <1>9, <1>10, <1>11 DEF Next, Callback

\* What is in the buffer or in hand was logged.
LEMMA RecordsLogged ==
    ASSUME AccountInv, FlagsOK
    PROVE  /\ buffer \in Seq(Record) /\ sent \subseteq Record /\ lost \subseteq Record
           /\ \A c \in Conn : \A i \in 1 .. Len(pipe[c]) : pipe[c][i] \in Seq(Record)
<1> USE ClientAssumption
<1>1. /\ made \in Nat /\ made <= MaxRecords /\ Held \union Gone \subseteq 1 .. made
      /\ buffer \in Seq(Nat) /\ pipe \in [Conn -> Seq(Batch)] /\ done \in [Conn -> Seq(Completion)]
  BY DEF AccountInv, ClientInv, BatchesOK, FlagsOK, Batch
<1>2. Held \union Gone \subseteq Record
  BY <1>1 DEF Record
<1>3. ASSUME NEW s \in Seq(Nat), ToSet(s) \subseteq Record PROVE s \in Seq(Record)
  <2>1. \A i \in 1 .. Len(s) : s[i] \in Record
    BY <1>3 DEF ToSet
  <2> QED
    BY <2>1
<1>4. buffer \in Seq(Record) /\ sent \subseteq Record /\ lost \subseteq Record
  BY <1>1, <1>2, <1>3 DEF Held, Gone
<1>5. ASSUME NEW c \in Conn, NEW i \in 1 .. Len(pipe[c]) PROVE pipe[c][i] \in Seq(Record)
  <2>1. /\ Given \in [Conn -> Seq(Batch)] /\ Len(Given[c]) = Len(done[c]) + Len(pipe[c])
        /\ Given[c][Len(done[c]) + i] = pipe[c][i]
    <3>1. Given = GivenOf(done, pipe)
      BY GivenNow
    <3>2. done \in [Conn -> Seq(Completion)] /\ pipe \in [Conn -> Seq(Batch)]
      BY <1>1
    <3>3. /\ GivenOf(done, pipe) \in [Conn -> Seq(Batch)]
          /\ \A d \in Conn :
               /\ Len(GivenOf(done, pipe)[d]) = Len(done[d]) + Len(pipe[d])
               /\ \A b \in 1 .. Len(pipe[d]) : GivenOf(done, pipe)[d][Len(done[d]) + b] = pipe[d][b]
      BY ONLY <3>2, GivenList
    <3> QED
      BY ONLY <1>5, <3>1, <3>3
  <2>2. /\ Len(done[c]) \in Nat /\ Len(pipe[c]) \in Nat /\ pipe[c][i] \in Seq(Nat)
    <3>1. done[c] \in Seq(Completion) /\ pipe[c] \in Seq(Batch)
      BY <1>1
    <3>2. Len(done[c]) \in Nat /\ Len(pipe[c]) \in Nat
      BY <3>1, LenProperties
    <3>3. pipe[c][i] \in Batch
      BY <3>1
    <3> QED
      BY <3>2, <3>3 DEF Batch
  <2>3. Len(done[c]) + i \in 1 .. Len(Given[c])
    <3>1. \A a, m \in Nat : \A k \in 1 .. m : a + k \in 1 .. a + m
      OBVIOUS
    <3>2. Len(done[c]) + i \in 1 .. Len(done[c]) + Len(pipe[c])
      BY ONLY <1>5, <2>2, <3>1, Zenon
    <3>3. Len(Given[c]) = Len(done[c]) + Len(pipe[c])
      BY <2>1
    <3> QED
      BY ONLY <3>2, <3>3, Zenon
  <2>4. ASSUME NEW j \in 1 .. Len(pipe[c][i]) PROVE pipe[c][i][j] \in Record
    <3>1. At(Given, c, Len(done[c]) + i, j, pipe[c][i][j])
      BY <2>1, <2>3 DEF At
    <3>2. pipe[c][i][j] \in HandedOf(Given)
      BY <2>1, <3>1, HandedMeans, Zenon
    <3> QED
      BY <1>2, <3>2 DEF Held
  <2> QED
    BY <2>2, <2>4
<1> QED
  BY <1>4, <1>5

\* The state of the client keeps its type: no batch is empty or longer than a
\* chunk, and no more records are dropped than were logged.
THEOREM ClientTypeCorrect == Spec => []ClientTypeOK
<1>1. Spec => Init /\ [][Next]_vars
  BY PTL DEF Spec
<1>2. ASSUME Init PROVE FlagsOK
  <2>1. timers \in 0 .. MaxTimers /\ made <= MaxRecords
    BY <1>2, ClientAssumption DEF Init
  <2>2. flushScheduled \in BOOLEAN
    BY <1>2 DEF Init
  <2>3. \A c \in Conn : Fits(pipe[c]) /\ Filled(done[c])
    BY <1>2, NothingFits DEF Init
  <2> QED
    BY <1>2, <2>1, <2>2, <2>3 DEF Init, FlagsOK
<1>3. Init => AccountInv
  BY AccountInit
<1>4. AccountInv => ClientInv
  BY DEF AccountInv
<1>5. AccountInv /\ FlagsOK => ClientTypeOK
  <2> SUFFICES ASSUME AccountInv, FlagsOK PROVE ClientTypeOK
    OBVIOUS
  <2>1. /\ buffer \in Seq(Record) /\ sent \subseteq Record /\ lost \subseteq Record
        /\ \A c \in Conn : \A i \in 1 .. Len(pipe[c]) : pipe[c][i] \in Seq(Record)
    BY RecordsLogged
  <2>2. dropped \in 0 .. MaxRecords /\ made \in 0 .. MaxRecords
    <3>1. made \in Nat /\ made <= MaxRecords /\ dropped \in Nat /\ MaxRecords \in Nat
      BY ClientAssumption DEF AccountInv, ClientInv, BatchesOK, FlagsOK
    <3>2. IsFiniteSet(1 .. made)
      BY <3>1, FS_Interval
    <3>3. Cardinality(Held \union Gone) \in Nat
      BY <3>2, FS_Subset, FS_CardinalityType DEF AccountInv
    <3>4. Cardinality(Held \union Gone) + dropped = made
      BY DEF AccountInv
    <3> QED
      BY <3>1, <3>3, <3>4
  <2>3. /\ current \in Conn \union {NoConn}
        /\ link \in [Conn -> {"unused", "preparing", "ready", "failed", "cancelled"}]
        /\ updates \in [Conn -> Seq({"ready", "waiting", "failed", "cancelled"})]
        /\ pipe \in [Conn -> Seq(Batch)] /\ done \in [Conn -> Seq(Completion)]
    BY DEF AccountInv, ClientInv, LinksOK, BatchesOK
  <2>4. ASSUME NEW c \in Conn
        PROVE  /\ link[c] \in {"unused", "preparing", "ready", "failed", "cancelled"}
               /\ \A i \in DOMAIN updates[c] : updates[c][i] \in {"ready", "waiting", "failed", "cancelled"}
               /\ \A i \in DOMAIN pipe[c] : pipe[c][i] \in Seq(Record) /\ Len(pipe[c][i]) <= ChunkSize
               /\ \A i \in DOMAIN done[c] : done[c][i].records # << >>
    <3>1. /\ DOMAIN updates[c] = 1 .. Len(updates[c]) /\ DOMAIN pipe[c] = 1 .. Len(pipe[c])
          /\ DOMAIN done[c] = 1 .. Len(done[c])
          /\ updates[c] \in Seq({"ready", "waiting", "failed", "cancelled"})
      BY <2>3
    <3>2. Fits(pipe[c]) /\ Filled(done[c])
      BY DEF FlagsOK
    <3>3. \A i \in 1 .. Len(updates[c]) : updates[c][i] \in {"ready", "waiting", "failed", "cancelled"}
      BY <3>1
    <3> QED
      BY <2>1, <2>3, <3>1, <3>2, <3>3 DEF Fits, Filled
  <2> QED
    BY <2>1, <2>2, <2>3, <2>4 DEF ClientTypeOK, FlagsOK
<1> QED
  BY <1>1, <1>2, <1>3, <1>4, <1>5, FlagsStep, AccountStep, PTL

-----------------------------------------------------------------------------
(* Nothing to wake it: the safety part of Reconnects *)

\* "No route for now" is the last word of no connection but the one being
\* attempted: every other one has ended, and has reported that last.
WaitingIsFollowed ==
    \A c \in Conn : updates[c] # << >> =>
        updates[c][Len(updates[c])] # "waiting" \/ (c = current /\ link[c] = "preparing")

WakeInv == ClientInv /\ timers \in Nat /\ WaitingIsFollowed /\ NeverStranded

LEMMA LoseConnectionWakes ==
    ASSUME timers \in Nat, LoseConnection
    PROVE  state' = "waiting" /\ timers' \in Nat /\ timers' > 0
  BY ClientAssumption DEF LoseConnection

\* A step that leaves the connections and their reports as they are.
LEMMA KeepWake ==
    ASSUME WakeInv, ClientInv', UNCHANGED <<current, link, updates>>,
           \/ timers' = timers /\ state' \in {state, "connected", "idle"}
           \/ LoseConnection
           \/ timers' \in Nat /\ state' = state /\ state # "waiting"
    PROVE  WakeInv'
<1>1. timers' \in Nat
  BY LoseConnectionWakes DEF WakeInv
<1>2. WaitingIsFollowed'
  BY DEF WakeInv, WaitingIsFollowed
<1>3. /\ Attempting' <=> Attempting
      /\ \A c \in Conn : Decisive(c)' <=> Decisive(c)
  BY DEF Attempting, Decisive
<1>4. NeverStranded'
  BY <1>3, LoseConnectionWakes DEF WakeInv, NeverStranded
<1> QED
  BY <1>1, <1>2, <1>4 DEF WakeInv

\* What a connection reports last.
LEMMA OneMoreReport ==
    ASSUME LinksOK, NEW c \in Conn, NEW report \in {"ready", "waiting", "failed", "cancelled"},
           updates' = [updates EXCEPT ![c] = Append(@, report)]
    PROVE  /\ updates'[c] # << >> /\ updates'[c][Len(updates'[c])] = report
           /\ \A d \in Conn : d # c => updates'[d] = updates[d]
           /\ \A d \in Conn : Decisive(d) => Decisive(d)'
           /\ report # "waiting" => Decisive(c)'
<1>1. PICK s \in Seq({"ready", "waiting", "failed", "cancelled"}) : s = updates[c]
  BY DEF LinksOK
<1>2. Len(s) \in Nat /\ DOMAIN s = 1 .. Len(s)
  BY <1>1
<1>3. /\ Append(s, report) # << >> /\ Len(Append(s, report)) = Len(s) + 1
      /\ DOMAIN Append(s, report) = 1 .. Len(s) + 1
      /\ Append(s, report)[Len(s) + 1] = report
      /\ \A i \in 1 .. Len(s) : Append(s, report)[i] = s[i]
  BY <1>1
<1>4. updates'[c] = Append(s, report) /\ \A d \in Conn : d # c => updates'[d] = updates[d]
  BY <1>1 DEF LinksOK
<1>5. \A i \in 1 .. Len(s) : i \in 1 .. Len(s) + 1
  BY <1>2
<1>6. Decisive(c) => Decisive(c)'
  BY <1>1, <1>2, <1>3, <1>4, <1>5 DEF Decisive
<1>7. \A d \in Conn : Decisive(d) => Decisive(d)'
  BY <1>4, <1>6 DEF Decisive
<1>8. report # "waiting" => Decisive(c)'
  <2>1. Len(s) + 1 \in 1 .. Len(s) + 1
    BY <1>2
  <2> QED
    BY <1>3, <1>4, <2>1 DEF Decisive
<1> QED
  BY <1>3, <1>4, <1>7, <1>8

\* A connection that ends wakes the client by its last report.
LEMMA EndLinkWake ==
    ASSUME WakeInv, ClientInv', NEW c \in Conn, NEW how \in {"failed", "cancelled"},
           EndLink(c, how), timers' = timers,
           \/ UNCHANGED <<current, state>>
           \/ c = current /\ current' = NoConn /\ state' = "idle"
    PROVE  WakeInv'
<1>1. LinksOK /\ updates' = [updates EXCEPT ![c] = Append(@, how)] /\ link' = [link EXCEPT ![c] = how]
  BY DEF WakeInv, ClientInv, EndLink
<1>2. /\ updates'[c][Len(updates'[c])] = how
      /\ \A d \in Conn : d # c => updates'[d] = updates[d]
      /\ Decisive(c)'
  BY <1>1, OneMoreReport
<1>3. \A d \in Conn : d # c => link'[d] = link[d]
  BY <1>1 DEF LinksOK
<1>4. WaitingIsFollowed'
  BY <1>2, <1>3 DEF WakeInv, WaitingIsFollowed
<1>5. NeverStranded'
  BY <1>2 DEF NeverStranded
<1> QED
  BY <1>4, <1>5 DEF WakeInv

\* restart() makes an attempt, and the connection it replaces reports its end.
LEMMA RestartWake ==
    ASSUME WakeInv, ClientInv', Restart, timers' \in Nat
    PROVE  WakeInv'
<1>1. PICK new \in Conn :
        /\ Spare(new)
        /\ IF current # NoConn /\ link[current] # "cancelled"
           THEN /\ link' = [link EXCEPT ![current] = "cancelled", ![new] = "preparing"]
                /\ updates' = [updates EXCEPT ![current] = Append(@, "cancelled")]
           ELSE /\ link' = [link EXCEPT ![new] = "preparing"]
                /\ UNCHANGED updates
        /\ current' = new /\ state' = "connecting"
  BY DEF Restart
<1>2. LinksOK /\ WaitingIsFollowed
  BY DEF WakeInv, ClientInv
<1>3. link'[new] = "preparing" /\ current' # NoConn /\ new # current
  BY <1>1, <1>2, ClientAssumption DEF LinksOK, Spare
<1>4. NeverStranded'
  BY <1>1, <1>3 DEF NeverStranded, Attempting
<1>5. \A d \in Conn : d # current => updates'[d] = updates[d]
  BY <1>1, <1>2 DEF LinksOK
<1>6. ASSUME NEW d \in Conn, updates'[d] # << >>, d # new
      PROVE  updates'[d][Len(updates'[d])] # "waiting"
  <2>1. CASE d # current
    BY <1>2, <1>5, <1>6, <2>1 DEF WaitingIsFollowed
  <2>2. CASE d = current /\ link[current] # "cancelled"
    <3>1. current # NoConn
      BY <2>2, ClientAssumption
    <3>2. updates' = [updates EXCEPT ![d] = Append(@, "cancelled")]
      BY <1>1, <2>2, <3>1
    <3> QED
      BY <1>2, <3>2, OneMoreReport
  <2>3. CASE d = current /\ link[current] = "cancelled"
    <3>1. updates' = updates
      BY <1>1, <2>3
    <3> QED
      BY <1>2, <1>6, <2>3, <3>1 DEF WaitingIsFollowed
  <2> QED
    BY <2>1, <2>2, <2>3
<1>7. WaitingIsFollowed'
  BY <1>1, <1>3, <1>6 DEF WaitingIsFollowed
<1> QED
  BY <1>4, <1>7 DEF WakeInv

\* A report is handled: .ready connects, an end starts a timer, and "no route"
\* leaves what it waits for, an attempt or the reports after it.
LEMMA UpdateWake ==
    ASSUME WakeInv, ClientInv', NEW c \in Conn, Update(c)
    PROVE  WakeInv'
<1>1. LinksOK /\ timers \in Nat /\ WaitingIsFollowed
  BY DEF WakeInv, ClientInv
<1>2. PICK s \in Seq({"ready", "waiting", "failed", "cancelled"}) : s = updates[c]
  BY <1>1 DEF LinksOK
<1>3. /\ s # << >> /\ updates' = [updates EXCEPT ![c] = Tail(s)]
      /\ UNCHANGED <<current, link>>
  BY <1>2 DEF Update
<1>4. /\ Len(s) \in Nat /\ Len(s) > 0 /\ Len(Tail(s)) = Len(s) - 1
      /\ \A i \in 1 .. Len(s) - 1 : Tail(s)[i] = s[i + 1]
      /\ DOMAIN Tail(s) = 1 .. Len(s) - 1 /\ Head(s) = s[1]
  BY <1>2, <1>3
<1>5. updates'[c] = Tail(s) /\ \A d \in Conn : d # c => updates'[d] = updates[d]
  BY <1>1, <1>3 DEF LinksOK
<1>6. Len(s) = 1 \/ Tail(s)[Len(s) - 1] = s[Len(s)]
  <2>1. Len(s) # 1 => Len(s) - 1 \in 1 .. Len(s) - 1 /\ (Len(s) - 1) + 1 = Len(s)
    <3>1. PICK n \in Nat : n = Len(s) /\ n > 0
      BY <1>4
    <3>2. n # 1 => n - 1 \in 1 .. n - 1 /\ (n - 1) + 1 = n
      BY ONLY <3>1, n \in Nat
    <3> QED
      BY ONLY <3>1, <3>2, Zenon
  <2>2. \A i \in 1 .. Len(s) - 1 : i + 1 = Len(s) => Tail(s)[i] = s[Len(s)]
    BY <1>4
  <2> QED
    BY ONLY <2>1, <2>2, Zenon
<1>7. updates'[c] # << >> => updates'[c][Len(updates'[c])] = updates[c][Len(updates[c])]
  <2>1. ASSUME Tail(s) # << >> PROVE Len(s) # 1
    <3>1. Tail(s) \in Seq({"ready", "waiting", "failed", "cancelled"})
      BY <1>2, <1>3
    <3>2. Len(Tail(s)) # 0
      BY ONLY <2>1, <3>1, EmptySeq
    <3> QED
      BY ONLY <1>4, <3>2
  <2> QED
    BY <1>2, <1>4, <1>5, <1>6, <2>1
<1>8. WaitingIsFollowed'
  BY <1>1, <1>2, <1>3, <1>5, <1>7 DEF WaitingIsFollowed
<1>9. timers' \in Nat
  BY <1>1, LoseConnectionWakes DEF Update, Ready
<1>10. CASE s[1] = "ready"
  <2>1. state' = "connected"
    BY <1>2, <1>4, <1>10 DEF Update, Ready
  <2> QED
    BY <1>8, <1>9, <2>1 DEF WakeInv, NeverStranded
<1>11. CASE s[1] \in {"failed", "cancelled"}
  <2>1. state' = "waiting" /\ timers' > 0
    BY <1>1, <1>2, <1>4, <1>11, LoseConnectionWakes DEF Update
  <2> QED
    BY <1>8, <1>9, <2>1 DEF WakeInv, NeverStranded
<1>12. CASE s[1] = "waiting"
  <2>1. state' = "waiting"
    BY <1>2, <1>4, <1>12 DEF Update
  <2>2. CASE s[Len(s)] # "waiting"
    <3>1. Len(s) - 1 \in DOMAIN Tail(s) /\ Tail(s)[Len(s) - 1] # "waiting"
      BY <1>4, <1>6, <1>12, <2>2
    <3>2. Decisive(c)'
      BY <1>5, <3>1 DEF Decisive
    <3> QED
      BY <1>8, <1>9, <2>1, <3>2 DEF WakeInv, NeverStranded
  <2>3. CASE s[Len(s)] = "waiting"
    <3>1. c = current /\ link[c] = "preparing"
      BY <1>1, <1>2, <1>3, <2>3 DEF WaitingIsFollowed
    <3>2. Attempting'
      BY <1>3, <3>1, ClientAssumption DEF Attempting
    <3> QED
      BY <1>8, <1>9, <2>1, <3>2 DEF WakeInv, NeverStranded
  <2> QED
    BY <2>2, <2>3
<1>13. s[1] \in {"ready", "waiting", "failed", "cancelled"}
  BY <1>2, <1>4
<1> QED
  BY <1>10, <1>11, <1>12, <1>13

LEMMA NetworkWake ==
    ASSUME WakeInv, ClientInv', NEW c \in Conn, Establish(c) \/ NoRoute(c)
    PROVE  WakeInv'
<1>1. LinksOK /\ WaitingIsFollowed /\ timers' \in Nat /\ UNCHANGED <<state, current, timers>>
  BY DEF WakeInv, ClientInv, Establish, NoRoute, ClientFrame
<1>2. CASE Establish(c)
  <2>1. /\ updates' = [updates EXCEPT ![c] = Append(@, "ready")]
        /\ link' = [link EXCEPT ![c] = "ready"]
    BY <1>2 DEF Establish
  <2>2. /\ updates'[c][Len(updates'[c])] = "ready" /\ Decisive(c)'
        /\ \A d \in Conn : d # c => updates'[d] = updates[d]
    BY <1>1, <2>1, OneMoreReport
  <2>3. \A d \in Conn : d # c => link'[d] = link[d]
    BY <1>1, <2>1 DEF LinksOK
  <2>4. WaitingIsFollowed'
    BY <1>1, <2>2, <2>3 DEF WaitingIsFollowed
  <2> QED
    BY <1>1, <2>2, <2>4 DEF WakeInv, NeverStranded
<1>3. CASE NoRoute(c)
  <2>1. /\ updates' = [updates EXCEPT ![c] = Append(@, "waiting")]
        /\ link' = link /\ link[c] = "preparing"
    BY <1>3 DEF NoRoute
  <2>2. /\ \A d \in Conn : Decisive(d) => Decisive(d)'
        /\ \A d \in Conn : d # c => updates'[d] = updates[d]
    BY <1>1, <2>1, OneMoreReport
  <2>3. c = current
    BY <2>1 DEF WakeInv, ClientInv, OneLiveConnection, Live
  <2>4. WaitingIsFollowed'
    BY <1>1, <2>1, <2>2, <2>3 DEF WaitingIsFollowed
  <2>5. Attempting => Attempting'
    BY <1>1, <2>1 DEF Attempting
  <2> QED
    BY <1>1, <2>2, <2>4, <2>5 DEF WakeInv, NeverStranded
<1> QED
  BY <1>2, <1>3

LEMMA WakeStep == WakeInv /\ [Next]_vars => WakeInv'
<1> SUFFICES ASSUME WakeInv, [Next]_vars PROVE WakeInv'
  OBVIOUS
<1>1. ClientInv'
  BY ClientStep DEF WakeInv
<1>2. timers \in Nat
  BY DEF WakeInv
<1>3. CASE Connect
  BY <1>1, <1>2, <1>3, RestartWake DEF Connect
<1>4. CASE Stop
  <2>1. CASE current # NoConn
    <3>1. current \in Conn /\ EndLink(current, "cancelled")
      BY <1>4, <2>1 DEF Stop, WakeInv, ClientInv, LinksOK
    <3> QED
      BY <1>1, <1>4, <3>1, EndLinkWake DEF Stop
  <2>2. CASE current = NoConn
    BY <1>1, <1>4, <2>2, KeepWake DEF Stop
  <2> QED
    BY <2>1, <2>2
<1>5. CASE Send \/ Flush \/ Ping
  BY <1>1, <1>5, KeepWake DEF Send, Flush, Ping, connVars
<1>6. CASE Timer
  <2>1. timers' \in Nat
    BY <1>2, <1>6 DEF Timer
  <2>2. CASE state = "waiting"
    BY <1>1, <1>6, <2>1, <2>2, RestartWake DEF Timer
  <2>3. CASE state # "waiting"
    BY <1>1, <1>6, <2>1, <2>3, KeepWake DEF Timer, connVars
  <2> QED
    BY <2>2, <2>3
<1>7. ASSUME NEW c \in Conn, Update(c) PROVE WakeInv'
  BY <1>1, <1>7, UpdateWake
<1>8. ASSUME NEW c \in Conn, Completed(c) PROVE WakeInv'
  BY <1>1, <1>8, KeepWake DEF Completed
<1>9. ASSUME NEW c \in Conn, Received(c) PROVE WakeInv'
  BY <1>1, <1>9, KeepWake DEF Received
<1>10. ASSUME NEW c \in Conn, Pinged(c) PROVE WakeInv'
  BY <1>1, <1>10, KeepWake DEF Pinged
<1>11. ASSUME NEW c \in Conn, Establish(c) \/ NoRoute(c) PROVE WakeInv'
  BY <1>1, <1>11, NetworkWake
<1>12. ASSUME NEW c \in Conn, Break(c) PROVE WakeInv'
  BY <1>1, <1>12, EndLinkWake DEF Break, ClientFrame
<1>13. ASSUME NEW c \in Conn, Process(c) PROVE WakeInv'
  BY <1>1, <1>13, KeepWake DEF Process, ClientFrame
<1>14. CASE UNCHANGED vars
  BY <1>1, <1>14, KeepWake DEF vars, connVars
<1> QED
  BY <1>3, <1>4, <1>5, <1>6, <1>7, <1>8, <1>9, <1>10, <1>11, <1>12, <1>13, <1>14
     DEF Next, Callback

\* Whatever reports arrive, of whichever connection and however late, a client
\* that wants a connection and has none is waiting for something that comes: an
\* attempt that will report, a report that decides, or a reconnect timer
\* (stateUpdateHandler, scheduleReconnect and the completions of
\* LogStreamClient.swift).
THEOREM SomethingWakesIt == Spec => []NeverStranded
<1>1. Init => WakeInv
  <2> SUFFICES ASSUME Init PROVE WakeInv
    OBVIOUS
  <2>1. ClientInv
    BY ClientInit
  <2>2. timers \in Nat /\ WaitingIsFollowed /\ NeverStranded
    BY DEF Init, WaitingIsFollowed, NeverStranded
  <2> QED
    BY <2>1, <2>2 DEF WakeInv
<1>2. WakeInv /\ [Next]_vars => WakeInv'
  BY WakeStep
<1>3. WakeInv => NeverStranded
  BY DEF WakeInv
<1>4. Spec => Init /\ [][Next]_vars
  BY PTL DEF Spec
<1> QED
  BY <1>1, <1>2, <1>3, <1>4, PTL
=============================================================================
