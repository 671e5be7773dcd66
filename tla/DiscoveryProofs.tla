-------------------------- MODULE DiscoveryProofs ---------------------------
(***************************************************************************)
(* Proofs about Discovery, for any phones, services and addresses.         *)
(***************************************************************************)
EXTENDS Discovery, TLAPS

\* The address of a row is one that was reported for its phone, and no agent's
\* row carries a Bonjour transport.
RowsAreReported ==
    /\ \A u \in Rows \intersect Udid : devices[u].address \in reported[u]
    /\ \A s \in Rows \intersect Apple : devices[s].address \in reported[Phone[s]]
    /\ \A k \in Rows \ (Udid \union Apple) : "bonjour-apple" \notin devices[k].transports

\* While the sources agree, a key leads to the row of its phone, if to any.
KeysLeadHome ==
    \A s \in Apple : Agreed(Phone[s]) => bonjourKeys[s] \in {Phone[s], NoId}

\* The inductive invariant: what concerns the table, and the types of the rest.
TableInv ==
    /\ RegistryTypeOK
    /\ PageShowsTable
    /\ OneRowPerPhone
    /\ LossReachesRow
    /\ RowsAreReported
    /\ KeysLeadHome

DiscoveryInv == DiscoveryTypeOK /\ TableInv

Grows == \A u \in Udid : reported[u] \subseteq reported'[u]

\* A step brings none of the losses that are still to come.
StillAwaited == \A s \in Apple : Awaited(s) => Awaited(s)'

-----------------------------------------------------------------------------
(* What the operations on the table do to it. *)

LEMMA Constants ==
    /\ Apple \subseteq Service /\ Service \subseteq OtherId
    /\ \A s \in Service : Phone[s] \in Udid
    /\ \A k \in OtherId : k \notin Udid
    /\ NoId \notin Id
BY RegistryAssumption, DiscoveryAssumption DEF Id

LEMMA UpdateTable ==
    ASSUME RegistryTypeOK, PageShowsTable, NEW key \in Rows, NEW d \in Sighting, Update(key, d)
    PROVE  /\ Rows' = Rows /\ devices' \in [Rows -> Row] /\ told' = devices'
           /\ \A k \in Rows \ {key} : devices'[k] = devices[k]
           /\ devices'[key].address \in {devices[key].address, d.address}
           /\ devices'[key].transports = devices[key].transports \union d.transports
<1> DEFINE row == [address |-> IF d.address = NoAddress THEN devices[key].address ELSE d.address,
                   transports |-> devices[key].transports \union d.transports]
<1>1. devices' = [devices EXCEPT ![key] = row]
  BY DEF Update
<1>2. row \in Row
  BY DEF RegistryTypeOK, Row, Sighting
<1>3. Rows' = Rows /\ devices' \in [Rows -> Row] /\ devices'[key] = row
  BY <1>1, <1>2 DEF RegistryTypeOK, Rows
<1>4. \A k \in Rows \ {key} : devices'[k] = devices[k]
  BY <1>1 DEF RegistryTypeOK, Rows
<1>5. told' = [k \in Rows |-> IF k = key THEN devices'[key] ELSE devices[k]]
  BY DEF Update, Tell, PageShowsTable, Rows
<1>6. told' = devices'
  BY <1>3, <1>4, <1>5 DEF Rows
<1> HIDE DEF row
<1>7. /\ row.address \in {devices[key].address, d.address}
      /\ row.transports = devices[key].transports \union d.transports
  BY DEF row
<1> QED BY <1>3, <1>4, <1>6, <1>7

LEMMA InsertTable ==
    ASSUME RegistryTypeOK, PageShowsTable, NEW d \in Sighting, d.id \notin Rows, Insert(d)
    PROVE  /\ Rows' = (Rows \ Folded(d)) \union {d.id} /\ devices' \in [Rows' -> Row]
           /\ told' = devices'
           /\ \A k \in Rows \ Folded(d) : devices'[k] = devices[k]
           /\ devices'[d.id].address = d.address
           /\ devices'[d.id].transports
                = d.transports \union UNION {devices[g].transports : g \in Folded(d)}
<1> DEFINE gone == Folded(d)
           row == [address |-> d.address,
                   transports |-> d.transports \union UNION {devices[g].transports : g \in gone}]
           table == [k \in (Rows \ gone) \union {d.id} |-> IF k = d.id THEN row ELSE devices[k]]
<1>1. devices' = table
  BY DEF Insert
<1>2. gone \subseteq Rows
  BY DEF Folded
<1>3. row \in Row
  BY <1>2 DEF RegistryTypeOK, Row, Sighting
<1>4. table \in [(Rows \ gone) \union {d.id} -> Row]
  BY <1>3 DEF RegistryTypeOK
<1>5. Rows' = (Rows \ gone) \union {d.id} /\ devices' \in [Rows' -> Row]
  BY <1>1, <1>4 DEF Rows
<1>6. devices'[d.id] = row
  BY <1>1
<1>7. \A k \in Rows \ gone : devices'[k] = devices[k]
  BY <1>1
<1>8. told' = [k \in (Rows \ gone) \union {d.id} |-> IF k = d.id THEN devices'[d.id] ELSE devices[k]]
  BY DEF Insert, Tell, PageShowsTable, Rows
<1>9. told' = devices'
  BY <1>1, <1>6, <1>8
<1> HIDE DEF gone, row
<1>10. /\ row.address = d.address
       /\ row.transports = d.transports \union UNION {devices[g].transports : g \in gone}
  BY DEF row
<1> QED BY <1>5, <1>6, <1>7, <1>9, <1>10 DEF gone

LEMMA LoseTable ==
    ASSUME RegistryTypeOK, PageShowsTable, NEW keys \in SUBSET OtherId, Lose(keys)
    PROVE  /\ Rows' = Rows /\ devices' \in [Rows -> Row] /\ told' = devices'
           /\ \A k \in Rows : /\ devices'[k].address = devices[k].address
                              /\ devices'[k].transports \subseteq devices[k].transports
           /\ \A t \in keys : Leads(t) \in Rows =>
                "bonjour-apple" \notin devices'[Leads(t)].transports
<1> DEFINE hit == {Leads(k) : k \in keys} \intersect Rows
           strip(k) == [devices[k] EXCEPT !.transports = @ \ Beacon]
           table == [k \in Rows |-> IF k \in hit THEN strip(k) ELSE devices[k]]
<1>1. devices' = table
  BY DEF Lose
<1>2. \A k \in Rows : /\ strip(k) \in Row
                      /\ strip(k).address = devices[k].address
                      /\ strip(k).transports = devices[k].transports \ Beacon
  BY DEF RegistryTypeOK, Row
<1>3. table \in [Rows -> Row]
  BY <1>2 DEF RegistryTypeOK
<1>4. Rows' = Rows
  BY <1>1 DEF Rows
<1>5. told' = [k \in Rows |-> IF k \in hit THEN devices'[k] ELSE devices[k]]
  BY DEF Lose, PageShowsTable, Rows
<1>6. told' = devices'
  BY <1>1, <1>5
<1>7. \A k \in Rows : /\ devices'[k].address = devices[k].address
                      /\ devices'[k].transports \subseteq devices[k].transports
  BY <1>1, <1>2
<1>8. \A k \in hit : "bonjour-apple" \notin devices'[k].transports
  BY <1>1, <1>2 DEF Beacon
<1> QED BY <1>1, <1>3, <1>4, <1>6, <1>7, <1>8


\* More reports can only make sources disagree.
LEMMA AgreedBefore == ASSUME Grows, NEW u \in Udid, Agreed(u)' PROVE Agreed(u)
BY DEF Grows, Agreed

-----------------------------------------------------------------------------
(* The operations preserve the invariant. *)

\* A beacon, or the agent app itself.
LEMMA AgentSighting ==
    ASSUME TableInv, Grows, StillAwaited, NEW d \in Sighting, d.id \in OtherId \ Apple,
           "bonjour-apple" \notin d.transports, Merge(d)
    PROVE  TableInv'
<1> USE DEF TableInv
<1>1. d.id \notin Udid /\ Folded(d) = {}
  BY Constants DEF Folded
<1>2. /\ Rows' = Rows \union {d.id} /\ devices' \in [Rows' -> Row] /\ told' = devices'
      /\ \A k \in Rows \ {d.id} : devices'[k] = devices[k]
      /\ "bonjour-apple" \notin devices'[d.id].transports
      /\ bonjourKeys' = bonjourKeys
  <2>1. CASE d.id \in Rows
    <3>1. Update(d.id, d) /\ UNCHANGED bonjourKeys
      BY <2>1 DEF Merge
    <3>2. "bonjour-apple" \notin devices[d.id].transports
      BY <2>1, <1>1 DEF RowsAreReported
    <3> QED BY <2>1, <3>1, <3>2, UpdateTable
  <2>2. CASE d.id \notin Rows
    <3>1. Insert(d)
      BY <2>2 DEF Merge
    <3>2. bonjourKeys' = bonjourKeys
      BY <3>1, <1>1 DEF Insert, Attach, RegistryTypeOK
    <3>3. UNION {devices[g].transports : g \in Folded(d)} = {}
      BY <1>1
    <3> QED BY <2>2, <3>1, <3>2, <3>3, <1>1, InsertTable
  <2> QED BY <2>1, <2>2
<1>3. RegistryTypeOK' /\ PageShowsTable'
  BY <1>2, Constants DEF RegistryTypeOK, PageShowsTable, Id
<1>4. \A u \in Udid : Agreed(u)' => Agreed(u)
  BY AgreedBefore
<1>5. OneRowPerPhone'
  BY <1>1, <1>2, <1>4, Constants DEF OneRowPerPhone
<1>6. LossReachesRow'
  BY <1>1, <1>2, <1>4, Constants DEF LossReachesRow, Leads, StillAwaited
<1>7. RowsAreReported'
  BY <1>1, <1>2, Constants DEF RowsAreReported, Grows
<1>8. KeysLeadHome'
  BY <1>2, <1>4, Constants DEF KeysLeadHome
<1> QED BY <1>3, <1>5, <1>6, <1>7, <1>8

\* A phone that pymobiledevice3 lists.
LEMMA ListedSighting ==
    ASSUME TableInv, NEW u \in Udid, NEW d \in Sighting, d.id = u,
           "bonjour-apple" \notin d.transports, Merge(d), Grows, StillAwaited,
           d.address \in reported'[u]
    PROVE  TableInv'
<1> USE DEF TableInv
<1>1. u \notin OtherId
  BY Constants
<1>2. \A v \in Udid : Agreed(v)' => Agreed(v)
  BY AgreedBefore
<1>3. CASE u \in Rows
  <2>1. Update(u, d) /\ bonjourKeys' = bonjourKeys
    BY <1>1, <1>3 DEF Merge
  <2>2. /\ Rows' = Rows /\ devices' \in [Rows -> Row] /\ told' = devices'
        /\ \A k \in Rows \ {u} : devices'[k] = devices[k]
        /\ devices'[u].address \in {devices[u].address, d.address}
        /\ devices'[u].transports = devices[u].transports \union d.transports
    BY <2>1, <1>3, UpdateTable
  <2>3. RegistryTypeOK' /\ PageShowsTable'
    BY <2>1, <2>2 DEF RegistryTypeOK, PageShowsTable
  <2>4. OneRowPerPhone' /\ KeysLeadHome'
    BY <2>1, <2>2, <1>2, Constants DEF OneRowPerPhone, KeysLeadHome
  <2>5. LossReachesRow'
    BY <2>1, <2>2, <1>2 DEF LossReachesRow, Leads, StillAwaited
  <2>6. RowsAreReported'
    BY <2>2, <1>1, Constants DEF RowsAreReported, Grows
  <2> QED BY <2>3, <2>4, <2>5, <2>6
<1>4. CASE u \notin Rows
  <2>1. Insert(d) /\ Attach(Folded(d), u)
    BY <1>1, <1>4 DEF Merge, Insert
  <2>2. /\ Rows' = (Rows \ Folded(d)) \union {u} /\ devices' \in [Rows' -> Row]
        /\ told' = devices'
        /\ \A k \in Rows \ Folded(d) : devices'[k] = devices[k]
        /\ devices'[u].address = d.address
        /\ devices'[u].transports
             = d.transports \union UNION {devices[g].transports : g \in Folded(d)}
    BY <2>1, <1>4, InsertTable
  <2>3. \A k \in Folded(d) : k \in Rows \ Udid /\ devices[k].address = d.address
    BY DEF Folded
  <2>4. bonjourKeys' = [k \in OtherId |-> IF k \in Folded(d) THEN u ELSE bonjourKeys[k]]
    BY <2>1 DEF Attach
  <2>5. RegistryTypeOK' /\ PageShowsTable'
    <3>1. bonjourKeys' \in [OtherId -> Udid \union {NoId}]
      BY <2>4 DEF RegistryTypeOK
    <3>2. \A k \in OtherId : bonjourKeys'[k] \in Rows' \union {NoId}
      BY <2>2, <2>3, <2>4, Constants DEF RegistryTypeOK
    <3> QED BY <3>1, <3>2, <2>2 DEF RegistryTypeOK, PageShowsTable, Id
  \* A folded service is on u, if the sources agree on either.
  <2>6. \A s \in Apple \intersect Folded(d) : d.address \in reported'[Phone[s]]
    BY <2>3, Constants DEF RowsAreReported, Grows
  <2>7. \A s \in Apple \intersect Folded(d) :
          Agreed(u)' \/ Agreed(Phone[s])' => Phone[s] = u
    BY <2>6, Constants DEF Agreed
  <2>8. OneRowPerPhone'
    <3> SUFFICES ASSUME NEW s \in Apple, Agreed(Phone[s])', s \in Rows', Phone[s] \in Rows'
                 PROVE  FALSE
      BY DEF OneRowPerPhone
    <3>1. s \in Rows \ Folded(d)
      BY <2>2, Constants
    <3>2. Phone[s] = u
      BY <3>1, <2>2, <1>2, Constants DEF OneRowPerPhone
    <3>3. devices[s].address \in reported'[u]
      BY <3>1, <3>2, Constants DEF RowsAreReported, Grows
    <3>4. devices[s].address = d.address /\ d.address # NoAddress
      BY <3>2, <3>3 DEF Agreed
    <3> QED BY <3>1, <3>4, Constants DEF Folded
  <2>9. LossReachesRow'
    <3> SUFFICES ASSUME NEW v \in Udid, Agreed(v)',
                        NEW k \in Rows' \intersect ({v} \union {s \in Apple : Phone[s] = v}),
                        "bonjour-apple" \in devices'[k].transports
                 PROVE  \E s \in Apple : Phone[s] = v /\ Leads(s)' = k /\ Awaited(s)'
      BY DEF LossReachesRow
    <3>1. CASE k = u
      <4>1. PICK g \in Folded(d) : "bonjour-apple" \in devices[g].transports
        BY <3>1, <2>2
      <4>2. g \in Apple
        BY <4>1, <2>3 DEF RowsAreReported
      <4>3. v = u
        BY <3>1, <1>1, Constants
      <4>4. Phone[g] = u
        BY <4>2, <4>3, <2>7
      <4>5. bonjourKeys'[g] = u /\ u # NoId
        BY <4>2, <2>4, Constants DEF Id
      \* The row of g is led to by g alone.
      <4>6. Awaited(g)
        <5>1. PICK s \in Apple : Phone[s] = u /\ Leads(s) = g /\ Awaited(s)
          BY <4>1, <4>2, <4>3, <4>4, <2>3, <1>2 DEF LossReachesRow
        <5>2. s = g
          BY <5>1, <4>1, <4>3, <2>3, <1>2, Constants DEF Leads, KeysLeadHome
        <5> QED BY <5>1, <5>2
      <4> QED BY <3>1, <4>2, <4>3, <4>4, <4>5, <4>6 DEF Leads, StillAwaited
    <3>2. CASE k # u
      <4>1. k \in Rows \ Folded(d) /\ devices'[k] = devices[k]
        BY <3>2, <2>2
      <4>2. PICK s \in Apple : Phone[s] = v /\ Leads(s) = k /\ Awaited(s)
        BY <4>1, <1>2 DEF LossReachesRow
      <4>3. s \notin Folded(d)
        <5> SUFFICES ASSUME s \in Folded(d) PROVE FALSE
          OBVIOUS
        <5>1. v = u
          BY <4>2, <2>7
        <5>2. k = s
          BY <5>1, <3>2, <4>2, <1>4, <1>2, Constants DEF Leads, KeysLeadHome
        <5> QED BY <5>2, <4>1
      <4>4. bonjourKeys'[s] = bonjourKeys[s]
        BY <4>3, <2>4, Constants
      <4> QED BY <4>2, <4>4 DEF Leads, StillAwaited
    <3> QED BY <3>1, <3>2
  <2>10. RowsAreReported'
    <3>1. \A k \in Rows' : k = u \/ (k \in Rows /\ devices'[k] = devices[k])
      BY <2>2
    <3> QED BY <3>1, <2>2, <1>1, Constants DEF RowsAreReported, Grows
  <2>11. KeysLeadHome'
    BY <2>4, <2>7, <1>2, Constants DEF KeysLeadHome
  <2> QED BY <2>5, <2>8, <2>9, <2>10, <2>11
<1> QED BY <1>3, <1>4

\* A Bonjour sighting of an iPhone.
LEMMA AppleSighting ==
    ASSUME TableInv, Grows, NEW s \in Apple, NEW d \in Sighting, d.id = s,
           d.transports = {"bonjour-apple"}, Merge(d), d.address \in reported'[Phone[s]],
           StillAwaited, Awaited(s)'
    PROVE  TableInv'
<1> USE DEF TableInv
<1>1. \A v \in Udid : Agreed(v)' => Agreed(v)
  BY AgreedBefore
<1>2. s \in OtherId /\ s \notin Udid /\ Phone[s] \in Udid /\ Folded(d) = {}
  BY Constants DEF Folded
<1>3. CASE At(d) # {}
  <2>1. PICK u \in At(d) : Attach({s}, u) /\ Update(u, d)
    BY <1>2, <1>3 DEF Merge
  <2>2. u \in Rows /\ u \in Udid /\ devices[u].address = d.address
    BY DEF At
  <2>3. /\ Rows' = Rows /\ devices' \in [Rows -> Row] /\ told' = devices'
        /\ \A k \in Rows \ {u} : devices'[k] = devices[k]
        /\ devices'[u].address = d.address
    BY <2>1, <2>2, UpdateTable
  <2>4. bonjourKeys' = [k \in OtherId |-> IF k = s THEN u ELSE bonjourKeys[k]]
    BY <2>1 DEF Attach
  \* The row at the address is that of the phone, if the sources agree.
  <2>5. d.address \in reported'[u]
    BY <2>2 DEF RowsAreReported, Grows
  <2>6. Agreed(u)' \/ Agreed(Phone[s])' => Phone[s] = u
    BY <2>2, <2>5, <1>2 DEF Agreed
  <2>7. RegistryTypeOK' /\ PageShowsTable'
    BY <2>2, <2>3, <2>4, Constants DEF RegistryTypeOK, PageShowsTable
  <2>8. OneRowPerPhone'
    BY <2>3, <1>1, Constants DEF OneRowPerPhone
  <2>9. KeysLeadHome'
    BY <2>4, <2>6, <1>1, Constants DEF KeysLeadHome
  <2>10. LossReachesRow'
    <3> SUFFICES ASSUME NEW v \in Udid, Agreed(v)',
                        NEW k \in Rows' \intersect ({v} \union {t \in Apple : Phone[t] = v}),
                        "bonjour-apple" \in devices'[k].transports
                 PROVE  \E t \in Apple : Phone[t] = v /\ Leads(t)' = k /\ Awaited(t)'
      BY DEF LossReachesRow
    <3>1. CASE k = u
      <4>1. v = u /\ Phone[s] = v
        BY <3>1, <2>2, <2>6, Constants
      <4>2. bonjourKeys'[s] = u /\ u # NoId
        BY <2>2, <2>4, Constants DEF Id
      <4> QED BY <3>1, <4>1, <4>2 DEF Leads
    <3>2. CASE k # u
      <4>1. PICK t \in Apple : Phone[t] = v /\ Leads(t) = k /\ Awaited(t)
        BY <3>2, <2>3, <1>1 DEF LossReachesRow
      <4>2. t # s
        <5> SUFFICES ASSUME t = s PROVE FALSE
          OBVIOUS
        <5>1. v = u
          BY <4>1, <2>6
        <5>2. k = s /\ k \in Rows
          BY <5>1, <3>2, <4>1, <1>1, <2>3, Constants DEF Leads, KeysLeadHome
        <5> QED BY <4>1, <5>1, <5>2, <2>2, <1>1 DEF OneRowPerPhone
      <4>3. bonjourKeys'[t] = bonjourKeys[t]
        BY <4>2, <2>4, Constants
      <4> QED BY <4>1, <4>3 DEF Leads, StillAwaited
    <3> QED BY <3>1, <3>2
  <2>11. RowsAreReported'
    BY <2>2, <2>3, <2>5, Constants DEF RowsAreReported, Grows
  <2> QED BY <2>7, <2>8, <2>9, <2>10, <2>11
<1>4. CASE At(d) = {}
  <2>1. /\ Rows' = Rows \union {s} /\ devices' \in [Rows' -> Row] /\ told' = devices'
        /\ \A k \in Rows \ {s} : devices'[k] = devices[k]
        /\ s \in Rows => devices'[s].address \in {devices[s].address, d.address}
        /\ s \notin Rows => devices'[s].address = d.address
        /\ bonjourKeys' = bonjourKeys
    <3>1. CASE s \in Rows
      <4>1. Update(s, d) /\ UNCHANGED bonjourKeys
        BY <1>4, <3>1 DEF Merge
      <4> QED BY <3>1, <4>1, UpdateTable
    <3>2. CASE s \notin Rows
      <4>1. Insert(d)
        BY <1>4, <3>2 DEF Merge
      <4>2. bonjourKeys' = bonjourKeys
        BY <4>1, <1>2 DEF Insert, Attach, RegistryTypeOK
      <4> QED BY <3>2, <4>1, <4>2, <1>2, InsertTable
    <3> QED BY <3>1, <3>2
  <2>2. RegistryTypeOK' /\ PageShowsTable'
    BY <2>1, <1>2 DEF RegistryTypeOK, PageShowsTable, Id
  \* The phone has no row at the address, so it has none if the sources agree.
  <2>3. Agreed(Phone[s])' => Phone[s] \notin Rows
    <3> SUFFICES ASSUME Agreed(Phone[s])', Phone[s] \in Rows PROVE FALSE
      OBVIOUS
    <3>1. devices[Phone[s]].address \in reported'[Phone[s]]
      BY <1>2 DEF RowsAreReported, Grows
    <3>2. devices[Phone[s]].address = d.address /\ d.address # NoAddress
      BY <3>1 DEF Agreed
    <3> QED BY <3>2, <1>2, <1>4 DEF At
  <2>4. OneRowPerPhone'
    BY <2>1, <2>3, <1>1, <1>2, Constants DEF OneRowPerPhone
  <2>5. KeysLeadHome'
    BY <2>1, <1>1, Constants DEF KeysLeadHome
  <2>6. LossReachesRow'
    <3> SUFFICES ASSUME NEW v \in Udid, Agreed(v)',
                        NEW k \in Rows' \intersect ({v} \union {t \in Apple : Phone[t] = v}),
                        "bonjour-apple" \in devices'[k].transports
                 PROVE  \E t \in Apple : Phone[t] = v /\ Leads(t)' = k /\ Awaited(t)'
      BY DEF LossReachesRow
    <3>1. CASE k = s
      <4>1. Phone[s] = v
        BY <3>1, <1>2, Constants
      <4>2. bonjourKeys[s] = NoId
        BY <4>1, <2>3, <1>1, <1>2 DEF KeysLeadHome, RegistryTypeOK
      <4> QED BY <3>1, <4>1, <4>2, <2>1 DEF Leads
    <3>2. CASE k # s
      <4>1. \E t \in Apple : Phone[t] = v /\ Leads(t) = k /\ Awaited(t)
        BY <3>2, <2>1, <1>1 DEF LossReachesRow
      <4> QED BY <4>1, <2>1 DEF Leads, StillAwaited
    <3> QED BY <3>1, <3>2
  <2>7. RowsAreReported'
    BY <2>1, <1>2, Constants DEF RowsAreReported, Grows
  <2> QED BY <2>2, <2>4, <2>5, <2>6, <2>7
<1> QED BY <1>3, <1>4

LEMMA LoseInv ==
    ASSUME TableInv, NEW keys \in SUBSET Service, Lose(keys), UNCHANGED reported,
           \A s \in Apple \ keys : Awaited(s) => Awaited(s)'
    PROVE  TableInv'
<1> USE DEF TableInv
<1>1. /\ Rows' = Rows /\ devices' \in [Rows -> Row] /\ told' = devices'
      /\ \A k \in Rows : /\ devices'[k].address = devices[k].address
                         /\ devices'[k].transports \subseteq devices[k].transports
      /\ \A t \in keys : Leads(t) \in Rows => "bonjour-apple" \notin devices'[Leads(t)].transports
  BY LoseTable, Constants
<1>2. bonjourKeys' = [k \in OtherId |-> IF k \in keys THEN NoId ELSE bonjourKeys[k]]
  BY DEF Lose
<1>3. \A v \in Udid : Agreed(v)' <=> Agreed(v)
  BY DEF Agreed
<1>4. RegistryTypeOK' /\ PageShowsTable'
  BY <1>1, <1>2 DEF RegistryTypeOK, PageShowsTable
<1>5. OneRowPerPhone' /\ KeysLeadHome'
  BY <1>1, <1>2, <1>3, Constants DEF OneRowPerPhone, KeysLeadHome
<1>6. LossReachesRow'
  <2> SUFFICES ASSUME NEW v \in Udid, Agreed(v),
                      NEW k \in Rows \intersect ({v} \union {s \in Apple : Phone[s] = v}),
                      "bonjour-apple" \in devices'[k].transports
               PROVE  \E s \in Apple : Phone[s] = v /\ Leads(s)' = k /\ Awaited(s)'
    BY <1>1, <1>3 DEF LossReachesRow
  <2>1. PICK s \in Apple : Phone[s] = v /\ Leads(s) = k /\ Awaited(s)
    BY <1>1 DEF LossReachesRow
  <2>2. s \notin keys
    BY <2>1, <1>1
  <2> QED BY <2>1, <2>2, <1>2, Constants DEF Leads
<1>7. RowsAreReported'
  BY <1>1, Constants DEF RowsAreReported
<1> QED BY <1>4, <1>5, <1>6, <1>7

LEMMA TableUnchanged ==
    ASSUME TableInv, UNCHANGED <<registryVars, reported>>, StillAwaited PROVE TableInv'
BY DEF TableInv, registryVars, RegistryTypeOK, PageShowsTable, OneRowPerPhone, LossReachesRow,
       RowsAreReported, KeysLeadHome, Rows, Agreed, Leads, StillAwaited

-----------------------------------------------------------------------------
Callback == [service : Service, lost : BOOLEAN]

LEMMA Callbacks ==
    ASSUME calls \in Seq(Callback)
    PROVE  /\ \A s \in Service, b \in BOOLEAN :
                Append(calls, [service |-> s, lost |-> b]) \in Seq(Callback)
           /\ calls # << >> => Head(calls).service \in Service /\ Tail(calls) \in Seq(Callback)
<1>1. \A s \in Service, b \in BOOLEAN : [service |-> s, lost |-> b] \in Callback
  BY DEF Callback
<1>2. \A x \in Callback : x.service \in Service
  BY DEF Callback
<1>3. calls # << >> => Head(calls) \in Callback /\ Tail(calls) \in Seq(Callback)
  OBVIOUS
<1> QED BY <1>1, <1>2, <1>3

Holds(queue, x) == \E i \in DOMAIN queue : queue[i] = x

\* What a callback of a queue is after one was added or the first was called.
LEMMA Added ==
    ASSUME NEW queue \in Seq(Callback), NEW x \in Callback
    PROVE  Holds(Append(queue, x), x) /\ \A y : Holds(queue, y) => Holds(Append(queue, x), y)
<1>1. Len(queue) \in Nat /\ DOMAIN queue = 1 .. Len(queue)
  OBVIOUS
<1>2. /\ DOMAIN Append(queue, x) = 1 .. Len(queue) + 1
      /\ \A i \in 1 .. Len(queue) : Append(queue, x)[i] = queue[i]
      /\ Append(queue, x)[Len(queue) + 1] = x
  OBVIOUS
<1>3. Len(queue) + 1 \in 1 .. Len(queue) + 1 /\ \A i \in 1 .. Len(queue) : i \in 1 .. Len(queue) + 1
  BY <1>1
<1>4. Holds(Append(queue, x), x)
  BY <1>2, <1>3 DEF Holds
<1>5. ASSUME NEW y, Holds(queue, y) PROVE Holds(Append(queue, x), y)
  <2>1. PICK i \in 1 .. Len(queue) : queue[i] = y
    BY <1>1, <1>5 DEF Holds
  <2> QED BY <2>1, <1>2, <1>3 DEF Holds
<1> QED BY <1>4, <1>5

LEMMA Called ==
    ASSUME NEW queue \in Seq(Callback), queue # << >>, NEW y, Holds(queue, y), y # Head(queue)
    PROVE  Holds(Tail(queue), y)
<1>1. PICK i \in 1 .. Len(queue) : queue[i] = y
  BY DEF Holds
<1>2. /\ DOMAIN Tail(queue) = 1 .. Len(queue) - 1 /\ Head(queue) = queue[1]
      /\ \A j \in 1 .. Len(queue) - 1 : Tail(queue)[j] = queue[j + 1]
  OBVIOUS
<1>3. i # 1
  BY <1>1, <1>2
<1>4. PICK j \in 1 .. Len(queue) - 1 : j + 1 = i
  <2>1. PICK n \in Nat : n = Len(queue)
    OBVIOUS
  <2>2. i - 1 \in 1 .. n - 1 /\ (i - 1) + 1 = i
    BY <1>3, <2>1
  <2> QED BY <2>1, <2>2
<1> QED BY <1>1, <1>2, <1>4 DEF Holds

\* The callback that reports the loss of a service.
LossOf(s) == [service |-> s, lost |-> TRUE]

LEMMA AwaitedMeans ==
    ASSUME NEW s PROVE Awaited(s) <=> seen[s] # "no" \/ Holds(calls, LossOf(s))
BY DEF Awaited, Holds, LossOf

LEMMA AwaitedNext ==
    ASSUME NEW s PROVE Awaited(s)' <=> seen'[s] # "no" \/ Holds(calls', LossOf(s))
BY DEF Awaited, Holds, LossOf

LEMMA LossFields == \A s : LossOf(s).service = s /\ LossOf(s).lost = TRUE
BY DEF LossOf

LEMMA DiscoveryInit == Init => DiscoveryInv
<1> SUFFICES ASSUME Init PROVE DiscoveryInv
  OBVIOUS
<1> USE DEF Init, RegistryInit
<1>1. Rows = {}
  BY DEF Rows
<1>2. RegistryTypeOK
  BY <1>1 DEF RegistryTypeOK, Rows
<1>3. DiscoveryTypeOK
  BY <1>2, DiscoveryAssumption DEF DiscoveryTypeOK
<1>4. TableInv
  <2>1. KeysLeadHome
    BY Constants DEF KeysLeadHome
  <2> QED BY <1>1, <1>2, <2>1 DEF TableInv, PageShowsTable, OneRowPerPhone, LossReachesRow,
                                  RowsAreReported
<1> QED BY <1>3, <1>4 DEF DiscoveryInv

LEMMA DiscoveryStep == DiscoveryInv /\ [Next]_vars => DiscoveryInv'
<1> SUFFICES ASSUME DiscoveryInv, [Next]_vars PROVE DiscoveryInv'
  OBVIOUS
<1> USE DiscoveryAssumption, Constants DEF DiscoveryInv, DiscoveryTypeOK
<1>1. ASSUME NEW s \in Service, Announce(s) \/ Withdraw(s) \/ Old(s) PROVE DiscoveryInv'
  <2>1. UNCHANGED <<registryVars, reported>>
    BY <1>1 DEF Announce, Withdraw, Schedule, Old
  <2>2. calls \in Seq(Callback)
    BY DEF Callback
  <2>4. CASE Announce(s)
    <3>1. calls' = Append(calls, [service |-> s, lost |-> FALSE]) /\ resolving' = resolving
      BY <2>4 DEF Announce, Schedule
    <3>2. up' = up \union {s} /\ seen' = seen
      BY <2>4 DEF Announce
    <3>3. calls' \in Seq(Callback)
      BY <2>2, <3>1, Callbacks
    <3>4. StillAwaited
      <4>1. [service |-> s, lost |-> FALSE] \in Callback
        BY DEF Callback
      <4>2. \A y : Holds(calls, y) => Holds(calls', y)
        BY <2>2, <3>1, <4>1, Added
      <4> QED BY <3>2, <4>2, AwaitedMeans, AwaitedNext DEF StillAwaited
    <3>5. TableInv'
      BY <2>1, <3>4, TableUnchanged
    <3> QED BY <2>1, <3>1, <3>2, <3>3, <3>5 DEF TableInv, Callback
  <2>5. CASE Withdraw(s)
    <3>1. calls' = Append(calls, [service |-> s, lost |-> TRUE]) /\ resolving' = resolving
      BY <2>5 DEF Withdraw, Schedule
    <3>2. up' = up \ {s} /\ seen' = [seen EXCEPT ![s] = "no"]
      BY <2>5 DEF Withdraw
    <3>3. calls' \in Seq(Callback)
      BY <2>2, <3>1, Callbacks
    \* The reaper would no longer come, so the callback must.
    <3>4. StillAwaited
      <4>1. LossOf(s) \in Callback /\ calls' = Append(calls, LossOf(s))
        BY <3>1 DEF Callback, LossOf
      <4>2. Holds(calls', LossOf(s)) /\ \A y : Holds(calls, y) => Holds(calls', y)
        BY <2>2, <4>1, Added
      <4>3. \A t \in Apple : t # s => seen'[t] = seen[t]
        BY <3>2
      <4> QED BY <4>2, <4>3, AwaitedMeans, AwaitedNext DEF StillAwaited
    <3>5. TableInv'
      BY <2>1, <3>4, TableUnchanged
    <3> QED BY <2>1, <3>1, <3>2, <3>3, <3>5 DEF TableInv, Callback
  <2>6. CASE Old(s)
    <3>1. UNCHANGED <<up, calls, resolving>> /\ seen' = [seen EXCEPT ![s] = "old"]
      BY <2>6 DEF Old
    <3>2. TableInv'
      BY <2>1, <3>1, TableUnchanged DEF StillAwaited, Awaited
    <3> QED BY <2>1, <3>1, <3>2 DEF TableInv
  <2> QED BY <1>1, <2>4, <2>5, <2>6
<1>2. ASSUME NEW s \in Service, Resolved(s) PROVE DiscoveryInv'
  <2>1. TableInv'
    <3>1. CASE UNCHANGED <<registryVars, seen, reported>>
      BY <1>2, <3>1, TableUnchanged DEF Resolved, StillAwaited, Awaited
    <3>2. CASE ~UNCHANGED <<registryVars, seen, reported>>
      <4>1. PICK a \in Address \union {NoAddress} :
              /\ seen' = [seen EXCEPT ![s] = "fresh"]
              /\ Merge([id |-> TxtId[s], address |-> a,
                      transports |-> {IF s \in Apple THEN "bonjour-apple" ELSE "agent-beacon"}])
              /\ Report(Phone[s], a)
        BY <1>2, <3>2 DEF Resolved
      <4> DEFINE d == [id |-> TxtId[s], address |-> a,
                       transports |-> {IF s \in Apple THEN "bonjour-apple" ELSE "agent-beacon"}]
      <4>2. d \in Sighting
        BY DEF Sighting, Id, Transport
      <4>3. Grows /\ a \in reported'[Phone[s]]
        BY <4>1 DEF Report, Grows
      <4>4. /\ d.id = TxtId[s] /\ d.address = a /\ Merge(d)
            /\ d.transports = {IF s \in Apple THEN "bonjour-apple" ELSE "agent-beacon"}
        BY <4>1
      <4> HIDE DEF d
      <4>5. StillAwaited /\ Awaited(s)'
        BY <1>2, <4>1 DEF Resolved, StillAwaited, Awaited
      <4>6. CASE s \in Apple
        BY <4>2, <4>3, <4>4, <4>5, <4>6, AppleSighting
      <4>7. CASE s \notin Apple
        BY <4>2, <4>3, <4>4, <4>5, <4>7, AgentSighting
      <4> QED BY <4>6, <4>7
    <3> QED BY <3>1, <3>2
  <2>2. up' \subseteq Service /\ calls' = calls /\ resolving' \in [Service -> 0 .. MaxResolves]
    BY <1>2 DEF Resolved
  <2>3. \/ UNCHANGED <<seen, reported>>
        \/ /\ seen' = [seen EXCEPT ![s] = "fresh"]
           /\ \E a \in Address \union {NoAddress} :
                reported' = [reported EXCEPT ![Phone[s]] = @ \union {a}]
    <3>1. CASE UNCHANGED <<registryVars, seen, reported>>
      BY <3>1
    <3>2. CASE ~UNCHANGED <<registryVars, seen, reported>>
      <4>1. PICK a \in Address \union {NoAddress} :
              seen' = [seen EXCEPT ![s] = "fresh"] /\ Report(Phone[s], a)
        BY <1>2, <3>2 DEF Resolved
      <4> QED BY <4>1 DEF Report
    <3> QED BY <3>1, <3>2
  <2>4. /\ seen' \in [Service -> {"no", "fresh", "old"}]
        /\ reported' \in [Udid -> SUBSET (Address \union {NoAddress})]
    <3>1. CASE UNCHANGED <<seen, reported>>
      BY <3>1
    <3>2. CASE seen' = [seen EXCEPT ![s] = "fresh"] /\ ~UNCHANGED <<seen, reported>>
      <4>1. PICK a \in Address \union {NoAddress} :
              reported' = [reported EXCEPT ![Phone[s]] = reported[Phone[s]] \union {a}]
        BY <2>3, <3>2
      <4>2. reported[Phone[s]] \union {a} \in SUBSET (Address \union {NoAddress})
        OBVIOUS
      <4> QED BY <3>2, <4>1, <4>2
    <3> QED BY <2>3, <3>1, <3>2
  <2>5. DiscoveryTypeOK'
    BY <2>1, <2>2, <2>4 DEF TableInv
  <2> QED BY <2>1, <2>5
<1>3. CASE CallLost
  <2>1. Head(calls).service \in Service /\ Tail(calls) \in Seq(Callback)
    BY <1>3, Callbacks DEF CallLost, Callback
  <2>2. TableInv'
    <3>1. calls \in Seq(Callback) /\ calls # << >> /\ calls' = Tail(calls) /\ seen' = seen
      BY <1>3 DEF CallLost, Callback
    <3>2. ASSUME NEW s \in Apple \ {Head(calls).service}, Awaited(s) PROVE Awaited(s)'
      <4>1. LossOf(s) # Head(calls)
        BY <3>2, LossFields
      <4> QED BY <3>1, <3>2, <4>1, Called, AwaitedMeans, AwaitedNext
    <3>3. \A s \in Apple \ {Head(calls).service} : Awaited(s) => Awaited(s)'
      BY <3>2
    <3> QED BY <1>3, <2>1, <3>3, LoseInv DEF CallLost
  <2>3. DiscoveryTypeOK'
    BY <1>3, <2>1, <2>2 DEF CallLost, TableInv, Callback
  <2> QED BY <2>2, <2>3
<1>4. CASE CallResolve
  <2>1. TableInv'
    <3>1. calls \in Seq(Callback) /\ calls # << >> /\ ~Head(calls).lost /\ calls' = Tail(calls)
          /\ seen' = seen
      BY <1>4 DEF CallResolve, Callback
    <3>2. ASSUME NEW s \in Apple, Awaited(s) PROVE Awaited(s)'
      <4>1. LossOf(s) # Head(calls)
        BY <3>1, LossFields
      <4> QED BY <3>1, <3>2, <4>1, Called, AwaitedMeans, AwaitedNext
    <3>3. StillAwaited
      BY <3>2 DEF StillAwaited
    <3> QED BY <1>4, <3>3, TableUnchanged DEF CallResolve
  <2>2. Head(calls).service \in Service /\ Tail(calls) \in Seq(Callback)
    BY <1>4, Callbacks DEF CallResolve, Callback
  <2>3. DiscoveryTypeOK'
    BY <1>4, <2>1, <2>2 DEF CallResolve, TableInv, Callback
  <2> QED BY <2>1, <2>3
<1>5. CASE Reap
  <2>1. TableInv'
    <3>1. \A s \in Service \ Stale : Awaited(s) => Awaited(s)'
      BY <1>5 DEF Reap, Awaited
    <3> QED BY <1>5, <3>1, LoseInv DEF Reap, Stale
  <2>2. DiscoveryTypeOK'
    BY <1>5, <2>1 DEF Reap, TableInv
  <2> QED BY <2>1, <2>2
<1>6. ASSUME NEW u \in Udid, MergeListed(u) PROVE DiscoveryInv'
  <2>1. PICK a \in Address \union {NoAddress}, t \in {"pymd-usb", "pymd-network"} :
          Merge([id |-> u, address |-> a, transports |-> {t}]) /\ Report(u, a)
    BY <1>6 DEF MergeListed
  <2> DEFINE d == [id |-> u, address |-> a, transports |-> {t}]
  <2>2. d \in Sighting
    BY DEF Sighting, Id, Transport
  <2>3. Grows /\ a \in reported'[u]
    BY <2>1 DEF Report, Grows
  <2>4. d.id = u /\ d.address = a /\ Merge(d) /\ "bonjour-apple" \notin d.transports
    BY <2>1
  <2> HIDE DEF d
  <2>5. TableInv'
    BY <1>6, <2>2, <2>3, <2>4, ListedSighting DEF MergeListed, StillAwaited, Awaited
  <2>6. DiscoveryTypeOK'
    BY <1>6, <2>5 DEF MergeListed, Report, TableInv
  <2> QED BY <2>5, <2>6
<1>7. ASSUME NEW u \in Udid, AgentReports(u) PROVE DiscoveryInv'
  <2>1. PICK a \in Address : Merge([id |-> AgentId[u], address |-> a, transports |-> {"agent"}])
    BY <1>7 DEF AgentReports
  <2> DEFINE d == [id |-> AgentId[u], address |-> a, transports |-> {"agent"}]
  <2>2. d \in Sighting
    BY DEF Sighting, Id, Transport
  <2>3. Grows
    BY <1>7 DEF AgentReports, Grows
  <2>4. /\ d.id \in OtherId \ Apple
        /\ Merge(d) /\ "bonjour-apple" \notin d.transports
    BY <2>1
  <2> HIDE DEF d
  <2>5. TableInv'
    BY <1>7, <2>2, <2>3, <2>4, AgentSighting DEF AgentReports, StillAwaited, Awaited
  <2>6. DiscoveryTypeOK'
    BY <1>7, <2>5 DEF AgentReports, TableInv
  <2> QED BY <2>5, <2>6
<1>8. CASE UNCHANGED vars
  <2>1. TableInv'
    BY <1>8, TableUnchanged DEF vars, StillAwaited, Awaited
  <2>2. DiscoveryTypeOK'
    BY <1>8, <2>1 DEF vars, TableInv
  <2> QED BY <2>1, <2>2
<1> QED BY <1>1, <1>2, <1>3, <1>4, <1>5, <1>6, <1>7, <1>8 DEF Next

THEOREM DiscoveryInvariant == Spec => []DiscoveryInv
BY DiscoveryInit, DiscoveryStep, PTL DEF Spec

\* Every reachable state of the table and the browser is well typed.
THEOREM DiscoveryTypeCorrect == Spec => []DiscoveryTypeOK
<1>1. DiscoveryInv => DiscoveryTypeOK
  BY DEF DiscoveryInv
<1> QED BY <1>1, DiscoveryInvariant, PTL

\* A page that has had every event of merge_device and lose_bonjour shows the
\* device table.
THEOREM PagesShowTheTable == Spec => []PageShowsTable
<1>1. DiscoveryInv => PageShowsTable
  BY DEF DiscoveryInv, TableInv
<1> QED BY <1>1, DiscoveryInvariant, PTL

\* A phone on whose address the sources agree never has two rows, whichever of
\* them knows it first.
THEOREM PhonesHaveOneRow == Spec => []OneRowPerPhone
<1>1. DiscoveryInv => OneRowPerPhone
  BY DEF DiscoveryInv, TableInv
<1> QED BY <1>1, DiscoveryInvariant, PTL

\* Nor does it ever have a row that says it is advertised and that no loss of
\* one of its services reaches, or for which no loss is to come: one that the
\* reaper still has an entry for, or that zeroconf reported and whose callback
\* has not run.
THEOREM LossesReachRows == Spec => []LossReachesRow
<1>1. DiscoveryInv => LossReachesRow
  BY DEF DiscoveryInv, TableInv
<1> QED BY <1>1, DiscoveryInvariant, PTL
=============================================================================
