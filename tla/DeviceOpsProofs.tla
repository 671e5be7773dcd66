-------------------------- MODULE DeviceOpsProofs --------------------------
(***************************************************************************)
(* What is published of the crash reports pulled in DeviceOps, for any     *)
(* reports and any number of requests; that the list of devices is right,  *)
(* for any objects that the two commands print of any number of devices;   *)
(* and that a command is given a transport by which it gets through.       *)
(***************************************************************************)
EXTENDS DeviceOps, Integers, WellFoundedInduction, TLAPS

Running == [on : {TRUE}, mobdev2 : BOOLEAN, before : SUBSET Report,
            left : SUBSET Report, copying : SUBSET Report]

CrashTypeOK ==
    /\ onPhone \subseteq Report
    /\ dest \in [Report -> {"none", "part", "whole"}]
    /\ pull \in [Pull -> {Idle} \union Running]
    /\ published \in [Report -> Nat]
    /\ contested \subseteq Report

\* What a running pull knows of the directory.
PullShape ==
    \A p \in Pulling :
        /\ pull[p].before \subseteq Files
        /\ pull[p].copying \subseteq pull[p].left

\* A report that no two pulls contest is new to a pull only if it runs alone.
NewIsAlone ==
    \A p, q \in Pulling : p # q => Report \ contested \subseteq pull[p].before

\* One that was published is new to nobody.
PublishedIsOld ==
    \A r \in Report \ contested : published[r] > 0 =>
        r \in Files /\ \A p \in Pulling : r \in pull[p].before

\* One that is new to a pull and not whole is being copied by it.
PartIsCopied ==
    \A r \in Report \ contested, p \in Pulling :
        dest[r] = "part" /\ r \notin pull[p].before => pull[p].copying = {r}

\* One that is not published is new to a pull, or was left behind.
UnpublishedIsNew ==
    \A r \in Files \ (passedOver \union Skipped) :
        published[r] = 0 => \E p \in Pulling : r \notin pull[p].before

Once == \A r \in Report \ contested : published[r] <= 1 /\ r \notin torn

\* The inductive invariant.
CrashInv ==
    /\ CrashTypeOK /\ PullShape /\ NewIsAlone /\ PublishedIsOld
    /\ PartIsCopied /\ UnpublishedIsNew /\ Once

LEMMA CrashInit == Init => CrashInv
<1> SUFFICES ASSUME Init PROVE CrashInv
  OBVIOUS
<1>1. Pulling = {} /\ Files = {}
  BY DEF Init, Pulling, Idle, Files
<1>2. CrashTypeOK
  BY DEF Init, CrashTypeOK
<1>3. Once
  BY DEF Init, Once
<1> QED
  BY <1>1, <1>2, <1>3
  DEF CrashInv, PullShape, NewIsAlone, PublishedIsOld, PartIsCopied, UnpublishedIsNew, Init

LEMMA InvGivesOnce == CrashInv => PublishedOnce
  BY DEF CrashInv, PublishedOnce, Once, UnpublishedIsNew, CrashTypeOK, Files

\* What all steps of one request have in common.
LEMMA RunningPull ==
    ASSUME CrashInv, NEW p \in Pulling
    PROVE  p \in Pull /\ pull[p] \in Running
<1>1. p \in Pull /\ pull[p].on
  BY DEF Pulling
<1>2. pull[p] \in {Idle} \union Running
  BY <1>1 DEF CrashInv, CrashTypeOK
<1>3. pull[p] # Idle
  <2>1. Idle.on = FALSE
    BY DEF Idle
  <2> QED
    BY <1>1, <2>1
<1> QED
  BY <1>1, <1>2, <1>3

LEMMA RequestInv == ASSUME CrashInv, NEW p \in Pull, Request(p) PROVE CrashInv'
<1> USE DEF CrashInv
<1>1. /\ p \notin Pulling /\ Pulling' = Pulling \union {p}
      /\ \A q \in Pulling : pull'[q] = pull[q]
      /\ pull'[p] = [on |-> TRUE, mobdev2 |-> MobDev2, before |-> Files,
                     left |-> onPhone, copying |-> {}]
  BY DEF Request, Pulling, CrashTypeOK
<1>2. /\ dest' = dest /\ published' = published /\ torn' = torn /\ passedOver' = passedOver
      /\ onPhone' = onPhone /\ Files' = Files
  BY DEF Request, Files
<1>3. /\ contested \subseteq contested' /\ contested' \subseteq Report
      /\ \A q \in Pulling : Report \ contested' \subseteq pull[q].before
  BY DEF Request, CrashTypeOK
<1>4. CrashTypeOK'
  <2>1. pull'[p] \in Running
    BY <1>1 DEF Running, Files, MobDev2, CrashTypeOK
  <2>2. pull' \in [Pull -> {Idle} \union Running]
    BY <2>1 DEF Request, CrashTypeOK
  <2> QED
    BY <2>2, <1>2, <1>3 DEF CrashTypeOK
<1>5. PullShape'
  BY <1>1, <1>2 DEF PullShape
<1>6. NewIsAlone'
  <2>1. \A q \in Pulling : pull[q].before \subseteq Files
    BY DEF PullShape
  <2>2. \A q \in Pulling : Report \ contested' \subseteq Files
    BY <2>1, <1>3
  <2> QED
    BY <2>2, <1>1, <1>3 DEF NewIsAlone
<1>7. PublishedIsOld'
  BY <1>1, <1>2, <1>3 DEF PublishedIsOld
<1>8. PartIsCopied'
  <2>1. \A r \in Report : dest[r] = "part" => r \in Files
    BY DEF Files
  <2> QED
    BY <2>1, <1>1, <1>2, <1>3 DEF PartIsCopied
<1>9. UnpublishedIsNew'
  BY <1>1, <1>2 DEF UnpublishedIsNew
<1>10. Once'
  BY <1>2, <1>3 DEF Once
<1> QED
  BY <1>4, <1>5, <1>6, <1>7, <1>8, <1>9, <1>10

LEMMA CopyBeginInv ==
    ASSUME CrashInv, NEW p \in Pull, NEW r \in Report, CopyBegin(p, r) PROVE CrashInv'
<1> USE DEF CrashInv
<1>1. /\ p \in Pulling /\ pull[p] \in Running /\ pull[p].copying = {} /\ r \in pull[p].left
      /\ pull' = [pull EXCEPT ![p].copying = {r}]
      /\ dest' = [dest EXCEPT ![r] = "part"]
  BY RunningPull DEF CopyBegin, Pulling
<1>2. /\ published' = published /\ torn' = torn /\ passedOver' = passedOver
      /\ onPhone' = onPhone /\ contested' = contested
  BY DEF CopyBegin
<1>3. pull'[p] = [pull[p] EXCEPT !.copying = {r}] /\ pull'[p] \in Running
  BY <1>1 DEF CrashTypeOK, Running
<1>4. /\ Pulling' = Pulling
      /\ \A q \in Pull : /\ q # p => pull'[q] = pull[q]
                         /\ q \in Pulling => pull'[q].before = pull[q].before
                         /\ q \in Pulling => pull'[q].left = pull[q].left
  BY <1>1, <1>3 DEF Pulling, CrashTypeOK, Running
<1>5. /\ Files' = Files \union {r}
      /\ dest'[r] = "part" /\ \A s \in Report : s # r => dest'[s] = dest[s]
  BY <1>1 DEF Files, CrashTypeOK
<1>6. CrashTypeOK'
  BY <1>1, <1>2, <1>3 DEF CrashTypeOK
<1>7. PullShape'
  BY <1>1, <1>3, <1>4, <1>5 DEF PullShape, Running
<1>8. NewIsAlone'
  BY <1>2, <1>4 DEF NewIsAlone, Pulling
<1>9. PublishedIsOld'
  BY <1>2, <1>4, <1>5 DEF PublishedIsOld, Pulling
<1>10. PartIsCopied'
  <2> SUFFICES ASSUME NEW s \in Report \ contested, NEW q \in Pulling,
                      dest'[s] = "part", s \notin pull[q].before
               PROVE  pull'[q].copying = {s}
    BY <1>2, <1>4 DEF PartIsCopied, Pulling
  <2>1. CASE q = p
    <3>1. s = r
      BY <2>1, <1>1, <1>5 DEF PartIsCopied
    <3> QED
      BY <3>1, <2>1, <1>3, <1>1 DEF Running
  <2>2. CASE q # p
    BY <2>2, <1>1 DEF NewIsAlone
  <2> QED
    BY <2>1, <2>2
<1>11. UnpublishedIsNew'
  <2> SUFFICES ASSUME NEW s \in Files' \ (passedOver \union Skipped), published[s] = 0
               PROVE  \E q \in Pulling : s \notin pull[q].before
    BY <1>2, <1>4 DEF UnpublishedIsNew, Pulling
  <2>1. CASE s \in Files
    BY <2>1 DEF UnpublishedIsNew
  <2>2. CASE s \notin Files
    BY <2>2, <1>1 DEF PullShape
  <2> QED
    BY <2>1, <2>2
<1>12. Once'
  BY <1>2 DEF Once
<1> QED
  BY <1>6, <1>7, <1>8, <1>9, <1>10, <1>11, <1>12

LEMMA CopyEndInv ==
    ASSUME CrashInv, NEW p \in Pull, NEW r \in Report, CopyEnd(p, r) PROVE CrashInv'
<1> USE DEF CrashInv
<1>1. /\ p \in Pulling /\ pull[p] \in Running /\ r \in pull[p].copying
      /\ pull' = [pull EXCEPT ![p].copying = {}, ![p].left = @ \ {r}]
      /\ dest' = [dest EXCEPT ![r] = "whole"]
  BY RunningPull DEF CopyEnd, Pulling
<1>2. /\ published' = published /\ torn' = torn /\ passedOver' = passedOver
      /\ onPhone' = onPhone /\ contested' = contested
  BY DEF CopyEnd
<1>3. /\ pull'[p] = [pull[p] EXCEPT !.copying = {}, !.left = @ \ {r}]
      /\ pull'[p] \in Running /\ pull'[p].copying = {}
  BY <1>1 DEF CrashTypeOK, Running
<1>4. /\ Pulling' = Pulling
      /\ \A q \in Pull : /\ q # p => pull'[q] = pull[q]
                         /\ q \in Pulling => pull'[q].before = pull[q].before
  BY <1>1, <1>3 DEF Pulling, CrashTypeOK, Running
<1>5. /\ Files \subseteq Files' /\ Files' \subseteq Files \union {r}
      /\ dest'[r] = "whole" /\ \A s \in Report : s # r => dest'[s] = dest[s]
  BY <1>1 DEF Files, CrashTypeOK
<1>6. CrashTypeOK'
  BY <1>1, <1>2, <1>3 DEF CrashTypeOK
<1>7. PullShape'
  BY <1>1, <1>3, <1>4, <1>5 DEF PullShape, Pulling
<1>8. NewIsAlone'
  BY <1>2, <1>4 DEF NewIsAlone, Pulling
<1>9. PublishedIsOld'
  BY <1>2, <1>4, <1>5 DEF PublishedIsOld, Pulling
<1>10. PartIsCopied'
  <2> SUFFICES ASSUME NEW s \in Report \ contested, NEW q \in Pulling,
                      dest'[s] = "part", s \notin pull[q].before
               PROVE  pull'[q].copying = {s}
    BY <1>2, <1>4 DEF PartIsCopied, Pulling
  <2>1. pull[q].copying = {s} /\ s # r
    BY <1>5 DEF PartIsCopied
  <2> QED
    BY <2>1, <1>1, <1>4 DEF Pulling
<1>11. UnpublishedIsNew'
  <2> SUFFICES ASSUME NEW s \in Files' \ (passedOver \union Skipped), published[s] = 0
               PROVE  \E q \in Pulling : s \notin pull[q].before
    BY <1>2, <1>4 DEF UnpublishedIsNew, Pulling
  <2>1. CASE s \in Files
    BY <2>1 DEF UnpublishedIsNew
  <2>2. CASE s \notin Files
    BY <2>2, <1>1 DEF PullShape
  <2> QED
    BY <2>1, <2>2
<1>12. Once'
  BY <1>2 DEF Once
<1> QED
  BY <1>6, <1>7, <1>8, <1>9, <1>10, <1>11, <1>12

\* A request that is over: the others go on as they were.
LEMMA PullOver ==
    ASSUME CrashInv, NEW p \in Pull, pull[p].on, pull' = [pull EXCEPT ![p] = Idle],
           UNCHANGED <<onPhone, dest, contested>>
    PROVE  /\ p \in Pulling /\ Pulling' = Pulling \ {p} /\ Files' = Files
           /\ pull' \in [Pull -> {Idle} \union Running]
           /\ \A q \in Pulling' : pull'[q] = pull[q]
           /\ PullShape' /\ NewIsAlone' /\ PartIsCopied'
<1> USE DEF CrashInv
<1>1. /\ p \in Pulling /\ Pulling' = Pulling \ {p} /\ Files' = Files
      /\ pull' \in [Pull -> {Idle} \union Running]
      /\ \A q \in Pulling' : pull'[q] = pull[q]
  BY DEF Pulling, Files, CrashTypeOK, Idle
<1> QED
  BY <1>1 DEF PullShape, NewIsAlone, PartIsCopied

LEMMA AnswerInv == ASSUME CrashInv, NEW p \in Pull, Answer(p) PROVE CrashInv'
<1> USE DEF CrashInv
<1> DEFINE given == New(p) \ Skipped
<1>1. /\ pull[p].on /\ pull[p].left = {}
      /\ pull' = [pull EXCEPT ![p] = Idle] /\ UNCHANGED <<onPhone, dest, contested>>
      /\ published' = [r \in Report |-> published[r] + IF r \in given THEN 1 ELSE 0]
      /\ torn' = torn \union {r \in given : dest[r] = "part"}
      /\ passedOver' = passedOver
  BY DEF Answer, Publishable
<1>2. /\ p \in Pulling /\ Pulling' = Pulling \ {p} /\ Files' = Files
      /\ pull' \in [Pull -> {Idle} \union Running]
      /\ \A q \in Pulling' : pull'[q] = pull[q]
      /\ PullShape' /\ NewIsAlone' /\ PartIsCopied'
  BY <1>1, PullOver
<1>3. given = {r \in Files : r \notin pull[p].before /\ r \notin Skipped}
  BY DEF New
<1>4. \A r \in Report : published'[r] \in Nat /\ published'[r] >= published[r]
  BY <1>1 DEF CrashTypeOK
<1>5. CrashTypeOK'
  BY <1>1, <1>2, <1>4 DEF CrashTypeOK
<1>6. PublishedIsOld'
  <2> SUFFICES ASSUME NEW r \in Report \ contested, published'[r] > 0
               PROVE  r \in Files /\ \A q \in Pulling \ {p} : r \in pull[q].before
    BY <1>1, <1>2 DEF PublishedIsOld
  <2>1. CASE r \in given
    BY <2>1, <1>2, <1>3 DEF NewIsAlone
  <2>2. CASE r \notin given
    BY <2>2, <1>1 DEF PublishedIsOld, CrashTypeOK
  <2> QED
    BY <2>1, <2>2
<1>7. UnpublishedIsNew'
  <2> SUFFICES ASSUME NEW r \in Files \ (passedOver \union Skipped), published'[r] = 0
               PROVE  \E q \in Pulling \ {p} : r \notin pull[q].before
    BY <1>1, <1>2 DEF UnpublishedIsNew
  <2>1. r \in Report /\ r \notin given /\ published[r] = 0
    BY <1>1 DEF Files, CrashTypeOK
  <2>2. PICK q \in Pulling : r \notin pull[q].before
    BY <2>1 DEF UnpublishedIsNew
  <2> QED
    BY <2>1, <2>2, <1>3
<1>8. Once'
  <2> SUFFICES ASSUME NEW r \in Report \ contested
               PROVE  published'[r] <= 1 /\ r \notin torn'
    BY <1>1 DEF Once
  <2>1. CASE r \in given
    <3>1. published[r] = 0
      BY <2>1, <1>2, <1>3 DEF PublishedIsOld, CrashTypeOK
    <3>2. pull[p].copying = {}
      BY <1>1, <1>2 DEF PullShape
    <3>3. dest[r] # "part"
      BY <3>2, <2>1, <1>2, <1>3 DEF PartIsCopied
    <3> QED
      BY <3>1, <3>3, <2>1, <1>1 DEF Once
  <2>2. CASE r \notin given
    BY <2>2, <1>1 DEF Once, CrashTypeOK
  <2> QED
    BY <2>1, <2>2
<1> QED
  BY <1>2, <1>5, <1>6, <1>7, <1>8

LEMMA FailsInv == ASSUME CrashInv, NEW p \in Pull, Fails(p) PROVE CrashInv'
<1> USE DEF CrashInv
<1>1. /\ pull[p].on
      /\ pull' = [pull EXCEPT ![p] = Idle] /\ UNCHANGED <<onPhone, dest, contested>>
      /\ UNCHANGED <<published, torn>>
      /\ passedOver' = passedOver \union (Files \ pull[p].before)
  BY DEF Fails, New
<1>2. /\ p \in Pulling /\ Pulling' = Pulling \ {p} /\ Files' = Files
      /\ pull' \in [Pull -> {Idle} \union Running]
      /\ \A q \in Pulling' : pull'[q] = pull[q]
      /\ PullShape' /\ NewIsAlone' /\ PartIsCopied'
  BY <1>1, PullOver
<1>3. CrashTypeOK' /\ Once'
  BY <1>1, <1>2 DEF CrashTypeOK, Once
<1>4. PublishedIsOld'
  BY <1>1, <1>2 DEF PublishedIsOld
<1>5. UnpublishedIsNew'
  BY <1>1, <1>2 DEF UnpublishedIsNew
<1> QED
  BY <1>2, <1>3, <1>4, <1>5

LEMMA CrashInvInductive == CrashInv /\ [Next]_vars => CrashInv'
<1> SUFFICES ASSUME CrashInv, [Next]_vars PROVE CrashInv'
  OBVIOUS
<1>1. CASE UNCHANGED crashVars
  BY <1>1 DEF crashVars, CrashInv, CrashTypeOK, PullShape, NewIsAlone, PublishedIsOld,
              PartIsCopied, UnpublishedIsNew, Once, Files, Pulling
<1>2. ASSUME NEW r \in Report, Crash(r) PROVE CrashInv'
  BY <1>2 DEF Crash, CrashInv, CrashTypeOK, PullShape, NewIsAlone, PublishedIsOld,
              PartIsCopied, UnpublishedIsNew, Once, Files, Pulling
<1>3. CASE Moves \/ ListUsb \/ ListWifi \/ UNCHANGED vars
  BY <1>1, <1>3 DEF Moves, ListUsb, ListWifi, vars
<1> QED
  BY <1>2, <1>3, RequestInv, AnswerInv, FailsInv, CopyBeginInv, CopyEndInv DEF Next

\* No interleaving of pulls, failures and new reports publishes a report twice, or
\* half of it, unless two pulls contest it, and none is passed over that no failed
\* pull left behind.
THEOREM ReportsPublishedOnce == Spec => []PublishedOnce
<1>1. Init => CrashInv
  BY CrashInit
<1>2. CrashInv /\ [Next]_vars => CrashInv'
  BY CrashInvInductive
<1>3. CrashInv => PublishedOnce
  BY InvGivesOnce
<1> QED
  BY <1>1, <1>2, <1>3, PTL DEF Spec

-----------------------------------------------------------------------------
(* Numbers: induction, for a property that is written as a set *)

\* A nonempty set of numbers has a smallest one; a set of numbers that has 0 and
\* the successor of each of its members has all.
LEMMA SmallestOf ==
    ASSUME NEW S, S \subseteq Nat, S # {}
    PROVE  \E n \in S : \A m \in S : n <= m
<1> DEFINE R == OpToRel(<, Nat)
<1>1. IsWellFoundedOn(R, Nat)
  BY NatLessThanWellFounded
<1>2. \A m, n \in Nat : <<m, n>> \in R <=> m < n
  BY DEF OpToRel
<1> HIDE DEF R
<1>3. PICK n \in S : \A m \in S : ~ (<<m, n>> \in R)
  BY <1>1, WFMin
<1>4. \A m \in S : m \in Nat /\ n \in Nat /\ ~ (m < n)
  BY <1>2, <1>3
<1>5. \A m \in S : n <= m
  BY <1>4
<1> QED
  BY <1>5

LEMMA Induction ==
    ASSUME NEW S, 0 \in S, \A n \in Nat : n \in S => n + 1 \in S
    PROVE  Nat \subseteq S
<1> SUFFICES ASSUME NEW k \in Nat, k \notin S PROVE FALSE
  OBVIOUS
<1>1. PICK n \in Nat \ S : \A m \in Nat \ S : n <= m
  BY SmallestOf
<1>2. n # 0 /\ n - 1 \in Nat /\ n = (n - 1) + 1 /\ ~ (n <= n - 1)
  BY <1>1
<1>3. n - 1 \in S
  BY <1>1, <1>2
<1> QED
  BY <1>1, <1>2, <1>3

-----------------------------------------------------------------------------
(* Python's or *)

LEMMA FirstSetIs ==
    ASSUME NEW n \in Nat, NEW values, DOMAIN values = 1 .. n,
           NEW i \in 1 .. n, values[i] # Missing, \A j \in 1 .. i - 1 : values[j] = Missing
    PROVE  FirstSet(values) = values[i]
<1> DEFINE IsFirst(k) == values[k] # Missing /\ \A j \in 1 .. k - 1 : values[j] = Missing
<1>1. IsFirst(i)
  OBVIOUS
<1>2. ASSUME NEW k \in 1 .. n, IsFirst(k) PROVE k = i
  <2>1. ~ (k \in 1 .. i - 1) /\ ~ (i \in 1 .. k - 1)
    BY <1>2
  <2> QED
    BY <2>1
<1>3. FirstSet(values) = values[CHOOSE k \in 1 .. n : IsFirst(k)]
  BY DEF FirstSet
<1> HIDE DEF IsFirst
<1>4. (CHOOSE k \in 1 .. n : IsFirst(k)) = i
  BY <1>1, <1>2
<1> QED
  BY <1>3, <1>4

LEMMA FirstSetNone ==
    ASSUME NEW values, \A i \in DOMAIN values : values[i] = Missing
    PROVE  FirstSet(values) = Missing
BY DEF FirstSet

LEMMA FirstSetSome ==
    ASSUME NEW n \in Nat, NEW values, DOMAIN values = 1 .. n, FirstSet(values) # Missing
    PROVE  \E i \in 1 .. n : /\ values[i] # Missing /\ \A j \in 1 .. i - 1 : values[j] = Missing
                             /\ FirstSet(values) = values[i]
<1> DEFINE set == {i \in 1 .. n : values[i] # Missing}
<1>1. set # {} /\ set \subseteq Nat
  BY FirstSetNone
<1>2. PICK i \in set : \A j \in set : i <= j
  BY <1>1, SmallestOf
<1>3. \A j \in 1 .. i - 1 : j \in 1 .. n /\ ~ (i <= j)
  BY <1>2
<1>4. \A j \in 1 .. i - 1 : values[j] = Missing
  BY <1>2, <1>3
<1> QED
  BY <1>2, <1>4, FirstSetIs

\* c is the m values of a, then the n values of b.
Follows(m, a, n, b, c) ==
    /\ m \in Nat /\ n \in Nat
    /\ DOMAIN a = 1 .. m /\ DOMAIN b = 1 .. n /\ DOMAIN c = 1 .. m + n
    /\ \A i \in 1 .. m : c[i] = a[i]
    /\ \A i \in 1 .. n : c[m + i] = b[i]

LEMMA FirstSetJoins ==
    ASSUME NEW m, NEW a, NEW n, NEW b, NEW c, Follows(m, a, n, b, c)
    PROVE  FirstSet(c) = IF FirstSet(a) # Missing THEN FirstSet(a) ELSE FirstSet(b)
<1> USE DEF Follows
<1>1. CASE FirstSet(a) # Missing
  <2>1. PICK i \in 1 .. m : /\ a[i] # Missing /\ \A j \in 1 .. i - 1 : a[j] = Missing
                            /\ FirstSet(a) = a[i]
    BY <1>1, FirstSetSome
  <2>2. i \in 1 .. m + n /\ c[i] # Missing /\ \A j \in 1 .. i - 1 : c[j] = Missing
    <3>1. \A j \in 1 .. i - 1 : j \in 1 .. m
      BY <2>1
    <3> QED
      BY <2>1, <3>1
  <2>3. FirstSet(c) = c[i]
    BY <2>2, FirstSetIs, m + n \in Nat
  <2> QED
    BY <1>1, <2>1, <2>3
<1>2. CASE FirstSet(a) = Missing
  <2>1. \A i \in 1 .. m : c[i] = Missing
    <3> SUFFICES ASSUME NEW i \in 1 .. m, c[i] # Missing PROVE FALSE
      OBVIOUS
    <3> DEFINE set == {j \in 1 .. m : a[j] # Missing}
    <3>1. PICK k \in set : \A j \in set : k <= j
      <4>1. set \subseteq Nat /\ set # {}
        OBVIOUS
      <4> HIDE DEF set
      <4> QED
        BY <4>1, SmallestOf
    <3>2. \A j \in 1 .. k - 1 : j \in 1 .. m /\ ~ (k <= j)
      BY <3>1
    <3>3. \A j \in 1 .. k - 1 : a[j] = Missing
      BY <3>1, <3>2
    <3>4. FirstSet(a) = a[k]
      BY <3>1, <3>3, FirstSetIs
    <3> QED
      BY <1>2, <3>1, <3>4
  <2>2. \A i \in 1 .. m + n : i \in 1 .. m \/ (i - m \in 1 .. n /\ i = m + (i - m))
    OBVIOUS
  <2>3. CASE FirstSet(b) = Missing
    <3> SUFFICES ASSUME FirstSet(c) # Missing PROVE FALSE
      BY <1>2, <2>3
    <3>1. PICK i \in 1 .. m + n : /\ c[i] # Missing /\ \A j \in 1 .. i - 1 : c[j] = Missing
      BY FirstSetSome, m + n \in Nat
    <3>2. i - m \in 1 .. n /\ b[i - m] # Missing
      BY <2>1, <2>2, <3>1
    <3>3. \A j \in 1 .. (i - m) - 1 : j \in 1 .. n /\ m + j \in 1 .. i - 1
      BY <3>2
    <3>4. \A j \in 1 .. (i - m) - 1 : b[j] = Missing
      BY <3>1, <3>3
    <3>5. FirstSet(b) = b[i - m]
      BY <3>2, <3>4, FirstSetIs
    <3> QED
      BY <2>3, <3>2, <3>5
  <2>4. CASE FirstSet(b) # Missing
    <3>1. PICK i \in 1 .. n : /\ b[i] # Missing /\ \A j \in 1 .. i - 1 : b[j] = Missing
                              /\ FirstSet(b) = b[i]
      BY <2>4, FirstSetSome
    <3>2. m + i \in 1 .. m + n /\ c[m + i] = b[i]
      BY <3>1
    <3>3. ASSUME NEW j \in 1 .. (m + i) - 1 PROVE c[j] = Missing
      <4>1. CASE j \in 1 .. m
        BY <2>1, <4>1
      <4>2. CASE j - m \in 1 .. i - 1
        <5>1. j - m \in 1 .. n /\ j = m + (j - m)
          BY <4>2
        <5> QED
          BY <3>1, <4>2, <5>1
      <4> QED
        BY <4>1, <4>2
    <3>4. FirstSet(c) = c[m + i]
      BY <3>1, <3>2, <3>3, FirstSetIs, m + n \in Nat
    <3> QED
      BY <1>2, <3>1, <3>2, <3>4
  <2> QED
    BY <2>3, <2>4
<1> QED
  BY <1>1, <1>2

LEMMA FirstOfOne ==
    ASSUME NEW a, DOMAIN a = 1 .. 1
    PROVE  FirstSet(a) = a[1]
<1>1. CASE a[1] = Missing
  <2>1. \A i \in DOMAIN a : a[i] = Missing
    BY <1>1
  <2> QED
    BY <1>1, <2>1, FirstSetNone
<1>2. CASE a[1] # Missing
  <2>1. \A j \in 1 .. 1 - 1 : a[j] = Missing
    OBVIOUS
  <2> QED
    BY ONLY <1>2, <2>1, DOMAIN a = 1 .. 1, 1 \in Nat, 1 \in 1 .. 1, FirstSetIs
<1> QED
  BY <1>1, <1>2

LEMMA FirstOfTwo ==
    ASSUME NEW a, NEW b
    PROVE  FirstSet(<< a, b >>) = IF a # Missing THEN a ELSE b
<1> DEFINE one == 1
           left == << a >>
           right == << b >>
           both == << a, b >>
<1>1. /\ one \in Nat
      /\ DOMAIN left = 1 .. one /\ DOMAIN right = 1 .. one /\ DOMAIN both = 1 .. one + one
      /\ \A i \in 1 .. one : both[i] = left[i]
      /\ \A i \in 1 .. one : both[one + i] = right[i]
  OBVIOUS
<1>2. FirstSet(left) = a /\ FirstSet(right) = b
  <2>1. DOMAIN left = 1 .. 1 /\ DOMAIN right = 1 .. 1 /\ left[1] = a /\ right[1] = b
    OBVIOUS
  <2> HIDE DEF left, right
  <2> QED
    BY <2>1, FirstOfOne
<1> HIDE DEF one, left, right, both
<1>3. FirstSet(both) = IF FirstSet(left) # Missing THEN FirstSet(left) ELSE FirstSet(right)
  <2>1. Follows(one, left, one, right, both)
    BY <1>1 DEF Follows
  <2> QED
    BY <2>1, FirstSetJoins
<1> QED
  BY <1>2, <1>3 DEF both

\* STRING; the provers do not know that a literal is one.
Text == STRING \union {Missing, "USB", "Network"}
Device == [udid : Text, address : Text, name : Text, connection : Text]

LEMMA FirstSetText ==
    ASSUME NEW n \in Nat, NEW values, DOMAIN values = 1 .. n,
           \A i \in 1 .. n : values[i] \in Text
    PROVE  FirstSet(values) \in Text
<1>1. CASE FirstSet(values) = Missing
  BY <1>1 DEF Text
<1>2. CASE FirstSet(values) # Missing
  <2>1. PICK i \in 1 .. n : FirstSet(values) = values[i]
    BY <1>2, FirstSetSome
  <2> QED
    BY <2>1
<1> QED
  BY <1>1, <1>2

LEMMA EitherIsText ==
    ASSUME NEW a \in Text, NEW b \in Text
    PROVE  FirstSet(<< a, b >>) \in Text
BY FirstOfTwo

LEMMA NormDevIsDevice == ASSUME NEW g \in JsonObject PROVE NormDev(g) \in Device
<1>1. /\ g.uniquedeviceid \in Text /\ g.identifier \in Text /\ g.serial \in Text /\ g.ip \in Text
      /\ g.devicename \in Text /\ g.connectiontype \in Text /\ Missing \in Text
  BY DEF JsonObject, Text
<1>2. NormDev(g).udid \in Text
  <2> DEFINE values == << g.uniquedeviceid, IF g.identifier \in Address THEN Missing ELSE g.identifier,
                          g.serial >>
  <2>1. DOMAIN values = 1 .. 3 /\ \A i \in 1 .. 3 : values[i] \in Text
    BY <1>1
  <2>2. NormDev(g).udid = FirstSet(values)
    BY DEF NormDev
  <2> HIDE DEF values
  <2> QED
    BY <2>1, <2>2, FirstSetText
<1>3. NormDev(g).address \in Text
  BY <1>1, EitherIsText DEF NormDev
<1> QED
  BY <1>1, <1>2, <1>3 DEF NormDev, Device

LEMMA MergedIsDevice ==
    ASSUME NEW cur \in Device, NEW d \in Device
    PROVE  /\ Merged(cur, d) \in Device
           /\ Merged(cur, d).udid = cur.udid
           /\ Merged(cur, d).address = IF cur.address # Missing THEN cur.address ELSE d.address
           /\ Merged(cur, d).name = IF cur.name # Missing THEN cur.name ELSE d.name
           /\ Merged(cur, d).connection = IF d.connection = "USB" THEN "USB"
                                          ELSE IF cur.connection # Missing THEN cur.connection
                                          ELSE d.connection
<1>1. /\ FirstSet(<< cur.address, d.address >>) = IF cur.address # Missing THEN cur.address ELSE d.address
      /\ FirstSet(<< cur.name, d.name >>) = IF cur.name # Missing THEN cur.name ELSE d.name
      /\ FirstSet(<< cur.connection, d.connection >>) =
           IF cur.connection # Missing THEN cur.connection ELSE d.connection
  BY FirstOfTwo
<1>2. "USB" \in Text
  BY DEF Text
<1> QED
  BY <1>1, <1>2 DEF Merged, Device

-----------------------------------------------------------------------------
(* What all entries of a UDID say *)

\* One field of the entries of u, nothing for the others.
Addresses(u, all) == [i \in DOMAIN all |-> IF all[i].udid = u THEN all[i].address ELSE Missing]
Names(u, all) == [i \in DOMAIN all |-> IF all[i].udid = u THEN all[i].name ELSE Missing]
Connections(u, all) == [i \in DOMAIN all |-> IF all[i].udid = u THEN all[i].connection ELSE Missing]
OnUsb(u, all) == \E i \in DOMAIN all : all[i].udid = u /\ all[i].connection = "USB"

LEMMA EntryIs ==
    ASSUME NEW u, NEW all
    PROVE  EntryFor(u, all) =
             [udid |-> u, address |-> FirstSet(Addresses(u, all)), name |-> FirstSet(Names(u, all)),
              connection |-> IF OnUsb(u, all) THEN "USB" ELSE FirstSet(Connections(u, all))]
<1>1. \A i \in DOMAIN all : i \in Named(u, all) <=> all[i].udid = u
  BY DEF Named
<1>2. OnUsb(u, all) <=> \E i \in Named(u, all) : all[i].connection = "USB"
  BY DEF OnUsb, Named
<1>3. /\ Addresses(u, all) = [i \in DOMAIN all |-> IF i \in Named(u, all) THEN all[i].address ELSE Missing]
      /\ Names(u, all) = [i \in DOMAIN all |-> IF i \in Named(u, all) THEN all[i].name ELSE Missing]
      /\ Connections(u, all) = [i \in DOMAIN all |-> IF i \in Named(u, all) THEN all[i].connection ELSE Missing]
  BY <1>1 DEF Addresses, Names, Connections
<1> QED
  BY <1>2, <1>3 DEF EntryFor

LEMMA EntryIsDevice ==
    ASSUME NEW u \in Text, NEW all \in Seq(Device)
    PROVE  EntryFor(u, all) \in Device
<1> DEFINE n == Len(all)
<1>1. n \in Nat /\ DOMAIN all = 1 .. n /\ \A i \in 1 .. n : all[i] \in Device
  OBVIOUS
<1> HIDE DEF n
<1>2. Missing \in Text /\ "USB" \in Text
  BY DEF Text
<1>3. \A i \in 1 .. n : /\ Addresses(u, all)[i] \in Text /\ Names(u, all)[i] \in Text
                        /\ Connections(u, all)[i] \in Text
  BY <1>1, <1>2 DEF Addresses, Names, Connections, Device
<1>4. DOMAIN Addresses(u, all) = 1 .. n /\ DOMAIN Names(u, all) = 1 .. n /\ DOMAIN Connections(u, all) = 1 .. n
  BY <1>1 DEF Addresses, Names, Connections
<1>5. /\ FirstSet(Addresses(u, all)) \in Text /\ FirstSet(Names(u, all)) \in Text
      /\ FirstSet(Connections(u, all)) \in Text
  BY <1>1, <1>3, <1>4, FirstSetText
<1> QED
  BY <1>2, <1>5, EntryIs DEF Device

\* Two lists, one after the other.
LEMMA EntryJoins ==
    ASSUME NEW u, NEW a \in Seq(Device), NEW b \in Seq(Device)
    PROVE  LET x == EntryFor(u, a)  y == EntryFor(u, b) IN
           EntryFor(u, a \o b) =
             [udid |-> u,
              address |-> IF x.address # Missing THEN x.address ELSE y.address,
              name |-> IF x.name # Missing THEN x.name ELSE y.name,
              connection |-> IF OnUsb(u, a) \/ OnUsb(u, b) THEN "USB"
                             ELSE IF x.connection # Missing THEN x.connection ELSE y.connection]
<1> DEFINE m == Len(a)
           n == Len(b)
           all == a \o b
<1>1. /\ m \in Nat /\ n \in Nat /\ DOMAIN a = 1 .. m /\ DOMAIN b = 1 .. n /\ DOMAIN all = 1 .. m + n
      /\ \A i \in 1 .. m : all[i] = a[i] /\ i \in 1 .. m + n
      /\ \A i \in 1 .. n : all[m + i] = b[i] /\ m + i \in 1 .. m + n
      /\ \A i \in 1 .. m + n : i \in 1 .. m \/ (i - m \in 1 .. n /\ i = m + (i - m))
  OBVIOUS
<1> HIDE DEF m, n, all
<1>2. FirstSet(Addresses(u, all)) = IF FirstSet(Addresses(u, a)) # Missing THEN FirstSet(Addresses(u, a))
                                    ELSE FirstSet(Addresses(u, b))
  <2> DEFINE x == Addresses(u, a)
             y == Addresses(u, b)
             z == Addresses(u, all)
  <2>1. /\ m \in Nat /\ n \in Nat
        /\ DOMAIN x = 1 .. m /\ DOMAIN y = 1 .. n /\ DOMAIN z = 1 .. m + n
        /\ \A i \in 1 .. m : z[i] = x[i]
        /\ \A i \in 1 .. n : z[m + i] = y[i]
    BY <1>1 DEF Addresses
  <2> HIDE DEF x, y, z
  <2>2. FirstSet(z) = IF FirstSet(x) # Missing THEN FirstSet(x) ELSE FirstSet(y)
    <3>1. Follows(m, x, n, y, z)
      BY <2>1 DEF Follows
    <3> QED
      BY <3>1, FirstSetJoins
  <2> QED
    BY <2>2 DEF x, y, z
<1>3. FirstSet(Names(u, all)) = IF FirstSet(Names(u, a)) # Missing THEN FirstSet(Names(u, a))
                                ELSE FirstSet(Names(u, b))
  <2> DEFINE x == Names(u, a)
             y == Names(u, b)
             z == Names(u, all)
  <2>1. /\ m \in Nat /\ n \in Nat
        /\ DOMAIN x = 1 .. m /\ DOMAIN y = 1 .. n /\ DOMAIN z = 1 .. m + n
        /\ \A i \in 1 .. m : z[i] = x[i]
        /\ \A i \in 1 .. n : z[m + i] = y[i]
    BY <1>1 DEF Names
  <2> HIDE DEF x, y, z
  <2>2. FirstSet(z) = IF FirstSet(x) # Missing THEN FirstSet(x) ELSE FirstSet(y)
    <3>1. Follows(m, x, n, y, z)
      BY <2>1 DEF Follows
    <3> QED
      BY <3>1, FirstSetJoins
  <2> QED
    BY <2>2 DEF x, y, z
<1>4. FirstSet(Connections(u, all)) = IF FirstSet(Connections(u, a)) # Missing THEN FirstSet(Connections(u, a))
                                      ELSE FirstSet(Connections(u, b))
  <2> DEFINE x == Connections(u, a)
             y == Connections(u, b)
             z == Connections(u, all)
  <2>1. /\ m \in Nat /\ n \in Nat
        /\ DOMAIN x = 1 .. m /\ DOMAIN y = 1 .. n /\ DOMAIN z = 1 .. m + n
        /\ \A i \in 1 .. m : z[i] = x[i]
        /\ \A i \in 1 .. n : z[m + i] = y[i]
    BY <1>1 DEF Connections
  <2> HIDE DEF x, y, z
  <2>2. FirstSet(z) = IF FirstSet(x) # Missing THEN FirstSet(x) ELSE FirstSet(y)
    <3>1. Follows(m, x, n, y, z)
      BY <2>1 DEF Follows
    <3> QED
      BY <3>1, FirstSetJoins
  <2> QED
    BY <2>2 DEF x, y, z
<1>5. OnUsb(u, all) <=> OnUsb(u, a) \/ OnUsb(u, b)
  <2>1. OnUsb(u, a) => OnUsb(u, all)
    BY <1>1 DEF OnUsb
  <2>2. ASSUME OnUsb(u, b) PROVE OnUsb(u, all)
    <3>1. PICK i \in 1 .. n : b[i].udid = u /\ b[i].connection = "USB"
      BY <1>1, <2>2 DEF OnUsb
    <3>2. m + i \in DOMAIN all /\ all[m + i] = b[i]
      BY <1>1
    <3> QED
      BY <3>1, <3>2 DEF OnUsb
  <2>3. ASSUME OnUsb(u, all) PROVE OnUsb(u, a) \/ OnUsb(u, b)
    <3>1. PICK i \in 1 .. m + n : all[i].udid = u /\ all[i].connection = "USB"
      BY <1>1, <2>3 DEF OnUsb
    <3>2. CASE i \in 1 .. m
      BY <1>1, <3>1, <3>2 DEF OnUsb
    <3>3. CASE i - m \in 1 .. n /\ i = m + (i - m)
      <4>1. i - m \in DOMAIN b /\ all[i] = b[i - m]
        BY <1>1, <3>3
      <4> QED
        BY <3>1, <4>1 DEF OnUsb
    <3> QED
      BY <1>1, <3>2, <3>3
  <2> QED
    BY <2>1, <2>2, <2>3
<1> QED
  BY <1>2, <1>3, <1>4, <1>5, EntryIs DEF all

LEMMA UsbMeans ==
    ASSUME NEW u, NEW all \in Seq(Device)
    PROVE  OnUsb(u, all) <=> EntryFor(u, all).connection = "USB"
<1> DEFINE values == Connections(u, all)
<1>1. Len(all) \in Nat /\ DOMAIN values = 1 .. Len(all)
  BY DEF Connections
<1>2. EntryFor(u, all).connection = IF OnUsb(u, all) THEN "USB" ELSE FirstSet(values)
  BY EntryIs
<1>3. ASSUME FirstSet(values) = "USB" PROVE OnUsb(u, all)
  <2>1. Missing # "USB"
    BY DEF Missing
  <2> HIDE DEF values
  <2>2. PICK i \in 1 .. Len(all) : FirstSet(values) = values[i]
    BY <1>1, <1>3, <2>1, FirstSetSome
  <2>3. i \in DOMAIN all /\ values[i] = "USB"
    BY <1>3, <2>2
  <2> QED
    BY <2>1, <2>3 DEF values, Connections, OnUsb
<1> QED
  BY <1>2, <1>3

\* No entry at all.
Nothing(u) == [udid |-> u, address |-> Missing, name |-> Missing, connection |-> Missing]

LEMMA EntryOfNone ==
    ASSUME NEW u, NEW all \in Seq(Device), \A i \in DOMAIN all : all[i].udid # u
    PROVE  EntryFor(u, all) = Nothing(u)
<1>1. /\ FirstSet(Addresses(u, all)) = Missing /\ FirstSet(Names(u, all)) = Missing
      /\ FirstSet(Connections(u, all)) = Missing
  BY FirstSetNone DEF Addresses, Names, Connections
<1>2. ~ OnUsb(u, all)
  BY DEF OnUsb
<1> QED
  BY <1>1, <1>2, EntryIs DEF Nothing

LEMMA EntryOfOne ==
    ASSUME NEW d \in Device
    PROVE  EntryFor(d.udid, << d >>) = d
<1> DEFINE u == d.udid
           all == << d >>
<1>1. DOMAIN all = 1 .. 1 /\ all[1] = d
  OBVIOUS
<1> HIDE DEF all
<1>2. /\ FirstSet(Addresses(u, all)) = d.address /\ FirstSet(Names(u, all)) = d.name
      /\ FirstSet(Connections(u, all)) = d.connection
  <2>1. /\ DOMAIN Addresses(u, all) = 1 .. 1 /\ Addresses(u, all)[1] = d.address
        /\ DOMAIN Names(u, all) = 1 .. 1 /\ Names(u, all)[1] = d.name
        /\ DOMAIN Connections(u, all) = 1 .. 1 /\ Connections(u, all)[1] = d.connection
    BY <1>1 DEF Addresses, Names, Connections
  <2> QED
    BY <2>1, FirstOfOne
<1>3. OnUsb(u, all) <=> d.connection = "USB"
  BY <1>1 DEF OnUsb
<1>4. d = [udid |-> u, address |-> d.address, name |-> d.name, connection |-> d.connection]
  BY DEF Device
<1>5. EntryFor(u, all) = [udid |-> u, address |-> d.address, name |-> d.name, connection |-> d.connection]
  BY <1>2, <1>3, EntryIs
<1> QED
  BY <1>4, <1>5 DEF all

LEMMA EntryMerges ==
    ASSUME NEW u \in Text, NEW a \in Seq(Device), NEW b \in Seq(Device)
    PROVE  EntryFor(u, a \o b) = Merged(EntryFor(u, a), EntryFor(u, b))
<1> DEFINE x == EntryFor(u, a)
           y == EntryFor(u, b)
           z == EntryFor(u, a \o b)
<1>1. x \in Device /\ y \in Device /\ x.udid = u
  BY EntryIsDevice, EntryIs
<1>2. (OnUsb(u, a) <=> x.connection = "USB") /\ (OnUsb(u, b) <=> y.connection = "USB")
  BY UsbMeans
<1>3. z = [udid |-> u,
           address |-> IF x.address # Missing THEN x.address ELSE y.address,
           name |-> IF x.name # Missing THEN x.name ELSE y.name,
           connection |-> IF x.connection = "USB" \/ y.connection = "USB" THEN "USB"
                          ELSE IF x.connection # Missing THEN x.connection ELSE y.connection]
  BY <1>2, EntryJoins
<1> HIDE DEF x, y, z
<1>4. /\ Merged(x, y) \in Device /\ Merged(x, y).udid = u
      /\ Merged(x, y).address = IF x.address # Missing THEN x.address ELSE y.address
      /\ Merged(x, y).name = IF x.name # Missing THEN x.name ELSE y.name
      /\ Merged(x, y).connection = IF y.connection = "USB" THEN "USB"
                                   ELSE IF x.connection # Missing THEN x.connection ELSE y.connection
  BY <1>1, MergedIsDevice
<1>5. "USB" # Missing
  BY DEF Missing
<1>6. z = Merged(x, y)
  BY <1>3, <1>4, <1>5 DEF Device
<1> QED
  BY <1>6 DEF x, y, z

LEMMA MergedWithNothing ==
    ASSUME NEW d \in Device
    PROVE  Merged(Nothing(d.udid), d) = d /\ Merged(d, Nothing(d.udid)) = d
<1>1. Nothing(d.udid) \in Device
  BY DEF Nothing, Device, Text
<1>2. Missing # "USB"
  BY DEF Missing
<1> DEFINE x == Merged(Nothing(d.udid), d)
           y == Merged(d, Nothing(d.udid))
<1>3. /\ x \in Device /\ x.udid = d.udid /\ x.address = d.address /\ x.name = d.name
      /\ x.connection = d.connection
  BY <1>1, MergedIsDevice DEF Nothing
<1>4. /\ y \in Device /\ y.udid = d.udid /\ y.address = d.address /\ y.name = d.name
      /\ y.connection = d.connection
  BY <1>1, <1>2, MergedIsDevice DEF Nothing
<1> HIDE DEF x, y
<1>5. x = d /\ y = d
  BY <1>3, <1>4 DEF Device
<1> QED
  BY <1>5 DEF x, y

LEMMA EntryAppend ==
    ASSUME NEW u \in Text, NEW all \in Seq(Device), NEW d \in Device
    PROVE  EntryFor(u, Append(all, d)) =
             IF d.udid = u THEN Merged(EntryFor(u, all), d) ELSE EntryFor(u, all)
<1>1. << d >> \in Seq(Device) /\ Append(all, d) = all \o << d >>
  OBVIOUS
<1>2. EntryFor(u, Append(all, d)) = Merged(EntryFor(u, all), EntryFor(u, << d >>))
  BY <1>1, EntryMerges
<1>3. CASE d.udid = u
  BY <1>2, <1>3, EntryOfOne
<1>4. CASE d.udid # u
  <2>1. EntryFor(u, << d >>) = Nothing(u)
    <3>1. \A i \in DOMAIN << d >> : << d >>[i].udid # u
      BY <1>4
    <3> QED
      BY <1>1, <3>1, EntryOfNone
  <2>2. EntryFor(u, all) \in Device /\ EntryFor(u, all).udid = u
    BY EntryIsDevice, EntryIs
  <2> QED
    BY <1>2, <1>4, <2>1, <2>2, MergedWithNothing
<1> QED
  BY <1>3, <1>4

-----------------------------------------------------------------------------
(* The loop of _dedupe *)

LEMMA AbsorbIsRight ==
    ASSUME NEW all \in Seq(Device), NEW list \in Seq(Device), NEW d \in Device, IsListOf(list, all)
    PROVE  Absorb(list, d) \in Seq(Device) /\ IsListOf(Absorb(list, d), Append(all, d))
<1> DEFINE more == Append(all, d)
           next == Absorb(list, d)
           u == d.udid
<1>1. /\ DOMAIN more = DOMAIN all \union {Len(all) + 1}
      /\ \A i \in DOMAIN all : more[i] = all[i] /\ all[i] \in Device
      /\ more[Len(all) + 1] = d /\ more \in Seq(Device)
  OBVIOUS
<1>2. {more[i].udid : i \in DOMAIN more} = {all[i].udid : i \in DOMAIN all} \union {u}
  <2> HIDE DEF more
  <2> QED
    BY <1>1
<1>3. /\ {list[i].udid : i \in DOMAIN list} = {all[i].udid : i \in DOMAIN all} \ {Missing}
      /\ \A i \in DOMAIN list : list[i] = EntryFor(list[i].udid, all)
      /\ \A i, j \in DOMAIN list : list[i].udid = list[j].udid => i = j
      /\ \A i \in DOMAIN list : list[i] \in Device /\ list[i].udid \in Text
  <2>1. \A i \in DOMAIN list : list[i] \in Device
    OBVIOUS
  <2>2. \A i \in DOMAIN list : list[i].udid \in Text
    BY <2>1 DEF Device
  <2> QED
    BY <2>1, <2>2 DEF IsListOf
<1>4. u \in Text
  BY DEF Device
<1>5. \A i \in DOMAIN list :
        list[i].udid # u => EntryFor(list[i].udid, more) = list[i]
  BY <1>3, EntryAppend
<1>6. CASE u = Missing
  <2>1. next = list
    BY <1>6 DEF Absorb
  <2>2. \A i \in DOMAIN list : list[i].udid # u
    BY <1>3, <1>6
  <2>3. {list[i].udid : i \in DOMAIN list} = {more[i].udid : i \in DOMAIN more} \ {Missing}
    BY <1>2, <1>3, <1>6
  <2> HIDE DEF more
  <2>4. IsListOf(list, more)
    BY <1>3, <1>5, <2>2, <2>3 DEF IsListOf
  <2> QED
    BY <2>1, <2>4 DEF more
<1>7. CASE u # Missing /\ \E i \in DOMAIN list : list[i].udid = u
  <2>1. PICK k \in DOMAIN list : list[k].udid = u
    BY <1>7
  <2>2. next = [i \in DOMAIN list |-> IF list[i].udid = u THEN Merged(list[i], d) ELSE list[i]]
    BY <1>7 DEF Absorb
  <2>3. \A i \in DOMAIN list : i # k => list[i].udid # u
    BY <1>3, <2>1
  <2>4. Merged(list[k], d) \in Device /\ Merged(list[k], d).udid = u
    BY <1>3, <2>1, MergedIsDevice
  <2>5. Merged(list[k], d) = EntryFor(u, more)
    BY <1>3, <1>4, <2>1, EntryAppend
  <2> HIDE DEF more, next
  <2>6. /\ DOMAIN next = DOMAIN list
        /\ \A i \in DOMAIN list : next[i] \in Device /\ next[i].udid = list[i].udid
        /\ \A i \in DOMAIN list : next[i] = EntryFor(next[i].udid, more)
    BY <1>3, <1>5, <2>1, <2>2, <2>3, <2>4, <2>5
  <2>7. next \in Seq(Device)
    <3>1. Len(list) \in Nat /\ DOMAIN list = 1 .. Len(list)
      OBVIOUS
    <3>2. next \in [1 .. Len(list) -> Device]
      BY <2>2, <2>6, <3>1
    <3> QED
      BY <3>1, <3>2
  <2>8. {next[i].udid : i \in DOMAIN next} = {list[i].udid : i \in DOMAIN list}
    BY <2>6
  <2>9. u \in {list[i].udid : i \in DOMAIN list}
    BY <2>1
  <2>10. {next[i].udid : i \in DOMAIN next} = {more[i].udid : i \in DOMAIN more} \ {Missing}
    BY <1>2, <1>3, <1>7, <2>8, <2>9
  <2>11. \A i, j \in DOMAIN next : next[i].udid = next[j].udid => i = j
    BY <1>3, <2>6
  <2>12. IsListOf(next, more)
    BY <2>6, <2>10, <2>11 DEF IsListOf
  <2> QED
    BY <2>7, <2>12 DEF more, next
<1>8. CASE u # Missing /\ \A i \in DOMAIN list : list[i].udid # u
  <2>1. next = Append(list, d)
    BY <1>8 DEF Absorb
  <2>2. \A i \in DOMAIN all : all[i].udid # u
    <3> SUFFICES ASSUME NEW i \in DOMAIN all, all[i].udid = u PROVE FALSE
      OBVIOUS
    <3>1. u \in {list[j].udid : j \in DOMAIN list}
      BY <1>3, <1>8
    <3> QED
      BY <1>8, <3>1
  <2>3. EntryFor(u, more) = d
    BY <1>4, <2>2, EntryAppend, EntryOfNone, MergedWithNothing
  <2>4. /\ DOMAIN next = DOMAIN list \union {Len(list) + 1}
        /\ \A i \in DOMAIN list : next[i] = list[i]
        /\ next[Len(list) + 1] = d /\ next \in Seq(Device)
    BY <2>1
  <2> HIDE DEF more, next
  <2>5. {next[i].udid : i \in DOMAIN next} = {list[i].udid : i \in DOMAIN list} \union {u}
    BY <2>4
  <2>6. {next[i].udid : i \in DOMAIN next} = {more[i].udid : i \in DOMAIN more} \ {Missing}
    BY <1>2, <1>3, <1>8, <2>5
  <2>7. \A i \in DOMAIN next : next[i] = EntryFor(next[i].udid, more)
    BY <1>5, <1>8, <2>3, <2>4
  <2>8. \A i, j \in DOMAIN next : next[i].udid = next[j].udid => i = j
    BY <1>3, <1>8, <2>4
  <2>9. IsListOf(next, more)
    BY <2>6, <2>7, <2>8 DEF IsListOf
  <2> QED
    BY <2>4, <2>9 DEF more, next
<1> QED
  BY <1>6, <1>7, <1>8

\* The function that the loop computes exists, so ByUdid is one that does what
\* the loop does.
LEMMA ByUdidIs ==
    ASSUME NEW devs, Len(devs) \in Nat
    PROVE  ByUdid(devs) = [n \in 0 .. Len(devs) |->
                             IF n = 0 THEN << >> ELSE Absorb(ByUdid(devs)[n - 1], devs[n])]
<1> DEFINE Loop(k, f) == [n \in 0 .. k |-> IF n = 0 THEN << >> ELSE Absorb(f[n - 1], devs[n])]
           can == {k \in Nat : \E f : f = Loop(k, f)}
<1>1. 0 \in can
  <2> DEFINE f == [n \in 0 .. 0 |-> << >>]
  <2>1. f = Loop(0, f)
    OBVIOUS
  <2> HIDE DEF f, Loop
  <2> QED
    BY <2>1
<1>2. ASSUME NEW k \in Nat, k \in can PROVE k + 1 \in can
  <2>1. PICK f : f = Loop(k, f)
    BY <1>2
  <2> DEFINE g == [n \in 0 .. k + 1 |-> IF n = k + 1 THEN Absorb(f[k], devs[k + 1]) ELSE f[n]]
  <2>2. \A n \in 0 .. k + 1 : n # k + 1 => n \in 0 .. k /\ g[n] = f[n]
    OBVIOUS
  <2>3. \A n \in 0 .. k : f[n] = IF n = 0 THEN << >> ELSE Absorb(f[n - 1], devs[n])
    BY <2>1
  <2>4. ASSUME NEW n \in 0 .. k + 1
        PROVE  g[n] = IF n = 0 THEN << >> ELSE Absorb(g[n - 1], devs[n])
    <3>1. CASE n = k + 1
      <4>1. g[n] = Absorb(f[k], devs[k + 1]) /\ n - 1 = k /\ n # 0 /\ g[k] = f[k]
        BY <2>2, <3>1
      <4> QED
        BY <3>1, <4>1
    <3>2. CASE n # k + 1 /\ n = 0
      BY <2>2, <2>3, <3>2
    <3>3. CASE n # k + 1 /\ n # 0
      <4>1. n \in 0 .. k /\ g[n] = f[n] /\ g[n - 1] = f[n - 1]
        <5>1. n - 1 \in 0 .. k + 1 /\ n - 1 # k + 1
          BY <3>3
        <5> QED
          BY <2>2, <3>3, <5>1
      <4> QED
        BY <2>3, <3>3, <4>1
    <3> QED
      BY <3>1, <3>2, <3>3
  <2>5. g = Loop(k + 1, g)
    BY <2>4
  <2> HIDE DEF g, Loop
  <2> QED
    BY <2>5
<1>3. Nat \subseteq can
  <2> HIDE DEF can
  <2> QED
    BY <1>1, <1>2, Induction
<1>4. PICK f : f = Loop(Len(devs), f)
  BY <1>3
<1> DEFINE Def(g) == Loop(Len(devs), g)
<1>5. ByUdid(devs) = CHOOSE g : g = Def(g)
  BY DEF ByUdid
<1>6. f = Def(f)
  BY <1>4
<1> HIDE DEF Def
<1>7. (CHOOSE g : g = Def(g)) = Def(CHOOSE g : g = Def(g))
  BY <1>6
<1>8. ByUdid(devs) = Def(ByUdid(devs))
  BY <1>5, <1>7
<1> QED
  BY <1>8 DEF Def

LEMMA DedupeIsRight ==
    ASSUME NEW devs \in Seq(Device)
    PROVE  Dedupe(devs) \in Seq(Device) /\ IsListOf(Dedupe(devs), devs)
<1> DEFINE len == Len(devs)
           after == ByUdid(devs)
           Front(n) == SubSeq(devs, 1, n)
           Right(n) == after[n] \in Seq(Device) /\ IsListOf(after[n], Front(n))
           right == {n \in Nat : n <= len => Right(n)}
<1>1. len \in Nat
  OBVIOUS
<1>2. \A n \in 0 .. len : after[n] = IF n = 0 THEN << >> ELSE Absorb(after[n - 1], devs[n])
  <2>1. after = [n \in 0 .. len |-> IF n = 0 THEN << >> ELSE Absorb(after[n - 1], devs[n])]
    BY <1>1, ByUdidIs
  <2> HIDE DEF after
  <2> QED
    BY <2>1
<1> HIDE DEF after
<1>3. 0 \in right
  <2>1. after[0] = << >> /\ Front(0) = << >>
    BY <1>1, <1>2
  <2>2. IsListOf(<< >>, << >>)
    BY DEF IsListOf
  <2>3. << >> \in Seq(Device)
    OBVIOUS
  <2> HIDE DEF Front
  <2>4. Right(0)
    BY <2>1, <2>2, <2>3
  <2> QED
    BY <2>4
<1>4. ASSUME NEW n \in Nat, n \in right PROVE n + 1 \in right
  <2> SUFFICES ASSUME n + 1 <= len PROVE Right(n + 1)
    OBVIOUS
  <2>1. n <= len /\ n + 1 \in 0 .. len /\ n + 1 # 0 /\ (n + 1) - 1 = n
    BY <1>1
  <2>2. Right(n)
    BY <1>4, <2>1
  <2>3. devs[n + 1] \in Device /\ Front(n) \in Seq(Device) /\ Front(n + 1) = Append(Front(n), devs[n + 1])
    BY <2>1
  <2>4. after[n + 1] = Absorb(after[n], devs[n + 1])
    BY <1>2, <2>1
  <2> HIDE DEF Front
  <2> QED
    BY <2>2, <2>3, <2>4, AbsorbIsRight
<1>5. len \in right
  <2> HIDE DEF right
  <2> QED
    BY <1>1, <1>3, <1>4, Induction
<1>6. Right(len)
  BY <1>1, <1>5
<1>7. Front(len) = devs
  OBVIOUS
<1> QED
  BY <1>6, <1>7 DEF Dedupe, after

-----------------------------------------------------------------------------
(* The two lists together *)

LEMMA FirstOfSole ==
    ASSUME NEW n \in Nat, NEW values, DOMAIN values = 1 .. n, NEW k \in 1 .. n,
           \A i \in 1 .. n : i # k => values[i] = Missing
    PROVE  FirstSet(values) = values[k]
<1>1. CASE values[k] = Missing
  <2>1. \A i \in DOMAIN values : values[i] = Missing
    BY <1>1
  <2> QED
    BY <1>1, <2>1, FirstSetNone
<1>2. CASE values[k] # Missing
  <2>1. \A i \in 1 .. k - 1 : i \in 1 .. n /\ i # k
    OBVIOUS
  <2>2. \A i \in 1 .. k - 1 : values[i] = Missing
    BY <2>1
  <2> QED
    BY <1>2, <2>2, FirstSetIs
<1> QED
  BY <1>1, <1>2

LEMMA FirstSetFinds ==
    ASSUME NEW n \in Nat, NEW values, DOMAIN values = 1 .. n, NEW k \in 1 .. n, values[k] # Missing
    PROVE  FirstSet(values) # Missing
<1> DEFINE set == {j \in 1 .. n : values[j] # Missing}
<1>1. k \in set /\ set \subseteq Nat
  OBVIOUS
<1>2. PICK i \in set : \A j \in set : i <= j
  <2> HIDE DEF set
  <2> QED
    BY <1>1, SmallestOf
<1>3. \A j \in 1 .. i - 1 : j \in 1 .. n /\ ~ (i <= j)
  BY <1>2
<1>4. \A j \in 1 .. i - 1 : values[j] = Missing
  BY <1>2, <1>3
<1> QED
  BY <1>2, <1>4, FirstSetIs

\* The only entry of its UDID.
LEMMA EntryOfSole ==
    ASSUME NEW all \in Seq(Device), NEW k \in DOMAIN all,
           \A i \in DOMAIN all : all[i].udid = all[k].udid => i = k
    PROVE  EntryFor(all[k].udid, all) = all[k]
<1> DEFINE n == Len(all)
           u == all[k].udid
           d == all[k]
<1>1. n \in Nat /\ DOMAIN all = 1 .. n /\ k \in 1 .. n /\ d \in Device
  OBVIOUS
<1> HIDE DEF n
<1>2. FirstSet(Addresses(u, all)) = d.address
  <2>1. /\ DOMAIN Addresses(u, all) = 1 .. n /\ Addresses(u, all)[k] = d.address
        /\ \A i \in 1 .. n : i # k => Addresses(u, all)[i] = Missing
    BY <1>1 DEF Addresses
  <2> QED
    BY <1>1, <2>1, FirstOfSole
<1>3. FirstSet(Names(u, all)) = d.name
  <2>1. /\ DOMAIN Names(u, all) = 1 .. n /\ Names(u, all)[k] = d.name
        /\ \A i \in 1 .. n : i # k => Names(u, all)[i] = Missing
    BY <1>1 DEF Names
  <2> QED
    BY <1>1, <2>1, FirstOfSole
<1>4. FirstSet(Connections(u, all)) = d.connection
  <2>1. /\ DOMAIN Connections(u, all) = 1 .. n /\ Connections(u, all)[k] = d.connection
        /\ \A i \in 1 .. n : i # k => Connections(u, all)[i] = Missing
    BY <1>1 DEF Connections
  <2> QED
    BY <1>1, <2>1, FirstOfSole
<1>5. OnUsb(u, all) <=> d.connection = "USB"
  BY <1>1 DEF OnUsb
<1>6. EntryFor(u, all) = [udid |-> u, address |-> d.address, name |-> d.name, connection |-> d.connection]
  BY <1>2, <1>3, <1>4, <1>5, EntryIs
<1>7. d = [udid |-> d.udid, address |-> d.address, name |-> d.name, connection |-> d.connection]
  <2> HIDE DEF d
  <2> QED
    BY <1>1 DEF Device
<1> QED
  BY <1>6, <1>7

UdidsOf(list) == {list[i].udid : i \in DOMAIN list}

LEMMA EntryOfList ==
    ASSUME NEW all \in Seq(Device), NEW list \in Seq(Device), IsListOf(list, all),
           NEW u \in Text, u # Missing
    PROVE  /\ EntryFor(u, list) = EntryFor(u, all)
           /\ u \in UdidsOf(list) <=> u \in UdidsOf(all)
<1>1. /\ UdidsOf(list) = UdidsOf(all) \ {Missing}
      /\ \A i \in DOMAIN list : list[i] = EntryFor(list[i].udid, all)
      /\ \A i, j \in DOMAIN list : list[i].udid = list[j].udid => i = j
  BY DEF IsListOf, UdidsOf
<1>2. u \in UdidsOf(list) <=> u \in UdidsOf(all)
  BY <1>1
<1>3. CASE u \in UdidsOf(list)
  <2>1. PICK k \in DOMAIN list : list[k].udid = u
    BY <1>3 DEF UdidsOf
  <2>2. EntryFor(u, list) = list[k]
    BY <1>1, <2>1, EntryOfSole
  <2> QED
    BY <1>1, <1>2, <2>1, <2>2
<1>4. CASE u \notin UdidsOf(list)
  <2>1. \A i \in DOMAIN list : list[i].udid # u
    BY <1>4 DEF UdidsOf
  <2>2. \A i \in DOMAIN all : all[i].udid # u
    BY <1>2, <1>4 DEF UdidsOf
  <2> QED
    BY <1>2, <2>1, <2>2, EntryOfNone
<1> QED
  BY <1>3, <1>4

LEMMA OnNetworkIs ==
    ASSUME NEW b \in Seq(Device)
    PROVE  /\ OnNetwork(b) \in Seq(Device) /\ DOMAIN OnNetwork(b) = DOMAIN b
           /\ \A i \in DOMAIN b : OnNetwork(b)[i] =
                [b[i] EXCEPT !.connection = IF b[i].connection # Missing THEN b[i].connection ELSE "Network"]
           /\ UdidsOf(OnNetwork(b)) = UdidsOf(b)
<1> DEFINE c == OnNetwork(b)
           n == Len(b)
<1>1. n \in Nat /\ DOMAIN b = 1 .. n /\ \A i \in 1 .. n : b[i] \in Device
  OBVIOUS
<1>2. /\ DOMAIN c = DOMAIN b
      /\ \A i \in DOMAIN b : c[i] =
           [b[i] EXCEPT !.connection = IF b[i].connection # Missing THEN b[i].connection ELSE "Network"]
  BY FirstOfTwo DEF OnNetwork
<1> HIDE DEF c, n
<1>3. "Network" \in Text
  BY DEF Text
<1>4. \A i \in DOMAIN b : c[i] \in Device /\ c[i].udid = b[i].udid
  BY <1>1, <1>2, <1>3 DEF Device
<1>5. c = [i \in 1 .. n |-> c[i]]
  <2>1. c = [i \in DOMAIN b |-> c[i]]
    BY DEF OnNetwork, c
  <2> QED
    BY <1>1, <2>1
<1>6. c \in Seq(Device)
  <2>1. c \in [1 .. n -> Device]
    BY <1>1, <1>4, <1>5
  <2> QED
    BY <1>1, <2>1
<1>7. UdidsOf(c) = UdidsOf(b)
  BY <1>2, <1>4 DEF UdidsOf
<1> QED
  BY <1>2, <1>6, <1>7 DEF c

\* What mobdev2 finds says nothing of how it is connected, or Wi-Fi.
Wireless(b) == \A i \in DOMAIN b : b[i].connection \in {Missing, "Network"}

LEMMA WirelessEntry ==
    ASSUME NEW b \in Seq(Device), Wireless(b), NEW u
    PROVE  EntryFor(u, b).connection \in {Missing, "Network"}
<1> DEFINE values == Connections(u, b)
<1>1. ~ OnUsb(u, b)
  BY DEF OnUsb, Wireless, Missing
<1>2. EntryFor(u, b).connection = FirstSet(values)
  BY <1>1, EntryIs
<1>3. Len(b) \in Nat /\ DOMAIN values = 1 .. Len(b) /\ \A i \in 1 .. Len(b) : values[i] \in {Missing, "Network"}
  BY DEF Connections, Wireless
<1> HIDE DEF values
<1>4. CASE FirstSet(values) # Missing
  <2>1. PICK i \in 1 .. Len(b) : FirstSet(values) = values[i]
    BY <1>3, <1>4, FirstSetSome
  <2> QED
    BY <1>2, <1>3, <2>1
<1> QED
  BY <1>2, <1>4

LEMMA NetworkEntry ==
    ASSUME NEW all \in Seq(Device), NEW u, u \in UdidsOf(all),
           \A i \in DOMAIN all : all[i].udid = u => all[i].connection = "Network"
    PROVE  /\ EntryFor(u, all).connection = "Network" /\ ~ OnUsb(u, all)
           /\ FirstSet(Connections(u, all)) = "Network"
<1> DEFINE values == Connections(u, all)
<1>1. "Network" # "USB" /\ "Network" # Missing
  BY DEF Missing
<1>2. ~ OnUsb(u, all)
  BY <1>1 DEF OnUsb
<1>3. PICK k \in DOMAIN all : all[k].udid = u
  BY DEF UdidsOf
<1>4. /\ Len(all) \in Nat /\ DOMAIN values = 1 .. Len(all) /\ k \in 1 .. Len(all) /\ values[k] = "Network"
      /\ \A i \in 1 .. Len(all) : values[i] \in {Missing, "Network"}
  BY <1>3 DEF Connections
<1> HIDE DEF values
<1>5. FirstSet(values) # Missing
  BY <1>1, <1>4, FirstSetFinds
<1>6. PICK i \in 1 .. Len(all) : FirstSet(values) = values[i]
  BY <1>4, <1>5, FirstSetSome
<1>7. FirstSet(values) = "Network"
  BY <1>4, <1>5, <1>6
<1> QED
  BY <1>2, <1>7, EntryIs DEF values

LEMMA EntryOnNetwork ==
    ASSUME NEW b \in Seq(Device), Wireless(b), NEW u \in Text
    PROVE  EntryFor(u, OnNetwork(b)) =
             IF u \in UdidsOf(b) THEN [EntryFor(u, b) EXCEPT !.connection = "Network"] ELSE Nothing(u)
<1> DEFINE c == OnNetwork(b)
           n == Len(b)
           x == EntryFor(u, b)
<1>1. /\ c \in Seq(Device) /\ DOMAIN c = DOMAIN b /\ UdidsOf(c) = UdidsOf(b)
      /\ \A i \in DOMAIN b : c[i] =
           [b[i] EXCEPT !.connection = IF b[i].connection # Missing THEN b[i].connection ELSE "Network"]
  BY OnNetworkIs
<1>2. n \in Nat /\ DOMAIN b = 1 .. n /\ \A i \in DOMAIN b : b[i] \in Device
  OBVIOUS
<1> HIDE DEF c, n
<1>3. \A i \in DOMAIN b : /\ c[i].udid = b[i].udid /\ c[i].address = b[i].address /\ c[i].name = b[i].name
                          /\ c[i].connection = "Network"
  BY <1>1, <1>2 DEF Wireless, Device
<1>4. CASE u \notin UdidsOf(b)
  <2>1. \A i \in DOMAIN c : c[i].udid # u
    BY <1>1, <1>4 DEF UdidsOf
  <2> QED
    BY <1>1, <1>4, <2>1, EntryOfNone DEF c
<1>5. CASE u \in UdidsOf(b)
  <2>1. ~ OnUsb(u, c) /\ FirstSet(Connections(u, c)) = "Network"
    <3>1. \A i \in DOMAIN c : c[i].udid = u => c[i].connection = "Network"
      BY <1>1, <1>3
    <3> QED
      BY <1>1, <1>5, <3>1, NetworkEntry
  <2>2. Addresses(u, c) = Addresses(u, b) /\ Names(u, c) = Names(u, b)
    BY <1>1, <1>3 DEF Addresses, Names
  <2>3. EntryFor(u, c) = [udid |-> u, address |-> FirstSet(Addresses(u, b)), name |-> FirstSet(Names(u, b)),
                          connection |-> "Network"]
    BY <2>1, <2>2, EntryIs
  <2>4. [x EXCEPT !.connection = "Network"] =
          [udid |-> u, address |-> FirstSet(Addresses(u, b)), name |-> FirstSet(Names(u, b)),
           connection |-> "Network"]
    BY EntryIs
  <2> QED
    BY <1>5, <2>3, <2>4 DEF c
<1> QED
  BY <1>4, <1>5

LEMMA UdidsJoin ==
    ASSUME NEW a \in Seq(Device), NEW b \in Seq(Device)
    PROVE  UdidsOf(a \o b) = UdidsOf(a) \union UdidsOf(b)
<1> DEFINE m == Len(a)
           n == Len(b)
           all == a \o b
<1>1. /\ m \in Nat /\ n \in Nat /\ DOMAIN a = 1 .. m /\ DOMAIN b = 1 .. n /\ DOMAIN all = 1 .. m + n
      /\ \A i \in 1 .. m : all[i] = a[i] /\ i \in 1 .. m + n
      /\ \A i \in 1 .. n : all[m + i] = b[i] /\ m + i \in 1 .. m + n
      /\ \A i \in 1 .. m + n : i \in 1 .. m \/ (i - m \in 1 .. n /\ i = m + (i - m))
  OBVIOUS
<1> HIDE DEF m, n, all
<1>2. UdidsOf(a) \subseteq UdidsOf(all)
  BY <1>1 DEF UdidsOf
<1>3. UdidsOf(b) \subseteq UdidsOf(all)
  BY <1>1 DEF UdidsOf
<1>4. ASSUME NEW i \in DOMAIN all PROVE all[i].udid \in UdidsOf(a) \union UdidsOf(b)
  <2>1. CASE i \in 1 .. m
    BY <1>1, <2>1 DEF UdidsOf
  <2>2. CASE i - m \in 1 .. n /\ i = m + (i - m)
    <3>1. i - m \in DOMAIN b /\ all[i] = b[i - m]
      BY <1>1, <2>2
    <3> QED
      BY <3>1 DEF UdidsOf
  <2> QED
    BY <1>1, <2>1, <2>2
<1>5. UdidsOf(all) \subseteq UdidsOf(a) \union UdidsOf(b)
  BY <1>4 DEF UdidsOf
<1> QED
  BY <1>2, <1>3, <1>5 DEF all

NormOf(objects) == [i \in DOMAIN objects |-> NormDev(objects[i])]

LEMMA NormIsDevices ==
    ASSUME NEW objects \in Seq(JsonObject)
    PROVE  NormOf(objects) \in Seq(Device) /\ DOMAIN NormOf(objects) = DOMAIN objects
<1>1. Len(objects) \in Nat /\ DOMAIN objects = 1 .. Len(objects)
      /\ \A i \in 1 .. Len(objects) : objects[i] \in JsonObject
  OBVIOUS
<1>2. NormOf(objects) \in [1 .. Len(objects) -> Device]
  BY <1>1, NormDevIsDevice DEF NormOf
<1> QED
  BY <1>1, <1>2 DEF NormOf

LEMMA ListDevicesIsRight ==
    ASSUME NEW printed \in Seq(JsonObject), NEW seen \in Seq(JsonObject), Wireless(NormOf(seen))
    PROVE  ListDevices(printed, seen) \in Seq(Device) /\ IsDeviceList(ListDevices(printed, seen), printed, seen)
<1> DEFINE a == NormOf(printed)
           b == NormOf(seen)
           la == Dedupe(a)
           lb == Dedupe(b)
           list == Dedupe(la \o OnNetwork(lb))
<1>1. a \in Seq(Device) /\ b \in Seq(Device) /\ Wireless(b)
  BY NormIsDevices
<1>2. ListDevices(printed, seen) = list
  BY DEF ListDevices, ParseDeviceList, NormOf
<1> HIDE DEF a, b
<1>3. /\ la \in Seq(Device) /\ IsListOf(la, a)
      /\ lb \in Seq(Device) /\ IsListOf(lb, b)
  BY <1>1, DedupeIsRight
<1> HIDE DEF la, lb
<1>4. Wireless(lb)
  <2>1. \A i \in DOMAIN lb : lb[i].connection = EntryFor(lb[i].udid, b).connection
    BY <1>3 DEF IsListOf
  <2> QED
    BY <1>1, <2>1, WirelessEntry DEF Wireless
<1>5. /\ OnNetwork(lb) \in Seq(Device) /\ UdidsOf(OnNetwork(lb)) = UdidsOf(lb)
      /\ OnNetwork(b) \in Seq(Device) /\ UdidsOf(OnNetwork(b)) = UdidsOf(b)
  BY <1>1, <1>3, OnNetworkIs
<1> DEFINE all == a \o OnNetwork(b)
           once == la \o OnNetwork(lb)
<1>6. all \in Seq(Device) /\ once \in Seq(Device)
  BY <1>1, <1>3, <1>5
<1>7. list \in Seq(Device) /\ IsListOf(list, once)
  BY <1>6, DedupeIsRight
<1>8. ASSUME NEW u \in Text, u # Missing
      PROVE  EntryFor(u, once) = EntryFor(u, all)
  <2>1. EntryFor(u, la) = EntryFor(u, a)
    BY <1>1, <1>3, <1>8, EntryOfList
  <2>2. EntryFor(u, OnNetwork(lb)) = EntryFor(u, OnNetwork(b))
    <3>1. EntryFor(u, lb) = EntryFor(u, b) /\ (u \in UdidsOf(lb) <=> u \in UdidsOf(b))
      BY <1>1, <1>3, <1>8, EntryOfList
    <3> QED
      BY <1>1, <1>3, <1>4, <3>1, EntryOnNetwork
  <2>3. EntryFor(u, once) = Merged(EntryFor(u, la), EntryFor(u, OnNetwork(lb)))
    BY <1>3, <1>5, EntryMerges
  <2>4. EntryFor(u, all) = Merged(EntryFor(u, a), EntryFor(u, OnNetwork(b)))
    BY <1>1, <1>5, EntryMerges
  <2> QED
    BY <2>1, <2>2, <2>3, <2>4
<1>9. UdidsOf(list) = UdidsOf(all) \ {Missing}
  <2>1. UdidsOf(once) = UdidsOf(la) \union UdidsOf(lb) /\ UdidsOf(all) = UdidsOf(a) \union UdidsOf(b)
    BY <1>1, <1>3, <1>5, UdidsJoin
  <2>2. /\ UdidsOf(la) = UdidsOf(a) \ {Missing} /\ UdidsOf(lb) = UdidsOf(b) \ {Missing}
        /\ UdidsOf(list) = UdidsOf(once) \ {Missing}
    BY <1>3, <1>7 DEF IsListOf, UdidsOf
  <2> QED
    BY <2>1, <2>2
<1> HIDE DEF list, all, once
<1>10. ASSUME NEW i \in DOMAIN list PROVE list[i] = EntryFor(list[i].udid, all)
  <2>1. list[i] = EntryFor(list[i].udid, once) /\ list[i].udid \in UdidsOf(list)
    BY <1>7 DEF IsListOf, UdidsOf
  <2>2. list[i].udid \in Text /\ list[i].udid # Missing
    <3>1. list[i] \in Device
      BY <1>7
    <3> QED
      BY <1>9, <2>1, <3>1 DEF Device
  <2> QED
    BY <1>8, <2>1, <2>2
<1>11. \A i, j \in DOMAIN list : list[i].udid = list[j].udid => i = j
  BY <1>7 DEF IsListOf
<1>12. IsListOf(list, all)
  BY <1>9, <1>10, <1>11 DEF IsListOf, UdidsOf
<1>13. IsDeviceList(list, printed, seen) <=> IsListOf(list, all)
  BY DEF IsDeviceList, all, a, b, NormOf
<1> QED
  BY <1>2, <1>7, <1>12, <1>13

-----------------------------------------------------------------------------
(* The transports of the phone *)

Printed(c, w) ==
    (IF c THEN << Cabled >> ELSE << >>) \o (IF w THEN << Bridged >> ELSE << >>) \o Others

\* What is known of the phone agrees with where it was printed.
ChoiceInv ==
    /\ cable \in BOOLEAN /\ wifi \in BOOLEAN
    /\ mux = << >> \/ \E c, w \in BOOLEAN : mux = Printed(c, w) /\ (c => cabled)
    /\ fresh \in {"no", "half", "yes"}
    /\ fresh = "half" => mux = MuxPrints
    /\ "pymd-usb" \in transports => cabled
    /\ fresh = "yes" => /\ cable => "pymd-usb" \in transports
                        /\ wifi => transports # {}

LEMMA PrintedIs ==
    ASSUME NEW c \in BOOLEAN, NEW w \in BOOLEAN
    PROVE  /\ Printed(c, w) \in Seq(JsonObject)
           /\ \A i \in DOMAIN Printed(c, w) :
                \/ c /\ Printed(c, w)[i] = Cabled
                \/ Printed(c, w)[i] = Bridged
                \/ \E j \in DOMAIN Others : Printed(c, w)[i] = Others[j]
           /\ c => 1 \in DOMAIN Printed(c, w) /\ Printed(c, w)[1] = Cabled
<1> DEFINE objects == {Bridged} \union {Others[j] : j \in DOMAIN Others} \union (IF c THEN {Cabled} ELSE {})
           left == IF c THEN << Cabled >> ELSE << >>
           middle == IF w THEN << Bridged >> ELSE << >>
<1>1. Cabled \in JsonObject /\ Bridged \in JsonObject /\ Others \in Seq(JsonObject)
  BY PhoneAssumption
<1>2. /\ left \in Seq(objects) /\ middle \in Seq(objects)
      /\ Len(left) \in Nat /\ Len(middle) \in Nat
      /\ c => Len(left) = 1 /\ left[1] = Cabled
  <2>1. Bridged \in objects /\ (c => Cabled \in objects)
    OBVIOUS
  <2> HIDE DEF objects
  <2>2. left \in Seq(objects) /\ Len(left) \in Nat /\ (c => Len(left) = 1 /\ left[1] = Cabled)
    <3>1. CASE c
      BY <2>1, <3>1
    <3>2. CASE ~ c
      BY <3>2
    <3> QED
      BY <3>1, <3>2
  <2>3. middle \in Seq(objects) /\ Len(middle) \in Nat
    <3>1. CASE w
      BY <2>1, <3>1
    <3>2. CASE ~ w
      BY <3>2
    <3> QED
      BY <3>1, <3>2
  <2> QED
    BY <2>2, <2>3
<1>3. Others \in Seq(objects) /\ Len(Others) \in Nat
  <2>1. /\ Len(Others) \in Nat /\ DOMAIN Others = 1 .. Len(Others)
        /\ Others = [i \in 1 .. Len(Others) |-> Others[i]]
    BY <1>1
  <2>2. \A i \in 1 .. Len(Others) : Others[i] \in objects
    BY <2>1
  <2> HIDE DEF objects
  <2>3. Others \in [1 .. Len(Others) -> objects]
    BY <2>1, <2>2
  <2> QED
    BY <2>1, <2>3
<1>4. objects \subseteq JsonObject
  <2>1. \A j \in DOMAIN Others : Others[j] \in JsonObject
    BY <1>1
  <2> QED
    BY <1>1, <2>1
<1>5. Printed(c, w) = (left \o middle) \o Others
  BY DEF Printed
<1>6. Printed(c, w) \in Seq(objects)
  <2> HIDE DEF objects, left, middle
  <2> QED
    BY <1>2, <1>3, <1>5
<1>7. c => 1 \in DOMAIN Printed(c, w) /\ Printed(c, w)[1] = Cabled
  <2> HIDE DEF objects, left, middle
  <2>1. ASSUME c PROVE 1 \in DOMAIN Printed(c, w) /\ Printed(c, w)[1] = Cabled
    <3>1. left \o middle \in Seq(objects) /\ 1 \in 1 .. Len(left \o middle)
      BY <1>2, <2>1
    <3>2. (left \o middle)[1] = Cabled
      <4>1. \A s, r \in Seq(objects) : 1 \in 1 .. Len(s) => (s \o r)[1] = s[1]
        OBVIOUS
      <4>2. 1 \in 1 .. Len(left) /\ left[1] = Cabled /\ left \in Seq(objects) /\ middle \in Seq(objects)
        BY <1>2, <2>1
      <4>3. (left \o middle)[1] = left[1]
        BY <4>1, <4>2
      <4> QED
        BY <4>2, <4>3
    <3> QED
      BY <1>3, <1>5, <3>1, <3>2
  <2> QED
    BY <2>1
<1>8. \A i \in DOMAIN Printed(c, w) : Printed(c, w)[i] \in objects
  <2> HIDE DEF objects
  <2> QED
    BY <1>6
<1>9. Printed(c, w) \in Seq(JsonObject)
  <2> HIDE DEF objects
  <2>1. /\ Len(Printed(c, w)) \in Nat /\ DOMAIN Printed(c, w) = 1 .. Len(Printed(c, w))
        /\ Printed(c, w) \in [1 .. Len(Printed(c, w)) -> objects]
    BY <1>6
  <2>2. Printed(c, w) \in [1 .. Len(Printed(c, w)) -> JsonObject]
    BY <1>4, <2>1
  <2> QED
    BY <2>1, <2>2
<1> QED
  BY <1>7, <1>8, <1>9

LEMMA BeaconsAre ==
    ASSUME NEW seen \in BeaconAnswers
    PROVE  /\ seen \in Seq(JsonObject)
           /\ Wireless(NormOf(seen))
           /\ \A i \in DOMAIN seen : NormDev(seen[i]).udid = Phone
<1>1. \A b \in Beacons : /\ b \in JsonObject /\ NormDev(b).udid = Phone
                         /\ NormDev(b).connection \in {Missing, "Network"}
  BY PhoneAssumption DEF Phone, NormDev
<1>2. seen \in Seq(Beacons)
  <2>1. CASE seen = << >>
    BY <2>1
  <2>2. CASE \E b \in Beacons : seen = << b >>
    BY <2>2
  <2>3. CASE \E b, c \in Beacons : seen = << b, c >>
    BY <2>3
  <2> QED
    BY <2>1, <2>2, <2>3 DEF BeaconAnswers
<1>3. Len(seen) \in Nat /\ DOMAIN seen = 1 .. Len(seen) /\ \A i \in 1 .. Len(seen) : seen[i] \in Beacons
  BY <1>2
<1>4. seen \in Seq(JsonObject)
  <2>1. seen \in [1 .. Len(seen) -> JsonObject]
    BY <1>1, <1>2, <1>3
  <2> QED
    BY <1>3, <2>1
<1>5. Wireless(NormOf(seen))
  BY <1>1, <1>3 DEF Wireless, NormOf
<1> QED
  BY <1>1, <1>3, <1>4, <1>5

LEMMA MuxIsObjects == ASSUME ChoiceInv PROVE mux \in Seq(JsonObject)
<1>1. CASE mux = << >>
  BY <1>1
<1>2. CASE \E c, w \in BOOLEAN : mux = Printed(c, w) /\ (c => cabled)
  BY <1>2, PrintedIs
<1> QED
  BY <1>1, <1>2 DEF ChoiceInv

\* What a list adds to the transports of the phone.
LEMMA FoundIs ==
    ASSUME ChoiceInv, NEW seen \in BeaconAnswers
    PROVE  LET list == ListDevices(mux, seen)
               found == {Transport(list[i]) : i \in {j \in DOMAIN list : list[j].udid = Phone}}
           IN /\ "pymd-usb" \in found => cabled
              /\ mux = MuxPrints /\ cable => "pymd-usb" \in found
              /\ seen # << >> => found # {}
<1> DEFINE list == ListDevices(mux, seen)
           found == {Transport(list[i]) : i \in {j \in DOMAIN list : list[j].udid = Phone}}
           a == NormOf(mux)
           b == NormOf(seen)
           all == a \o OnNetwork(b)
<1>1. /\ mux \in Seq(JsonObject) /\ seen \in Seq(JsonObject) /\ Wireless(b)
      /\ \A i \in DOMAIN seen : NormDev(seen[i]).udid = Phone
  BY MuxIsObjects, BeaconsAre
<1>2. /\ a \in Seq(Device) /\ DOMAIN a = DOMAIN mux /\ b \in Seq(Device) /\ DOMAIN b = DOMAIN seen
      /\ \A i \in DOMAIN a : a[i] = NormDev(mux[i])
      /\ \A i \in DOMAIN b : b[i] = NormDev(seen[i])
  BY <1>1, NormIsDevices DEF NormOf
<1>3. list \in Seq(Device) /\ IsListOf(list, all)
  BY <1>1, ListDevicesIsRight DEF IsDeviceList, NormOf
<1> HIDE DEF list, a, b
<1>4. /\ OnNetwork(b) \in Seq(Device) /\ UdidsOf(OnNetwork(b)) = UdidsOf(b)
      /\ \A i \in DOMAIN OnNetwork(b) : OnNetwork(b)[i].connection = "Network"
  <2>1. /\ OnNetwork(b) \in Seq(Device) /\ UdidsOf(OnNetwork(b)) = UdidsOf(b) /\ DOMAIN OnNetwork(b) = DOMAIN b
        /\ \A i \in DOMAIN b : OnNetwork(b)[i] =
             [b[i] EXCEPT !.connection = IF b[i].connection # Missing THEN b[i].connection ELSE "Network"]
    BY <1>2, OnNetworkIs
  <2>2. \A i \in DOMAIN b : b[i] \in Device /\ b[i].connection \in {Missing, "Network"}
    BY <1>1, <1>2 DEF Wireless
  <2> QED
    BY <2>1, <2>2 DEF Device
<1>5. all \in Seq(Device) /\ UdidsOf(all) = UdidsOf(a) \union UdidsOf(b)
  BY <1>2, <1>4, UdidsJoin
<1>6. Phone # Missing /\ Phone \in Text /\ NormDev(Cabled).udid = Phone /\ NormDev(Cabled).connection = "USB"
      /\ NormDev(Bridged).connection = "Network"
      /\ \A i \in DOMAIN Others : NormDev(Others[i]).udid # Phone
  <2>1. Cabled \in JsonObject
    BY PhoneAssumption
  <2> QED
    BY <2>1, PhoneAssumption DEF Phone, NormDev, JsonObject, Text
<1> HIDE DEF all
<1>7. \A i \in DOMAIN list : list[i].udid = Phone => list[i] = EntryFor(Phone, all)
  BY <1>3 DEF IsListOf
<1>8. ASSUME Phone \in UdidsOf(all)
      PROVE  \E i \in DOMAIN list : list[i].udid = Phone /\ list[i] = EntryFor(Phone, all)
  <2>1. UdidsOf(list) = UdidsOf(all) \ {Missing}
    BY <1>3 DEF IsListOf, UdidsOf
  <2>2. PICK i \in DOMAIN list : list[i].udid = Phone
    BY <1>6, <1>8, <2>1 DEF UdidsOf
  <2> QED
    BY <1>7, <2>2
<1>9. ASSUME seen # << >> PROVE found # {}
  <2>1. 1 \in DOMAIN b /\ b[1].udid = Phone
    <3>1. 1 \in DOMAIN seen
      BY <1>1, <1>9
    <3> QED
      BY <1>1, <1>2, <3>1
  <2>2. Phone \in UdidsOf(all)
    BY <1>5, <2>1 DEF UdidsOf
  <2> QED
    BY <1>8, <2>2
<1>10. ASSUME mux = MuxPrints, cable PROVE "pymd-usb" \in found
  <2>1. mux = Printed(TRUE, wifi /\ bridges)
    BY <1>10 DEF MuxPrints, Printed
  <2>2. 1 \in DOMAIN mux /\ mux[1] = Cabled
    BY <2>1, PrintedIs, (wifi /\ bridges) \in BOOLEAN
  <2>3. 1 \in DOMAIN a /\ a[1].udid = Phone /\ a[1].connection = "USB"
    BY <1>2, <1>6, <2>2
  <2>4. 1 \in DOMAIN all /\ all[1] = a[1]
    BY <1>2, <1>4, <2>3 DEF all
  <2>5. Phone \in UdidsOf(all) /\ OnUsb(Phone, all)
    BY <2>3, <2>4 DEF UdidsOf, OnUsb
  <2>6. EntryFor(Phone, all).connection = "USB"
    BY <1>5, <2>5, UsbMeans
  <2>7. PICK i \in DOMAIN list : list[i].udid = Phone /\ list[i] = EntryFor(Phone, all)
    BY <1>8, <2>5
  <2>8. Transport(list[i]) = "pymd-usb"
    BY <2>6, <2>7 DEF Transport
  <2> QED
    BY <2>7, <2>8
<1>11. ASSUME "pymd-usb" \in found, ~ cabled PROVE FALSE
  <2>1. PICK i \in DOMAIN list : list[i].udid = Phone /\ Transport(list[i]) = "pymd-usb"
    BY <1>11
  <2>2. EntryFor(Phone, all).connection # "Network"
    BY <1>7, <2>1 DEF Transport
  <2>3. Phone \in UdidsOf(all)
    <3>1. UdidsOf(list) = UdidsOf(all) \ {Missing}
      BY <1>3 DEF IsListOf, UdidsOf
    <3> QED
      BY <2>1, <3>1 DEF UdidsOf
  <2>4. ASSUME NEW k \in DOMAIN mux, NormDev(mux[k]).udid = Phone
        PROVE  NormDev(mux[k]).connection = "Network"
    <3>1. PICK w \in BOOLEAN : mux = Printed(FALSE, w)
      <4>1. mux # << >>
        BY <2>4
      <4>2. PICK c, w \in BOOLEAN : mux = Printed(c, w) /\ (c => cabled)
        BY <4>1 DEF ChoiceInv
      <4>3. c = FALSE
        BY <1>11, <4>2
      <4> QED
        BY <4>2, <4>3
    <3>2. mux[k] = Bridged \/ \E j \in DOMAIN Others : mux[k] = Others[j]
      BY <2>4, <3>1, PrintedIs
    <3> QED
      BY <1>6, <2>4, <3>2
  <2>5. ASSUME NEW k \in DOMAIN all, all[k].udid = Phone PROVE all[k].connection = "Network"
    <3>1. \/ k \in DOMAIN a /\ all[k] = a[k]
          \/ k - Len(a) \in DOMAIN OnNetwork(b) /\ all[k] = OnNetwork(b)[k - Len(a)]
      BY <1>2, <1>4 DEF all
    <3> QED
      BY <1>2, <1>4, <2>4, <2>5, <3>1
  <2> QED
    BY <1>5, <2>2, <2>3, <2>5, NetworkEntry
<1> QED
  BY <1>9, <1>10, <1>11 DEF list

LEMMA ChoiceInit == Init => ChoiceInv
BY DEF Init, ChoiceInv

LEMMA ListUsbChoice == ASSUME ChoiceInv, ListUsb PROVE ChoiceInv'
<1>1. mux' = MuxPrints \/ mux' = << >>
  BY DEF ListUsb, MuxAnswers
<1>2. MuxPrints' = MuxPrints /\ cable' = cable /\ wifi' = wifi /\ transports' = transports
  BY DEF ListUsb, MuxPrints, netVars
<1>3. MuxPrints = Printed(cable, wifi /\ bridges) /\ (wifi /\ bridges) \in BOOLEAN /\ cable \in BOOLEAN
  BY DEF MuxPrints, Printed, ChoiceInv
<1>4. cable => MuxPrints # << >>
  <2>1. cable => 1 \in DOMAIN MuxPrints
    BY <1>3, PrintedIs
  <2>2. 1 \notin DOMAIN << >>
    OBVIOUS
  <2> QED
    BY <2>1, <2>2
<1>5. mux' = << >> \/ \E c, w \in BOOLEAN : mux' = Printed(c, w) /\ (c => cabled')
  BY <1>1, <1>3, <1>4 DEF ListUsb
<1>6. /\ fresh' \in {"no", "half", "yes"} /\ (fresh' \in {"half", "yes"} => mux' = MuxPrints)
      /\ fresh' = "yes" => fresh = "yes"
      /\ cabled => cabled'
  BY DEF ListUsb, ChoiceInv
<1>7. (mux = << >> \/ \E c, w \in BOOLEAN : mux = Printed(c, w) /\ (c => cabled))' <=>
        (mux' = << >> \/ \E c, w \in BOOLEAN : mux' = Printed(c, w) /\ (c => cabled'))
  BY DEF Printed
<1> QED
  BY <1>2, <1>5, <1>6, <1>7 DEF ChoiceInv

LEMMA ListWifiChoice == ASSUME ChoiceInv, ListWifi PROVE ChoiceInv'
<1> DEFINE list(seen) == ListDevices(mux, seen)
           found(seen) == {Transport(list(seen)[i]) : i \in {j \in DOMAIN list(seen) : list(seen)[j].udid = Phone}}
<1>1. PICK seen \in BeaconAnswers :
        /\ transports' = IF found(seen) = {} THEN transports ELSE MergedTransports(found(seen))
        /\ fresh' = IF fresh = "half" /\ (wifi => seen # << >>) THEN "yes"
                    ELSE IF fresh = "half" THEN "no" ELSE fresh
  BY DEF ListWifi
<1>2. /\ "pymd-usb" \in found(seen) => cabled
      /\ mux = MuxPrints /\ cable => "pymd-usb" \in found(seen)
      /\ seen # << >> => found(seen) # {}
  BY FoundIs
<1> HIDE DEF found
<1>3. transports' = transports \union found(seen)
  BY <1>1 DEF MergedTransports
<1>4. mux' = << >> /\ cable' = cable /\ wifi' = wifi /\ cabled' = cabled
  BY DEF ListWifi, netVars
<1>5. fresh' \in {"no", "yes"}
  BY <1>1 DEF ChoiceInv
<1>6. "pymd-usb" \in transports' => cabled'
  BY <1>2, <1>3, <1>4 DEF ChoiceInv
<1>7. ASSUME fresh' = "yes"
      PROVE  (cable => "pymd-usb" \in transports') /\ (wifi => transports' # {})
  <2>1. CASE fresh = "yes"
    BY <1>3, <2>1 DEF ChoiceInv
  <2>2. CASE fresh = "half" /\ (wifi => seen # << >>)
    BY <1>2, <1>3, <2>2 DEF ChoiceInv
  <2> QED
    BY <1>1, <1>7, <2>1, <2>2
<1> QED
  BY <1>4, <1>5, <1>6, <1>7 DEF ChoiceInv

LEMMA ChoiceStep == ChoiceInv /\ [Next]_vars => ChoiceInv'
<1> SUFFICES ASSUME ChoiceInv, [Next]_vars PROVE ChoiceInv'
  OBVIOUS
<1>1. CASE UNCHANGED <<netVars, listVars>>
  BY <1>1 DEF ChoiceInv, MuxPrints, netVars, listVars, Printed
<1>2. CASE Moves
  <2>1. /\ cable' \in BOOLEAN /\ wifi' \in BOOLEAN /\ fresh' = "no"
        /\ mux' = mux /\ transports' = transports /\ cabled' = cabled
    BY <1>2 DEF Moves, ChoiceInv
  <2> QED
    BY <2>1 DEF ChoiceInv, Printed
<1>3. CASE ListUsb
  BY <1>3, ListUsbChoice
<1>4. CASE ListWifi
  BY <1>4, ListWifiChoice
<1>5. ASSUME NEW r \in Report, Crash(r) PROVE UNCHANGED <<netVars, listVars>>
  BY <1>5 DEF Crash
<1>6. ASSUME NEW p \in Pull, Request(p) \/ Answer(p) \/ Fails(p) PROVE UNCHANGED <<netVars, listVars>>
  BY <1>6 DEF Request, Answer, Fails
<1>7. ASSUME NEW p \in Pull, NEW r \in Report, CopyBegin(p, r) \/ CopyEnd(p, r)
      PROVE  UNCHANGED <<netVars, listVars>>
  BY <1>7 DEF CopyBegin, CopyEnd
<1>8. CASE UNCHANGED vars
  BY <1>1, <1>8 DEF vars
<1> QED
  BY <1>1, <1>2, <1>3, <1>4, <1>5, <1>6, <1>7, <1>8 DEF Next

LEMMA ChoiceAlways == Spec => []ChoiceInv
BY ChoiceInit, ChoiceStep, PTL DEF Spec

\* However the two commands' answers overlap, repeat a phone or miss it, and
\* whatever other phones there are, _dedupe lists every phone once, with what all
\* of its entries say.
THEOREM DeviceListsAreRight == Spec => []ListIsRight
<1>1. ChoiceInv => ListIsRight
  BY MuxIsObjects, BeaconsAre, ListDevicesIsRight DEF ListIsRight
<1> QED
  BY <1>1, ChoiceAlways, PTL

\* A command on a phone that was listed where it is now is given a transport by
\* which it gets through, unless the phone was unplugged.
THEOREM FreshChoicesReach == Spec => []FreshChoiceReaches
<1>1. ChoiceInv => FreshChoiceReaches
  <2> SUFFICES ASSUME ChoiceInv, fresh = "yes", cable \/ wifi, cable \/ ~cabled
               PROVE  Known /\ Reaches(MobDev2)
    BY DEF FreshChoiceReaches
  <2>1. CASE cable
    BY <2>1 DEF ChoiceInv, Known, Reaches, MobDev2
  <2>2. CASE ~cable
    BY <2>2 DEF ChoiceInv, Known, Reaches, MobDev2
  <2> QED
    BY <2>1, <2>2
<1> QED
  BY <1>1, ChoiceAlways, PTL
=============================================================================
