----------------------- MODULE NotificationOutboxProofs -----------------------
(***************************************************************************)
(* For any number of accounts, workers and events, any batch size, queue   *)
(* limit and number of attempts: the outbox keeps its types, tells a       *)
(* subscriber what the log says, announces a recovery only after an alert, *)
(* postpones a route only for a failure of its own, and implements the     *)
(* feed.                                                                   *)
(***************************************************************************)
EXTENDS NotificationOutbox, SequenceTheorems, FiniteSetTheorems, TLAPS

(***************************************************************************)
(* Numbers, and the batch                                                  *)
(***************************************************************************)

(* The principle of the least number, by which the inductions below go.    *)
LEMMA Least ==
  ASSUME NEW T, T \subseteq Nat, T # {}
  PROVE  \E n \in T : \A m \in T : n <= m
<1> DEFINE R == {ss \in Nat \X Nat : ss[1] < ss[2]}
<1>1. R = OpToRel(<, Nat)
  BY Zenon DEF OpToRel
<1>2. IsWellFoundedOn(R, Nat)
  BY <1>1, NatLessThanWellFounded, Zenon
<1>3. PICK x \in T : \A y \in T : ~ (<<y, x>> \in R)
  <2> HIDE DEF R
  <2> QED BY <1>2, WFMin, Zenon
<1>4. \A y \in T : x <= y
  <2> SUFFICES ASSUME NEW y \in T, y < x PROVE FALSE
    OBVIOUS
  <2>1. <<y, x>> \in Nat \X Nat /\ <<y, x>>[1] < <<y, x>>[2]
    OBVIOUS
  <2>2. <<y, x>> \in R
    BY <2>1, Zenon
  <2> HIDE DEF R
  <2> QED BY <2>2, <1>3
<1> QED BY <1>4

(* A bounded set of numbers has a maximum, which is the one Max chooses.   *)
LEMMA Greatest ==
  ASSUME NEW T, T # {}, NEW n \in Nat, T \subseteq 0 .. n
  PROVE  Max(T) \in T /\ \A m \in T : m <= Max(T)
<1> DEFINE D == {n - m : m \in T}
<1>1. D \subseteq Nat /\ D # {}
  <2>1. \A m \in T : n - m \in Nat
    <3> SUFFICES ASSUME NEW m \in T PROVE n - m \in Nat
      OBVIOUS
    <3>1. m \in 0 .. n
      OBVIOUS
    <3> QED BY <3>1
  <2> QED BY <2>1
<1>2. PICK d \in D : \A e \in D : d <= e
  <2> HIDE DEF D
  <2> QED BY <1>1, Least
<1>3. PICK x \in T : d = n - x
  OBVIOUS
<1>4. \A m \in T : n - x <= n - m
  BY <1>2, <1>3
<1>5. \A m \in T : x >= m
  BY <1>3, <1>4
<1>6. \E y \in T : \A m \in T : y >= m
  BY <1>5
<1>7. Max(T) \in T /\ \A m \in T : Max(T) >= m
  BY <1>6, Zenon DEF Max
<1> QED BY <1>7

(* The events behind the cursor whose accounts are not being deleted.      *)
Ready == {i \in DOMAIN log : i > settings.cursor /\ account[log[i].acct] = "live"}

(* A batch is a beginning of what is ready: no event before its last one   *)
(* is passed over.                                                         *)
LEMMA BatchFacts ==
  ASSUME TypeOK, NextEvents # {}
  PROVE  /\ LastEvent \in NextEvents /\ NextEvents \subseteq Ready
         /\ LastEvent \in 1 .. Len(log) /\ settings.cursor < LastEvent
         /\ \A i \in Ready : i <= LastEvent => i \in NextEvents
<1>1. /\ DOMAIN log = 1 .. Len(log) /\ Len(log) \in Nat /\ settings.cursor \in Nat
      /\ Batch \in Nat
  BY OutboxAssumption DEF TypeOK, Settings
<1>2. /\ NextEvents = {i \in Ready : Cardinality({j \in Ready : j <= i}) <= Batch}
      /\ Ready \subseteq 1 .. Len(log)
  BY <1>1 DEF NextEvents, Ready
<1>3. NextEvents \subseteq 0 .. Len(log)
  <2>1. NextEvents \subseteq Ready
    BY <1>2
  <2>2. 1 .. Len(log) \subseteq 0 .. Len(log)
    BY <1>1
  <2> QED BY <1>2, <2>1, <2>2
<1>4. LastEvent \in NextEvents
  BY <1>1, <1>3, Greatest DEF LastEvent
<1>5. ASSUME NEW i \in Ready, i <= LastEvent PROVE i \in NextEvents
  <2> DEFINE A == {j \in Ready : j <= i}
             B == {j \in Ready : j <= LastEvent}
  <2>1. LastEvent \in Int /\ i \in Int
    BY <1>1, <1>2, <1>4
  <2>2. A \subseteq B /\ B \subseteq 1 .. Len(log)
    <3>1. \A j \in Ready : j \in Int
      BY <1>1, <1>2
    <3>2. \A j \in Ready : j <= i => j <= LastEvent
      BY <1>5, <2>1, <3>1
    <3> QED BY <1>2, <3>2
  <2>3. IsFiniteSet(1 .. Len(log))
    BY <1>1, FS_Interval
  <2>4. IsFiniteSet(B) /\ IsFiniteSet(A)
    <3> HIDE DEF A, B
    <3> QED BY <2>2, <2>3, FS_Subset
  <2>5. Cardinality(A) <= Cardinality(B) /\ Cardinality(A) \in Nat /\ Cardinality(B) \in Nat
    <3> HIDE DEF A, B
    <3> QED BY <2>2, <2>4, FS_Subset, FS_CardinalityType
  <2>6. Cardinality(B) <= Batch
    BY <1>2, <1>4
  <2>7. Cardinality(A) <= Batch
    <3> HIDE DEF A, B
    <3> QED BY <1>1, <2>5, <2>6
  <2> QED BY <1>2, <2>7
<1> QED BY <1>1, <1>2, <1>4, <1>5 DEF Ready

(* The view of the transaction is defined, event after event.              *)
LEMMA IngestedDef ==
  ASSUME TypeOK, NextEvents # {}
  PROVE  \A i \in settings.cursor .. LastEvent :
           Ingested[i] =
             IF i = settings.cursor THEN [rows |-> rows, incidents |-> incidents, full |-> FALSE]
             ELSE IF i \in NextEvents THEN RecordSignal(Ingested[i - 1], log[i])
             ELSE Ingested[i - 1]
<1> DEFINE c == settings.cursor
           b == [rows |-> rows, incidents |-> incidents, full |-> FALSE]
           Body(g, i) == IF i = c THEN b
                         ELSE IF i \in NextEvents THEN RecordSignal(g[i - 1], log[i])
                         ELSE g[i - 1]
           P(k) == \E g : g = [i \in c .. (c + k) |-> Body(g, i)]
           Bad == {k \in Nat : ~P(k)}
<1>1. c \in Nat /\ LastEvent \in Nat /\ c < LastEvent
  BY BatchFacts DEF TypeOK, Settings
<1>2. P(0)
  <2> DEFINE h == [i \in c .. (c + 0) |-> b]
  <2>1. c .. (c + 0) = {c}
    BY <1>1
  <2>2. h = [i \in c .. (c + 0) |-> Body(h, i)]
    <3> HIDE DEF b
    <3> QED BY <2>1
  <2> HIDE DEF h
  <2> QED BY <2>2
<1>3. ASSUME NEW k \in Nat, P(k) PROVE P(k + 1)
  <2>1. PICK g : g = [i \in c .. (c + k) |-> Body(g, i)]
    BY <1>3
  <2> DEFINE e == Body(g, c + (k + 1))
             h == [i \in c .. (c + (k + 1)) |-> IF i = c + (k + 1) THEN e ELSE g[i]]
  <2>2. \A i \in c .. (c + k) : h[i] = g[i]
    <3> HIDE DEF e
    <3> QED BY <1>1
  <2>3. ASSUME NEW i \in c .. (c + (k + 1)) PROVE h[i] = Body(h, i)
    <3>1. CASE i = c + (k + 1)
      <4>1. i - 1 \in c .. (c + k) /\ i # c
        BY <1>1, <3>1
      <4>2. h[i - 1] = g[i - 1]
        BY <2>2, <4>1
      <4>3. h[i] = Body(g, i)
        BY <3>1, Zenon
      <4> HIDE DEF h
      <4> QED BY <4>1, <4>2, <4>3
    <3>2. CASE i # c + (k + 1)
      <4>1. i \in c .. (c + k) /\ (i # c => i - 1 \in c .. (c + k))
        BY <1>1, <3>2
      <4>2. h[i] = g[i] /\ (i # c => h[i - 1] = g[i - 1])
        BY <2>2, <4>1
      <4>3. g[i] = Body(g, i)
        <5> HIDE DEF Body
        <5> QED BY <2>1, <4>1, Zenon
      <4> HIDE DEF h
      <4> QED BY <4>2, <4>3
    <3> QED BY <3>1, <3>2
  <2>4. h = [i \in c .. (c + (k + 1)) |-> Body(h, i)]
    <3>1. h = [i \in c .. (c + (k + 1)) |-> h[i]]
      <4> HIDE DEF e
      <4> QED OBVIOUS
    <3> HIDE DEF h, Body
    <3> QED BY <2>3, <3>1, Zenon
  <2> HIDE DEF h, Body
  <2> QED BY <2>4
<1>4. Bad = {}
  <2> SUFFICES ASSUME Bad # {} PROVE FALSE
    OBVIOUS
  <2>0. Bad \subseteq Nat /\ \A k : k \in Bad <=> k \in Nat /\ ~P(k)
    <3> HIDE DEF P
    <3> QED OBVIOUS
  <2>1. PICK k \in Bad : \A m \in Bad : k <= m
    <3> HIDE DEF Bad, P
    <3> QED BY <2>0, Least
  <2> HIDE DEF P, Bad
  <2>2. k \in Nat /\ ~P(k) /\ k # 0
    BY <1>2, <2>0, <2>1
  <2>3. k - 1 \in Nat /\ k = (k - 1) + 1
    BY <2>2
  <2>4. k - 1 \notin Bad
    BY <2>1, <2>2, <2>3
  <2> QED BY <1>3, <2>0, <2>2, <2>3, <2>4
<1>5. P(LastEvent - c)
  <2>1. LastEvent - c \in Nat
    BY <1>1
  <2> HIDE DEF P
  <2> QED BY <1>4, <2>1
<1>6. c + (LastEvent - c) = LastEvent
  BY <1>1
<1>7. \E g : g = [i \in c .. LastEvent |-> Body(g, i)]
  <2> HIDE DEF Body
  <2> QED BY <1>5, <1>6, Zenon
<1>8. Ingested = CHOOSE g : g = [i \in c .. LastEvent |-> Body(g, i)]
  BY Zenon DEF Ingested
<1>9. Ingested = [i \in c .. LastEvent |-> Body(Ingested, i)]
  <2> HIDE DEF Body
  <2> QED BY <1>7, <1>8, Zenon
<1> QED BY <1>9, Zenon

-----------------------------------------------------------------------------
(***************************************************************************)
(* What the queue and the log say                                          *)
(***************************************************************************)

(* The notifications of an incident for one route, and the consumed events *)
(* about it since the route was set.                                       *)
Queued(rs, rev, a, k) ==
    {j \in DOMAIN rs : rs[j].acct = a /\ rs[j].kind = k /\ rs[j].rev = rev}

About(m, a, k) ==
    {i \in start + 1 .. m : log[i].acct = a /\ Classify(log[i].kind).kind = k}

(* n is the highest severity after the last recovery among the queued      *)
(* notifications, and among the first m events.                            *)
QueuedAfterRecovery(rs, rev, a, k, j) ==
    \A l \in Queued(rs, rev, a, k) : rs[l].recovered => l < j

QueueSays(rs, rev, a, k, n) ==
    /\ n # 0 => \E j \in Queued(rs, rev, a, k) :
                   rs[j].sev = n /\ QueuedAfterRecovery(rs, rev, a, k, j)
    /\ \A j \in Queued(rs, rev, a, k) :
         QueuedAfterRecovery(rs, rev, a, k, j) => rs[j].sev <= n

LoggedAfterRecovery(m, a, k, j) ==
    \A l \in About(m, a, k) : Classify(log[l].kind).recovered => l < j

LogSays(m, a, k, n) ==
    /\ n # 0 => \E j \in About(m, a, k) :
                   Classify(log[j].kind).sev = n /\ LoggedAfterRecovery(m, a, k, j)
    /\ \A j \in About(m, a, k) :
         LoggedAfterRecovery(m, a, k, j) => Classify(log[j].kind).sev <= n

(* Both say of the incidents of live accounts what the incidents say.      *)
Told(rs, inc, m) ==
    \A a \in Accounts, k \in IncidentKinds : account[a] = "live" =>
        /\ QueueSays(rs, settings.rev, a, k, inc[a][k].sev)
        /\ LogSays(m, a, k, inc[a][k].sev)

(* A recovery in the queue comes after an alert that no other recovery     *)
(* has answered.                                                           *)
Answers(rs, i) ==
    \E j \in 1 .. i - 1 :
        /\ j \in Queued(rs, rs[i].rev, rs[i].acct, rs[i].kind)
        /\ \A l \in 1 .. i - 1 :
             l \in Queued(rs, rs[i].rev, rs[i].acct, rs[i].kind) /\ rs[l].recovered => l < j

Answering(rs) == \A i \in DOMAIN rs : rs[i].recovered => Answers(rs, i)

(* A classified event is an alert of some severity, a recovery, or none.   *)
LEMMA ClassifyFacts ==
  ASSUME NEW k
  PROVE  LET s == Classify(k)
         IN  /\ s = [kind |-> s.kind, sev |-> s.sev, recovered |-> s.recovered]
             /\ s.kind \in IncidentKinds \cup {"none"} /\ s.sev \in 0 .. 2
             /\ s.recovered \in BOOLEAN
             /\ s.recovered => s.sev = 0
             /\ s.kind # "none" /\ ~s.recovered => s.sev > 0
<1> DEFINE Good(s) == /\ s = [kind |-> s.kind, sev |-> s.sev, recovered |-> s.recovered]
                      /\ s.kind \in IncidentKinds \cup {"none"} /\ s.sev \in 0 .. 2
                      /\ s.recovered \in BOOLEAN
                      /\ s.recovered => s.sev = 0
                      /\ s.kind # "none" /\ ~s.recovered => s.sev > 0
<1>1. \A kd \in IncidentKinds, n \in {1, 2} :
        Good([kind |-> kd, sev |-> n, recovered |-> FALSE])
  OBVIOUS
<1>2. \A kd \in IncidentKinds : Good([kind |-> kd, sev |-> 0, recovered |-> TRUE])
  OBVIOUS
<1>3. Good([kind |-> "none", sev |-> 0, recovered |-> FALSE])
  OBVIOUS
<1>4. \/ \E kd \in IncidentKinds, n \in {1, 2} :
           Classify(k) = [kind |-> kd, sev |-> n, recovered |-> FALSE]
      \/ \E kd \in IncidentKinds : Classify(k) = [kind |-> kd, sev |-> 0, recovered |-> TRUE]
      \/ Classify(k) = [kind |-> "none", sev |-> 0, recovered |-> FALSE]
  BY DEF Classify, IncidentKinds
<1> HIDE DEF Good
<1>5. Good(Classify(k))
  BY <1>1, <1>2, <1>3, <1>4
<1> QED BY <1>5 DEF Good

(* "none" is no incident.                                                  *)
LEMMA NoneIsNoIncident == "none" \notin IncidentKinds /\ "test" \notin IncidentKinds
  BY DEF IncidentKinds

(* A queued notification makes the queue say the higher severity, or, if   *)
(* it is a recovery, that the incident is over.                            *)
LEMMA QueueAppend ==
  ASSUME NEW rs \in Seq(Row), NEW x \in Row, NEW a, NEW k, NEW n \in 0 .. 2,
         QueueSays(rs, x.rev, a, k, n)
  PROVE  QueueSays(Append(rs, x), x.rev, a, k,
                   IF x.acct # a \/ x.kind # k THEN n
                   ELSE IF x.recovered THEN 0 ELSE MaxOf(n, x.sev))
<1> DEFINE ts == Append(rs, x)
           S == Queued(rs, x.rev, a, k)
           T == Queued(ts, x.rev, a, k)
           z == Len(rs) + 1
<1>1. /\ Len(rs) \in Nat /\ DOMAIN rs = 1 .. Len(rs) /\ DOMAIN ts = 1 .. z /\ ts[z] = x
      /\ \A j \in 1 .. Len(rs) : ts[j] = rs[j]
  OBVIOUS
<1>2. x.sev \in 0 .. 2 /\ \A j \in DOMAIN rs : rs[j].sev \in 0 .. 2
  <2>1. \A y \in Row : y.sev \in 0 .. 2
    BY DEF Row
  <2>2. \A j \in DOMAIN rs : rs[j] \in Row
    OBVIOUS
  <2> QED BY <2>1, <2>2
<1>3. S \subseteq 1 .. Len(rs)
  BY <1>1 DEF Queued
<1> HIDE DEF ts
<1>4. CASE x.acct # a \/ x.kind # k
  <2>1. T = S
    BY <1>1, <1>4 DEF Queued
  <2>2. \A j \in S : ts[j] = rs[j]
    BY <1>1, <1>3
  <2> HIDE DEF S, T
  <2>3. \A j \in S : QueuedAfterRecovery(ts, x.rev, a, k, j)
                        <=> QueuedAfterRecovery(rs, x.rev, a, k, j)
    BY <2>1, <2>2 DEF QueuedAfterRecovery, S, T
  <2> QED BY <1>4, <2>1, <2>2, <2>3 DEF QueueSays, S, T, ts
<1>5. CASE x.acct = a /\ x.kind = k
  <2>1. T = S \cup {z}
    BY <1>1, <1>5 DEF Queued
  <2>2. \A j \in S : ts[j] = rs[j] /\ j < z /\ j \in Nat
    BY <1>1, <1>3
  <2> HIDE DEF S, T
  <2>3. CASE x.recovered
    <3>1. \A j \in T : ~QueuedAfterRecovery(ts, x.rev, a, k, j)
      <4> SUFFICES ASSUME NEW j \in T PROVE ~(z < j)
        BY <1>1, <2>1, <2>3 DEF QueuedAfterRecovery, T
      <4> QED BY <1>1, <2>1, <2>2
    <3> QED BY <1>5, <2>3, <3>1 DEF QueueSays, T, ts
  <2>4. CASE ~x.recovered
    <3>1. \A j \in S : QueuedAfterRecovery(ts, x.rev, a, k, j)
                          <=> QueuedAfterRecovery(rs, x.rev, a, k, j)
      BY <1>1, <2>1, <2>2, <2>4 DEF QueuedAfterRecovery, S, T
    <3>2. QueuedAfterRecovery(ts, x.rev, a, k, z)
      BY <1>1, <2>1, <2>2, <2>4 DEF QueuedAfterRecovery, T
    <3>3. \A j \in S : QueuedAfterRecovery(rs, x.rev, a, k, j) => rs[j].sev <= n
      BY DEF QueueSays, S
    <3>4. n # 0 => \E j \in S : rs[j].sev = n /\ QueuedAfterRecovery(rs, x.rev, a, k, j)
      BY DEF QueueSays, S
    <3> DEFINE m == MaxOf(n, x.sev)
    <3>5. m \in 0 .. 2 /\ n <= m /\ x.sev <= m /\ (m = n \/ m = x.sev)
      BY <1>2 DEF MaxOf
    <3> HIDE DEF m
    <3>6. m # 0 => \E j \in T : ts[j].sev = m /\ QueuedAfterRecovery(ts, x.rev, a, k, j)
      BY <1>1, <2>1, <2>2, <3>1, <3>2, <3>4, <3>5
    <3>7. ASSUME NEW j \in T, QueuedAfterRecovery(ts, x.rev, a, k, j) PROVE ts[j].sev <= m
      <4>1. CASE j = z
        BY <1>1, <3>5, <4>1
      <4>2. CASE j \in S
        <5>1. rs[j].sev <= n /\ ts[j] = rs[j] /\ rs[j].sev \in 0 .. 2
          BY <1>1, <1>2, <1>3, <2>2, <3>1, <3>3, <3>7, <4>2 DEF S
        <5> QED BY <3>5, <5>1
      <4> QED BY <2>1, <4>1, <4>2
    <3> QED BY <1>5, <2>4, <3>6, <3>7 DEF QueueSays, T, ts, m
  <2> QED BY <2>3, <2>4
<1> QED BY <1>4, <1>5

(* One more event makes the log say the same.                              *)
LEMMA LogNext ==
  ASSUME TypeOK, NEW i \in DOMAIN log, start < i, NEW a, NEW k, NEW n \in 0 .. 2,
         LogSays(i - 1, a, k, n)
  PROVE  LET s == Classify(log[i].kind)
         IN  LogSays(i, a, k, IF log[i].acct # a \/ s.kind # k THEN n
                              ELSE IF s.recovered THEN 0 ELSE MaxOf(n, s.sev))
<1> DEFINE s == Classify(log[i].kind)
           S == About(i - 1, a, k)
           T == About(i, a, k)
<1>1. i \in Nat /\ start \in Nat
  BY DEF TypeOK
<1>2. start + 1 .. i = (start + 1 .. i - 1) \cup {i}
  BY <1>1
<1>3. \A j \in S : j < i /\ j \in Nat
  BY <1>1 DEF About
<1>4. \A j : Classify(log[j].kind).sev \in 0 .. 2
  BY ClassifyFacts
<1> HIDE DEF s
<1>5. CASE log[i].acct # a \/ s.kind # k
  <2>1. T = S
    BY <1>2, <1>5 DEF About, s
  <2> QED BY <1>5, <2>1 DEF LogSays, LoggedAfterRecovery, s
<1>6. CASE log[i].acct = a /\ s.kind = k
  <2>1. T = S \cup {i}
    BY <1>2, <1>6 DEF About, s
  <2> HIDE DEF S, T
  <2>3. CASE s.recovered
    <3>1. \A j \in T : ~LoggedAfterRecovery(i, a, k, j)
      <4> SUFFICES ASSUME NEW j \in T PROVE ~(i < j)
        BY <2>1, <2>3 DEF LoggedAfterRecovery, T, s
      <4> QED BY <1>1, <1>3, <2>1
    <3> QED BY <1>6, <2>3, <3>1 DEF LogSays, T, s
  <2>4. CASE ~s.recovered
    <3>1. \A j \in S : LoggedAfterRecovery(i, a, k, j) <=> LoggedAfterRecovery(i - 1, a, k, j)
      BY <2>1, <2>4 DEF LoggedAfterRecovery, S, T, s
    <3>2. LoggedAfterRecovery(i, a, k, i)
      BY <1>3, <2>1, <2>4 DEF LoggedAfterRecovery, T, s
    <3>3. \A j \in S : LoggedAfterRecovery(i - 1, a, k, j) => Classify(log[j].kind).sev <= n
      BY DEF LogSays, S
    <3>4. n # 0 => \E j \in S : /\ Classify(log[j].kind).sev = n
                                /\ LoggedAfterRecovery(i - 1, a, k, j)
      BY DEF LogSays, S
    <3> DEFINE m == MaxOf(n, s.sev)
    <3>5. m \in 0 .. 2 /\ n <= m /\ s.sev <= m /\ (m = n \/ m = s.sev)
      BY <1>4 DEF MaxOf, s
    <3> HIDE DEF m
    <3>6. m # 0 => \E j \in T : /\ Classify(log[j].kind).sev = m
                                /\ LoggedAfterRecovery(i, a, k, j)
      BY <2>1, <3>1, <3>2, <3>4, <3>5 DEF s
    <3>7. ASSUME NEW j \in T, LoggedAfterRecovery(i, a, k, j)
          PROVE  Classify(log[j].kind).sev <= m
      <4>1. CASE j = i
        BY <3>5, <4>1 DEF s
      <4>2. CASE j \in S
        <5>1. Classify(log[j].kind).sev <= n /\ Classify(log[j].kind).sev \in 0 .. 2
          BY <1>4, <3>1, <3>3, <3>7, <4>2
        <5> QED BY <3>5, <5>1
      <4> QED BY <2>1, <4>1, <4>2
    <3> QED BY <1>6, <2>4, <3>6, <3>7 DEF LogSays, T, s, m
  <2> QED BY <2>3, <2>4
<1> QED BY <1>5, <1>6 DEF s

(* A recovery may join a queue that speaks of an open incident.            *)
LEMMA AnswerAppend ==
  ASSUME NEW rs \in Seq(Row), NEW x \in Row, Answering(rs),
         x.recovered => \E n \in {1, 2} : QueueSays(rs, x.rev, x.acct, x.kind, n)
  PROVE  Answering(Append(rs, x))
<1> DEFINE ts == Append(rs, x)
           z == Len(rs) + 1
<1>1. /\ Len(rs) \in Nat /\ DOMAIN rs = 1 .. Len(rs) /\ DOMAIN ts = 1 .. z /\ ts[z] = x
      /\ \A j \in 1 .. Len(rs) : ts[j] = rs[j]
  OBVIOUS
<1> HIDE DEF ts
<1>2. \A rev, a, k, j : j \in 1 .. Len(rs) =>
        (j \in Queued(ts, rev, a, k) <=> j \in Queued(rs, rev, a, k))
  BY <1>1 DEF Queued
<1>3. ASSUME NEW i \in 1 .. Len(rs), ts[i].recovered PROVE Answers(ts, i)
  <2>1. ts[i] = rs[i] /\ Answers(rs, i)
    BY <1>1, <1>3 DEF Answering
  <2>2. 1 .. i - 1 \subseteq 1 .. Len(rs)
    BY <1>1
  <2> QED BY <1>1, <1>2, <2>1, <2>2 DEF Answers
<1>4. ASSUME x.recovered PROVE Answers(ts, z)
  <2>1. PICK j \in Queued(rs, x.rev, x.acct, x.kind) :
          QueuedAfterRecovery(rs, x.rev, x.acct, x.kind, j)
    BY <1>4 DEF QueueSays
  <2>2. j \in 1 .. Len(rs) /\ z - 1 = Len(rs)
    BY <1>1, <2>1 DEF Queued
  <2>3. ASSUME NEW l \in 1 .. Len(rs), l \in Queued(ts, x.rev, x.acct, x.kind), ts[l].recovered
        PROVE  l < j
    BY <1>1, <1>2, <2>1, <2>3 DEF QueuedAfterRecovery
  <2> QED BY <1>1, <1>2, <2>1, <2>2, <2>3 DEF Answers
<1>5. \A i \in DOMAIN ts : i \in 1 .. Len(rs) \/ i = z
  BY <1>1
<1> QED BY <1>1, <1>3, <1>4, <1>5 DEF Answering, ts

-----------------------------------------------------------------------------
(***************************************************************************)
(* One transaction of the ingestion                                        *)
(***************************************************************************)

Incidents == [Accounts -> [IncidentKinds -> Incident]]
View == [rows : Seq(Row), incidents : Incidents, full : BOOLEAN]

(* A row as recordNotificationSignal inserts it.                           *)
Fresh(x) ==
    /\ x.acct \in Accounts /\ x.rev = settings.rev
    /\ x.status = "pending" /\ x.att = 0 /\ x.sends = 0

(* The view extends the table by fresh rows.                               *)
Extends(rs) ==
    /\ Len(rows) <= Len(rs)
    /\ \A i \in 1 .. Len(rows) : rs[i] = rows[i]
    /\ \A i \in Len(rows) + 1 .. Len(rs) : Fresh(rs[i])

(* A new row has its type.                                                 *)
LEMMA NewRowFacts ==
  ASSUME TypeOK, NEW a \in Accounts \cup {NoAccount},
         NEW kd \in IncidentKinds \cup {"test"}, NEW sv \in 0 .. 2, NEW rc \in BOOLEAN,
         NEW s, s = [kind |-> kd, sev |-> sv, recovered |-> rc], NEW x,
         x = NewRow(a, s, settings.rev)
  PROVE  /\ x \in Row /\ x.acct = a /\ x.kind = kd /\ x.sev = sv /\ x.recovered = rc
         /\ x.rev = settings.rev /\ x.status = "pending" /\ x.att = 0 /\ x.sends = 0
<1>1. s.kind = kd /\ s.sev = sv /\ s.recovered = rc
  OBVIOUS
<1>2. settings.rev \in Nat /\ {MaxAttempts, Lease, Pace} \subseteq Nat
  BY OutboxAssumption DEF TypeOK, Settings
<1>3. /\ x = [acct |-> a, kind |-> kd, sev |-> sv, recovered |-> rc,
              rev |-> settings.rev, status |-> "pending", att |-> 0, next |-> 0, lease |-> 0,
              old |-> FALSE, pace |-> 0, sends |-> 0]
  BY <1>1 DEF NewRow
<1>4. x.att = 0 /\ 0 \in 0 .. MaxAttempts /\ 0 \in 0 .. Lease /\ 0 \in 0 .. Pace /\ 0 \in Nat
  BY <1>2, <1>3
<1> DEFINE z == 0
           f == FALSE
           p == "pending"
<1>5. x = [acct |-> a, kind |-> kd, sev |-> sv, recovered |-> rc,
           rev |-> settings.rev, status |-> p, att |-> z, next |-> z, lease |-> z,
           old |-> f, pace |-> z, sends |-> z]
  BY <1>3
<1>6. /\ z \in 0 .. MaxAttempts /\ z \in 0 .. Lease /\ z \in 0 .. Pace /\ z \in Nat
      /\ f \in BOOLEAN
      /\ p \in {"pending", "sending", "sent", "failed", "cancelled", "removed"}
  BY <1>4
<1> HIDE DEF z, f, p
<1>7. x \in Row
  BY <1>2, <1>5, <1>6 DEF Row
<1>8. /\ x.acct = a /\ x.kind = kd /\ x.sev = sv /\ x.recovered = rc
      /\ x.rev = settings.rev /\ x.status = p /\ x.att = z /\ x.sends = z
  BY <1>5
<1> QED BY <1>7, <1>8 DEF z, p

(* What recordNotificationSignal does to the view.                         *)
LEMMA SignalFacts ==
  ASSUME TypeOK, NEW tx \in View, NEW e \in Event,
         NEW s, s = Classify(e.kind),
         NEW old, old = tx.incidents[e.acct][s.kind],
         NEW r, r = RecordSignal(tx, e)
  PROVE  /\ r \in View
         /\ \/ r = tx /\ (tx.full \/ Ignored(s, old))
            \/ r.full /\ r.rows = tx.rows /\ r.incidents = tx.incidents
            \/ /\ ~tx.full /\ ~Ignored(s, old) /\ ~r.full /\ s.kind \in IncidentKinds
               /\ r.incidents[e.acct][s.kind].sev
                    = IF s.recovered THEN 0 ELSE MaxOf(old.sev, s.sev)
               /\ \A a \in Accounts, k \in IncidentKinds :
                    (a # e.acct \/ k # s.kind) => r.incidents[a][k] = tx.incidents[a][k]
               /\ \/ r.rows = Append(tx.rows, NewRow(e.acct, s, settings.rev))
                  \/ r.rows = tx.rows /\ ~s.recovered /\ s.sev <= old.sev
<1> DEFINE send == old.sev = 0 \/ s.recovered \/ s.sev > old.sev \/ old.age >= Cooldown
           i == IF s.recovered THEN NoIncident
                ELSE [sev |-> MaxOf(old.sev, s.sev), age |-> IF send THEN 0 ELSE old.age]
           nw == NewRow(e.acct, s, settings.rev)
           rs == IF send THEN Append(tx.rows, nw) ELSE tx.rows
           ns == [tx.incidents EXCEPT ![e.acct][s.kind] = i]
<1>1. r = IF tx.full \/ Ignored(s, old) THEN tx
          ELSE IF send /\ QueueFull(tx.rows) THEN [tx EXCEPT !.full = TRUE]
          ELSE [rows |-> rs, incidents |-> ns, full |-> FALSE]
  BY DEF RecordSignal
<1>2. /\ s = [kind |-> s.kind, sev |-> s.sev, recovered |-> s.recovered]
      /\ s.kind \in IncidentKinds \cup {"none"} /\ s.sev \in 0 .. 2 /\ s.recovered \in BOOLEAN
  BY ClassifyFacts
<1>3. tx.incidents \in Incidents /\ tx.rows \in Seq(Row) /\ e.acct \in Accounts
  BY DEF View, Event
<1> HIDE DEF send, i, nw, rs, ns
<1>4. CASE tx.full \/ Ignored(s, old)
  BY <1>1, <1>4
<1>5. CASE ~(tx.full \/ Ignored(s, old)) /\ send /\ QueueFull(tx.rows)
  <2>1. r = [tx EXCEPT !.full = TRUE]
    BY <1>1, <1>5
  <2> QED BY <2>1 DEF View
<1>6. CASE ~(tx.full \/ Ignored(s, old)) /\ ~(send /\ QueueFull(tx.rows))
  <2>1. r = [rows |-> rs, incidents |-> ns, full |-> FALSE]
    BY <1>1, <1>6
  <2>2. s.kind \in IncidentKinds
    BY <1>2, <1>6 DEF Ignored
  <2>3. old \in Incident /\ old.sev \in 0 .. 2 /\ old.age \in 0 .. Cooldown /\ Cooldown \in Nat
    BY <1>3, <2>2, OutboxAssumption DEF Incidents, Incident
  <2>4. nw \in Row
    BY <1>2, <1>3, <2>2, NewRowFacts DEF nw
  <2>5. rs \in Seq(Row)
    BY <1>3, <2>4 DEF rs
  <2>6. i \in Incident /\ i.sev = IF s.recovered THEN 0 ELSE MaxOf(old.sev, s.sev)
    <3>1. MaxOf(old.sev, s.sev) \in 0 .. 2
      BY <1>2, <2>3 DEF MaxOf
    <3> DEFINE g == IF send THEN 0 ELSE old.age
               m == MaxOf(old.sev, s.sev)
               z == 0
    <3>2. g \in 0 .. Cooldown /\ z \in 0 .. 2 /\ z \in 0 .. Cooldown
      BY <2>3
    <3>3. i = IF s.recovered THEN [sev |-> z, age |-> z] ELSE [sev |-> m, age |-> g]
      BY DEF i, NoIncident
    <3> HIDE DEF g, m, z
    <3>4. i \in Incident /\ i.sev = IF s.recovered THEN z ELSE m
      BY <3>1, <3>2, <3>3 DEF Incident, m
    <3> QED BY <3>4 DEF m, z
  <2>7. /\ ns \in Incidents /\ ns[e.acct][s.kind] = i
        /\ \A a \in Accounts, k \in IncidentKinds :
             (a # e.acct \/ k # s.kind) => ns[a][k] = tx.incidents[a][k]
    BY <1>3, <2>2, <2>6 DEF ns, Incidents
  <2>8. rs = Append(tx.rows, nw) \/ (rs = tx.rows /\ ~s.recovered /\ s.sev <= old.sev)
    <3> DEFINE m == old.sev
               n == s.sev
    <3>1. m \in 0 .. 2 /\ n \in 0 .. 2
      BY <1>2, <2>3
    <3>2. CASE send
      BY <3>2 DEF rs
    <3>3. CASE ~send
      <4>1. ~s.recovered /\ ~(n > m)
        BY <3>3 DEF send
      <4>2. n <= m
        <5> HIDE DEF m, n
        <5> QED BY <3>1, <4>1
      <4> QED BY <3>3, <4>1, <4>2 DEF rs
    <3> QED BY <3>2, <3>3
  <2> QED BY <1>6, <2>1, <2>2, <2>5, <2>6, <2>7, <2>8 DEF View, nw
<1> QED BY <1>4, <1>5, <1>6

(* The fresh rows of the view are appended.                                *)
LEMMA ExtendsStep ==
  ASSUME TypeOK, NEW tx \in View, NEW e \in Event, Extends(tx.rows)
  PROVE  /\ RecordSignal(tx, e) \in View
         /\ Extends(RecordSignal(tx, e).rows)
<1> DEFINE s == Classify(e.kind)
           x == NewRow(e.acct, s, settings.rev)
           r == RecordSignal(tx, e)
<1>1. /\ r \in View
      /\ r.rows = tx.rows \/ (r.rows = Append(tx.rows, x) /\ s.kind \in IncidentKinds)
  BY SignalFacts
<1>2. CASE r.rows = tx.rows
  <2> HIDE DEF r
  <2> QED BY <1>1, <1>2 DEF r
<1>3. CASE r.rows = Append(tx.rows, x) /\ s.kind \in IncidentKinds
  <2>1. e.acct \in Accounts /\ tx.rows \in Seq(Row) /\ Len(rows) \in Nat
    BY DEF Event, View, TypeOK
  <2>2. x \in Row /\ Fresh(x)
    <3>1. /\ s = [kind |-> s.kind, sev |-> s.sev, recovered |-> s.recovered]
          /\ s.sev \in 0 .. 2 /\ s.recovered \in BOOLEAN
      BY ClassifyFacts
    <3> HIDE DEF s
    <3> QED BY <1>3, <2>1, <3>1, NewRowFacts DEF Fresh
  <2> HIDE DEF x, r
  <2>3. Extends(Append(tx.rows, x))
    BY <2>1, <2>2 DEF Extends
  <2> QED BY <1>1, <1>3, <2>3 DEF r
<1> QED BY <1>1, <1>2, <1>3

(* Recording an event of a live account keeps what the queue and the log   *)
(* say together.                                                           *)
LEMMA ToldStep ==
  ASSUME TypeOK, NEW tx \in View, NEW i \in DOMAIN log, start < i,
         account[log[i].acct] = "live",
         ~tx.full, Told(tx.rows, tx.incidents, i - 1), Answering(tx.rows),
         NEW r, r = RecordSignal(tx, log[i]), ~r.full
  PROVE  Told(r.rows, r.incidents, i) /\ Answering(r.rows)
<1> DEFINE e == log[i]
           s == Classify(e.kind)
           old == tx.incidents[e.acct][s.kind]
           x == NewRow(e.acct, s, settings.rev)
<1>1. e \in Event /\ e.acct \in Accounts /\ tx.rows \in Seq(Row) /\ tx.incidents \in Incidents
  <2>1. e \in Event
    BY DEF TypeOK
  <2>2. tx.rows \in Seq(Row) /\ tx.incidents \in Incidents
    BY DEF View
  <2> QED BY <2>1, <2>2 DEF Event
<1>2. /\ s = [kind |-> s.kind, sev |-> s.sev, recovered |-> s.recovered]
      /\ s.kind \in IncidentKinds \cup {"none"} /\ s.sev \in 0 .. 2
      /\ s.recovered \in BOOLEAN
      /\ s.kind # "none" /\ ~s.recovered => s.sev > 0
  BY ClassifyFacts
<1>3. \A a \in Accounts, k \in IncidentKinds : tx.incidents[a][k].sev \in 0 .. 2
  BY <1>1 DEF Incidents, Incident
<1>4. ASSUME NEW a \in Accounts, NEW k \in IncidentKinds, account[a] = "live"
      PROVE  /\ QueueSays(tx.rows, settings.rev, a, k, tx.incidents[a][k].sev)
             /\ LogSays(i, a, k, IF e.acct # a \/ s.kind # k THEN tx.incidents[a][k].sev
                                 ELSE IF s.recovered THEN 0
                                 ELSE MaxOf(tx.incidents[a][k].sev, s.sev))
  <2>1. /\ QueueSays(tx.rows, settings.rev, a, k, tx.incidents[a][k].sev)
        /\ LogSays(i - 1, a, k, tx.incidents[a][k].sev)
    BY <1>4 DEF Told
  <2>2. tx.incidents[a][k].sev \in 0 .. 2
    BY <1>3
  <2> DEFINE n == tx.incidents[a][k].sev
  <2> HIDE DEF n
  <2> QED BY <2>1, <2>2, LogNext DEF n
<1>5. \/ r = tx /\ Ignored(s, old)
      \/ /\ ~Ignored(s, old) /\ s.kind \in IncidentKinds
         /\ r.incidents[e.acct][s.kind].sev = IF s.recovered THEN 0 ELSE MaxOf(old.sev, s.sev)
         /\ \A a \in Accounts, k \in IncidentKinds :
              (a # e.acct \/ k # s.kind) => r.incidents[a][k] = tx.incidents[a][k]
         /\ \/ r.rows = Append(tx.rows, x)
            \/ r.rows = tx.rows /\ ~s.recovered /\ s.sev <= old.sev
  BY <1>1, SignalFacts
<1> HIDE DEF e, s, x
<1>6. CASE r = tx /\ Ignored(s, old)
  <2> SUFFICES ASSUME NEW a \in Accounts, NEW k \in IncidentKinds, account[a] = "live"
               PROVE  LogSays(i, a, k, tx.incidents[a][k].sev)
    BY <1>4, <1>6 DEF Told
  <2>1. CASE e.acct # a \/ s.kind # k
    BY <1>4, <2>1
  <2>2. CASE e.acct = a /\ s.kind = k
    <3>1. s.recovered /\ tx.incidents[a][k].sev = 0
      BY <1>6, <2>2, NoneIsNoIncident DEF Ignored
    <3> QED BY <1>4, <2>2, <3>1
  <2> QED BY <2>1, <2>2
<1>7. CASE /\ ~Ignored(s, old) /\ s.kind \in IncidentKinds
           /\ r.incidents[e.acct][s.kind].sev = IF s.recovered THEN 0 ELSE MaxOf(old.sev, s.sev)
           /\ \A a \in Accounts, k \in IncidentKinds :
                (a # e.acct \/ k # s.kind) => r.incidents[a][k] = tx.incidents[a][k]
           /\ \/ r.rows = Append(tx.rows, x)
              \/ r.rows = tx.rows /\ ~s.recovered /\ s.sev <= old.sev
  <2>1. /\ x \in Row /\ x.acct = e.acct /\ x.kind = s.kind /\ x.sev = s.sev
        /\ x.recovered = s.recovered /\ x.rev = settings.rev
    BY <1>1, <1>2, <1>7, NewRowFacts DEF x
  <2>2. old.sev \in 0 .. 2
    BY <1>1, <1>3, <1>7
  <2>3. s.recovered => old.sev # 0
    BY <1>7 DEF Ignored
  <2>4. ASSUME NEW a \in Accounts, NEW k \in IncidentKinds, account[a] = "live"
        PROVE  QueueSays(r.rows, settings.rev, a, k, r.incidents[a][k].sev)
    <3> DEFINE n == tx.incidents[a][k].sev
    <3>1. QueueSays(tx.rows, x.rev, a, k, n) /\ n \in 0 .. 2
      BY <1>3, <1>4, <2>1, <2>4
    <3>2. r.incidents[a][k].sev = IF x.acct # a \/ x.kind # k THEN n
                                  ELSE IF x.recovered THEN 0 ELSE MaxOf(n, x.sev)
      BY <1>7, <2>1
    <3>3. CASE r.rows = Append(tx.rows, x)
      <4> DEFINE m == IF x.acct # a \/ x.kind # k THEN n
                      ELSE IF x.recovered THEN 0 ELSE MaxOf(n, x.sev)
      <4>1. QueueSays(Append(tx.rows, x), x.rev, a, k, m)
        <5> HIDE DEF n
        <5> QED BY <1>1, <2>1, <3>1, QueueAppend
      <4>2. r.incidents[a][k].sev = m
        BY <3>2
      <4> HIDE DEF m
      <4> QED BY <2>1, <3>3, <4>1, <4>2
    <3>4. CASE r.rows = tx.rows /\ ~s.recovered /\ s.sev <= old.sev
      <4>1. r.incidents[a][k].sev = n
        <5>1. CASE x.acct # a \/ x.kind # k
          BY <3>2, <5>1
        <5>2. CASE x.acct = a /\ x.kind = k
          <6>1. n = old.sev
            BY <2>1, <5>2
          <6>2. MaxOf(n, x.sev) = n
            BY <1>2, <2>1, <2>2, <3>4, <6>1 DEF MaxOf
          <6> QED BY <2>1, <3>2, <3>4, <5>2, <6>2
        <5> QED BY <5>1, <5>2
      <4> QED BY <2>1, <3>1, <3>4, <4>1
    <3> QED BY <1>7, <3>3, <3>4
  <2>5. ASSUME NEW a \in Accounts, NEW k \in IncidentKinds, account[a] = "live"
        PROVE  LogSays(i, a, k, r.incidents[a][k].sev)
    <3>1. r.incidents[a][k].sev = IF e.acct # a \/ s.kind # k THEN tx.incidents[a][k].sev
                                  ELSE IF s.recovered THEN 0
                                  ELSE MaxOf(tx.incidents[a][k].sev, s.sev)
      BY <1>7
    <3> QED BY <1>4, <2>5, <3>1
  <2>6. Answering(r.rows)
    <3>1. CASE r.rows = tx.rows
      BY <3>1
    <3>2. CASE r.rows = Append(tx.rows, x)
      <4>1. x.recovered => \E n \in {1, 2} : QueueSays(tx.rows, x.rev, x.acct, x.kind, n)
        <5> SUFFICES ASSUME x.recovered
                     PROVE  \E n \in {1, 2} : QueueSays(tx.rows, x.rev, x.acct, x.kind, n)
          OBVIOUS
        <5>1. account[e.acct] = "live"
          BY DEF e
        <5>2. QueueSays(tx.rows, settings.rev, e.acct, s.kind, old.sev)
          BY <1>1, <1>4, <1>7, <5>1
        <5>3. old.sev \in {1, 2}
          BY <2>1, <2>2, <2>3
        <5> QED BY <2>1, <5>2, <5>3
      <4> QED BY <1>1, <2>1, <3>2, <4>1, AnswerAppend
    <3> QED BY <1>7, <3>1, <3>2
  <2> QED BY <2>4, <2>5, <2>6 DEF Told
<1> QED BY <1>5, <1>6, <1>7

(* The cursor is in the log, and not before the start of the route.        *)
CursorOK == start <= settings.cursor /\ settings.cursor <= Len(log)

(* The state of the ingestion.                                             *)
Ingesting == CursorOK /\ Told(rows, incidents, settings.cursor) /\ Answering(rows)

(* The view after the batch: by induction on the events of the batch.      *)
LEMMA IngestFacts ==
  ASSUME TypeOK, Ingesting, NextEvents # {}, NEW v, v = Ingested[LastEvent]
  PROVE  /\ v \in View /\ Extends(v.rows)
         /\ ~v.full => Told(v.rows, v.incidents, LastEvent) /\ Answering(v.rows)
<1> DEFINE c == settings.cursor
           F(i) == /\ Ingested[i] \in View /\ Extends(Ingested[i].rows)
                   /\ ~Ingested[i].full => /\ Told(Ingested[i].rows, Ingested[i].incidents, i)
                                           /\ Answering(Ingested[i].rows)
           Bad == {i \in c .. LastEvent : ~F(i)}
<1>1. /\ c \in Nat /\ LastEvent \in Nat /\ c < LastEvent /\ start \in Nat /\ start <= c
      /\ DOMAIN log = 1 .. Len(log) /\ LastEvent <= Len(log) /\ Len(log) \in Nat
  BY BatchFacts DEF TypeOK, Settings, Ingesting, CursorOK
<1>2. F(c)
  <2>1. Ingested[c] = [rows |-> rows, incidents |-> incidents, full |-> FALSE]
    <3>1. c \in c .. LastEvent
      BY <1>1
    <3> QED BY <3>1, IngestedDef, Zenon
  <2>2. rows \in Seq(Row) /\ incidents \in Incidents /\ Len(rows) \in Nat
    BY DEF TypeOK, Incidents
  <2>3. Extends(rows)
    BY <2>2 DEF Extends
  <2>4. Ingested[c] \in View /\ Ingested[c].rows = rows /\ Ingested[c].incidents = incidents
    BY <2>1, <2>2 DEF View
  <2> QED BY <2>3, <2>4 DEF Ingesting
<1>3. ASSUME NEW i \in c + 1 .. LastEvent, F(i - 1) PROVE F(i)
  <2>1. i \in c .. LastEvent /\ i # c /\ i \in DOMAIN log /\ start < i
    BY <1>1
  <2>2. CASE i \in NextEvents
    <3> DEFINE tx == Ingested[i - 1]
               r == RecordSignal(tx, log[i])
    <3>1. Ingested[i] = r
      BY <2>1, <2>2, IngestedDef
    <3>2. account[log[i].acct] = "live" /\ log[i] \in Event
      BY <2>1, <2>2, BatchFacts DEF Ready, TypeOK
    <3>3. tx \in View /\ Extends(tx.rows)
      BY <1>3
    <3>4. r \in View /\ Extends(r.rows)
      <4> HIDE DEF tx
      <4> QED BY <3>2, <3>3, ExtendsStep
    <3>5. ASSUME ~r.full PROVE Told(r.rows, r.incidents, i) /\ Answering(r.rows)
      <4>1. ~tx.full
        <5> HIDE DEF tx
        <5> QED BY <3>2, <3>3, <3>5, SignalFacts
      <4>2. Told(tx.rows, tx.incidents, i - 1) /\ Answering(tx.rows)
        BY <1>3, <4>1
      <4> HIDE DEF tx, r
      <4> QED BY <2>1, <3>2, <3>3, <3>5, <4>1, <4>2, ToldStep DEF r
    <3> HIDE DEF r
    <3> QED BY <3>1, <3>4, <3>5
  <2>3. CASE i \notin NextEvents
    <3>1. Ingested[i] = Ingested[i - 1]
      BY <2>1, <2>3, IngestedDef
    <3>2. account[log[i].acct] # "live"
      <4>1. i \notin Ready
        BY <2>3, <2>1, BatchFacts
      <4>2. i > settings.cursor
        BY <1>1, <2>1
      <4> QED BY <2>1, <4>1, <4>2 DEF Ready
    <3>3. ASSUME NEW rs, NEW inc \in Incidents, Told(rs, inc, i - 1) PROVE Told(rs, inc, i)
      <4> SUFFICES ASSUME NEW a \in Accounts, NEW k \in IncidentKinds, account[a] = "live"
                   PROVE  LogSays(i, a, k, inc[a][k].sev)
        BY <3>3 DEF Told
      <4>1. log[i].acct # a /\ LogSays(i - 1, a, k, inc[a][k].sev)
        BY <3>2, <3>3 DEF Told
      <4>2. inc[a][k].sev \in 0 .. 2
        BY DEF Incidents, Incident
      <4> DEFINE n == inc[a][k].sev
      <4> HIDE DEF n
      <4> QED BY <2>1, <4>1, <4>2, LogNext DEF n
    <3>4. Ingested[i - 1].incidents \in Incidents
      BY <1>3 DEF View
    <3> QED BY <1>3, <3>1, <3>3, <3>4
  <2> HIDE DEF F
  <2> QED BY <2>2, <2>3
<1>4. Bad = {}
  <2> SUFFICES ASSUME Bad # {} PROVE FALSE
    OBVIOUS
  <2> HIDE DEF F
  <2>1. Bad \subseteq Nat /\ \A i : i \in Bad <=> i \in c .. LastEvent /\ ~F(i)
    <3>1. \A i \in c .. LastEvent : i \in Nat
      BY <1>1
    <3> QED BY <3>1
  <2>2. PICK i \in Bad : \A j \in Bad : i <= j
    <3> HIDE DEF Bad
    <3> QED BY <2>1, Least
  <2> HIDE DEF Bad
  <2>3. i \in c .. LastEvent /\ ~F(i) /\ i # c
    BY <1>2, <2>1, <2>2
  <2>4. i \in c + 1 .. LastEvent /\ i - 1 \in c .. LastEvent
    BY <1>1, <2>3
  <2>5. i - 1 \notin Bad
    BY <1>1, <2>1, <2>2, <2>4
  <2> QED BY <1>3, <2>1, <2>3, <2>4, <2>5
<1>5. F(LastEvent)
  <2>1. LastEvent \in c .. LastEvent
    BY <1>1
  <2> HIDE DEF F
  <2> QED BY <1>4, <2>1
<1> QED BY <1>5

-----------------------------------------------------------------------------
(***************************************************************************)
(* What a notification says never changes                                  *)
(***************************************************************************)

SameLetter(x, y) ==
    /\ x.acct = y.acct /\ x.kind = y.kind /\ x.rev = y.rev
    /\ x.recovered = y.recovered /\ x.sev = y.sev

(* The queue says what it said if no notification is added.                *)
LEMMA SameLetters ==
  ASSUME NEW rs \in Seq(Row), NEW ts \in Seq(Row), Len(ts) = Len(rs),
         \A i \in 1 .. Len(rs) : SameLetter(ts[i], rs[i])
  PROVE  /\ \A rev, a, k, n : QueueSays(rs, rev, a, k, n) => QueueSays(ts, rev, a, k, n)
         /\ Answering(rs) => Answering(ts)
<1>1. DOMAIN rs = 1 .. Len(rs) /\ DOMAIN ts = DOMAIN rs
  OBVIOUS
<1>2. \A rev, a, k : Queued(ts, rev, a, k) = Queued(rs, rev, a, k)
  BY <1>1 DEF Queued, SameLetter
<1>3. \A rev, a, k, j : Queued(rs, rev, a, k) \subseteq DOMAIN rs
  BY DEF Queued
<1>4. \A rev, a, k, j : QueuedAfterRecovery(rs, rev, a, k, j)
                           <=> QueuedAfterRecovery(ts, rev, a, k, j)
  BY <1>1, <1>2, <1>3 DEF QueuedAfterRecovery, SameLetter
<1>5. ASSUME NEW rev, NEW a, NEW k, NEW n, QueueSays(rs, rev, a, k, n)
      PROVE  QueueSays(ts, rev, a, k, n)
  BY <1>1, <1>2, <1>3, <1>4, <1>5 DEF QueueSays, SameLetter
<1>6. ASSUME Answering(rs), NEW i \in DOMAIN rs, ts[i].recovered PROVE Answers(ts, i)
  <2>1. Answers(rs, i) /\ SameLetter(ts[i], rs[i])
    BY <1>1, <1>6 DEF Answering, SameLetter
  <2> DEFINE Q == Queued(rs, rs[i].rev, rs[i].acct, rs[i].kind)
  <2>2. Q = Queued(ts, ts[i].rev, ts[i].acct, ts[i].kind)
    BY <1>2, <2>1 DEF SameLetter
  <2>3. \A l \in Q : rs[l].recovered <=> ts[l].recovered
    BY <1>1 DEF Queued, SameLetter
  <2>4. PICK j \in 1 .. i - 1 : j \in Q /\ \A l \in 1 .. i - 1 : l \in Q /\ rs[l].recovered => l < j
    BY <2>1 DEF Answers
  <2> HIDE DEF Q
  <2>5. j \in Q /\ \A l \in 1 .. i - 1 : l \in Q /\ ts[l].recovered => l < j
    BY <2>3, <2>4
  <2> QED BY <2>2, <2>5 DEF Answers
<1> QED BY <1>1, <1>5, <1>6 DEF Answering

-----------------------------------------------------------------------------
(***************************************************************************)
(* The delivery                                                            *)
(***************************************************************************)

Busy(w) == worker[w].pc # "idle"

(* A row is handed over at most once per attempt; no row is newer than the *)
(* route.                                                                  *)
SendsCounted ==
    \A i \in DOMAIN rows : rows[i].sends <= rows[i].att /\ rows[i].rev <= settings.rev

(* A worker holds a row in one of its attempts; in the present attempt it  *)
(* has handed the row over, or nobody has.                                 *)
Holds(w) ==
    LET i == worker[w].row
    IN  /\ i \in 1 .. Len(rows)
        /\ 0 < worker[w].att /\ worker[w].att <= rows[i].att /\ worker[w].rev = rows[i].rev
        /\ (worker[w].pc = "claimed" /\ rows[i].att = worker[w].att)
               => rows[i].sends < rows[i].att
        /\ worker[w].pc = "http" => rows[i].sends > 0

BusyHold == \A w \in Workers : Busy(w) => Holds(w)

(* No two workers are in the same attempt.                                 *)
OwnAttempt ==
    \A w, v \in Workers : (Busy(w) /\ Busy(v) /\ w # v /\ worker[w].row = worker[v].row)
                              => worker[w].att # worker[v].att

(* A row is in delivery only while it is the first of its account.         *)
SendingFirst == \A i \in DOMAIN rows : rows[i].status = "sending" => OldestOfAccount(i)

Delivering == SendsCounted /\ BusyHold /\ OwnAttempt /\ SendingFirst /\ RoutePostponedByItself

IInv == TypeOK /\ Ingesting /\ Delivering

(* The numbers of a row.                                                   *)
LEMMA RowFields ==
  ASSUME TypeOK
  PROVE  \A i \in 1 .. Len(rows) :
           /\ rows[i] \in Row /\ rows[i].acct \in Accounts \cup {NoAccount}
           /\ rows[i].rev \in Nat
           /\ rows[i].att \in 0 .. MaxAttempts /\ rows[i].sends \in 0 .. MaxAttempts
<1>1. \A x \in Row : /\ x.acct \in Accounts \cup {NoAccount} /\ x.rev \in Nat
                     /\ x.att \in 0 .. MaxAttempts /\ x.sends \in 0 .. MaxAttempts
  BY DEF Row
<1>2. \A i \in 1 .. Len(rows) : rows[i] \in Row
  BY DEF TypeOK
<1> QED BY <1>1, <1>2

(* A step that begins no attempt and hands nothing over, whatever rows it  *)
(* settles or sends back to the queue and whatever workers it ends.        *)
KeepsRow(x, y) ==
    /\ SameLetter(x, y) /\ x.att = y.att /\ x.sends = y.sends
    /\ Open(x) => Open(y)
    /\ x.status = "sending" => y.status = "sending"

(* Such a step keeps the delivery in order.                                *)
LEMMA QuietDelivery ==
  ASSUME TypeOK, Delivering, TypeOK', Len(rows') = Len(rows),
         \A i \in 1 .. Len(rows) : KeepsRow(rows'[i], rows[i]),
         settings.rev <= settings'.rev,
         \A w \in Workers : \/ worker'[w].pc = "idle"
                            \/ /\ worker'[w].row = worker[w].row
                               /\ worker'[w].att = worker[w].att
                               /\ worker'[w].rev = worker[w].rev
                               /\ worker'[w].pc = worker[w].pc
                            \/ /\ worker'[w].row = worker[w].row
                               /\ worker'[w].att = worker[w].att
                               /\ worker'[w].rev = worker[w].rev
                               /\ worker[w].pc = "claimed"
                               /\ worker'[w].pc \in {"cancelled", "failed"},
         RoutePostponedByItself'
  PROVE  Delivering'
<1>1. /\ DOMAIN rows = 1 .. Len(rows) /\ DOMAIN rows' = 1 .. Len(rows)
      /\ Len(rows) \in Nat /\ settings.rev \in Nat /\ settings'.rev \in Nat
  BY DEF TypeOK, Settings
<1>2. SendsCounted'
  <2> SUFFICES ASSUME NEW i \in 1 .. Len(rows)
               PROVE  rows'[i].sends <= rows'[i].att /\ rows'[i].rev <= settings'.rev
    BY <1>1 DEF SendsCounted
  <2>1. rows[i].sends <= rows[i].att /\ rows[i].rev <= settings.rev /\ rows[i].rev \in Nat
    BY <1>1, RowFields DEF Delivering, SendsCounted
  <2>2. rows'[i].sends = rows[i].sends /\ rows'[i].att = rows[i].att /\ rows'[i].rev = rows[i].rev
    BY DEF KeepsRow, SameLetter
  <2> QED BY <1>1, <2>1, <2>2
<1>3. BusyHold'
  <2> SUFFICES ASSUME NEW w \in Workers, Busy(w)' PROVE Holds(w)'
    BY DEF BusyHold
  <2>1. /\ Busy(w) /\ worker'[w].row = worker[w].row /\ worker'[w].att = worker[w].att
        /\ worker'[w].rev = worker[w].rev
        /\ worker'[w].pc \in {"claimed", "http"} => worker'[w].pc = worker[w].pc
    BY DEF Busy
  <2>2. Holds(w)
    BY <2>1 DEF Delivering, BusyHold
  <2> DEFINE i == worker[w].row
  <2>3. i \in 1 .. Len(rows)
    BY <2>2 DEF Holds
  <2>4. /\ rows'[i].sends = rows[i].sends /\ rows'[i].att = rows[i].att
        /\ rows'[i].rev = rows[i].rev
    BY <2>3 DEF KeepsRow, SameLetter
  <2> QED BY <2>1, <2>2, <2>4 DEF Holds
<1>4. OwnAttempt'
  BY DEF OwnAttempt, Delivering, Busy
<1>5. SendingFirst'
  <2> SUFFICES ASSUME NEW i \in 1 .. Len(rows), rows'[i].status = "sending",
                      NEW j \in 1 .. i - 1, rows'[j].acct = rows'[i].acct, Open(rows'[j])
               PROVE  FALSE
    BY <1>1 DEF SendingFirst, OldestOfAccount
  <2>1. j \in 1 .. Len(rows)
    BY <1>1
  <2>2. rows[i].status = "sending" /\ rows[j].acct = rows[i].acct /\ Open(rows[j])
    BY <2>1 DEF KeepsRow, SameLetter
  <2> QED BY <1>1, <2>2 DEF Delivering, SendingFirst, OldestOfAccount
<1> QED BY <1>2, <1>3, <1>4, <1>5 DEF Delivering

(* New rows at the end of the table.                                       *)
LEMMA AppendDelivery ==
  ASSUME TypeOK, Delivering, TypeOK', Len(rows) <= Len(rows'),
         \A i \in 1 .. Len(rows) : rows'[i] = rows[i],
         \A i \in Len(rows) + 1 .. Len(rows') :
            /\ rows'[i].status = "pending" /\ rows'[i].att = 0 /\ rows'[i].sends = 0
            /\ rows'[i].rev = settings.rev,
         worker' = worker, settings'.rev = settings.rev, settings'.retry = settings.retry
  PROVE  Delivering'
<1>1. /\ DOMAIN rows = 1 .. Len(rows) /\ DOMAIN rows' = 1 .. Len(rows')
      /\ Len(rows) \in Nat /\ Len(rows') \in Nat /\ settings.rev \in Nat
  BY DEF TypeOK, Settings
<1>2. SendsCounted'
  <2> SUFFICES ASSUME NEW i \in 1 .. Len(rows')
               PROVE  rows'[i].sends <= rows'[i].att /\ rows'[i].rev <= settings'.rev
    BY <1>1 DEF SendsCounted
  <2>1. CASE i \in 1 .. Len(rows)
    BY <1>1, <2>1 DEF Delivering, SendsCounted
  <2>2. CASE i \in Len(rows) + 1 .. Len(rows')
    BY <1>1, <2>2
  <2> QED BY <1>1, <2>1, <2>2
<1>3. BusyHold'
  <2> SUFFICES ASSUME NEW w \in Workers, Busy(w) PROVE Holds(w)'
    BY DEF BusyHold, Busy
  <2>1. Holds(w)
    BY DEF Delivering, BusyHold
  <2>2. worker[w].row \in 1 .. Len(rows) /\ worker[w].row \in 1 .. Len(rows')
    BY <1>1, <2>1 DEF Holds
  <2>3. rows'[worker[w].row] = rows[worker[w].row]
    BY <2>2
  <2> QED BY <2>1, <2>2, <2>3 DEF Holds
<1>4. OwnAttempt'
  BY DEF OwnAttempt, Delivering, Busy
<1>5. SendingFirst'
  <2> SUFFICES ASSUME NEW i \in 1 .. Len(rows'), rows'[i].status = "sending",
                      NEW j \in 1 .. i - 1, rows'[j].acct = rows'[i].acct, Open(rows'[j])
               PROVE  FALSE
    BY <1>1 DEF SendingFirst, OldestOfAccount
  <2>1. i \in 1 .. Len(rows)
    <3>1. i \notin Len(rows) + 1 .. Len(rows')
      OBVIOUS
    <3> QED BY <1>1, <3>1
  <2>2. j \in 1 .. Len(rows)
    BY <1>1, <2>1
  <2>3. rows'[i] = rows[i] /\ rows'[j] = rows[j]
    BY <2>1, <2>2
  <2> QED BY <1>1, <2>1, <2>3 DEF Delivering, SendingFirst, OldestOfAccount
<1>6. RoutePostponedByItself'
  <2> SUFFICES ASSUME settings.retry > 0
               PROVE  \E i \in DOMAIN rows' : rows'[i].rev = settings.rev /\ rows'[i].att > 0
    BY DEF RoutePostponedByItself
  <2>1. PICK i \in DOMAIN rows : rows[i].rev = settings.rev /\ rows[i].att > 0
    BY DEF Delivering, RoutePostponedByItself
  <2>2. i \in DOMAIN rows' /\ rows'[i] = rows[i]
    BY <1>1
  <2> QED BY <2>1, <2>2
<1> QED BY <1>2, <1>3, <1>4, <1>5, <1>6 DEF Delivering

(* A step that changes neither log nor incidents' severities nor what the  *)
(* notifications say.                                                      *)
LEMMA QuietIngesting ==
  ASSUME TypeOK, Ingesting, TypeOK', Len(rows') = Len(rows),
         \A i \in 1 .. Len(rows) : SameLetter(rows'[i], rows[i]),
         UNCHANGED <<log, start>>,
         settings'.rev = settings.rev, settings'.cursor = settings.cursor,
         \A a \in Accounts : account'[a] = "live" =>
             /\ account[a] = "live"
             /\ \A k \in IncidentKinds : incidents'[a][k].sev = incidents[a][k].sev
  PROVE  Ingesting'
<1>1. rows \in Seq(Row) /\ rows' \in Seq(Row)
  BY DEF TypeOK
<1>2. Answering(rows') /\ \A rev, a, k, n : QueueSays(rows, rev, a, k, n) => QueueSays(rows', rev, a, k, n)
  <2>1. \A rs, ts \in Seq(Row) :
          (Len(ts) = Len(rs) /\ \A i \in 1 .. Len(rs) : SameLetter(ts[i], rs[i])) =>
             /\ \A rev, a, k, n : QueueSays(rs, rev, a, k, n) => QueueSays(ts, rev, a, k, n)
             /\ Answering(rs) => Answering(ts)
    BY SameLetters
  <2> QED BY <1>1, <2>1 DEF Ingesting
<1>3. \A m, a, k, n : LogSays(m, a, k, n) => LogSays(m, a, k, n)'
  BY DEF LogSays, LoggedAfterRecovery, About
<1>4. Told(rows, incidents, settings.cursor)'
  <2> SUFFICES ASSUME NEW a \in Accounts, NEW k \in IncidentKinds, account'[a] = "live"
               PROVE  /\ QueueSays(rows', settings'.rev, a, k, incidents'[a][k].sev)
                      /\ LogSays(settings.cursor, a, k, incidents[a][k].sev)'
    BY DEF Told
  <2>1. /\ QueueSays(rows, settings.rev, a, k, incidents[a][k].sev)
        /\ LogSays(settings.cursor, a, k, incidents[a][k].sev)
    BY DEF Ingesting, Told
  <2>2. incidents'[a][k].sev = incidents[a][k].sev
    OBVIOUS
  <2>3. QueueSays(rows', settings'.rev, a, k, incidents'[a][k].sev)
    BY <1>2, <2>1, <2>2
  <2>4. LogSays(settings.cursor, a, k, incidents[a][k].sev)'
    BY <1>3, <2>1, <2>2 DEF LogSays, LoggedAfterRecovery, About
  <2> QED BY <2>3, <2>4
<1> QED BY <1>2, <1>4 DEF Ingesting, CursorOK

-----------------------------------------------------------------------------
(***************************************************************************)
(* The steps                                                               *)
(***************************************************************************)

(* A table changed row by row is a table.                                  *)
LEMMA Mapped ==
  ASSUME NEW rs \in Seq(Row), NEW ts, ts = [i \in DOMAIN rs |-> ts[i]],
         \A i \in 1 .. Len(rs) : ts[i] \in Row
  PROVE  ts \in Seq(Row) /\ Len(ts) = Len(rs)
<1>1. DOMAIN rs = 1 .. Len(rs) /\ Len(rs) \in Nat
  OBVIOUS
<1>2. ts \in [1 .. Len(rs) -> Row]
  BY <1>1
<1>3. ts \in Seq(Row)
  BY <1>1, <1>2, SeqDef
<1>4. DOMAIN ts = 1 .. Len(rs)
  BY <1>2
<1> QED BY <1>1, <1>3, <1>4

(* So is a table in which one row is replaced.                             *)
LEMMA Replaced ==
  ASSUME NEW rs \in Seq(Row), NEW i \in 1 .. Len(rs), NEW x \in Row,
         NEW ts, ts = [rs EXCEPT ![i] = x]
  PROVE  /\ ts \in Seq(Row) /\ Len(ts) = Len(rs) /\ ts[i] = x
         /\ \A j \in 1 .. Len(rs) : j # i => ts[j] = rs[j]
  BY ExceptSeq

(* Settling a row.                                                         *)
LEMMA SettledFacts ==
  ASSUME NEW x \in Row, NEW st \in {"sent", "failed", "cancelled", "removed"},
         NEW y, y = Settled(x, st)
  PROVE  y \in Row /\ KeepsRow(y, x) /\ y.status = st /\ ~Open(y)
<1> DEFINE z == 0
           f == FALSE
<1>1. y = [x EXCEPT !.status = st, !.next = z, !.lease = z, !.old = f]
  BY DEF Settled
<1>2. z \in Nat /\ z \in 0 .. Lease /\ f \in BOOLEAN
  BY OutboxAssumption
<1>3. st \in {"pending", "sending", "sent", "failed", "cancelled", "removed"}
      /\ st # "pending" /\ st # "sending"
  OBVIOUS
<1> HIDE DEF z, f
<1>4. y \in Row
  BY <1>1, <1>2, <1>3 DEF Row
<1>5. /\ y.acct = x.acct /\ y.kind = x.kind /\ y.rev = x.rev /\ y.recovered = x.recovered
      /\ y.sev = x.sev /\ y.att = x.att /\ y.sends = x.sends /\ y.status = st
  BY <1>1 DEF Row
<1>6. ~Open(y)
  BY <1>3, <1>5 DEF Open
<1> QED BY <1>3, <1>4, <1>5, <1>6 DEF KeepsRow, SameLetter

(* A row that is left alone is kept.                                       *)
LEMMA KeepsItself == \A x : KeepsRow(x, x)
  BY DEF KeepsRow, SameLetter

(* The backoff of a route survives a step that keeps rows and settings.    *)
LEMMA StillPostponed ==
  ASSUME TypeOK, TypeOK', Delivering, Len(rows') = Len(rows),
         \A i \in 1 .. Len(rows) : KeepsRow(rows'[i], rows[i]),
         settings'.rev = settings.rev, settings'.retry > 0 => settings.retry > 0
  PROVE  RoutePostponedByItself'
<1>1. DOMAIN rows = 1 .. Len(rows) /\ DOMAIN rows' = 1 .. Len(rows)
  BY DEF TypeOK
<1> SUFFICES ASSUME settings.retry > 0
             PROVE  \E i \in DOMAIN rows' : rows'[i].rev = settings.rev /\ rows'[i].att > 0
  BY DEF RoutePostponedByItself
<1>2. PICK i \in DOMAIN rows : rows[i].rev = settings.rev /\ rows[i].att > 0
  BY DEF Delivering, RoutePostponedByItself
<1> QED BY <1>1, <1>2 DEF KeepsRow, SameLetter

(* Steps that only settle rows, let time pass or stop workers.             *)
LEMMA QuietStep ==
  ASSUME IInv, TypeOK', Len(rows') = Len(rows),
         \A i \in 1 .. Len(rows) : KeepsRow(rows'[i], rows[i]),
         UNCHANGED <<log, start>>,
         settings'.rev = settings.rev, settings'.cursor = settings.cursor,
         RoutePostponedByItself',
         \A a \in Accounts : account'[a] = "live" =>
             /\ account[a] = "live"
             /\ \A k \in IncidentKinds : incidents'[a][k].sev = incidents[a][k].sev,
         \A w \in Workers : \/ worker'[w].pc = "idle"
                            \/ /\ worker'[w].row = worker[w].row
                               /\ worker'[w].att = worker[w].att
                               /\ worker'[w].rev = worker[w].rev
                               /\ \/ worker'[w].pc = worker[w].pc
                                  \/ /\ worker[w].pc = "claimed"
                                     /\ worker'[w].pc \in {"cancelled", "failed"}
  PROVE  IInv'
<1>1. settings.rev \in Nat /\ TypeOK /\ Ingesting /\ Delivering
  BY DEF IInv, TypeOK, Settings
<1>2. Ingesting'
  BY <1>1, QuietIngesting DEF KeepsRow
<1>3. settings.rev <= settings'.rev
  BY <1>1
<1>4. Delivering'
  BY <1>1, <1>3, QuietDelivery
<1> QED BY <1>2, <1>4 DEF IInv

(* LogEvent: the consumed part of the log stays what it was.               *)
LEMMA LogEventStep ==
  ASSUME IInv, NEW a \in Accounts, NEW k \in EventKinds, LogEvent(a, k)
  PROVE  IInv'
<1> DEFINE e == [acct |-> a, kind |-> k]
<1>1. /\ log' = Append(log, e) /\ log \in Seq(Event) /\ e \in Event
      /\ UNCHANGED <<user, account, settings, incidents, rows, worker, start>>
  BY DEF LogEvent, IInv, TypeOK, Event
<1> HIDE DEF e
<1>2. TypeOK'
  BY <1>1 DEF IInv, TypeOK
<1>3. Delivering'
  BY <1>1 DEF IInv, Delivering, SendsCounted, BusyHold, Busy, Holds, OwnAttempt, SendingFirst,
     OldestOfAccount, RoutePostponedByItself
<1>4. /\ settings.cursor \in Nat /\ start \in Nat /\ settings.cursor <= Len(log)
      /\ start <= settings.cursor /\ Len(log) \in Nat /\ Len(log') = Len(log) + 1
  BY <1>1 DEF IInv, Ingesting, CursorOK, TypeOK, Settings
<1>5. \A i \in start + 1 .. settings.cursor : log'[i] = log[i]
  <2> SUFFICES ASSUME NEW i \in start + 1 .. settings.cursor PROVE log'[i] = log[i]
    OBVIOUS
  <2>1. i \in 1 .. Len(log)
    BY <1>4
  <2> QED BY <1>1, <2>1
<1>6. \A b, c : About(settings.cursor, b, c)' = About(settings.cursor, b, c)
  BY <1>1, <1>5 DEF About
<1>7. \A b, c : About(settings.cursor, b, c) \subseteq start + 1 .. settings.cursor
  BY DEF About
<1>8. \A b, c, j : LoggedAfterRecovery(settings.cursor, b, c, j)'
                      <=> LoggedAfterRecovery(settings.cursor, b, c, j)
  BY <1>5, <1>6, <1>7 DEF LoggedAfterRecovery
<1>9. \A b, c, n : LogSays(settings.cursor, b, c, n) => LogSays(settings.cursor, b, c, n)'
  BY <1>5, <1>6, <1>7, <1>8 DEF LogSays
<1>10. Told(rows, incidents, settings.cursor)'
  BY <1>1, <1>9 DEF IInv, Ingesting, Told
<1>11. Ingesting'
  BY <1>1, <1>4, <1>10 DEF IInv, Ingesting, CursorOK
<1> QED BY <1>2, <1>3, <1>11 DEF IInv

(* ConsumeNotificationEvents: rows, incidents and cursor of the whole      *)
(* batch, as IngestFacts has them.                                         *)
LEMMA ConsumeStep ==
  ASSUME IInv, ConsumeNotificationEvents
  PROVE  IInv'
<1> DEFINE v == Ingested[LastEvent]
<1>1. /\ NextEvents # {} /\ ~v.full /\ rows' = v.rows /\ incidents' = v.incidents
      /\ settings' = [settings EXCEPT !.cursor = LastEvent]
      /\ UNCHANGED <<log, user, account, worker, start>>
  BY DEF ConsumeNotificationEvents, RolledBack
<1>2. TypeOK /\ Ingesting /\ Delivering
  BY DEF IInv
<1>3. /\ v \in View /\ Extends(v.rows)
      /\ Told(v.rows, v.incidents, LastEvent) /\ Answering(v.rows)
  BY <1>1, <1>2, IngestFacts
<1> HIDE DEF v
<1>4. LastEvent \in Nat /\ LastEvent <= Len(log) /\ settings.cursor < LastEvent
  BY <1>1, <1>2, BatchFacts DEF TypeOK
<1>5. /\ settings' \in Settings /\ settings'.rev = settings.rev
      /\ settings'.retry = settings.retry /\ settings'.cursor = LastEvent
  BY <1>1, <1>2, <1>4 DEF TypeOK, Settings
<1>6. TypeOK'
  <2>1. rows' \in Seq(Row) /\ incidents' \in [Accounts -> [IncidentKinds -> Incident]]
    BY <1>1, <1>3 DEF View, Incidents
  <2> QED BY <1>1, <1>2, <1>5, <2>1 DEF TypeOK
<1>7. /\ Len(rows) <= Len(rows') /\ \A i \in 1 .. Len(rows) : rows'[i] = rows[i]
      /\ \A i \in Len(rows) + 1 .. Len(rows') :
            /\ rows'[i].status = "pending" /\ rows'[i].att = 0 /\ rows'[i].sends = 0
            /\ rows'[i].rev = settings.rev
  BY <1>1, <1>3 DEF Extends, Fresh
<1>8. Delivering'
  BY <1>1, <1>2, <1>5, <1>6, <1>7, AppendDelivery
<1>9. CursorOK'
  <2>1. start \in Nat /\ settings.cursor \in Nat /\ start <= settings.cursor
    BY <1>2 DEF TypeOK, Settings, Ingesting, CursorOK
  <2> QED BY <1>1, <1>4, <1>5, <2>1 DEF CursorOK
<1>10. Told(rows, incidents, settings.cursor)'
  <2> SUFFICES ASSUME NEW a \in Accounts, NEW k \in IncidentKinds, account[a] = "live"
               PROVE  /\ QueueSays(rows', settings'.rev, a, k, incidents'[a][k].sev)
                      /\ LogSays(settings.cursor, a, k, incidents[a][k].sev)'
    BY <1>1 DEF Told
  <2>1. /\ QueueSays(v.rows, settings.rev, a, k, v.incidents[a][k].sev)
        /\ LogSays(LastEvent, a, k, v.incidents[a][k].sev)
    BY <1>3 DEF Told
  <2>2. LogSays(settings.cursor, a, k, incidents[a][k].sev)'
    BY <1>1, <1>5, <2>1 DEF LogSays, LoggedAfterRecovery, About
  <2> QED BY <1>1, <1>5, <2>1, <2>2
<1> QED BY <1>1, <1>3, <1>6, <1>8, <1>9, <1>10 DEF IInv, Ingesting

(* QueueNotificationTest: a row of no account says nothing of incidents.   *)
LEMMA TestStep ==
  ASSUME IInv, QueueNotificationTest
  PROVE  IInv'
<1> DEFINE x == NewRow(NoAccount, [kind |-> "test", sev |-> 0, recovered |-> FALSE], settings.rev)
<1>1. /\ rows' = Append(rows, x) /\ settings' = [settings EXCEPT !.test = TestWait]
      /\ UNCHANGED <<log, user, account, incidents, worker, start>>
  BY DEF QueueNotificationTest
<1>2. TypeOK /\ Ingesting /\ Delivering
  BY DEF IInv
<1>3. /\ x \in Row /\ x.acct = NoAccount /\ x.kind = "test" /\ ~x.recovered
      /\ x.rev = settings.rev /\ x.status = "pending" /\ x.att = 0 /\ x.sends = 0
  <2> DEFINE kd == "test"
             sv == 0
             rc == FALSE
  <2>1. /\ kd \in IncidentKinds \cup {"test"} /\ sv \in 0 .. 2 /\ rc \in BOOLEAN
        /\ NoAccount \in Accounts \cup {NoAccount}
        /\ x = NewRow(NoAccount, [kind |-> kd, sev |-> sv, recovered |-> rc], settings.rev)
    OBVIOUS
  <2> HIDE DEF x, kd, sv, rc
  <2>2. /\ x \in Row /\ x.acct = NoAccount /\ x.kind = kd /\ x.recovered = rc
        /\ x.rev = settings.rev /\ x.status = "pending" /\ x.att = 0 /\ x.sends = 0
    BY <1>2, <2>1, NewRowFacts
  <2> QED BY <2>2 DEF kd, rc
<1> HIDE DEF x
<1>4. /\ rows \in Seq(Row) /\ Len(rows) \in Nat /\ rows' \in Seq(Row)
      /\ Len(rows') = Len(rows) + 1
      /\ rows'[Len(rows) + 1] = x /\ \A i \in 1 .. Len(rows) : rows'[i] = rows[i]
  BY <1>1, <1>2, <1>3 DEF TypeOK
<1>5. /\ settings' \in Settings /\ settings'.rev = settings.rev
      /\ settings'.retry = settings.retry /\ settings'.cursor = settings.cursor
  <2>1. settings \in Settings /\ TestWait \in Nat
    BY <1>2, OutboxAssumption DEF TypeOK
  <2> QED BY <1>1, <2>1 DEF Settings
<1>6. TypeOK'
  BY <1>1, <1>2, <1>4, <1>5 DEF TypeOK
<1>7. \A i \in Len(rows) + 1 .. Len(rows') :
            /\ rows'[i].status = "pending" /\ rows'[i].att = 0 /\ rows'[i].sends = 0
            /\ rows'[i].rev = settings.rev
  <2> SUFFICES ASSUME NEW i \in Len(rows) + 1 .. Len(rows') PROVE i = Len(rows) + 1
    BY <1>3, <1>4
  <2> QED BY <1>4
<1>8. Delivering'
  BY <1>1, <1>2, <1>4, <1>5, <1>6, <1>7, AppendDelivery
<1>9. Answering(rows')
  BY <1>1, <1>2, <1>3, <1>4, AnswerAppend DEF Ingesting
<1>10. ASSUME NEW a \in Accounts, NEW k \in IncidentKinds, account[a] = "live"
       PROVE  QueueSays(rows', settings.rev, a, k, incidents[a][k].sev)
  <2> DEFINE n == incidents[a][k].sev
  <2>1. n \in 0 .. 2
    BY <1>2 DEF TypeOK, Incident
  <2>2. QueueSays(rows, x.rev, a, k, n)
    BY <1>2, <1>3, <1>10 DEF Ingesting, Told
  <2>3. x.acct # a
    BY <1>3, OutboxAssumption
  <2> HIDE DEF n
  <2>4. QueueSays(Append(rows, x), x.rev, a, k,
                  IF x.acct # a \/ x.kind # k THEN n
                  ELSE IF x.recovered THEN 0 ELSE MaxOf(n, x.sev))
    BY <1>3, <1>4, <2>1, <2>2, QueueAppend
  <2> QED BY <1>1, <1>3, <2>3, <2>4 DEF n
<1>11. Told(rows, incidents, settings.cursor)'
  <2> SUFFICES ASSUME NEW a \in Accounts, NEW k \in IncidentKinds, account[a] = "live"
               PROVE  LogSays(settings.cursor, a, k, incidents[a][k].sev)'
    BY <1>1, <1>5, <1>10 DEF Told
  <2>1. LogSays(settings.cursor, a, k, incidents[a][k].sev)
    BY <1>2 DEF Ingesting, Told
  <2> QED BY <1>1, <1>5, <2>1 DEF LogSays, LoggedAfterRecovery, About
<1>12. CursorOK'
  BY <1>1, <1>2, <1>5 DEF Ingesting, CursorOK
<1> QED BY <1>6, <1>8, <1>9, <1>11, <1>12 DEF IInv, Ingesting

(* A claim begins the next attempt at a row.                               *)
LEMMA ClaimedRow ==
  ASSUME NEW x \in Row, x.att < MaxAttempts,
         NEW y, y = [x EXCEPT !.status = "sending", !.att = @ + 1, !.lease = Lease, !.pace = Pace]
  PROVE  /\ y \in Row /\ SameLetter(y, x) /\ y.status = "sending"
         /\ y.att = x.att + 1 /\ y.sends = x.sends
<1>1. x.att + 1 \in 0 .. MaxAttempts /\ Lease \in 0 .. Lease /\ Pace \in 0 .. Pace
  <2>1. x.att \in 0 .. MaxAttempts /\ MaxAttempts \in Nat /\ Lease \in Nat /\ Pace \in Nat
    BY OutboxAssumption DEF Row
  <2> QED BY <2>1
<1>2. /\ \A r \in Row, n \in 0 .. MaxAttempts : [r EXCEPT !.att = n] \in Row
      /\ \A r \in Row, l \in 0 .. Lease : [r EXCEPT !.lease = l] \in Row
      /\ \A r \in Row, p \in 0 .. Pace : [r EXCEPT !.pace = p] \in Row
  BY DEF Row
<1>3. y = [x EXCEPT !.status = "sending", !.att = x.att + 1, !.lease = Lease, !.pace = Pace]
  OBVIOUS
<1>4. y \in Row
  <2> DEFINE a == [x EXCEPT !.status = "sending"]
             b == [a EXCEPT !.att = x.att + 1]
             c == [b EXCEPT !.lease = Lease]
  <2>1. a \in Row
    BY DEF Row
  <2> HIDE DEF a
  <2>2. b \in Row
    BY <1>1, <1>2, <2>1
  <2> HIDE DEF b
  <2>3. c \in Row
    BY <1>1, <1>2, <2>2
  <2> HIDE DEF c
  <2>4. [c EXCEPT !.pace = Pace] \in Row
    BY <1>1, <1>2, <2>3
  <2> QED BY <1>3, <2>4, Zenon DEF a, b, c
<1>5. /\ y.acct = x.acct /\ y.kind = x.kind /\ y.rev = x.rev /\ y.recovered = x.recovered
      /\ y.sev = x.sev /\ y.att = x.att + 1 /\ y.sends = x.sends /\ y.status = "sending"
  BY <1>3 DEF Row
<1> QED BY <1>4, <1>5 DEF SameLetter

(* ClaimNotification: the attempt belongs to the worker alone, and nothing *)
(* was handed over in it; the row is the first of its account.             *)
LEMMA ClaimStep ==
  ASSUME IInv, NEW w \in Workers, ClaimNotification(w)
  PROVE  IInv'
<1>1. PICK i \in DOMAIN rows :
        /\ Claimable(i)
        /\ rows' = [rows EXCEPT ![i].status = "sending", ![i].att = @ + 1,
                                ![i].lease = Lease, ![i].pace = Pace]
        /\ worker' = [worker EXCEPT ![w] =
             [pc |-> "claimed", row |-> i, att |-> rows[i].att + 1, rev |-> rows[i].rev, age |-> 0]]
  BY Zenon DEF ClaimNotification
<1>2. UNCHANGED <<log, user, account, settings, incidents, start>> /\ worker[w].pc = "idle"
  BY DEF ClaimNotification
<1>3. TypeOK /\ Ingesting /\ Delivering
  BY DEF IInv
<1> DEFINE x == [rows[i] EXCEPT !.status = "sending", !.att = @ + 1, !.lease = Lease, !.pace = Pace]
           c == [pc |-> "claimed", row |-> i, att |-> rows[i].att + 1, rev |-> rows[i].rev, age |-> 0]
<1>4. rows' = [rows EXCEPT ![i] = x] /\ worker' = [worker EXCEPT ![w] = c]
  BY <1>1
<1>5. /\ rows \in Seq(Row) /\ i \in 1 .. Len(rows) /\ rows[i] \in Row /\ rows[i].att < MaxAttempts
      /\ OldestOfAccount(i) /\ DOMAIN rows = 1 .. Len(rows) /\ Len(rows) \in Nat
      /\ rows[i].att \in 0 .. MaxAttempts /\ rows[i].rev \in Nat /\ MaxAttempts \in Nat
      /\ Open(rows[i])
  BY <1>1, <1>3, RowFields, OutboxAssumption DEF TypeOK, Claimable, Open
<1>6. /\ x \in Row /\ SameLetter(x, rows[i]) /\ x.status = "sending"
      /\ x.att = rows[i].att + 1 /\ x.sends = rows[i].sends
  <2> DEFINE r == rows[i]
  <2>1. x = [r EXCEPT !.status = "sending", !.att = @ + 1, !.lease = Lease, !.pace = Pace]
        /\ r \in Row /\ r.att < MaxAttempts
    BY <1>5, Zenon
  <2> HIDE DEF x, r
  <2>2. /\ x \in Row /\ SameLetter(x, r) /\ x.status = "sending"
        /\ x.att = r.att + 1 /\ x.sends = r.sends
    BY <2>1, ClaimedRow, Zenon
  <2> QED BY <2>2 DEF r
<1>7. /\ c.pc = "claimed" /\ c.row = i /\ c.att = rows[i].att + 1 /\ c.rev = rows[i].rev
      /\ c \in Worker
  BY <1>5 DEF Worker
<1> HIDE DEF x, c
<1>8. /\ rows' \in Seq(Row) /\ Len(rows') = Len(rows) /\ rows'[i] = x
      /\ \A j \in 1 .. Len(rows) : j # i => rows'[j] = rows[j]
  BY <1>4, <1>5, <1>6, Replaced
<1>9. /\ worker' \in [Workers -> Worker] /\ worker'[w] = c
      /\ \A v \in Workers : v # w => worker'[v] = worker[v]
  BY <1>3, <1>4, <1>7 DEF TypeOK
<1>10. TypeOK'
  BY <1>2, <1>3, <1>8, <1>9 DEF TypeOK
<1>11. \A j \in 1 .. Len(rows) : SameLetter(rows'[j], rows[j])
  BY <1>6, <1>8 DEF SameLetter
<1>12. Ingesting'
  BY <1>2, <1>3, <1>8, <1>10, <1>11, QuietIngesting
<1>13. DOMAIN rows' = 1 .. Len(rows)
  BY <1>5, <1>8
<1>14. SendsCounted'
  <2> SUFFICES ASSUME NEW j \in 1 .. Len(rows)
               PROVE  rows'[j].sends <= rows'[j].att /\ rows'[j].rev <= settings.rev
    BY <1>2, <1>13 DEF SendsCounted
  <2>1. /\ rows[j].sends <= rows[j].att /\ rows[j].rev <= settings.rev
        /\ rows[j].sends \in 0 .. MaxAttempts /\ rows[j].att \in 0 .. MaxAttempts
    BY <1>3, <1>5, RowFields DEF Delivering, SendsCounted
  <2> QED BY <1>5, <1>6, <1>8, <2>1 DEF SameLetter
<1>15. BusyHold'
  <2> SUFFICES ASSUME NEW v \in Workers, Busy(v)' PROVE Holds(v)'
    BY DEF BusyHold
  <2>1. rows[i].sends <= rows[i].att /\ rows[i].sends \in 0 .. MaxAttempts
    BY <1>3, <1>5, RowFields DEF Delivering, SendsCounted
  <2>2. CASE v = w
    BY <1>5, <1>6, <1>7, <1>8, <1>9, <2>1, <2>2 DEF Holds, SameLetter
  <2>3. CASE v # w
    <3>1. worker'[v] = worker[v] /\ Holds(v)
      BY <1>3, <1>9, <2>3 DEF Busy, Delivering, BusyHold
    <3>2. CASE worker[v].row = i
      <4>1. worker[v].att \in Nat /\ worker[v].att <= rows[i].att /\ worker[v].rev = rows[i].rev
            /\ worker[v].att > 0 /\ (worker[v].pc = "http" => rows[i].sends > 0)
        BY <1>3, <1>5, <3>1, <3>2 DEF Holds, TypeOK, Worker
      <4> QED BY <1>5, <1>6, <1>8, <3>1, <3>2, <4>1 DEF Holds, SameLetter
    <3>3. CASE worker[v].row # i
      <4>1. rows'[worker[v].row] = rows[worker[v].row]
        BY <1>8, <3>1, <3>3 DEF Holds
      <4> QED BY <1>8, <3>1, <4>1 DEF Holds
    <3> QED BY <3>2, <3>3
  <2> QED BY <2>2, <2>3
<1>16. OwnAttempt'
  <2>1. ASSUME NEW v \in Workers, v # w, Busy(v), worker[v].row = i PROVE worker[v].att # c.att
    <3>1. Holds(v) /\ worker[v].att \in Nat
      BY <1>3, <2>1 DEF Delivering, BusyHold, TypeOK, Worker
    <3> QED BY <1>5, <1>7, <2>1, <3>1 DEF Holds
  <2> SUFFICES ASSUME NEW u \in Workers, NEW v \in Workers, Busy(u)', Busy(v)', u # v,
                      worker'[u].row = worker'[v].row
               PROVE  worker'[u].att # worker'[v].att
    BY DEF OwnAttempt
  <2>2. CASE u = w
    BY <1>7, <1>9, <2>1, <2>2 DEF Busy
  <2>3. CASE v = w
    BY <1>7, <1>9, <2>1, <2>3 DEF Busy
  <2>4. CASE u # w /\ v # w
    BY <1>3, <1>9, <2>4 DEF Delivering, OwnAttempt, Busy
  <2> QED BY <2>2, <2>3, <2>4
<1>17. SendingFirst'
  <2> SUFFICES ASSUME NEW h \in 1 .. Len(rows), rows'[h].status = "sending",
                      NEW j \in 1 .. h - 1, rows'[j].acct = rows'[h].acct, Open(rows'[j])
               PROVE  FALSE
    BY <1>13 DEF SendingFirst, OldestOfAccount
  <2>1. j \in 1 .. Len(rows)
    BY <1>5
  <2>2. rows[j].acct = rows[h].acct /\ Open(rows[j])
    BY <1>5, <1>8, <1>11, <2>1 DEF SameLetter
  <2>3. CASE h = i
    BY <1>5, <2>2, <2>3 DEF OldestOfAccount
  <2>4. CASE h # i
    BY <1>3, <1>5, <1>8, <2>2, <2>4 DEF Delivering, SendingFirst, OldestOfAccount
  <2> QED BY <2>3, <2>4
<1>18. RoutePostponedByItself'
  <2> SUFFICES ASSUME settings.retry > 0
               PROVE  \E j \in 1 .. Len(rows) : rows'[j].rev = settings.rev /\ rows'[j].att > 0
    BY <1>2, <1>13 DEF RoutePostponedByItself
  <2>1. PICK j \in 1 .. Len(rows) : rows[j].rev = settings.rev /\ rows[j].att > 0
    BY <1>3, <1>5 DEF Delivering, RoutePostponedByItself
  <2>2. rows'[j].rev = settings.rev /\ rows'[j].att > 0
    BY <1>5, <1>6, <1>8, <1>11, <2>1 DEF SameLetter
  <2> QED BY <2>2
<1> QED BY <1>10, <1>12, <1>14, <1>15, <1>16, <1>17, <1>18 DEF IInv, Delivering

(* NotificationDestination: the row is handed over for the first time in   *)
(* the attempt, or it is left alone.                                       *)
LEMMA DestinationStep ==
  ASSUME IInv, NEW w \in Workers, NotificationDestination(w)
  PROVE  IInv'
<1>1. PICK pc : /\ pc \in IF DestinationValid(w) THEN {"http", "failed"} ELSE {"cancelled"}
                /\ worker' = [worker EXCEPT ![w].pc = pc]
                /\ rows' = IF pc = "http" THEN [rows EXCEPT ![worker[w].row].sends = @ + 1] ELSE rows
  BY Zenon DEF NotificationDestination
<1>2. UNCHANGED <<log, user, account, settings, incidents, start>> /\ worker[w].pc = "claimed"
  BY DEF NotificationDestination
<1>3. TypeOK /\ Ingesting /\ Delivering
  BY DEF IInv
<1>4. pc \in {"http", "failed", "cancelled"} /\ (pc = "http" => DestinationValid(w))
  BY <1>1
<1>5. /\ worker' \in [Workers -> Worker]
      /\ \A v \in Workers : v # w => worker'[v] = worker[v]
      /\ worker'[w].pc = pc /\ worker'[w].row = worker[w].row
      /\ worker'[w].att = worker[w].att /\ worker'[w].rev = worker[w].rev
  <2> DEFINE x == worker[w]
             y == [x EXCEPT !.pc = pc]
  <2>1. x \in Worker /\ worker \in [Workers -> Worker]
    BY <1>3 DEF TypeOK
  <2>2. pc \in {"idle", "claimed", "http", "cancelled", "failed"}
    BY <1>4
  <2>3. worker' = [worker EXCEPT ![w] = y]
    BY <1>1
  <2> HIDE DEF x
  <2>4. y \in Worker /\ y.pc = pc /\ y.row = x.row /\ y.att = x.att /\ y.rev = x.rev
    BY <2>1, <2>2 DEF Worker
  <2> HIDE DEF y
  <2> QED BY <2>1, <2>3, <2>4 DEF x
<1>6. CASE pc # "http"
  <2>1. rows' = rows
    BY <1>1, <1>6
  <2>2. TypeOK'
    BY <1>2, <1>3, <1>5, <2>1 DEF TypeOK
  <2>3. RoutePostponedByItself'
    BY <1>2, <1>3, <2>1 DEF RoutePostponedByItself, Delivering
  <2>4. \A i \in 1 .. Len(rows) : KeepsRow(rows'[i], rows[i])
    BY <2>1, KeepsItself
  <2>5. \A v \in Workers : \/ worker'[v].pc = "idle"
                           \/ /\ worker'[v].row = worker[v].row
                              /\ worker'[v].att = worker[v].att
                              /\ worker'[v].rev = worker[v].rev
                              /\ \/ worker'[v].pc = worker[v].pc
                                 \/ /\ worker[v].pc = "claimed"
                                    /\ worker'[v].pc \in {"cancelled", "failed"}
    BY <1>2, <1>4, <1>5, <1>6
  <2> QED BY <1>2, <2>1, <2>2, <2>3, <2>4, <2>5, QuietStep
<1>7. CASE pc = "http"
  <2> DEFINE i == worker[w].row
             n == rows[i].sends + 1
             x == [rows[i] EXCEPT !.sends = n]
  <2>1. Holds(w)
    BY <1>2, <1>3 DEF Delivering, BusyHold, Busy
  <2>2. rows[i].att = worker[w].att /\ rows[i].status = "sending"
    BY <1>4, <1>7 DEF DestinationValid
  <2>3. /\ i \in 1 .. Len(rows) /\ rows[i].sends < rows[i].att /\ rows[i] \in Row
        /\ rows[i].att \in 0 .. MaxAttempts /\ rows[i].sends \in 0 .. MaxAttempts
        /\ MaxAttempts \in Nat
    BY <1>2, <1>3, <2>1, <2>2, RowFields, OutboxAssumption DEF Holds
  <2>4. rows' = [rows EXCEPT ![i] = x]
    BY <1>1, <1>7
  <2>5. n \in 0 .. MaxAttempts
    <3>1. \A a, b \in 0 .. MaxAttempts : a < b => a + 1 \in 0 .. MaxAttempts
      BY <2>3
    <3> QED BY <2>3, <3>1
  <2>6. /\ x \in Row /\ SameLetter(x, rows[i]) /\ x.sends = n
        /\ x.att = rows[i].att /\ x.status = rows[i].status
    <3> DEFINE r == rows[i]
    <3>1. r \in Row /\ x = [r EXCEPT !.sends = n]
      BY <2>3
    <3> HIDE DEF r, x, n
    <3>2. x \in Row
      BY <2>5, <3>1 DEF Row
    <3>3. /\ x.acct = r.acct /\ x.kind = r.kind /\ x.rev = r.rev /\ x.recovered = r.recovered
          /\ x.sev = r.sev /\ x.att = r.att /\ x.sends = n /\ x.status = r.status
      BY <3>1 DEF Row
    <3> QED BY <3>2, <3>3 DEF SameLetter, r
  <2> HIDE DEF i, x
  <2>7. /\ rows' \in Seq(Row) /\ Len(rows') = Len(rows) /\ rows'[i] = x
        /\ \A j \in 1 .. Len(rows) : j # i => rows'[j] = rows[j]
    BY <1>3, <2>3, <2>4, <2>6, Replaced DEF TypeOK
  <2>8. TypeOK'
    BY <1>2, <1>3, <1>5, <2>7 DEF TypeOK
  <2>9. /\ \A j \in 1 .. Len(rows) : SameLetter(rows'[j], rows[j])
        /\ \A j \in 1 .. Len(rows) : rows'[j].att = rows[j].att /\ rows'[j].status = rows[j].status
        /\ \A j \in 1 .. Len(rows) : rows'[j].sends = IF j = i THEN n ELSE rows[j].sends
    BY <2>6, <2>7 DEF SameLetter
  <2>10. Ingesting'
    BY <1>2, <1>3, <2>7, <2>8, <2>9, QuietIngesting
  <2>11. DOMAIN rows = 1 .. Len(rows) /\ DOMAIN rows' = 1 .. Len(rows) /\ Len(rows) \in Nat
    BY <1>3, <2>7 DEF TypeOK
  <2>12. SendsCounted'
    <3> SUFFICES ASSUME NEW j \in 1 .. Len(rows)
                 PROVE  rows'[j].sends <= rows'[j].att /\ rows'[j].rev <= settings.rev
      BY <1>2, <2>11 DEF SendsCounted
    <3>1. rows[j].sends <= rows[j].att /\ rows[j].rev <= settings.rev
      BY <1>3, <2>11 DEF Delivering, SendsCounted
    <3> QED BY <2>3, <2>9, <3>1 DEF SameLetter
  <2>13. BusyHold'
    <3> SUFFICES ASSUME NEW v \in Workers, Busy(v)' PROVE Holds(v)'
      BY DEF BusyHold
    <3>1. Busy(v) /\ Holds(v) /\ worker'[v].row = worker[v].row
          /\ worker'[v].att = worker[v].att /\ worker'[v].rev = worker[v].rev
      <4>1. Busy(v)
        BY <1>2, <1>5 DEF Busy
      <4> QED BY <1>3, <1>5, <4>1 DEF Delivering, BusyHold
    <3> DEFINE j == worker[v].row
    <3>2. /\ j \in 1 .. Len(rows) /\ rows'[j].att = rows[j].att /\ rows'[j].rev = rows[j].rev
          /\ rows'[j].sends = IF j = i THEN n ELSE rows[j].sends
      BY <2>9, <3>1 DEF Holds, SameLetter
    <3>3. worker'[v].pc = "claimed" /\ rows[j].att = worker[v].att => rows'[j].sends < rows[j].att
      <4> SUFFICES ASSUME worker'[v].pc = "claimed", rows[j].att = worker[v].att
                   PROVE  rows'[j].sends < rows[j].att
        OBVIOUS
      <4>1. v # w
        BY <1>5, <1>7
      <4>2. j # i
        BY <1>2, <1>3, <2>2, <3>1, <4>1 DEF Delivering, OwnAttempt, Busy, i
      <4> QED BY <1>5, <3>1, <3>2, <4>1, <4>2 DEF Holds
    <3>4. worker'[v].pc = "http" => rows'[j].sends > 0
      <4> SUFFICES ASSUME worker'[v].pc = "http" PROVE rows'[j].sends > 0
        OBVIOUS
      <4>1. CASE j = i
        BY <2>3, <3>2, <4>1
      <4>2. CASE j # i
        <5>1. v # w
          BY <4>2 DEF i
        <5> QED BY <1>5, <3>1, <3>2, <4>2, <5>1 DEF Holds
      <4> QED BY <4>1, <4>2
    <3> QED BY <2>7, <3>1, <3>2, <3>3, <3>4 DEF Holds
  <2>14. OwnAttempt'
    <3>1. \A v \in Workers : /\ Busy(v)' => Busy(v)
                             /\ worker'[v].row = worker[v].row /\ worker'[v].att = worker[v].att
      BY <1>2, <1>5 DEF Busy
    <3> QED BY <1>3, <3>1 DEF Delivering, OwnAttempt
  <2>15. SendingFirst'
    <3> SUFFICES ASSUME NEW h \in 1 .. Len(rows), rows'[h].status = "sending",
                        NEW j \in 1 .. h - 1, rows'[j].acct = rows'[h].acct, Open(rows'[j])
                 PROVE  FALSE
      BY <2>11 DEF SendingFirst, OldestOfAccount
    <3>1. j \in 1 .. Len(rows)
      BY <2>11
    <3>2. rows[h].status = "sending" /\ rows[j].acct = rows[h].acct /\ Open(rows[j])
      BY <2>9, <3>1 DEF SameLetter, Open
    <3> QED BY <1>3, <2>11, <3>2 DEF Delivering, SendingFirst, OldestOfAccount
  <2>16. RoutePostponedByItself'
    <3> SUFFICES ASSUME settings.retry > 0
                 PROVE  \E j \in 1 .. Len(rows) : rows'[j].rev = settings.rev /\ rows'[j].att > 0
      BY <1>2, <2>11 DEF RoutePostponedByItself
    <3>1. PICK j \in 1 .. Len(rows) : rows[j].rev = settings.rev /\ rows[j].att > 0
      BY <1>3, <2>11 DEF Delivering, RoutePostponedByItself
    <3> QED BY <2>9, <3>1 DEF SameLetter
  <2> QED BY <2>8, <2>10, <2>12, <2>13, <2>14, <2>15, <2>16 DEF IInv, Delivering
<1> QED BY <1>6, <1>7

(* Open rows may stay open or get the status f; settled rows stay.         *)
GivesUp(f) ==
    /\ rows' \in Seq(Row) /\ Len(rows') = Len(rows)
    /\ \A i \in 1 .. Len(rows) :
         /\ KeepsRow(rows'[i], rows[i])
         /\ \/ rows'[i].status = rows[i].status
            \/ Open(rows'[i])
            \/ Open(rows[i]) /\ rows'[i].status = f

(* A row sent back to the queue.                                           *)
LEMMA ReturnedRow ==
  ASSUME NEW x \in Row, x.status = "sending", NEW n \in Nat,
         NEW y, y = [x EXCEPT !.status = "pending", !.next = n, !.lease = 0]
  PROVE  y \in Row /\ KeepsRow(y, x) /\ y.status = "pending"
<1> DEFINE st == "pending"
           z == 0
<1>1. y = [x EXCEPT !.status = st, !.next = n, !.lease = z]
  OBVIOUS
<1>2. z \in 0 .. Lease /\ st # "sending"
      /\ st \in {"pending", "sending", "sent", "failed", "cancelled", "removed"}
  BY OutboxAssumption
<1> HIDE DEF st, z
<1>3. y \in Row
  BY <1>1, <1>2 DEF Row
<1>4. /\ y.acct = x.acct /\ y.kind = x.kind /\ y.rev = x.rev /\ y.recovered = x.recovered
      /\ y.sev = x.sev /\ y.att = x.att /\ y.sends = x.sends /\ y.status = st
  BY <1>1 DEF Row
<1>5. Open(x)
  BY DEF Open
<1> QED BY <1>2, <1>3, <1>4, <1>5 DEF KeepsRow, SameLetter, st

(* FinishNotification touches the worker's row, and that only if the       *)
(* attempt is still the worker's.  If it postpones the route, the row is   *)
(* one of that route.                                                      *)
LEMMA FinishFacts ==
  ASSUME IInv, NEW w \in Workers, Busy(w),
         NEW st \in {"pending", "sent", "failed", "cancelled"},
         NEW d \in Nat, FinishNotification(w, st, d)
  PROVE  /\ GivesUp(st) /\ settings' \in Settings
         /\ settings'.rev = settings.rev /\ settings'.cursor = settings.cursor
         /\ RoutePostponedByItself'
         /\ worker[w].row \in 1 .. Len(rows)
         /\ \A j \in 1 .. Len(rows) : j # worker[w].row => rows'[j] = rows[j]
         /\ \/ rows' = rows
            \/ rows[worker[w].row].status = "sending" /\ rows'[worker[w].row].status = st
<1> DEFINE i == worker[w].row
           left == IF d > worker[w].age THEN d - worker[w].age ELSE 0
           mine == rows[i].status = "sending" /\ rows[i].att = worker[w].att
<1>1. /\ rows' = IF ~mine THEN rows
                 ELSE IF st = "pending"
                 THEN [rows EXCEPT ![i].status = "pending", ![i].next = left, ![i].lease = 0]
                 ELSE [rows EXCEPT ![i] = Settled(@, st)]
      /\ settings' = IF mine /\ st = "pending" /\ settings.rev = worker[w].rev
                     THEN [settings EXCEPT !.retry = MaxOf(@, left)] ELSE settings
  BY Zenon DEF FinishNotification
<1>2. TypeOK /\ Delivering /\ Holds(w)
  BY DEF IInv, Delivering, BusyHold
<1>3. /\ i \in 1 .. Len(rows) /\ worker[w].rev = rows[i].rev /\ rows \in Seq(Row)
      /\ worker[w].att > 0 /\ worker[w].att <= rows[i].att /\ rows[i] \in Row
      /\ settings \in Settings /\ worker[w].att \in Nat /\ rows[i].att \in Nat
  BY <1>2, RowFields DEF Holds, TypeOK, Worker
<1>4. left \in Nat
  <2>1. worker[w].age \in Nat
    BY <1>2 DEF TypeOK, Worker
  <2> QED BY <2>1
<1> HIDE DEF i, left
<1> DEFINE x == IF st = "pending"
                THEN [rows[i] EXCEPT !.status = "pending", !.next = left, !.lease = 0]
                ELSE Settled(rows[i], st)
<1>5. mine => rows' = [rows EXCEPT ![i] = x]
  BY <1>1, <1>3
<1>6. mine => x \in Row /\ KeepsRow(x, rows[i]) /\ x.status = st
  <2> DEFINE r == rows[i]
  <2>1. r \in Row /\ (mine => r.status = "sending")
    BY <1>3
  <2>2. x = IF st = "pending" THEN [r EXCEPT !.status = "pending", !.next = left, !.lease = 0]
            ELSE Settled(r, st)
    BY Zenon
  <2> HIDE DEF r, x
  <2>3. CASE st = "pending"
    BY <1>4, <2>1, <2>2, <2>3, ReturnedRow, Zenon
       DEF r
  <2>4. CASE st # "pending"
    BY <2>1, <2>2, <2>4, SettledFacts DEF r
  <2> QED BY <2>3, <2>4
<1> HIDE DEF x
<1>7. mine => /\ rows' \in Seq(Row) /\ Len(rows') = Len(rows) /\ rows'[i] = x
              /\ \A j \in 1 .. Len(rows) : j # i => rows'[j] = rows[j]
  BY <1>3, <1>5, <1>6, Replaced
<1>8. ~mine => rows' = rows
  BY <1>1
<1>9. GivesUp(st)
  <2>1. CASE mine
    <3>1. Open(rows[i])
      BY <2>1 DEF Open
    <3>2. \A j \in 1 .. Len(rows) : j # i => KeepsRow(rows'[j], rows[j])
      BY <1>7, <2>1, KeepsItself
    <3> QED BY <1>6, <1>7, <2>1, <3>1, <3>2 DEF GivesUp
  <2>2. CASE ~mine
    BY <1>3, <1>8, <2>2, KeepsItself DEF GivesUp
  <2> QED BY <2>1, <2>2
<1>10. /\ settings' \in Settings /\ settings'.rev = settings.rev
       /\ settings'.cursor = settings.cursor
       /\ settings' = settings \/ settings.rev = rows[i].rev
  <2>1. settings.retry \in Nat
    BY <1>3 DEF Settings
  <2> DEFINE n == MaxOf(settings.retry, left)
  <2>2. n \in Nat
    BY <1>4, <2>1 DEF MaxOf
  <2>3. settings' = settings \/ (settings.rev = rows[i].rev /\ settings' = [settings EXCEPT !.retry = n])
    BY <1>1, <1>3
  <2> HIDE DEF n
  <2> QED BY <1>3, <2>2, <2>3 DEF Settings
<1>11. RoutePostponedByItself'
  <2>1. DOMAIN rows = 1 .. Len(rows) /\ DOMAIN rows' = 1 .. Len(rows)
    BY <1>3, <1>9 DEF GivesUp
  <2>2. \A j \in 1 .. Len(rows) : rows'[j].rev = rows[j].rev /\ rows'[j].att = rows[j].att
    BY <1>9 DEF GivesUp, KeepsRow, SameLetter
  <2>3. CASE settings' = settings
    <3> SUFFICES ASSUME settings.retry > 0
                 PROVE  \E j \in 1 .. Len(rows) : rows'[j].rev = settings.rev /\ rows'[j].att > 0
      BY <2>1, <2>3 DEF RoutePostponedByItself
    <3>1. PICK j \in 1 .. Len(rows) : rows[j].rev = settings.rev /\ rows[j].att > 0
      BY <1>2, <2>1 DEF Delivering, RoutePostponedByItself
    <3> QED BY <2>2, <3>1
  <2>4. CASE settings.rev = rows[i].rev
    <3>1. rows'[i].rev = settings'.rev /\ rows'[i].att > 0
      BY <1>3, <1>10, <2>2, <2>4
    <3> QED BY <1>3, <2>1, <3>1 DEF RoutePostponedByItself
  <2> QED BY <1>10, <2>3, <2>4
<1>12. \A j \in 1 .. Len(rows) : j # i => rows'[j] = rows[j]
  BY <1>7, <1>8
<1>13. rows' = rows \/ (rows[i].status = "sending" /\ rows'[i].status = st)
  BY <1>6, <1>7, <1>8
<1> QED BY <1>3, <1>9, <1>10, <1>11, <1>12, <1>13 DEF i

(* A worker is idle after FinishNotification and when it dies.             *)
LEMMA WorkerEnds ==
  ASSUME TypeOK, NEW w \in Workers, worker' = [worker EXCEPT ![w] = Idle]
  PROVE  /\ worker' \in [Workers -> Worker] /\ worker'[w].pc = "idle"
         /\ \A v \in Workers : v # w => worker'[v] = worker[v]
<1>1. Idle \in Worker /\ Idle.pc = "idle"
  <2> DEFINE z == 0
  <2>1. z \in Nat /\ z \in 0 .. MaxAttempts
    BY OutboxAssumption
  <2>2. Idle = [pc |-> "idle", row |-> z, att |-> z, rev |-> z, age |-> z]
    BY DEF Idle
  <2> HIDE DEF z
  <2> QED BY <2>1, <2>2 DEF Worker
<1> QED BY <1>1 DEF TypeOK

(* FinishNotification, and a worker that dies, keep the invariant.         *)
LEMMA FinishStep ==
  ASSUME IInv, NEW w \in Workers, Busy(w),
         NEW st \in {"pending", "sent", "failed", "cancelled"},
         NEW d \in Nat, FinishNotification(w, st, d)
  PROVE  IInv'
<1>1. /\ GivesUp(st) /\ settings' \in Settings
      /\ settings'.rev = settings.rev /\ settings'.cursor = settings.cursor
      /\ RoutePostponedByItself'
  BY FinishFacts
<1>2. /\ worker' \in [Workers -> Worker] /\ worker'[w].pc = "idle"
      /\ \A v \in Workers : v # w => worker'[v] = worker[v]
      /\ UNCHANGED <<log, user, account, incidents, start>>
  BY WorkerEnds DEF IInv, FinishNotification
<1>3. TypeOK'
  BY <1>1, <1>2 DEF IInv, TypeOK, GivesUp
<1> QED BY <1>1, <1>2, <1>3, QuietStep DEF GivesUp

(* See FinishStep.                                                         *)
LEMMA AbandonStep ==
  ASSUME IInv, NEW w \in Workers, Abandon(w)
  PROVE  IInv'
<1>1. /\ worker' \in [Workers -> Worker] /\ worker'[w].pc = "idle"
      /\ \A v \in Workers : v # w => worker'[v] = worker[v]
      /\ UNCHANGED <<log, user, account, settings, incidents, rows, start>>
  BY WorkerEnds DEF IInv, Abandon
<1>2. TypeOK'
  BY <1>1 DEF IInv, TypeOK
<1>3. RoutePostponedByItself'
  BY <1>1 DEF IInv, Delivering, RoutePostponedByItself
<1> QED BY <1>1, <1>2, <1>3, KeepsItself, QuietStep

(* CleanNotificationOutbox gives up the rows no claim can take any more.   *)
LEMMA CleanRows ==
  ASSUME TypeOK, CleanNotificationOutbox
  PROVE  GivesUp("failed")
<1>1. rows \in Seq(Row) /\ DOMAIN rows = 1 .. Len(rows) /\ \A i \in 1 .. Len(rows) : rows[i] \in Row
  BY DEF TypeOK
<1>2. rows' = [i \in DOMAIN rows |->
                 IF Expired(rows[i]) THEN Settled(rows[i], "failed") ELSE rows[i]]
  BY DEF CleanNotificationOutbox
<1>3. ASSUME NEW i \in 1 .. Len(rows)
      PROVE  /\ rows'[i] \in Row /\ KeepsRow(rows'[i], rows[i])
             /\ rows'[i].status = rows[i].status \/ (Open(rows[i]) /\ rows'[i].status = "failed")
  <2>1. CASE Expired(rows[i])
    <3>1. rows'[i] = Settled(rows[i], "failed") /\ Open(rows[i])
      BY <1>1, <1>2, <2>1 DEF Expired
    <3> QED BY <1>1, <3>1, SettledFacts
  <2>2. CASE ~Expired(rows[i])
    <3>1. rows'[i] = rows[i]
      BY <1>1, <1>2, <2>2
    <3> QED BY <1>1, <3>1, KeepsItself
  <2> QED BY <2>1, <2>2
<1>4. rows' \in Seq(Row) /\ Len(rows') = Len(rows)
  <2>1. rows' = [i \in DOMAIN rows |-> rows'[i]]
    BY <1>2
  <2> QED BY <1>1, <1>3, <2>1, Mapped
<1> QED BY <1>3, <1>4 DEF GivesUp

(* Rows only change, and nothing else does.                                *)
LEMMA RowsStep ==
  ASSUME IInv, NEW f, GivesUp(f),
         UNCHANGED <<log, user, account, settings, incidents, worker, start>>
  PROVE  IInv'
<1>1. TypeOK'
  BY DEF IInv, TypeOK, GivesUp
<1>2. settings.retry \in Nat
  BY DEF IInv, TypeOK, Settings
<1>3. RoutePostponedByItself'
  BY <1>1, StillPostponed DEF IInv, GivesUp
<1> QED BY <1>1, <1>3, QuietStep DEF GivesUp

(* SaveNotificationSettings gives up every open row.                       *)
LEMMA SaveRows ==
  ASSUME TypeOK, NEW enabled, NEW native, NEW endpoint,
         SaveNotificationSettings(enabled, native, endpoint)
  PROVE  GivesUp("cancelled")
<1>1. rows \in Seq(Row) /\ DOMAIN rows = 1 .. Len(rows) /\ \A i \in 1 .. Len(rows) : rows[i] \in Row
  BY DEF TypeOK
<1>2. rows' = [i \in DOMAIN rows |->
                 IF Open(rows[i]) THEN Settled(rows[i], "cancelled") ELSE rows[i]]
  BY DEF SaveNotificationSettings
<1>3. ASSUME NEW i \in 1 .. Len(rows)
      PROVE  /\ rows'[i] \in Row /\ KeepsRow(rows'[i], rows[i])
             /\ rows'[i].status = rows[i].status \/ (Open(rows[i]) /\ rows'[i].status = "cancelled")
  <2>1. CASE Open(rows[i])
    <3>1. rows'[i] = Settled(rows[i], "cancelled")
      BY <1>1, <1>2, <2>1
    <3> QED BY <1>1, <2>1, <3>1, SettledFacts
  <2>2. CASE ~Open(rows[i])
    <3>1. rows'[i] = rows[i]
      BY <1>1, <1>2, <2>2
    <3> QED BY <1>1, <3>1, KeepsItself
  <2> QED BY <2>1, <2>2
<1>4. rows' \in Seq(Row) /\ Len(rows') = Len(rows)
  <2>1. rows' = [i \in DOMAIN rows |-> rows'[i]]
    BY <1>2
  <2> QED BY <1>1, <1>3, <2>1, Mapped
<1> QED BY <1>3, <1>4 DEF GivesUp

(* No incident is an incident of severity 0.                               *)
LEMMA NoIncidentFacts == NoIncident \in Incident /\ NoIncident.sev = 0
<1> DEFINE z == 0
<1>1. z \in 0 .. 2 /\ z \in 0 .. Cooldown /\ NoIncident = [sev |-> z, age |-> z] /\ z = 0
  BY OutboxAssumption DEF NoIncident
<1> HIDE DEF z
<1> QED BY <1>1 DEF Incident

(* SaveNotificationSettings: for the new route nothing is queued and       *)
(* nothing is logged yet, and nothing holds it back.                       *)
LEMMA SaveStep ==
  ASSUME IInv, NEW enabled \in BOOLEAN, NEW native \in Natives,
         NEW endpoint \in {"keep", "replace", "remove"},
         SaveNotificationSettings(enabled, native, endpoint)
  PROVE  IInv'
<1> DEFINE url == IF endpoint = "keep" THEN settings.url ELSE endpoint = "replace"
<1>1. /\ settings' = NewRoute(enabled, native, url) /\ incidents' = IncidentsDeleted
      /\ start' = Len(log) /\ UNCHANGED <<log, user, account, worker>>
  BY DEF SaveNotificationSettings
<1>2. TypeOK /\ Ingesting /\ Delivering
  BY DEF IInv
<1>3. GivesUp("cancelled")
  BY <1>2, SaveRows
<1>4. url \in BOOLEAN
  BY <1>2 DEF TypeOK, Settings
<1> HIDE DEF url
<1>5. /\ settings' \in Settings /\ settings'.rev = settings.rev + 1 /\ settings'.retry = 0
      /\ settings'.cursor = Len(log)
  <2> DEFINE z == 0
             n == settings.rev + 1
             c == Len(log)
  <2>1. /\ settings \in Settings /\ n \in Nat /\ c \in Nat /\ z \in Nat
        /\ native \in BOOLEAN
    BY <1>2, OutboxAssumption DEF TypeOK, Settings
  <2>2. settings' = [settings EXCEPT !.enabled = enabled, !.native = native, !.url = url,
                                     !.rev = n, !.retry = z, !.cursor = c]
    BY <1>1 DEF NewRoute
  <2> HIDE DEF z, n, c
  <2>3. settings' \in Settings /\ settings'.rev = n /\ settings'.retry = z /\ settings'.cursor = c
    BY <1>4, <2>1, <2>2 DEF Settings
  <2> QED BY <2>3 DEF z, n, c
<1>6. /\ incidents' \in [Accounts -> [IncidentKinds -> Incident]]
      /\ \A a \in Accounts, k \in IncidentKinds : incidents'[a][k].sev = 0
  BY <1>1, NoIncidentFacts DEF IncidentsDeleted
<1>7. Len(log) \in Nat /\ settings.rev \in Nat /\ rows \in Seq(Row)
  BY <1>2 DEF TypeOK, Settings
<1>8. TypeOK'
  BY <1>1, <1>2, <1>3, <1>5, <1>6, <1>7 DEF TypeOK, GivesUp
<1>9. RoutePostponedByItself'
  BY <1>5 DEF RoutePostponedByItself
<1>10. Delivering'
  <2>1. settings.rev <= settings'.rev
    BY <1>5, <1>7
  <2> QED BY <1>1, <1>2, <1>3, <1>8, <1>9, <2>1, QuietDelivery DEF GivesUp
<1>11. Answering(rows')
  <2>1. \A i \in 1 .. Len(rows) : SameLetter(rows'[i], rows[i])
    BY <1>3 DEF GivesUp, KeepsRow
  <2> QED BY <1>2, <1>3, <1>7, <2>1, SameLetters DEF Ingesting, GivesUp
<1>12. \A a, k : Queued(rows', settings'.rev, a, k) = {}
  <2>1. DOMAIN rows' = 1 .. Len(rows) /\ DOMAIN rows = 1 .. Len(rows)
    BY <1>3, <1>7 DEF GivesUp
  <2>2. \A j \in 1 .. Len(rows) : rows'[j].rev # settings'.rev
    <3> SUFFICES ASSUME NEW j \in 1 .. Len(rows) PROVE rows'[j].rev # settings'.rev
      OBVIOUS
    <3>1. rows'[j].rev = rows[j].rev /\ rows[j].rev <= settings.rev /\ rows[j].rev \in Nat
      BY <1>2, <1>3, <2>1, RowFields DEF GivesUp, KeepsRow, SameLetter, Delivering, SendsCounted
    <3> QED BY <1>5, <1>7, <3>1
  <2> QED BY <2>1, <2>2 DEF Queued
<1>13. \A a, k : About(settings.cursor, a, k)' = {}
  BY <1>1, <1>5, <1>7 DEF About
<1>14. Told(rows, incidents, settings.cursor)'
  <2> SUFFICES ASSUME NEW a \in Accounts, NEW k \in IncidentKinds
               PROVE  /\ QueueSays(rows', settings'.rev, a, k, incidents'[a][k].sev)
                      /\ LogSays(settings.cursor, a, k, incidents[a][k].sev)'
    BY DEF Told
  <2>1. QueueSays(rows', settings'.rev, a, k, incidents'[a][k].sev)
    BY <1>6, <1>12 DEF QueueSays
  <2>2. LogSays(settings.cursor, a, k, incidents[a][k].sev)'
    BY <1>6, <1>13 DEF LogSays
  <2> QED BY <2>1, <2>2
<1>15. CursorOK'
  BY <1>1, <1>5, <1>7 DEF CursorOK
<1> QED BY <1>8, <1>10, <1>11, <1>14, <1>15 DEF IInv, Ingesting

(* Rows that grow old stay open.                                           *)
LEMMA OldRows ==
  ASSUME TypeOK, NEW i \in DOMAIN rows, GrowOld(i)
  PROVE  GivesUp("failed")
<1>1. rows \in Seq(Row) /\ DOMAIN rows = 1 .. Len(rows) /\ \A j \in 1 .. Len(rows) : rows[j] \in Row
  BY DEF TypeOK
<1>2. rows' = [j \in DOMAIN rows |->
                 IF j <= i /\ Open(rows[j]) THEN [rows[j] EXCEPT !.old = TRUE] ELSE rows[j]]
  BY DEF GrowOld
<1>3. \A x \in Row : LET y == [x EXCEPT !.old = TRUE]
                     IN  y \in Row /\ KeepsRow(y, x) /\ y.status = x.status
  <2> SUFFICES ASSUME NEW x \in Row, NEW y, y = [x EXCEPT !.old = TRUE]
               PROVE  y \in Row /\ KeepsRow(y, x) /\ y.status = x.status
    BY Zenon
  <2> DEFINE t == TRUE
  <2>1. t \in BOOLEAN /\ y = [x EXCEPT !.old = t]
    OBVIOUS
  <2> HIDE DEF t
  <2>2. y \in Row
    BY <2>1 DEF Row
  <2>3. /\ y.acct = x.acct /\ y.kind = x.kind /\ y.rev = x.rev /\ y.recovered = x.recovered
        /\ y.sev = x.sev /\ y.att = x.att /\ y.sends = x.sends /\ y.status = x.status
    BY <2>1 DEF Row
  <2> QED BY <2>2, <2>3 DEF KeepsRow, SameLetter, Open
<1>4. ASSUME NEW j \in 1 .. Len(rows)
      PROVE  rows'[j] \in Row /\ KeepsRow(rows'[j], rows[j]) /\ rows'[j].status = rows[j].status
  <2>1. rows'[j] = rows[j] \/ rows'[j] = [rows[j] EXCEPT !.old = TRUE]
    BY <1>1, <1>2, Zenon
  <2> QED BY <1>1, <1>3, <2>1, KeepsItself, Zenon
<1>5. rows' \in Seq(Row) /\ Len(rows') = Len(rows)
  <2>1. rows' = [j \in DOMAIN rows |-> rows'[j]]
    BY <1>2
  <2> QED BY <1>1, <1>4, <2>1, Mapped
<1> QED BY <1>4, <1>5 DEF GivesUp

(* Less goes down to 0.                                                    *)
LEMMA LessFacts == \A n \in Nat : Less(n) \in Nat /\ Less(n) <= n
  BY DEF Less

(* The timers of a row run down.                                           *)
LEMMA TickedRow ==
  ASSUME NEW x \in Row, NEW y,
         y = [x EXCEPT !.next = Less(@), !.lease = Less(@), !.pace = Less(@)]
  PROVE  y \in Row /\ KeepsRow(y, x) /\ y.status = x.status
<1> DEFINE n == Less(x.next)
           l == Less(x.lease)
           p == Less(x.pace)
<1>1. x.next \in Nat /\ x.lease \in 0 .. Lease /\ x.pace \in 0 .. Pace
  BY DEF Row
<1>2. n \in Nat /\ l \in 0 .. Lease /\ p \in 0 .. Pace
  BY <1>1, OutboxAssumption DEF Less
<1>3. y = [x EXCEPT !.next = n, !.lease = l, !.pace = p]
  OBVIOUS
<1> HIDE DEF n, l, p
<1>4. y \in Row
  BY <1>2, <1>3 DEF Row
<1>5. /\ y.acct = x.acct /\ y.kind = x.kind /\ y.rev = x.rev /\ y.recovered = x.recovered
      /\ y.sev = x.sev /\ y.att = x.att /\ y.sends = x.sends /\ y.status = x.status
  BY <1>3 DEF Row
<1> QED BY <1>4, <1>5 DEF KeepsRow, SameLetter, Open

(* Tick leaves every row what it is.                                       *)
LEMMA TickRows ==
  ASSUME TypeOK, Tick
  PROVE  GivesUp("failed")
<1>1. rows \in Seq(Row) /\ DOMAIN rows = 1 .. Len(rows) /\ \A j \in 1 .. Len(rows) : rows[j] \in Row
  BY DEF TypeOK
<1>2. rows' = [i \in DOMAIN rows |->
                 [rows[i] EXCEPT !.next = Less(@), !.lease = Less(@), !.pace = Less(@)]]
  BY Zenon DEF Tick
<1>3. ASSUME NEW j \in 1 .. Len(rows)
      PROVE  rows'[j] \in Row /\ KeepsRow(rows'[j], rows[j]) /\ rows'[j].status = rows[j].status
  <2> DEFINE x == rows[j]
             y == rows'[j]
  <2>1. y = [x EXCEPT !.next = Less(@), !.lease = Less(@), !.pace = Less(@)] /\ x \in Row
    BY <1>1, <1>2, Zenon
  <2> HIDE DEF x, y
  <2>2. y \in Row /\ KeepsRow(y, x) /\ y.status = x.status
    BY <2>1, TickedRow, Zenon
  <2> QED BY <2>2 DEF x, y
<1>4. rows' \in Seq(Row) /\ Len(rows') = Len(rows)
  <2>1. rows' = [j \in DOMAIN rows |-> rows'[j]]
    <3> DEFINE T(j) == [rows[j] EXCEPT !.next = Less(@), !.lease = Less(@), !.pace = Less(@)]
    <3>1. rows' = [j \in DOMAIN rows |-> T(j)]
      BY <1>2, Zenon
    <3> HIDE DEF T
    <3> QED BY <3>1
  <2> QED BY <1>1, <1>3, <2>1, Mapped
<1> QED BY <1>3, <1>4 DEF GivesUp

(* Tick: the deadlines come closer, incidents and attempts grow older.     *)
LEMMA TickStep ==
  ASSUME IInv, Tick
  PROVE  IInv'
<1>1. TypeOK /\ Ingesting /\ Delivering
  BY DEF IInv
<1>2. GivesUp("failed") /\ UNCHANGED <<log, user, account, start>>
  BY <1>1, TickRows, Zenon DEF Tick
<1>3. /\ settings' \in Settings /\ settings'.rev = settings.rev
      /\ settings'.cursor = settings.cursor
      /\ settings'.retry > 0 => settings.retry > 0
  <2> DEFINE r == Less(settings.retry)
             t == Less(settings.test)
  <2>0. settings' = [settings EXCEPT !.retry = Less(@), !.test = Less(@)]
    BY Zenon DEF Tick
  <2>1. settings' = [settings EXCEPT !.retry = r, !.test = t]
    BY <2>0
  <2>2. settings \in Settings /\ settings.retry \in Nat /\ settings.test \in Nat
    BY <1>1 DEF TypeOK, Settings
  <2>3. r \in Nat /\ t \in Nat /\ (r > 0 => settings.retry > 0)
    BY <2>2, LessFacts
  <2> HIDE DEF r, t
  <2>4. settings' \in Settings
    BY <2>1, <2>2, <2>3 DEF Settings
  <2>5. settings'.rev = settings.rev /\ settings'.cursor = settings.cursor /\ settings'.retry = r
    BY <2>1, <2>2 DEF Settings
  <2> QED BY <2>3, <2>4, <2>5
<1>4. /\ incidents' \in [Accounts -> [IncidentKinds -> Incident]]
      /\ \A a \in Accounts, k \in IncidentKinds : incidents'[a][k].sev = incidents[a][k].sev
  <2> DEFINE G(x) == IF x.sev = 0 \/ x.age = Cooldown THEN x.age ELSE x.age + 1
             T(x) == [x EXCEPT !.age = G(x)]
  <2>1. \A x \in Incident : G(x) \in 0 .. Cooldown
    BY OutboxAssumption DEF Incident
  <2>2. incidents' = [a \in Accounts |-> [k \in IncidentKinds |-> T(incidents[a][k])]]
    BY Zenon DEF Tick
  <2> HIDE DEF G
  <2>3. \A x \in Incident : T(x) \in Incident /\ T(x).sev = x.sev
    BY <2>1 DEF Incident
  <2>4. \A a \in Accounts, k \in IncidentKinds : incidents[a][k] \in Incident
    BY <1>1 DEF TypeOK
  <2> HIDE DEF T
  <2> QED BY <2>2, <2>3, <2>4
<1>5. /\ worker' \in [Workers -> Worker]
      /\ \A w \in Workers : /\ worker'[w].row = worker[w].row /\ worker'[w].att = worker[w].att
                            /\ worker'[w].rev = worker[w].rev /\ worker'[w].pc = worker[w].pc
  <2> DEFINE G(x) == IF x.pc = "idle" \/ \A d \in Backoffs : x.age >= d THEN x.age ELSE x.age + 1
             T(x) == [x EXCEPT !.age = G(x)]
  <2>1. \A x \in Worker : G(x) \in Nat
    BY DEF Worker
  <2>2. worker' = [w \in Workers |-> T(worker[w])]
    BY Zenon DEF Tick
  <2> HIDE DEF G
  <2>3. \A x \in Worker : /\ T(x) \in Worker /\ T(x).row = x.row /\ T(x).att = x.att
                          /\ T(x).rev = x.rev /\ T(x).pc = x.pc
    BY <2>1 DEF Worker
  <2>4. \A w \in Workers : worker[w] \in Worker
    BY <1>1 DEF TypeOK
  <2> HIDE DEF T
  <2> QED BY <2>2, <2>3, <2>4
<1>6. TypeOK'
  BY <1>1, <1>2, <1>3, <1>4, <1>5 DEF TypeOK, GivesUp
<1>7. RoutePostponedByItself'
  BY <1>1, <1>2, <1>3, <1>6, StillPostponed DEF GivesUp
<1> QED BY <1>2, <1>3, <1>4, <1>5, <1>6, <1>7, QuietStep DEF GivesUp

(* The user or an account changes status: a live account was live before.  *)
LEMMA StatusStep ==
  ASSUME IInv, UNCHANGED <<log, settings, incidents, rows, worker, start>>,
         user' \in BOOLEAN, account' \in [Accounts -> {"live", "deleting", "gone"}],
         \A a \in Accounts : account'[a] = "live" => account[a] = "live"
  PROVE  IInv'
<1>1. TypeOK'
  BY DEF IInv, TypeOK
<1>2. RoutePostponedByItself'
  BY DEF IInv, Delivering, RoutePostponedByItself
<1> QED BY <1>1, <1>2, KeepsItself, QuietStep

(* A removed row is settled, and the others are left alone.                *)
LEMMA RemovedRow ==
  ASSUME TypeOK, NEW i \in DOMAIN rows,
         rows' = [rows EXCEPT ![i] = [Settled(@, "removed") EXCEPT !.pace = 0]]
  PROVE  /\ rows' \in Seq(Row) /\ Len(rows') = Len(rows) /\ i \in 1 .. Len(rows)
         /\ rows'[i].status = "removed"
         /\ \A j \in 1 .. Len(rows) : KeepsRow(rows'[j], rows[j])
         /\ \A j \in 1 .. Len(rows) : j # i => rows'[j] = rows[j]
<1> DEFINE x == Settled(rows[i], "removed")
           y == [x EXCEPT !.pace = 0]
<1>1. rows' = [rows EXCEPT ![i] = y] /\ rows \in Seq(Row) /\ i \in 1 .. Len(rows) /\ rows[i] \in Row
  BY DEF TypeOK
<1>2. x \in Row /\ KeepsRow(x, rows[i]) /\ x.status = "removed" /\ ~Open(x)
  BY <1>1, SettledFacts
<1> HIDE DEF x
<1>3. y \in Row /\ KeepsRow(y, rows[i]) /\ y.status = "removed"
  <2> DEFINE z == 0
  <2>1. z \in 0 .. Pace /\ y = [x EXCEPT !.pace = z]
    BY OutboxAssumption
  <2> HIDE DEF y, z
  <2>2. y \in Row
    BY <1>2, <2>1 DEF Row
  <2>3. /\ y.acct = x.acct /\ y.kind = x.kind /\ y.rev = x.rev /\ y.recovered = x.recovered
        /\ y.sev = x.sev /\ y.att = x.att /\ y.sends = x.sends /\ y.status = x.status
    BY <1>2, <2>1 DEF Row
  <2> QED BY <1>2, <2>2, <2>3 DEF KeepsRow, SameLetter, Open
<1> HIDE DEF y
<1>4. /\ rows' \in Seq(Row) /\ Len(rows') = Len(rows) /\ rows'[i] = y
      /\ \A j \in 1 .. Len(rows) : j # i => rows'[j] = rows[j]
  BY <1>1, <1>3, Replaced
<1> QED BY <1>1, <1>3, <1>4, KeepsItself

(* CleanAccountDeletionBatch: one row goes, or nothing is left to go.      *)
LEMMA DeletionStep ==
  ASSUME IInv, NEW a \in Accounts, CleanAccountDeletionBatch(a)
  PROVE  IInv'
<1>1. TypeOK /\ account[a] = "deleting" /\ UNCHANGED <<log, user, settings, worker, start>>
  BY DEF IInv, CleanAccountDeletionBatch
<1>2. \/ \E i \in DOMAIN rows :
           /\ rows' = [rows EXCEPT ![i] = [Settled(@, "removed") EXCEPT !.pace = 0]]
           /\ UNCHANGED <<incidents, account>>
      \/ /\ incidents' = [incidents EXCEPT ![a] = [k \in IncidentKinds |-> NoIncident]]
         /\ account' = [account EXCEPT ![a] = "gone"]
         /\ UNCHANGED rows
  BY Zenon DEF CleanAccountDeletionBatch
<1>3. CASE \E i \in DOMAIN rows :
             /\ rows' = [rows EXCEPT ![i] = [Settled(@, "removed") EXCEPT !.pace = 0]]
             /\ UNCHANGED <<incidents, account>>
  <2>1. PICK i \in DOMAIN rows :
          /\ rows' = [rows EXCEPT ![i] = [Settled(@, "removed") EXCEPT !.pace = 0]]
          /\ UNCHANGED <<incidents, account>>
    BY <1>3, Zenon
  <2>2. /\ rows' \in Seq(Row) /\ Len(rows') = Len(rows)
        /\ \A j \in 1 .. Len(rows) : KeepsRow(rows'[j], rows[j])
    BY <1>1, <2>1, RemovedRow
  <2>3. TypeOK'
    BY <1>1, <2>1, <2>2 DEF TypeOK
  <2>4. settings.retry \in Nat
    BY <1>1 DEF TypeOK, Settings
  <2>5. RoutePostponedByItself'
    BY <1>1, <2>2, <2>3, StillPostponed DEF IInv
  <2> QED BY <1>1, <2>1, <2>2, <2>3, <2>5, QuietStep
<1>4. CASE /\ incidents' = [incidents EXCEPT ![a] = [k \in IncidentKinds |-> NoIncident]]
           /\ account' = [account EXCEPT ![a] = "gone"]
           /\ UNCHANGED rows
  <2>1. /\ account' \in [Accounts -> {"live", "deleting", "gone"}]
        /\ incidents' \in [Accounts -> [IncidentKinds -> Incident]]
        /\ \A b \in Accounts : account'[b] = "live" =>
              account[b] = "live" /\ incidents'[b] = incidents[b]
    BY <1>1, <1>4, NoIncidentFacts DEF TypeOK
  <2>2. TypeOK'
    BY <1>1, <1>4, <2>1 DEF TypeOK
  <2>3. RoutePostponedByItself'
    BY <1>1, <1>4 DEF IInv, Delivering, RoutePostponedByItself
  <2> QED BY <1>1, <1>4, <2>1, <2>2, <2>3, KeepsItself, QuietStep
<1> QED BY <1>2, <1>3, <1>4

-----------------------------------------------------------------------------
(***************************************************************************)
(* The invariants                                                          *)
(***************************************************************************)

(* In the beginning nothing is logged, queued or in delivery.              *)
LEMMA InitInv == Init => IInv
<1> SUFFICES ASSUME Init PROVE IInv
  OBVIOUS
<1>1. /\ log = <<>> /\ user = TRUE /\ rows = <<>> /\ start = 0
      /\ account = [a \in Accounts |-> "live"]
      /\ settings = [enabled |-> FALSE, native |-> FALSE, url |-> FALSE,
                     rev |-> 0, cursor |-> 0, retry |-> 0, test |-> 0]
      /\ incidents = [a \in Accounts |-> [k \in IncidentKinds |-> NoIncident]]
      /\ worker = [w \in Workers |-> Idle]
  BY DEF Init
<1>2. /\ settings \in Settings /\ settings.rev = 0 /\ settings.cursor = 0 /\ settings.retry = 0
  <2> DEFINE z == 0
             f == FALSE
  <2>1. z \in Nat /\ f \in BOOLEAN /\ z = 0
        /\ settings = [enabled |-> f, native |-> f, url |-> f,
                       rev |-> z, cursor |-> z, retry |-> z, test |-> z]
    BY <1>1
  <2> HIDE DEF z, f
  <2> QED BY <2>1 DEF Settings
<1>3. Idle \in Worker /\ Idle.pc = "idle"
  <2> DEFINE z == 0
  <2>1. z \in Nat /\ z \in 0 .. MaxAttempts
    BY OutboxAssumption
  <2>2. Idle = [pc |-> "idle", row |-> z, att |-> z, rev |-> z, age |-> z]
    BY DEF Idle
  <2> HIDE DEF z
  <2> QED BY <2>1, <2>2 DEF Worker
<1>4. TypeOK
  BY <1>1, <1>2, <1>3, NoIncidentFacts DEF TypeOK
<1>5. \A a \in Accounts, k \in IncidentKinds : incidents[a][k].sev = 0
  BY <1>1, NoIncidentFacts
<1>6. DOMAIN rows = {} /\ Len(rows) = 0 /\ Len(log) = 0
  BY <1>1
<1>7. \A w \in Workers : worker[w].pc = "idle"
  BY <1>1, <1>3
<1>8. \A a, k : Queued(rows, settings.rev, a, k) = {} /\ About(settings.cursor, a, k) = {}
  BY <1>1, <1>2, <1>6 DEF Queued, About
<1>9. Told(rows, incidents, settings.cursor)
  BY <1>5, <1>8 DEF Told, QueueSays, LogSays
<1>10. Ingesting
  BY <1>1, <1>2, <1>6, <1>9 DEF Ingesting, CursorOK, Answering
<1>11. Delivering
  BY <1>2, <1>6, <1>7 DEF Delivering, SendsCounted, BusyHold, Busy, OwnAttempt, SendingFirst,
     RoutePostponedByItself
<1> QED BY <1>4, <1>10, <1>11 DEF IInv

(* Refuse and Respond end the worker's attempt with a result.              *)
LEMMA ResultFacts ==
  ASSUME IInv, NEW w \in Workers, Refuse(w) \/ Respond(w)
  PROVE  \E st \in {"pending", "sent", "failed", "cancelled"}, d \in Nat :
           Busy(w) /\ FinishNotification(w, st, d) /\ (st = "sent" => worker[w].pc = "http")
<1>1. Backoffs \subseteq Nat /\ 0 \in Nat
  BY OutboxAssumption
<1>2. CASE Refuse(w)
  BY <1>1, <1>2 DEF Refuse, Busy
<1>3. CASE Respond(w)
  BY <1>1, <1>3 DEF Respond, Busy
<1> QED BY <1>2, <1>3

(* Every step keeps the invariant.                                         *)
LEMMA InductiveStep == IInv /\ [Next]_vars => IInv'
<1> SUFFICES ASSUME IInv, [Next]_vars PROVE IInv'
  OBVIOUS
<1>1. ASSUME NEW a \in Accounts, NEW k \in EventKinds, LogEvent(a, k) PROVE IInv'
  BY <1>1, LogEventStep
<1>2. CASE ConsumeNotificationEvents
  BY <1>2, ConsumeStep
<1>3. CASE QueueNotificationTest
  BY <1>3, TestStep
<1>4. ASSUME NEW w \in Workers, Deliver(w) PROVE IInv'
  <2>1. CASE ClaimNotification(w)
    BY <2>1, ClaimStep
  <2>2. CASE NotificationDestination(w)
    BY <2>2, DestinationStep
  <2>3. CASE Refuse(w) \/ Respond(w)
    BY <2>3, ResultFacts, FinishStep
  <2> QED BY <1>4, <2>1, <2>2, <2>3 DEF Deliver
<1>5. ASSUME NEW w \in Workers, Abandon(w) PROVE IInv'
  BY <1>5, AbandonStep
<1>6. CASE CleanNotificationOutbox
  BY <1>6, CleanRows, RowsStep DEF IInv, CleanNotificationOutbox
<1>7. ASSUME NEW enabled \in BOOLEAN, NEW native \in Natives,
             NEW endpoint \in {"keep", "replace", "remove"},
             SaveNotificationSettings(enabled, native, endpoint)
      PROVE  IInv'
  BY <1>7, SaveStep
<1>8. CASE UpdateUserStatus
  BY <1>8, StatusStep DEF UpdateUserStatus, IInv, TypeOK
<1>9. ASSUME NEW a \in Accounts, RequestAccountDeletion(a) PROVE IInv'
  <2>1. /\ account' \in [Accounts -> {"live", "deleting", "gone"}] /\ user' \in BOOLEAN
        /\ \A b \in Accounts : account'[b] = "live" => account[b] = "live"
    BY <1>9 DEF RequestAccountDeletion, IInv, TypeOK
  <2> QED BY <1>9, <2>1, StatusStep DEF RequestAccountDeletion
<1>10. ASSUME NEW a \in Accounts, CleanAccountDeletionBatch(a) PROVE IInv'
  BY <1>10, DeletionStep
<1>11. CASE Tick
  BY <1>11, TickStep
<1>12. ASSUME NEW i \in DOMAIN rows, GrowOld(i) PROVE IInv'
  BY <1>12, OldRows, RowsStep DEF IInv, GrowOld
<1>13. CASE UNCHANGED vars
  <2>1. UNCHANGED <<log, settings, incidents, rows, worker, start>> /\ UNCHANGED <<user, account>>
    BY <1>13 DEF vars
  <2> QED BY <2>1, StatusStep DEF IInv, TypeOK
<1> QED BY <1>1, <1>2, <1>3, <1>4, <1>5, <1>6, <1>7, <1>8, <1>9, <1>10, <1>11, <1>12, <1>13,
           Zenon DEF Next

(* IInv is an invariant.                                                   *)
LEMMA Invariance == Spec => []IInv
  BY InitInv, InductiveStep, PTL DEF Spec

(* The outbox keeps its types: whatever workers stall or die, no row is    *)
(* attempted or handed over more than MaxAttempts times.                   *)
THEOREM TypeTheorem == Spec => []TypeOK
<1>1. IInv => TypeOK
  BY DEF IInv
<1> QED BY <1>1, Invariance, PTL

(* A route is postponed only by a failure of its own.                      *)
THEOREM PostponedTheorem == Spec => []RoutePostponedByItself
<1>1. IInv => RoutePostponedByItself
  BY DEF IInv, Delivering
<1> QED BY <1>1, Invariance, PTL

(* A recovery is announced only after an alert of the same route that no   *)
(* other recovery has answered.                                            *)
THEOREM RecoveryTheorem == Spec => []RecoveryFollowsAlert
<1>1. IInv => RecoveryFollowsAlert
  <2> SUFFICES ASSUME IInv, NEW i \in DOMAIN rows, rows[i].recovered,
                      NEW ids, ids = {j \in 1 .. i - 1 :
                         /\ rows[j].acct = rows[i].acct /\ rows[j].kind = rows[i].kind
                         /\ rows[j].rev = rows[i].rev}
               PROVE  ids # {} /\ ~rows[Max(ids)].recovered
    BY Zenon DEF RecoveryFollowsAlert
  <2>1. DOMAIN rows = 1 .. Len(rows) /\ Len(rows) \in Nat
    BY DEF IInv, TypeOK
  <2>2. ids = {j \in 1 .. i - 1 : j \in Queued(rows, rows[i].rev, rows[i].acct, rows[i].kind)}
    BY <2>1 DEF Queued
  <2>3. PICK j \in ids : \A l \in ids : rows[l].recovered => l < j
    BY <2>2 DEF IInv, Ingesting, Answering, Answers
  <2>4. ids \subseteq 0 .. Len(rows)
    BY <2>1
  <2>5. Max(ids) \in ids /\ j <= Max(ids)
    BY <2>1, <2>3, <2>4, Greatest
  <2>6. \A l \in ids : l \in Nat
    BY <2>1, <2>4
  <2>7. Max(ids) \in Nat /\ j \in Nat /\ ~(Max(ids) < j)
    BY <2>3, <2>5, <2>6
  <2> QED BY <2>3, <2>5, <2>7
<1> QED BY <1>1, Invariance, PTL

(* A number that is highest in a set is its maximum.                       *)
LEMMA HighestIs ==
  ASSUME NEW T, T \subseteq 0 .. 2, NEW n \in T, \A m \in T : m <= n
  PROVE  Max(T) = n
<1>1. Max(T) \in T /\ n <= Max(T)
  BY Greatest
<1>2. \A m \in T : m \in Int
  OBVIOUS
<1> DEFINE x == Max(T)
<1>3. x \in Int /\ n \in Int /\ x <= n /\ n <= x
  BY <1>1, <1>2
<1> HIDE DEF x
<1>4. x = n
  BY <1>3
<1> QED BY <1>4 DEF x

(* The notifications queued for a live account say of each incident what   *)
(* the consumed events say, whatever batches, full queues, cooldowns and   *)
(* route changes came between.                                             *)
THEOREM ToldTheorem == Spec => []SubscriberIsTold
<1>1. IInv => SubscriberIsTold
  <2> SUFFICES ASSUME IInv, NEW a \in Accounts, NEW k \in IncidentKinds, account[a] = "live"
               PROVE  SeverityQueued(a, k) = SeverityInLog(a, k)
    BY DEF SubscriberIsTold
  <2> DEFINE n == incidents[a][k].sev
  <2>1. n \in 0 .. 2 /\ QueueSays(rows, settings.rev, a, k, n) /\ LogSays(settings.cursor, a, k, n)
    BY DEF IInv, TypeOK, Incident, Ingesting, Told
  <2> HIDE DEF n
  <2>2. SeverityQueued(a, k) = n
    <3> DEFINE ids == Queued(rows, settings.rev, a, k)
               ended == {i \in ids : rows[i].recovered}
               since == {i \in ids : \A j \in ended : j < i}
               T == {0} \cup {rows[i].sev : i \in since}
    <3>1. SeverityQueued(a, k) = Max(T)
      BY Zenon DEF SeverityQueued, Queued
    <3>2. \A i \in ids : i \in since <=> QueuedAfterRecovery(rows, settings.rev, a, k, i)
      BY DEF QueuedAfterRecovery
    <3>3. \A i \in ids : rows[i].sev \in 0 .. 2
      <4>1. \A x \in Row : x.sev \in 0 .. 2
        BY DEF Row
      <4>2. \A i \in DOMAIN rows : rows[i] \in Row
        BY DEF IInv, TypeOK
      <4> QED BY <4>1, <4>2 DEF Queued
    <3> HIDE DEF ids, ended
    <3>4. T \subseteq 0 .. 2
      BY <3>3
    <3>5. n \in T
      BY <2>1, <3>2 DEF QueueSays, ids
    <3>6. \A m \in T : m <= n
      BY <2>1, <3>2 DEF QueueSays, ids
    <3> HIDE DEF T
    <3> QED BY <3>1, <3>4, <3>5, <3>6, HighestIs
  <2>3. SeverityInLog(a, k) = n
    <3> DEFINE ids == About(settings.cursor, a, k)
               ended == {i \in ids : Classify(log[i].kind).recovered}
               since == {i \in ids : \A j \in ended : j < i}
               T == {0} \cup {Classify(log[i].kind).sev : i \in since}
    <3>1. SeverityInLog(a, k) = Max(T)
      BY Zenon DEF SeverityInLog, About
    <3>2. \A i \in ids : i \in since <=> LoggedAfterRecovery(settings.cursor, a, k, i)
      BY DEF LoggedAfterRecovery
    <3>3. \A i \in ids : Classify(log[i].kind).sev \in 0 .. 2
      BY ClassifyFacts
    <3> HIDE DEF ids, ended
    <3>4. T \subseteq 0 .. 2
      BY <3>3
    <3>5. n \in T
      BY <2>1, <3>2 DEF LogSays, ids
    <3>6. \A m \in T : m <= n
      BY <2>1, <3>2 DEF LogSays, ids
    <3> HIDE DEF T
    <3> QED BY <3>1, <3>4, <3>5, <3>6, HighestIs
  <2> QED BY <2>2, <2>3
<1> QED BY <1>1, Invariance, PTL

-----------------------------------------------------------------------------
(***************************************************************************)
(* The feed                                                                *)
(***************************************************************************)

(* What the feed sees of a table of rows.                                  *)
LaneOf(rs) == [i \in DOMAIN rs |-> rs[i].acct]
FateOf(rs) == [i \in DOMAIN rs |-> IF Open(rs[i]) THEN "open" ELSE rs[i].status]
SendsOf(rs) == [i \in DOMAIN rs |-> rs[i].sends]

FeedStep == [Feed!Next]_(Feed!feed)

(* The steps of the feed on a table of rows.                               *)
LEMMA FeedSteps ==
  /\ (LaneOf(rows') = LaneOf(rows) /\ FateOf(rows') = FateOf(rows)
        /\ SendsOf(rows') = SendsOf(rows)) => FeedStep
  /\ Feed!Queue => FeedStep
  /\ \A i \in DOMAIN rows : Feed!Dispatch(i) \/ Feed!Acknowledge(i) \/ Feed!Remove(i) => FeedStep
  /\ \A f \in {"failed", "cancelled"} : Feed!GiveUp(f) => FeedStep
<1>1. (LaneOf(rows') = LaneOf(rows) /\ FateOf(rows') = FateOf(rows)
        /\ SendsOf(rows') = SendsOf(rows)) => FeedStep
  BY DEF FeedStep, LaneOf, FateOf, SendsOf, Feed!feed
<1>2. Feed!Queue => FeedStep
  BY DEF FeedStep, Feed!Next
<1>3. ASSUME NEW i \in DOMAIN rows, Feed!Dispatch(i) \/ Feed!Acknowledge(i) \/ Feed!Remove(i)
      PROVE  FeedStep
  <2>1. i \in DOMAIN FateOf(rows)
    BY DEF FateOf
  <2> QED BY <1>3, <2>1, Zenon DEF FeedStep, Feed!Next, FateOf
<1>4. ASSUME NEW f \in {"failed", "cancelled"}, Feed!GiveUp(f) PROVE FeedStep
  BY <1>4, Zenon DEF FeedStep, Feed!Next
<1> QED BY <1>1, <1>2, <1>3, <1>4, Zenon

(* Giving rows up is giving up notifications of the feed, or nothing.      *)
LEMMA FeedGivesUp ==
  ASSUME TypeOK, NEW f \in {"failed", "cancelled"}, GivesUp(f)
  PROVE  FeedStep
<1>1. DOMAIN rows = 1 .. Len(rows) /\ DOMAIN rows' = 1 .. Len(rows)
  BY DEF TypeOK, GivesUp
<1>2. \A i \in DOMAIN rows : /\ rows'[i].acct = rows[i].acct /\ rows'[i].sends = rows[i].sends
                             /\ Open(rows'[i]) => Open(rows[i])
                             /\ \/ rows'[i].status = rows[i].status
                                \/ Open(rows'[i])
                                \/ Open(rows[i]) /\ rows'[i].status = f
  BY <1>1 DEF GivesUp, KeepsRow, SameLetter
<1>3. LaneOf(rows') = LaneOf(rows) /\ SendsOf(rows') = SendsOf(rows)
  BY <1>1, <1>2 DEF LaneOf, SendsOf
<1>4. DOMAIN FateOf(rows') = DOMAIN rows /\ DOMAIN FateOf(rows) = DOMAIN rows
  BY <1>1 DEF FateOf
<1>5. \A i \in DOMAIN rows : \/ FateOf(rows')[i] = FateOf(rows)[i]
                             \/ FateOf(rows)[i] = "open" /\ FateOf(rows')[i] = f
  BY <1>1, <1>2 DEF FateOf, Open
<1>6. CASE FateOf(rows') = FateOf(rows)
  BY <1>3, <1>6, FeedSteps
<1>7. CASE FateOf(rows') # FateOf(rows)
  <2>1. Feed!GiveUp(f)
    BY <1>3, <1>4, <1>5, <1>7, Zenon DEF Feed!GiveUp, FateOf, LaneOf, SendsOf
  <2> QED BY <2>1, FeedSteps
<1> QED BY <1>6, <1>7

(* New rows join the feed.                                                 *)
LEMMA FeedQueues ==
  ASSUME TypeOK, TypeOK', Len(rows) <= Len(rows'),
         \A i \in 1 .. Len(rows) : rows'[i] = rows[i],
         \A i \in Len(rows) + 1 .. Len(rows') : rows'[i].status = "pending" /\ rows'[i].sends = 0
  PROVE  FeedStep
<1>1. /\ DOMAIN rows = 1 .. Len(rows) /\ DOMAIN rows' = 1 .. Len(rows') /\ rows \in Seq(Row)
      /\ Len(rows) \in Nat /\ Len(rows') \in Nat /\ rows' \in Seq(Row)
  BY DEF TypeOK
<1>2. CASE Len(rows') = Len(rows)
  <2>1. rows' = rows
    BY <1>1, <1>2, SeqEqual
  <2> QED BY <2>1, FeedSteps
<1>3. CASE Len(rows') > Len(rows)
  <2> DEFINE Lanes == Accounts \cup {NoAccount}
  <2>1. /\ LaneOf(rows) \in Seq(Lanes) /\ Len(LaneOf(rows)) = Len(rows)
        /\ LaneOf(rows') \in Seq(Lanes) /\ Len(LaneOf(rows')) = Len(rows')
    <3>1. \A rs \in Seq(Row) : LaneOf(rs) \in Seq(Lanes) /\ Len(LaneOf(rs)) = Len(rs)
      <4> SUFFICES ASSUME NEW rs \in Seq(Row)
                   PROVE  LaneOf(rs) \in Seq(Lanes) /\ Len(LaneOf(rs)) = Len(rs)
        OBVIOUS
      <4>1. \A x \in Row : x.acct \in Lanes
        BY DEF Row
      <4>2. DOMAIN rs = 1 .. Len(rs) /\ Len(rs) \in Nat /\ \A i \in 1 .. Len(rs) : rs[i] \in Row
        OBVIOUS
      <4>3. LaneOf(rs) \in [1 .. Len(rs) -> Lanes]
        BY <4>1, <4>2 DEF LaneOf
      <4>4. LaneOf(rs) \in Seq(Lanes)
        BY <4>2, <4>3, SeqDef
      <4>5. DOMAIN LaneOf(rs) = 1 .. Len(rs)
        BY <4>3
      <4> QED BY <4>2, <4>4, <4>5
    <3> QED BY <1>1, <3>1
  <2>2. SubSeq(LaneOf(rows'), 1, Len(LaneOf(rows))) = LaneOf(rows)
    <3> DEFINE a == LaneOf(rows')
               b == LaneOf(rows)
               n == Len(rows)
    <3>1. \A i \in 1 .. n : a[i] = b[i]
      BY <1>1, <1>3 DEF LaneOf
    <3>2. a \in Seq(Lanes) /\ b \in Seq(Lanes) /\ Len(b) = n /\ n <= Len(a) /\ n \in Nat
      BY <1>1, <1>3, <2>1
    <3> HIDE DEF a, b, n, Lanes
    <3>3. /\ SubSeq(a, 1, n) \in Seq(Lanes) /\ Len(SubSeq(a, 1, n)) = n
          /\ \A i \in 1 .. n : SubSeq(a, 1, n)[i] = a[i]
      BY <3>2
    <3>4. SubSeq(a, 1, n) = b
      BY <3>1, <3>2, <3>3, SeqEqual
    <3> QED BY <3>2, <3>4 DEF a, b
  <2>3. \A i \in DOMAIN LaneOf(rows') : LaneOf(rows')[i] \in Lanes
    BY <2>1
  <2>4. DOMAIN LaneOf(rows') = DOMAIN rows' /\ DOMAIN FateOf(rows) = DOMAIN rows
        /\ DOMAIN SendsOf(rows) = DOMAIN rows
    BY DEF LaneOf, FateOf, SendsOf
  <2>5. \A i \in DOMAIN rows' : /\ i \in DOMAIN rows => rows'[i] = rows[i]
                                /\ i \notin DOMAIN rows =>
                                      rows'[i].status = "pending" /\ rows'[i].sends = 0
    BY <1>1, <1>3
  <2>6. FateOf(rows') = [i \in DOMAIN LaneOf(rows') |->
                           IF i \in DOMAIN FateOf(rows) THEN FateOf(rows)[i] ELSE "open"]
    BY <2>4, <2>5 DEF FateOf, Open
  <2>7. SendsOf(rows') = [i \in DOMAIN LaneOf(rows') |->
                            IF i \in DOMAIN SendsOf(rows) THEN SendsOf(rows)[i] ELSE 0]
    BY <2>4, <2>5 DEF SendsOf
  <2>8. Len(LaneOf(rows')) > Len(LaneOf(rows))
    BY <1>3, <2>1
  <2>9. Feed!Queue
    BY <2>2, <2>3, <2>6, <2>7, <2>8, Zenon DEF Feed!Queue, LaneOf, FateOf, SendsOf
  <2> QED BY <2>9, FeedSteps, Zenon
<1>4. Len(rows') = Len(rows) \/ Len(rows') > Len(rows)
  <2> DEFINE m == Len(rows)
             n == Len(rows')
  <2>1. m \in Nat /\ n \in Nat /\ m <= n
    BY <1>1, Zenon
  <2> HIDE DEF m, n
  <2>2. n = m \/ n > m
    BY <2>1
  <2> QED BY <2>2, Zenon DEF m, n
<1> QED BY <1>2, <1>3, <1>4, Zenon

(* A row changes alone.                                                    *)
LEMMA FeedAlone ==
  ASSUME TypeOK, TypeOK', Len(rows') = Len(rows), NEW i \in 1 .. Len(rows),
         \A j \in 1 .. Len(rows) : j # i => rows'[j] = rows[j],
         rows'[i].acct = rows[i].acct
  PROVE  /\ LaneOf(rows') = LaneOf(rows)
         /\ rows'[i].sends = rows[i].sends => SendsOf(rows') = SendsOf(rows)
         /\ SendsOf(rows') = [SendsOf(rows) EXCEPT ![i] = rows'[i].sends]
         /\ (~Open(rows'[i]) => FateOf(rows') = [FateOf(rows) EXCEPT ![i] = rows'[i].status])
         /\ Open(rows'[i]) /\ Open(rows[i]) => FateOf(rows') = FateOf(rows)
         /\ OldestOfAccount(i) => Feed!FirstInLane(i)
         /\ FateOf(rows)[i] = "open" <=> Open(rows[i])
<1>1. DOMAIN rows = 1 .. Len(rows) /\ DOMAIN rows' = 1 .. Len(rows) /\ Len(rows) \in Nat
  BY DEF TypeOK
<1>2. LaneOf(rows') = LaneOf(rows)
  BY <1>1 DEF LaneOf
<1>3. rows'[i].sends = rows[i].sends => SendsOf(rows') = SendsOf(rows)
  BY <1>1 DEF SendsOf
<1>4. SendsOf(rows') = [SendsOf(rows) EXCEPT ![i] = rows'[i].sends]
  BY <1>1 DEF SendsOf
<1>5. ~Open(rows'[i]) => FateOf(rows') = [FateOf(rows) EXCEPT ![i] = rows'[i].status]
  BY <1>1 DEF FateOf
<1>6. Open(rows'[i]) /\ Open(rows[i]) => FateOf(rows') = FateOf(rows)
  BY <1>1 DEF FateOf
<1>7. \A j \in 1 .. Len(rows) : /\ LaneOf(rows)[j] = rows[j].acct
                                /\ FateOf(rows)[j] = "open" <=> Open(rows[j])
  <2>1. \A j \in 1 .. Len(rows) : rows[j].status # "open"
    <3>1. \A x \in Row : x.status # "open"
      BY DEF Row
    <3>2. \A j \in 1 .. Len(rows) : rows[j] \in Row
      BY DEF TypeOK
    <3> QED BY <3>1, <3>2
  <2> QED BY <1>1, <2>1 DEF LaneOf, FateOf
<1>8. OldestOfAccount(i) => Feed!FirstInLane(i)
  <2> SUFFICES ASSUME OldestOfAccount(i), NEW j \in 1 .. i - 1, LaneOf(rows)[j] = LaneOf(rows)[i]
               PROVE  FateOf(rows)[j] # "open"
    BY Zenon DEF Feed!FirstInLane, LaneOf, FateOf
  <2>1. j \in 1 .. Len(rows)
    BY <1>1
  <2> QED BY <1>7, <2>1 DEF OldestOfAccount
<1> QED BY <1>2, <1>3, <1>4, <1>5, <1>6, <1>7, <1>8, Zenon

(* A claim is invisible; the check of the destination hands a row over.    *)
LEMMA FeedClaims ==
  ASSUME IInv, IInv', NEW w \in Workers, ClaimNotification(w)
  PROVE  FeedStep
<1>1. PICK i \in DOMAIN rows :
        /\ Claimable(i)
        /\ rows' = [rows EXCEPT ![i].status = "sending", ![i].att = @ + 1,
                                ![i].lease = Lease, ![i].pace = Pace]
  BY Zenon DEF ClaimNotification
<1>2. /\ TypeOK /\ TypeOK' /\ rows \in Seq(Row) /\ i \in 1 .. Len(rows) /\ rows[i] \in Row
      /\ rows[i].att < MaxAttempts /\ Open(rows[i])
  BY <1>1 DEF IInv, TypeOK, Claimable, Open
<1> DEFINE x == [rows[i] EXCEPT !.status = "sending", !.att = @ + 1, !.lease = Lease, !.pace = Pace]
<1>3. rows' = [rows EXCEPT ![i] = x]
  BY <1>1, <1>2
<1>4. x \in Row /\ SameLetter(x, rows[i]) /\ x.status = "sending" /\ x.sends = rows[i].sends
  <2> DEFINE r == rows[i]
  <2>1. x = [r EXCEPT !.status = "sending", !.att = @ + 1, !.lease = Lease, !.pace = Pace]
        /\ r \in Row /\ r.att < MaxAttempts
    BY <1>2, Zenon
  <2> HIDE DEF x, r
  <2>2. x \in Row /\ SameLetter(x, r) /\ x.status = "sending" /\ x.sends = r.sends
    BY <2>1, ClaimedRow, Zenon
  <2> QED BY <2>2 DEF r
<1> HIDE DEF x
<1>5. /\ Len(rows') = Len(rows) /\ rows'[i] = x
      /\ \A j \in 1 .. Len(rows) : j # i => rows'[j] = rows[j]
  BY <1>2, <1>3, <1>4, Replaced
<1>6. rows'[i].acct = rows[i].acct /\ rows'[i].sends = rows[i].sends /\ Open(rows'[i])
  BY <1>4, <1>5 DEF SameLetter, Open
<1>7. LaneOf(rows') = LaneOf(rows) /\ SendsOf(rows') = SendsOf(rows) /\ FateOf(rows') = FateOf(rows)
  BY <1>2, <1>5, <1>6, FeedAlone
<1> QED BY <1>7, FeedSteps

(* See FeedClaims.                                                         *)
LEMMA FeedSends ==
  ASSUME IInv, IInv', NEW w \in Workers, NotificationDestination(w)
  PROVE  FeedStep
<1>1. /\ worker[w].pc = "claimed"
      /\ \/ rows' = rows
         \/ DestinationValid(w) /\ rows' = [rows EXCEPT ![worker[w].row].sends = @ + 1]
  BY DEF NotificationDestination
<1>2. CASE rows' = rows
  BY <1>2, FeedSteps
<1>3. CASE DestinationValid(w) /\ rows' = [rows EXCEPT ![worker[w].row].sends = @ + 1]
  <2>0. PICK i : i = worker[w].row
    OBVIOUS
  <2> DEFINE n == rows[i].sends + 1
  <2>1. Holds(w) /\ TypeOK /\ TypeOK'
    BY <1>1 DEF IInv, Delivering, BusyHold, Busy
  <2>2. rows[i].att = worker[w].att /\ rows[i].status = "sending"
    BY <1>3, <2>0 DEF DestinationValid
  <2>3. /\ i \in 1 .. Len(rows) /\ rows[i].sends < rows[i].att /\ rows[i] \in Row
        /\ rows[i].att \in 0 .. MaxAttempts /\ rows[i].sends \in 0 .. MaxAttempts
        /\ MaxAttempts \in Nat /\ DOMAIN rows = 1 .. Len(rows) /\ rows \in Seq(Row)
    BY <1>1, <2>0, <2>1, <2>2, RowFields, OutboxAssumption DEF Holds, TypeOK
  <2>4. rows[i].sends < MaxAttempts
    BY <2>3
  <2> DEFINE x == [rows[i] EXCEPT !.sends = n]
  <2>5. rows' = [rows EXCEPT ![i] = x] /\ Len(rows') = Len(rows)
        /\ rows'[i] = x /\ \A j \in 1 .. Len(rows) : j # i => rows'[j] = rows[j]
    <3>1. rows' = [rows EXCEPT ![i] = x]
      BY <1>3, <2>0
    <3> HIDE DEF x
    <3>2. DOMAIN rows' = 1 .. Len(rows)
      BY <2>3, <3>1
    <3>3. Len(rows') = Len(rows)
      BY <2>1, <2>3, <3>2 DEF TypeOK
    <3> QED BY <2>3, <3>1, <3>3
  <2>6. rows'[i].acct = rows[i].acct /\ rows'[i].sends = n /\ rows'[i].status = rows[i].status
    <3> HIDE DEF n
    <3> QED BY <2>3, <2>5 DEF Row
  <2>7. Open(rows[i]) /\ Open(rows'[i]) /\ OldestOfAccount(i)
    BY <2>2, <2>3, <2>6 DEF Open, IInv, Delivering, SendingFirst
  <2>8. /\ LaneOf(rows') = LaneOf(rows) /\ FateOf(rows') = FateOf(rows)
        /\ SendsOf(rows') = [SendsOf(rows) EXCEPT ![i] = n]
        /\ Feed!FirstInLane(i) /\ FateOf(rows)[i] = "open"
    BY <2>1, <2>3, <2>5, <2>6, <2>7, FeedAlone
  <2>9. SendsOf(rows)[i] = rows[i].sends
    BY <2>3 DEF SendsOf
  <2>10. SendsOf(rows') = [SendsOf(rows) EXCEPT ![i] = @ + 1] /\ SendsOf(rows)[i] < MaxAttempts
    BY <2>4, <2>8, <2>9
  <2>11. Feed!Dispatch(i)
    BY <2>8, <2>10, Zenon DEF Feed!Dispatch, LaneOf, FateOf, SendsOf
  <2>12. i \in DOMAIN rows
    BY <2>3
  <2> QED BY <2>11, <2>12, FeedSteps
<1> QED BY <1>1, <1>2, <1>3

(* A result acknowledges the row, gives it up, or leaves it open.          *)
LEMMA FeedFinishes ==
  ASSUME IInv, IInv', NEW w \in Workers, Busy(w),
         NEW st \in {"pending", "sent", "failed", "cancelled"}, st = "sent" => worker[w].pc = "http",
         NEW d \in Nat, FinishNotification(w, st, d)
  PROVE  FeedStep
<1>1. PICK i : i = worker[w].row
  OBVIOUS
<1>2. /\ GivesUp(st) /\ i \in 1 .. Len(rows)
      /\ \A j \in 1 .. Len(rows) : j # i => rows'[j] = rows[j]
      /\ rows' = rows \/ (rows[i].status = "sending" /\ rows'[i].status = st)
  BY <1>1, FinishFacts
<1>3. TypeOK /\ TypeOK' /\ Holds(w)
  BY DEF IInv, Delivering, BusyHold
<1>4. CASE st \in {"failed", "cancelled"}
  BY <1>2, <1>3, <1>4, FeedGivesUp
<1>5. CASE rows' = rows
  BY <1>5, FeedSteps
<1>6. CASE st = "pending"
  <2>1. GivesUp("failed")
    BY <1>2, <1>6 DEF GivesUp, Open
  <2> QED BY <1>3, <2>1, FeedGivesUp
<1>7. CASE st = "sent" /\ rows[i].status = "sending" /\ rows'[i].status = st
  <2>1. Open(rows[i]) /\ ~Open(rows'[i]) /\ rows[i].sends > 0
    BY <1>1, <1>3, <1>7 DEF Open, Holds
  <2>2. DOMAIN rows = 1 .. Len(rows) /\ i \in DOMAIN rows
    BY <1>2, <1>3 DEF TypeOK
  <2>3. /\ Len(rows') = Len(rows) /\ rows'[i].acct = rows[i].acct /\ rows'[i].sends = rows[i].sends
    BY <1>2 DEF GivesUp, KeepsRow, SameLetter
  <2>4. OldestOfAccount(i)
    BY <1>7, <2>2 DEF IInv, Delivering, SendingFirst
  <2>5. /\ LaneOf(rows') = LaneOf(rows) /\ SendsOf(rows') = SendsOf(rows)
        /\ FateOf(rows') = [FateOf(rows) EXCEPT ![i] = "sent"]
        /\ Feed!FirstInLane(i) /\ FateOf(rows)[i] = "open"
    BY <1>2, <1>3, <1>7, <2>1, <2>3, <2>4, FeedAlone
  <2>6. SendsOf(rows)[i] > 0
    BY <2>1, <2>2 DEF SendsOf
  <2>7. Feed!Acknowledge(i)
    BY <2>5, <2>6, Zenon DEF Feed!Acknowledge, LaneOf, FateOf, SendsOf
  <2> QED BY <2>2, <2>7, FeedSteps
<1> QED BY <1>2, <1>4, <1>5, <1>6, <1>7

(* A deletion removes notifications.                                       *)
LEMMA FeedRemoves ==
  ASSUME IInv, IInv', NEW a \in Accounts, CleanAccountDeletionBatch(a)
  PROVE  FeedStep
<1>1. \/ \E i \in DOMAIN rows :
           /\ rows[i].status # "removed"
           /\ rows' = [rows EXCEPT ![i] = [Settled(@, "removed") EXCEPT !.pace = 0]]
      \/ rows' = rows
  BY Zenon DEF CleanAccountDeletionBatch
<1>2. CASE rows' = rows
  BY <1>2, FeedSteps
<1>3. CASE \E i \in DOMAIN rows :
             /\ rows[i].status # "removed"
             /\ rows' = [rows EXCEPT ![i] = [Settled(@, "removed") EXCEPT !.pace = 0]]
  <2>1. PICK i \in DOMAIN rows :
          /\ rows[i].status # "removed"
          /\ rows' = [rows EXCEPT ![i] = [Settled(@, "removed") EXCEPT !.pace = 0]]
    BY <1>3, Zenon
  <2>2. TypeOK /\ TypeOK'
    BY DEF IInv
  <2>3. /\ Len(rows') = Len(rows) /\ i \in 1 .. Len(rows) /\ rows'[i].status = "removed"
        /\ \A j \in 1 .. Len(rows) : j # i => rows'[j] = rows[j]
        /\ rows'[i].acct = rows[i].acct /\ rows'[i].sends = rows[i].sends
    BY <2>1, <2>2, RemovedRow DEF KeepsRow, SameLetter
  <2>4. ~Open(rows'[i])
    BY <2>3 DEF Open
  <2>5. /\ LaneOf(rows') = LaneOf(rows) /\ SendsOf(rows') = SendsOf(rows)
        /\ FateOf(rows') = [FateOf(rows) EXCEPT ![i] = "removed"]
    BY <2>2, <2>3, <2>4, FeedAlone
  <2>6. FateOf(rows)[i] # "removed"
    BY <2>1 DEF FateOf
  <2>7. Feed!Remove(i)
    BY <2>5, <2>6, Zenon DEF Feed!Remove, LaneOf, FateOf, SendsOf
  <2> QED BY <2>1, <2>7, FeedSteps
<1> QED BY <1>1, <1>2, <1>3

(* Every step is a step of the feed, or invisible to it.                   *)
LEMMA FeedSimulation == IInv /\ IInv' /\ [Next]_vars => FeedStep
<1> SUFFICES ASSUME IInv, IInv', [Next]_vars PROVE FeedStep
  OBVIOUS
<1>0. TypeOK /\ TypeOK' /\ Ingesting
  BY DEF IInv
<1>1. CASE UNCHANGED rows
  BY <1>1, FeedSteps
<1>2. ASSUME ConsumeNotificationEvents PROVE FeedStep
  <2>1. NextEvents # {} /\ rows' = Ingested[LastEvent].rows
    BY <1>2 DEF ConsumeNotificationEvents
  <2>2. Extends(rows')
    BY <1>0, <2>1, IngestFacts
  <2>3. /\ Len(rows) <= Len(rows') /\ \A i \in 1 .. Len(rows) : rows'[i] = rows[i]
        /\ \A i \in Len(rows) + 1 .. Len(rows') : rows'[i].status = "pending" /\ rows'[i].sends = 0
    BY <2>2 DEF Extends, Fresh
  <2> QED BY <1>0, <2>3, FeedQueues
<1>3. ASSUME QueueNotificationTest PROVE FeedStep
  <2>1. PICK x : /\ x = NewRow(NoAccount, [kind |-> "test", sev |-> 0, recovered |-> FALSE],
                               settings.rev)
                 /\ rows' = Append(rows, x)
    BY <1>3 DEF QueueNotificationTest
  <2>2. x.status = "pending" /\ x.sends = 0
    BY <2>1 DEF NewRow
  <2>3. /\ rows \in Seq(Row) /\ Len(rows) \in Nat
        /\ Len(rows') = Len(rows) + 1 /\ rows'[Len(rows) + 1] = x
        /\ \A i \in 1 .. Len(rows) : rows'[i] = rows[i]
    BY <1>0, <2>1 DEF TypeOK
  <2>4. \A i \in Len(rows) + 1 .. Len(rows') : rows'[i].status = "pending" /\ rows'[i].sends = 0
    <3> SUFFICES ASSUME NEW i \in Len(rows) + 1 .. Len(rows') PROVE i = Len(rows) + 1
      BY <2>2, <2>3
    <3> QED BY <2>3
  <2>5. Len(rows) <= Len(rows')
    BY <2>3
  <2> QED BY <1>0, <2>3, <2>4, <2>5, FeedQueues
<1>4. ASSUME NEW w \in Workers, Deliver(w) PROVE FeedStep
  <2>1. CASE ClaimNotification(w)
    BY <2>1, FeedClaims
  <2>2. CASE NotificationDestination(w)
    BY <2>2, FeedSends
  <2>3. CASE Refuse(w) \/ Respond(w)
    BY <2>3, ResultFacts, FeedFinishes
  <2> QED BY <1>4, <2>1, <2>2, <2>3 DEF Deliver
<1>5. ASSUME CleanNotificationOutbox PROVE FeedStep
  BY <1>0, <1>5, CleanRows, FeedGivesUp
<1>6. ASSUME NEW enabled, NEW native, NEW endpoint,
             SaveNotificationSettings(enabled, native, endpoint)
      PROVE  FeedStep
  BY <1>0, <1>6, SaveRows, FeedGivesUp
<1>7. ASSUME NEW a \in Accounts, CleanAccountDeletionBatch(a) PROVE FeedStep
  BY <1>7, FeedRemoves
<1>8. ASSUME Tick PROVE FeedStep
  BY <1>0, <1>8, TickRows, FeedGivesUp
<1>9. ASSUME NEW i \in DOMAIN rows, GrowOld(i) PROVE FeedStep
  BY <1>0, <1>9, OldRows, FeedGivesUp
<1>10. ASSUME NEW a \in Accounts, NEW k \in EventKinds, LogEvent(a, k) PROVE UNCHANGED rows
  BY <1>10 DEF LogEvent
<1>11. ASSUME NEW w \in Workers, Abandon(w) PROVE UNCHANGED rows
  BY <1>11 DEF Abandon
<1>12. ASSUME UpdateUserStatus PROVE UNCHANGED rows
  BY <1>12 DEF UpdateUserStatus
<1>13. ASSUME NEW a \in Accounts, RequestAccountDeletion(a) PROVE UNCHANGED rows
  BY <1>13 DEF RequestAccountDeletion
<1>14. ASSUME UNCHANGED vars PROVE UNCHANGED rows
  BY <1>14 DEF vars
<1> QED BY <1>1, <1>2, <1>3, <1>4, <1>5, <1>6, <1>7, <1>8, <1>9, <1>10, <1>11, <1>12, <1>13,
           <1>14, Zenon DEF Next

(* The outbox implements the feed: per account in order, each notification *)
(* handed to the network at most MaxAttempts times, settled once, and      *)
(* acknowledged only after it was handed over, whatever stalled or dead    *)
(* workers, leases, edits and deletions do.                                *)
THEOREM FeedTheorem == Spec => ImplementsFeed
<1>1. Init => Feed!Init
  BY DEF Init, Feed!Init
<1>2. IInv /\ IInv' /\ [Next]_vars => [Feed!Next]_(Feed!feed)
  BY FeedSimulation DEF FeedStep
<1> QED BY <1>1, <1>2, Invariance, PTL DEF Spec, ImplementsFeed, Feed!Spec
=============================================================================
