---------------------- MODULE OperationSchedulingProofs ----------------------
(***************************************************************************)
(* For any finite set of operations, any kinds, ranks and intervals: the   *)
(* scheduler keeps its types and its two turns agree; what it chooses was  *)
(* on offer, not cooling and not paced; and the abstraction of the waits   *)
(* keeps what the choice compares.                                         *)
(***************************************************************************)
EXTENDS OperationScheduling, FiniteSetTheorems, TLAPS

(***************************************************************************)
(* Numbers, and the first operation of a set                               *)
(***************************************************************************)

(* The principle of the least number.                                      *)
LEMMA Least ==
  ASSUME NEW T, T \subseteq Nat, T # {}
  PROVE  \E n \in T : \A m \in T : n <= m
<1> DEFINE R == {ss \in Nat \X Nat : ss[1] < ss[2]}
<1>1. R = OpToRel(<, Nat)
  BY Zenon DEF OpToRel
<1>2. IsWellFoundedOn(R, Nat)
  BY <1>1, NatLessThanWellFounded, Zenon
<1>3. PICK x \in T : \A y \in T : ~ (<<y, x>> \in R)
  <2> HIDE DEF R
  <2> QED BY <1>2, WFMin, Zenon
<1>4. \A y \in T : x <= y
  <2> SUFFICES ASSUME NEW y \in T, y < x PROVE FALSE
    OBVIOUS
  <2>1. <<y, x>> \in Nat \X Nat /\ <<y, x>>[1] < <<y, x>>[2]
    OBVIOUS
  <2>2. <<y, x>> \in R
    BY <2>1, Zenon
  <2> HIDE DEF R
  <2> QED BY <2>2, <1>3
<1> QED BY <1>4

(* The planner's order has a first operation in every set of operations.   *)
LEMMA FirstIsFirst ==
  ASSUME NEW S, S \subseteq Ops, S # {}
  PROVE  First(S) \in S /\ \A p \in S : Rank[First(S)] <= Rank[p]
<1> DEFINE T == {Rank[o] : o \in S}
<1>1. T \subseteq Nat /\ T # {}
  BY RankAssumption
<1>2. PICK n \in T : \A m \in T : n <= m
  <2> HIDE DEF T
  <2> QED BY <1>1, Least
<1>3. \E o \in S : \A p \in S : Rank[o] <= Rank[p]
  BY <1>2
<1> QED BY <1>3 DEF First

(***************************************************************************)
(* Waits                                                                   *)
(***************************************************************************)

(* The longest wait there is in the model.                                 *)
Longest == MaxWait + Cardinality(Scopes)

Waiting == [Scopes -> 0..Longest \cup {None}]

LEMMA LongestType == Longest \in Nat /\ IsFiniteSet(Scopes) /\ Cardinality(Scopes) \in Nat
<1>1. IsFiniteSet(Scopes)
  BY FiniteAssumption, FS_Subset DEF Ops
<1> QED BY <1>1, FS_CardinalityType, IntervalAssumption DEF Longest

(* A scope that is on offer and not cooling waits for a number of units;   *)
(* the others do not wait.                                                 *)
LEMMA WaitsType ==
  ASSUME wait \in Waiting
  PROVE  Waits \in Waiting /\ \A s \in Eligible \cap Scopes : Waits[s] \in 0..Longest
<1>1. ASSUME NEW s \in Scopes
      PROVE  /\ Waits[s] \in 0..Longest \cup {None}
             /\ s \in Eligible => Waits[s] \in 0..Longest
  BY LongestType DEF Waiting, Waits
<1>2. Waits = [s \in Scopes |-> Waits[s]]
  BY DEF Waits
<1> QED BY <1>1, <1>2 DEF Waiting

(* Among overdue scopes one waits longest, and it is chosen.               *)
LEMMA OldestIsOldest ==
  ASSUME wait \in Waiting, NEW due, due \subseteq Eligible \cap Scopes, due # {}
  PROVE  Oldest(due) \in due /\ \A s \in due : Waits[s] <= Waits[Oldest(due)]
<1>1. \A s \in due : Waits[s] \in 0..Longest
  BY WaitsType
<1> DEFINE T == {Longest - Waits[s] : s \in due}
           D == {s \in due : \A t \in due : Waits[t] <= Waits[s]}
<1> HIDE DEF Waits
<1>2. T \subseteq Nat /\ T # {}
  <2>1. \A s \in due : Longest - Waits[s] \in Nat
    BY <1>1, LongestType
  <2> QED BY <2>1
<1>3. PICK n \in T : \A m \in T : n <= m
  <2> HIDE DEF T
  <2> QED BY <1>2, Least
<1>4. PICK s \in due : n = Longest - Waits[s]
  OBVIOUS
<1>5. ASSUME NEW t \in due PROVE Waits[t] <= Waits[s]
  <2>1. Longest - Waits[s] <= Longest - Waits[t]
    BY <1>3, <1>4
  <2> QED BY <2>1, <1>1, LongestType
<1>6. D # {} /\ D \subseteq Ops
  BY <1>5 DEF Ops
<1>7. First(D) \in D
  <2> HIDE DEF D
  <2> QED BY <1>6, FirstIsFirst
<1> QED BY <1>7 DEF Oldest

(* The waits Longer looks at, and those that are over the threshold and    *)
(* under the one of s.                                                     *)
Grown == [s \in Scopes |-> IF wait[s] = None THEN 0 ELSE wait[s] + 1]
Under(s) == {Grown[t] : t \in {t \in Scopes : wait[t] # None
                                  /\ MaxWait <= Grown[t] /\ Grown[t] < Grown[s]}}

LEMMA LongerValue ==
  ASSUME NEW s \in Scopes
  PROVE  Longer[s] = IF wait[s] = None THEN None
                     ELSE IF Grown[s] < MaxWait THEN Grown[s]
                     ELSE MaxWait + Cardinality(Under(s))
BY DEF Longer, Grown, Under

(* There are at most as many waits as there are scopes.                    *)
LEMMA UnderBound ==
  ASSUME NEW s \in Scopes
  PROVE  IsFiniteSet(Under(s)) /\ Cardinality(Under(s)) \in 0..Cardinality(Scopes)
<1> DEFINE S == {t \in Scopes : wait[t] # None /\ MaxWait <= Grown[t] /\ Grown[t] < Grown[s]}
           f == [t \in S |-> Grown[t]]
<1>1. IsFiniteSet(S) /\ Cardinality(S) <= Cardinality(Scopes)
  BY LongestType, FS_Subset
<1>2. f \in Surjection(S, Under(s))
  BY DEF Surjection, Under
<1>3. IsFiniteSet(Under(s)) /\ Cardinality(Under(s)) <= Cardinality(S)
  <2> HIDE DEF S, f
  <2> QED BY <1>1, <1>2, FS_Surjection
<1>4. Cardinality(Under(s)) \in Nat /\ Cardinality(S) \in Nat
  BY <1>1, <1>3, FS_CardinalityType
<1> HIDE DEF S, f
<1> QED BY <1>1, <1>3, <1>4, LongestType

LEMMA LongerType ==
  ASSUME wait \in Waiting
  PROVE  Longer \in Waiting
<1>1. ASSUME NEW s \in Scopes PROVE Longer[s] \in 0..Longest \cup {None}
  <2>1. wait[s] # None => Grown[s] \in Nat
    BY LongestType DEF Grown, Waiting
  <2>2. CASE wait[s] = None
    BY <2>2, LongerValue
  <2>3. CASE wait[s] # None /\ Grown[s] < MaxWait
    <3>1. Longer[s] = Grown[s] /\ Grown[s] \in Nat
      BY <2>1, <2>3, LongerValue
    <3> HIDE DEF Grown, Longer
    <3> QED BY <2>3, <3>1, LongestType, IntervalAssumption DEF Longest
  <2>4. CASE wait[s] # None /\ ~(Grown[s] < MaxWait)
    <3>1. Longer[s] = MaxWait + Cardinality(Under(s))
      BY <2>4, LongerValue
    <3> QED BY <3>1, UnderBound, LongestType, IntervalAssumption DEF Longest
  <2> QED BY <2>2, <2>3, <2>4
<1>2. Longer = [s \in Scopes |-> Longer[s]]
  BY DEF Longer
<1> QED BY <1>1, <1>2 DEF Waiting

(***************************************************************************)
(* The code keeps the time stamp of every wait; the model keeps a wait up  *)
(* to the threshold and above it only its place among the others.  That is *)
(* enough for selectRunnableOperation: as a unit passes, the waits of two  *)
(* scopes compare as before, and a wait is over the threshold exactly when *)
(* the units say so.                                                       *)
(***************************************************************************)
THEOREM LongerKeepsOrder ==
  ASSUME wait \in Waiting, NEW s \in Scopes, NEW t \in Scopes,
         wait[s] # None, wait[t] # None
  PROVE  /\ Longer[s] < Longer[t] <=> wait[s] < wait[t]
         /\ Longer[s] >= MaxWait <=> wait[s] + 1 >= MaxWait
<1>1. ASSUME NEW u \in Scopes, wait[u] # None
      PROVE  wait[u] \in Nat /\ Grown[u] = wait[u] + 1
  BY <1>1, LongestType DEF Waiting, Grown
<1>2. ASSUME NEW u \in Scopes, wait[u] # None
      PROVE  IF Grown[u] < MaxWait THEN Longer[u] = Grown[u]
             ELSE Longer[u] = MaxWait + Cardinality(Under(u))
  BY <1>2, LongerValue
<1>3. ASSUME NEW u \in Scopes, NEW v \in Scopes, wait[u] # None, wait[v] # None,
             Grown[u] >= MaxWait, Grown[u] < Grown[v]
      PROVE  Cardinality(Under(u)) < Cardinality(Under(v))
  <2>1. Grown[u] \in Nat /\ Grown[v] \in Nat
    BY <1>1, <1>3
  <2>2. Under(u) \subseteq Under(v)
    <3> SUFFICES ASSUME NEW x \in Scopes, wait[x] # None, MaxWait <= Grown[x],
                        Grown[x] < Grown[u]
                 PROVE  Grown[x] < Grown[v]
      BY DEF Under
    <3>1. Grown[x] \in Nat
      BY <1>1
    <3> HIDE DEF Grown
    <3> QED BY <1>3, <2>1, <3>1
  <2>3. Grown[u] \in Under(v)
    BY <1>3, <2>1, IntervalAssumption DEF Under
  <2>4. Grown[u] \notin Under(u)
    <3> SUFFICES ASSUME NEW x \in Scopes, wait[x] # None, Grown[x] < Grown[u], Grown[x] = Grown[u]
                 PROVE  FALSE
      BY DEF Under
    <3> HIDE DEF Grown
    <3> QED BY <2>1
  <2>5. Cardinality(Under(u)) <= Cardinality(Under(v)) /\ Cardinality(Under(u)) # Cardinality(Under(v))
    BY <2>2, <2>3, <2>4, UnderBound, FS_Subset
  <2> QED BY <2>5, UnderBound, LongestType
<1>4. Cardinality(Under(s)) \in Nat /\ Cardinality(Under(t)) \in Nat
  BY UnderBound, LongestType
<1>5. Grown[s] = Grown[t] => Under(s) = Under(t)
  BY DEF Under
<1>6. wait[s] \in Nat /\ wait[t] \in Nat /\ Grown[s] = wait[s] + 1 /\ Grown[t] = wait[t] + 1
  BY <1>1
<1>7. MaxWait \in Nat
  BY IntervalAssumption
<1>8. /\ IF Grown[s] < MaxWait THEN Longer[s] = Grown[s]
         ELSE Longer[s] = MaxWait + Cardinality(Under(s))
      /\ IF Grown[t] < MaxWait THEN Longer[t] = Grown[t]
         ELSE Longer[t] = MaxWait + Cardinality(Under(t))
  BY <1>2
<1>9. /\ Grown[s] >= MaxWait /\ Grown[s] < Grown[t]
            => Cardinality(Under(s)) < Cardinality(Under(t))
      /\ Grown[t] >= MaxWait /\ Grown[t] < Grown[s]
            => Cardinality(Under(t)) < Cardinality(Under(s))
  BY <1>3
<1> HIDE DEF Grown, Longer, Under
<1>10. Longer[s] >= MaxWait <=> wait[s] + 1 >= MaxWait
  BY <1>4, <1>6, <1>7, <1>8
<1>11. CASE wait[s] < wait[t]
  BY <1>4, <1>6, <1>7, <1>8, <1>9, <1>11
<1>12. CASE wait[s] = wait[t]
  BY <1>4, <1>5, <1>6, <1>7, <1>8, <1>12
<1>13. CASE wait[t] < wait[s]
  BY <1>4, <1>6, <1>7, <1>8, <1>9, <1>13
<1> QED BY <1>6, <1>10, <1>11, <1>12, <1>13

(***************************************************************************)
(* The choice                                                              *)
(***************************************************************************)

(* What a choice promises: an operation that is ready, and turns of which  *)
(* the race reads' is owed only together with the side lane's.             *)
Sound(c, ready) ==
    /\ c.op \in ready \cup {None}
    /\ c.farm \in BOOLEAN /\ c.sync \in BOOLEAN /\ (c.sync => c.farm)

LEMMA ChoiceIsSound ==
  ASSUME wait \in Waiting, farmTurn \in BOOLEAN, syncTurn \in BOOLEAN, syncTurn => farmTurn,
         plan \subseteq Ops, NEW q, NEW ages
  PROVE  Sound(Selection(q, ages), Ready(q, ages))
<1> DEFINE ready == Ready(q, ages)
           due == Overdue(ready)
           mutation == ready \cap Mutations
           sync == ready \cap Syncs
           farm == ready \cap Farm
           owed(turn) == turn /\ Eligible \cap Scopes # {}
           c == Selection(q, ages)
<1>1. ready \subseteq Eligible /\ ready \subseteq Ops /\ due \subseteq Eligible \cap Scopes
      /\ due \subseteq ready
  BY DEF Ready, Eligible, Overdue
<1>2. /\ mutation # {} => First(mutation) \in ready
      /\ sync # {} => First(sync) \in ready
      /\ farm # {} => First(farm) \in ready
      /\ ready # {} => First(ready) \in ready
  <2>1. mutation \subseteq Ops /\ sync \subseteq Ops /\ farm \subseteq Ops
    BY <1>1
  <2> QED BY <1>1, <2>1, FirstIsFirst
<1>3. due # {} => Oldest(due) \in ready
  BY <1>1, OldestIsOldest
<1>4. \/ mutation # {} /\ c = [op |-> First(mutation), farm |-> TRUE, sync |-> FALSE]
      \/ c = [op |-> None, farm |-> owed(farmTurn), sync |-> owed(syncTurn)]
      \/ farm # {} /\ c = [op |-> First(farm), farm |-> FALSE, sync |-> FALSE]
      \/ sync # {} /\ c = [op |-> First(sync), farm |-> TRUE, sync |-> TRUE]
      \/ due # {} /\ c = [op |-> Oldest(due), farm |-> TRUE, sync |-> FALSE]
      \/ ready # {} /\ c = [op |-> First(ready), farm |-> First(ready) \notin Farm /\ owed(farmTurn),
                            sync |-> FALSE]
  BY ZenonT(60) DEF Selection, Choice
<1> HIDE DEF ready, due, mutation, sync, farm, c
<1>5. Sound(c, ready)
  <2>1. owed(farmTurn) \in BOOLEAN /\ owed(syncTurn) \in BOOLEAN
        /\ (owed(syncTurn) => owed(farmTurn))
    OBVIOUS
  <2>2. ASSUME NEW o \in ready \cup {None}, NEW f \in BOOLEAN, NEW y \in BOOLEAN, y => f,
               c = [op |-> o, farm |-> f, sync |-> y]
        PROVE  Sound(c, ready)
    BY <2>2 DEF Sound
  <2> HIDE DEF owed
  <2>3. (First(ready) \notin Farm /\ owed(farmTurn)) \in BOOLEAN
    OBVIOUS
  <2> QED BY <1>2, <1>3, <1>4, <2>1, <2>2, <2>3
<1> QED BY <1>5 DEF c, ready

(* Taking a sound turn.                                                    *)
LEMMA TurnTaken ==
  ASSUME wait \in Waiting, NEW c, NEW ready, Sound(c, ready), TakeTurn(c)
  PROVE  wait' \in Waiting /\ farmTurn' \in BOOLEAN /\ syncTurn' \in BOOLEAN /\ (syncTurn' => farmTurn')
<1>1. Waits \in Waiting
  BY WaitsType
<1>2. wait' = [s \in Scopes |-> IF s = c.op THEN None ELSE Waits[s]]
  BY DEF TakeTurn
<1>3. wait' \in Waiting
  <2> HIDE DEF Waits
  <2> QED BY <1>1, <1>2 DEF Waiting
<1> QED BY <1>3 DEF TakeTurn, Sound

(***************************************************************************)
(* Types                                                                   *)
(***************************************************************************)

LEMMA TypeInit == Init => TypeOK
<1> SUFFICES ASSUME Init PROVE TypeOK
  OBVIOUS
<1>1. wait \in [Scopes -> 0..(MaxWait + Cardinality(Scopes)) \cup {None}]
  BY DEF Init
<1>2. cool \in [Scopes -> 0..Cooldown] /\ age \in [Kinds -> 0..RepeatInterval]
      /\ quiet \in 0..RequestInterval /\ late \in 0..Interval /\ budget \in 0..MaxSurprises
  BY IntervalAssumption, BoundsAssumption DEF Init
<1> QED BY <1>1, <1>2 DEF Init, TypeOK

(* A choice, and the turn it takes.                                        *)
LEMMA SelectType ==
  ASSUME TypeOK, NEW q, NEW ages, TakeTurn(Selection(q, ages))
  PROVE  /\ Selection(q, ages).op \in Ops \cup {None}
         /\ wait' \in Waiting /\ farmTurn' \in BOOLEAN /\ syncTurn' \in BOOLEAN
         /\ syncTurn' => farmTurn'
<1>1. wait \in Waiting /\ farmTurn \in BOOLEAN /\ syncTurn \in BOOLEAN /\ (syncTurn => farmTurn)
      /\ plan \subseteq Ops
  BY DEF TypeOK, Waiting, Longest
<1>2. Sound(Selection(q, ages), Ready(q, ages))
  BY <1>1, ChoiceIsSound
<1>3. Ready(q, ages) \subseteq Ops
  BY <1>1 DEF Ready, Eligible
<1>4. Selection(q, ages).op \in Ops \cup {None}
  BY <1>2, <1>3 DEF Sound
<1> QED BY <1>1, <1>2, <1>4, TurnTaken

LEMMA ResetType ==
  ASSUME resetSideLaneFairness
  PROVE  wait' \in Waiting /\ farmTurn' = FALSE /\ syncTurn' = FALSE
BY DEF resetSideLaneFairness, Waiting

(* A request is stamped.                                                   *)
LEMMA StampedType ==
  ASSUME TypeOK, NEW k \in Kinds, Stamped(k)
  PROVE  quiet' \in 0..RequestInterval /\ age' \in [Kinds -> 0..RepeatInterval]
BY IntervalAssumption DEF TypeOK, Stamped

(* The tick keeps the types: whatever it sends first, its choice is sound. *)
LEMMA DecideType == TypeOK /\ Decide => TypeOK'
<1> SUFFICES ASSUME TypeOK, Decide PROVE TypeOK'
  OBVIOUS
<1>1. late' = 0 /\ 0 \in 0..Interval /\ 0 \in 0..RequestInterval
  BY IntervalAssumption
     DEF Decide, TickIdle, TickBootstrap, TickBatch, TickEnter, Tick
<1> USE DEF TypeOK, turns, pacer, Waiting, Longest
<1>2. CASE TickIdle
  BY <1>1, <1>2, ResetType DEF TickIdle
<1>3. CASE TickBootstrap
  BY <1>1, <1>3, SelectType DEF TickBootstrap, Select
<1>4. CASE TickBatch
  <2>1. /\ wait' \in Waiting /\ farmTurn' \in BOOLEAN /\ syncTurn' \in BOOLEAN
        /\ syncTurn' => farmTurn'
    <3>1. CASE UNCHANGED turns
      BY <3>1
    <3>2. CASE TakeTurn(Selection(quiet, age))
      BY <3>2, SelectType
    <3> QED BY <1>4, <3>1, <3>2 DEF TickBatch
  <2>2. cur' = cur /\ batch' = FALSE /\ quiet' = 0
        /\ UNCHANGED <<plan, up, age, cool, enter, budget>>
    BY <1>4 DEF TickBatch
  <2> QED BY <1>1, <2>1, <2>2
<1>5. CASE TickEnter
  <2>1. quiet' \in 0..RequestInterval /\ age' \in [Kinds -> 0..RepeatInterval]
    BY <1>5, StampedType, KindAssumption DEF TickEnter
  <2>2. /\ cur' \in Ops \cup {None}
        /\ wait' \in Waiting /\ farmTurn' \in BOOLEAN /\ syncTurn' \in BOOLEAN
        /\ syncTurn' => farmTurn'
    <3>1. PICK q, ages : Select(q, ages)
      BY <1>5 DEF TickEnter
    <3> QED BY <3>1, SelectType DEF Select
  <2> QED BY <1>1, <1>5, <2>1, <2>2 DEF TickEnter
<1>6. CASE Tick
  BY <1>1, <1>6, SelectType DEF Tick, Select
<1> QED BY <1>2, <1>3, <1>4, <1>5, <1>6 DEF Decide

LEMMA ExecuteType == TypeOK /\ Execute => TypeOK'
<1> SUFFICES ASSUME TypeOK, Execute PROVE TypeOK'
  OBVIOUS
<1>1. cur \in Ops /\ Kind[cur] \in Kinds
  BY KindAssumption DEF Execute, TypeOK
<1>2. quiet' \in 0..RequestInterval /\ age' \in [Kinds -> 0..RepeatInterval]
  BY <1>1, StampedType DEF Execute, TypeOK, pacer
<1>3. cool' \in [Scopes -> 0..Cooldown]
  BY IntervalAssumption DEF Execute, TypeOK
<1> QED BY <1>2, <1>3 DEF Execute, TypeOK, turns

LEMMA AdvanceType == TypeOK /\ Advance => TypeOK'
<1> SUFFICES ASSUME TypeOK, Advance PROVE TypeOK'
  OBVIOUS
<1>1. \A top \in Nat : \A n \in 0..top : Older(n, top) \in 0..top
  BY DEF Older
<1>2. wait' \in [Scopes -> 0..(MaxWait + Cardinality(Scopes)) \cup {None}]
  BY LongerType DEF Advance, TypeOK, Waiting, Longest
<1>3. quiet' \in 0..RequestInterval /\ late' \in 0..Interval
  BY <1>1, IntervalAssumption DEF Advance, TypeOK
<1>4. age' \in [Kinds -> 0..RepeatInterval]
  BY <1>1, IntervalAssumption DEF Advance, TypeOK
<1>5. cool' \in [Scopes -> 0..Cooldown]
  BY IntervalAssumption DEF Advance, TypeOK
<1> QED BY <1>2, <1>3, <1>4, <1>5 DEF Advance, TypeOK

(* The environment.                                                        *)
LEMMA SurpriseType ==
  TypeOK /\ (Replan \/ BatchAnnounced \/ Outage \/ \E k \in Kinds : Other(k)) => TypeOK'
<1> SUFFICES ASSUME TypeOK, Replan \/ BatchAnnounced \/ Outage \/ \E k \in Kinds : Other(k)
             PROVE  TypeOK'
  OBVIOUS
<1>1. Surprise => budget' \in 0..MaxSurprises
  BY BoundsAssumption DEF Surprise, TypeOK
<1>2. CASE Replan
  <2>1. plan' \subseteq Ops
    BY <1>2 DEF Replan, TypeOK
  <2> QED BY <1>1, <1>2, <2>1 DEF Replan, TypeOK, turns, pacer
<1>3. CASE BatchAnnounced
  BY <1>1, <1>3 DEF BatchAnnounced, TypeOK, turns, pacer
<1>4. CASE Outage
  BY <1>4, ResetType DEF Outage, TypeOK, turns, pacer, Waiting, Longest
<1>5. ASSUME NEW k \in Kinds, Other(k) PROVE TypeOK'
  BY <1>1, <1>5, StampedType DEF Other, TypeOK, turns, pacer
<1> QED BY <1>2, <1>3, <1>4, <1>5

(* Ages, waits and cooldowns stay within their bounds, and the turn a race *)
(* read owes to farm work stands only while the side lane's does, whatever *)
(* the planner offers and in whatever order ticks, requests and outages    *)
(* come.                                                                   *)
THEOREM TypeTheorem == Spec => []TypeOK
<1>1. TypeOK /\ [Next]_vars => TypeOK'
  <2>1. TypeOK /\ UNCHANGED vars => TypeOK'
    BY DEF TypeOK, vars, pacer, turns
  <2> QED BY <2>1, DecideType, ExecuteType, AdvanceType, SurpriseType DEF Next
<1> QED BY TypeInit, <1>1, PTL DEF Spec

(* The tick executes only what it was offered and what does not cool down, *)
(* even when the choice is made before the preamble sends its requests.    *)
THEOREM ChosenTheorem == Spec => [][cur' \notin {cur, None} => cur' \in Eligible]_vars
<1>1. TypeOK /\ [Next]_vars => [cur' \notin {cur, None} => cur' \in Eligible]_vars
  <2> SUFFICES ASSUME TypeOK, Next, cur' \notin {cur, None} PROVE cur' \in Eligible
    BY DEF vars
  <2>1. Decide
    BY DEF Next, Advance, Execute, Replan, BatchAnnounced, Outage, Other
  <2>2. PICK q, ages : Select(q, ages)
    BY <2>1 DEF Decide, TickIdle, TickBootstrap, TickBatch, TickEnter, Tick
  <2>3. Sound(Selection(q, ages), Ready(q, ages))
    BY ChoiceIsSound DEF TypeOK, Waiting, Longest
  <2> QED BY <2>2, <2>3 DEF Sound, Select, Ready
<1> QED BY TypeTheorem, <1>1, PTL DEF Spec
=============================================================================
