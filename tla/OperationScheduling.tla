------------------------ MODULE OperationScheduling ------------------------
(***************************************************************************)
(* Which operation an account's runner sends next, and when: the tick of   *)
(* internal/runner/loop.go, selectRunnableOperation of side_lane.go, the   *)
(* request pacing of request_pacing.go and the cooldowns of cooldown.go.   *)
(*                                                                         *)
(* The planner offers operations in an order: contested race mutations and *)
(* race syncs first, then farm work, then the side lane (orders, shops,    *)
(* the union, activities). One request at a time leaves, spaced from the   *)
(* last one of the account and from the last one of its kind. A side scope *)
(* that has waited long enough goes before farm work, and one farm         *)
(* operation follows it; a mutation about to be ready keeps its slot free. *)
(*                                                                         *)
(* Time passes in units. What matters of a time stamp is its age, up to    *)
(* the interval it is compared with; of waits that are over the threshold  *)
(* it is their order. A failed operation cools for a fixed time (the code  *)
(* doubles it). What is offered, and in particular every check of          *)
(* the game state (resources, harvest blocks, tried upgrades, the interval *)
(* between race deletions), is environment. Each operation is its own      *)
(* cooldown key and wait scope.                                            *)
(***************************************************************************)
EXTENDS Naturals, FiniteSets

CONSTANTS
    Mutations, \* urgent race operations that change something (IsUrgentRaceOp)
    Syncs,     \* urgent race operations that only read (isYieldingRaceSync)
    Farm,      \* operations of the farm lane
    Side,      \* the other operations of the side lane
    Kinds, Kind, \* the pacing scope of each operation
    Rank,      \* the planner's order
    Enter,     \* the kind of the sync in the tick's preamble (waterwheel.enter)
    None,
    RequestInterval, RepeatInterval, MaxWait, \* the intervals, in units
    Interval,  \* the decision interval
    Cooldown,  \* units for which a failed operation is not tried
    MaxSurprises, \* bound: changes of the plan, requests from elsewhere and
                  \* activity batches, together
    Crowd         \* bound: operations offered while they happen

Scopes == Syncs \cup Mutations \cup Side \* everything with a wait scope
Ops    == Scopes \cup Farm

ASSUME KindAssumption == Kind \in [Ops -> Kinds] /\ Enter \in Kinds
ASSUME RankAssumption == Rank \in [Ops -> Nat] /\ \A o, p \in Ops : Rank[o] = Rank[p] => o = p
ASSUME IntervalAssumption ==
    /\ RequestInterval \in Nat \ {0} /\ RepeatInterval \in Nat /\ RequestInterval <= RepeatInterval
    /\ MaxWait \in Nat /\ Interval \in Nat \ {0} /\ Cooldown \in Nat
ASSUME NoneAssumption == None \notin Ops
ASSUME FiniteAssumption == IsFiniteSet(Ops)
ASSUME BoundsAssumption == MaxSurprises \in Nat /\ Crowd \in Nat

VARIABLES
    plan,     \* the operations offered, blocked ones left out
    up,       \* a session is there and automation is on
    quiet,    \* units since the account's last request (lastRequest)
    age,      \* units since the last request of a kind (lastScope)
    wait,     \* units since a scope began to wait (sideLaneFirstWait), None if it does not
    cool,     \* units left of an operation's cooldown (operationCooldowns)
    farmTurn, \* sideLaneFarmTurn
    syncTurn, \* raceSyncNeedsFarmTurn
    cur,      \* the operation the tick has chosen and executes
    late,     \* units since the last decision
    enter,    \* the preamble's sync is due
    batch,    \* an activity batch waits to be synced
    budget    \* what is left of MaxSurprises

turns == <<wait, farmTurn, syncTurn>>
pacer == <<quiet, age>>
vars  == <<plan, up, pacer, turns, cool, cur, late, enter, batch, budget>>

(* Ages, waits and turns have their types, and the farm turn a race read    *)
(* owes (raceSyncNeedsFarmTurn) is never left standing when the side lane's *)
(* own farm turn has been paid (sideLaneFarmTurn).                          *)
TypeOK ==
    /\ plan \subseteq Ops
    /\ up \in BOOLEAN
    /\ quiet \in 0..RequestInterval
    /\ age \in [Kinds -> 0..RepeatInterval]
    /\ wait \in [Scopes -> 0..(MaxWait + Cardinality(Scopes)) \cup {None}]
    /\ cool \in [Scopes -> 0..Cooldown]
    /\ farmTurn \in BOOLEAN /\ syncTurn \in BOOLEAN /\ (syncTurn => farmTurn)
    /\ cur \in Ops \cup {None}
    /\ late \in 0..Interval
    /\ enter \in BOOLEAN /\ batch \in BOOLEAN
    /\ budget \in 0..MaxSurprises

Init ==
    /\ plan \in SUBSET Ops
    /\ up = TRUE
    /\ quiet = RequestInterval
    /\ age = [k \in Kinds |-> RepeatInterval]
    /\ wait = [s \in Scopes |-> None]
    /\ cool = [s \in Scopes |-> 0]
    /\ farmTurn = FALSE /\ syncTurn = FALSE
    /\ cur = None
    /\ late = 0
    /\ enter \in BOOLEAN
    /\ batch \in BOOLEAN
    /\ budget = MaxSurprises

-----------------------------------------------------------------------------
(* Request pacing.                                                         *)

\* delayLocked: the units until a request of kind k may leave.
Delay(k, q, ages) ==
    LET account == RequestInterval - q
        scope   == RepeatInterval - ages[k] IN
    IF account < scope THEN scope ELSE account

\* wait: the request of kind k is stamped as the last one.
Stamped(k) == quiet' = 0 /\ age' = [age EXCEPT ![k] = 0]

-----------------------------------------------------------------------------
(* selectRunnableOperation, on the pacer's state q and ages.               *)

First(S) == CHOOSE o \in S : \A p \in S : Rank[o] <= Rank[p]

\* Offered and not cooling; a farm operation never cools.
Eligible == {o \in plan : o \in Scopes => cool[o] = 0}

Ready(q, ages) == {o \in Eligible : Delay(Kind[o], q, ages) = 0}

\* Mutant: a mutation that is paced at all blocks everything else.
ReservedWhilePaced(q, ages) ==
    \E o \in Eligible \cap Mutations : Delay(Kind[o], q, ages) > 0

\* reserveUrgentSlot: a mutation is within one account interval of its turn.
Reserved(q, ages) ==
    \E o \in Eligible \cap Mutations : Delay(Kind[o], q, ages) \in 1..RequestInterval

\* Mutant: a scope that is not ready to be sent forgets its wait.
WaitsWhenReady == [s \in Scopes |-> IF s \notin Ready(quiet, age) THEN None
                                   ELSE IF wait[s] = None THEN 0 ELSE wait[s]]

\* A scope waits from when it becomes eligible, whether or not it is ready.
Waits == [s \in Scopes |-> IF s \notin Eligible THEN None
                          ELSE IF wait[s] = None THEN 0 ELSE wait[s]]

Overdue(ready) == {s \in ready \cap Scopes : Waits[s] >= MaxWait}

\* The overdue scope that waits longest, in planner order among equals.
Oldest(due) == First({s \in due : \A t \in due : Waits[t] <= Waits[s]})

\* The operation chosen and the turns after the choice.
Choice(ready, reserved) ==
    LET owed(turn) == turn /\ Eligible \cap Scopes # {}
        mutation == ready \cap Mutations
        sync     == ready \cap Syncs
        farm     == ready \cap Farm
        due      == Overdue(ready)
        pick(o, f, s) == [op |-> o, farm |-> f, sync |-> s]
        farmPick == pick(First(farm), FALSE, FALSE) IN
    CASE mutation # {} -> pick(First(mutation), TRUE, FALSE)
      [] mutation = {} /\ reserved -> pick(None, owed(farmTurn), owed(syncTurn))
      [] mutation = {} /\ ~reserved /\ sync # {} /\ due = {} ->
            IF owed(syncTurn) /\ farm # {} THEN farmPick ELSE pick(First(sync), TRUE, TRUE)
      [] OTHER ->
            IF owed(farmTurn) /\ farm # {} THEN farmPick
            ELSE IF due # {} THEN pick(Oldest(due), TRUE, FALSE)
            ELSE IF ready = {} THEN pick(None, owed(farmTurn), owed(syncTurn))
            ELSE pick(First(ready), First(ready) \notin Farm /\ owed(farmTurn), FALSE)

Selection(q, ages) == Choice(Ready(q, ages), Reserved(q, ages))

\* Mutant: a farm operation does not pay what a race read owes.
TakeTurnKeepsSync(c) ==
    /\ farmTurn' = c.farm /\ syncTurn' = (c.sync \/ syncTurn)
    /\ wait' = [s \in Scopes |-> IF s = c.op THEN None ELSE Waits[s]]

\* What a selection does to the turns: the chosen scope waits afresh.
TakeTurn(c) ==
    /\ farmTurn' = c.farm /\ syncTurn' = c.sync
    /\ wait' = [s \in Scopes |-> IF s = c.op THEN None ELSE Waits[s]]

Select(q, ages) == TakeTurn(Selection(q, ages)) /\ cur' = Selection(q, ages).op

\* Race work may be due (RaceBootstrapDue); then the tick selects at once.
RaceOps == Mutations \cup Syncs
Urgent  == Selection(quiet, age).op \in RaceOps \cup {None}

-----------------------------------------------------------------------------
(* The tick.                                                               *)

resetSideLaneFairness ==
    /\ wait' = [s \in Scopes |-> None]
    /\ farmTurn' = FALSE /\ syncTurn' = FALSE

Due == late > 0 /\ cur = None

\* Not connected, or automation off.
TickIdle ==
    /\ Due /\ ~up /\ late' = 0
    /\ resetSideLaneFairness
    /\ UNCHANGED <<plan, up, pacer, cool, cur, enter, batch, budget>>

\* Race work is due: the choice is made before the preamble. An urgent one, or
\* none at all, skips the preamble.
TickBootstrap ==
    /\ Due /\ up /\ plan \cap RaceOps # {} /\ Urgent
    /\ late' = 0
    /\ Select(quiet, age)
    /\ UNCHANGED <<plan, up, pacer, cool, enter, batch, budget>>

BatchDue == batch /\ quiet = RequestInterval

\* tickActivityBatchSync ends the tick; a choice made before is lost, and its
\* turn with it.
TickBatch ==
    /\ Due /\ up /\ BatchDue
    /\ late' = 0
    /\ batch' = FALSE
    /\ quiet' = 0
    /\ \/ UNCHANGED <<cur, turns>>
       \/ plan \cap RaceOps # {} /\ ~Urgent /\ TakeTurn(Selection(quiet, age)) /\ UNCHANGED cur
    /\ UNCHANGED <<plan, up, age, cool, enter, budget>>

\* The preamble's sync waits for its pacing inside the tick and is sent; it
\* stays due unless it succeeds. The choice is made after it, or was made
\* before it.
TickEnter ==
    /\ Due /\ up /\ ~BatchDue /\ enter
    /\ Delay(Enter, quiet, age) = 0
    /\ late' = 0
    /\ Stamped(Enter)
    /\ enter' \in BOOLEAN
    /\ \/ Select(quiet', age')
       \/ plan \cap RaceOps # {} /\ ~Urgent /\ Select(quiet, age)
    /\ UNCHANGED <<plan, up, cool, batch, budget>>

\* Nothing to do before the choice.
Tick ==
    /\ Due /\ up /\ ~BatchDue /\ ~enter
    /\ late' = 0
    /\ Select(quiet, age)
    /\ UNCHANGED <<plan, up, pacer, cool, enter, batch, budget>>

\* executeOperation: refused by a check before the request, or sent when the
\* pacer lets it; it succeeds or not. A side operation that fails cools down.
Execute ==
    /\ cur # None
    /\ \/ /\ Delay(Kind[cur], quiet, age) = 0 /\ up
          /\ Stamped(Kind[cur])
          /\ IF cur \in Scopes THEN \E c \in {0, Cooldown} : cool' = [cool EXCEPT ![cur] = c]
             ELSE UNCHANGED cool
       \/ /\ cool' = IF cur \in Scopes THEN [cool EXCEPT ![cur] = Cooldown] ELSE cool
          /\ UNCHANGED pacer
    /\ cur' = None
    /\ UNCHANGED <<plan, up, turns, late, enter, batch, budget>>
-----------------------------------------------------------------------------
(* Time and the environment.                                               *)

Older(n, top) == IF n < top THEN n + 1 ELSE top

\* Waits over the threshold keep their order only.
Longer ==
    LET next == [s \in Scopes |-> IF wait[s] = None THEN 0 ELSE wait[s] + 1]
        under(s) == {next[t] : t \in {t \in Scopes : wait[t] # None
                                        /\ MaxWait <= next[t] /\ next[t] < next[s]}} IN
    [s \in Scopes |-> IF wait[s] = None THEN None
                     ELSE IF next[s] < MaxWait THEN next[s]
                     ELSE MaxWait + Cardinality(under(s))]

\* The tick in the preamble waits for its sync.
Blocked == up /\ enter /\ Delay(Enter, quiet, age) > 0

\* A unit passes; a decision comes within its interval, an operation leaves as
\* soon as it may.
Advance ==
    /\ IF cur = None THEN late < Interval \/ Blocked ELSE Delay(Kind[cur], quiet, age) > 0
    /\ quiet' = Older(quiet, RequestInterval)
    /\ age' = [k \in Kinds |-> Older(age[k], RepeatInterval)]
    /\ wait' = Longer
    /\ cool' = [s \in Scopes |-> IF cool[s] = 0 THEN 0 ELSE cool[s] - 1]
    /\ late' = Older(late, Interval)
    /\ UNCHANGED <<plan, up, farmTurn, syncTurn, cur, enter, batch, budget>>

Surprise == Cardinality(plan) <= Crowd /\ budget > 0 /\ budget' = budget - 1

\* The game state or the policy changes what the planner offers.
Replan ==
    /\ Surprise
    /\ \E o \in Ops : plan' = IF o \in plan THEN plan \ {o} ELSE plan \cup {o}
    /\ UNCHANGED <<up, pacer, turns, cool, cur, late, enter, batch>>

\* A request that no tick chose: a user's command, a login sync.
Other(k) ==
    /\ Surprise
    /\ Delay(k, quiet, age) = 0
    /\ Stamped(k)
    /\ UNCHANGED <<plan, up, turns, cool, cur, late, enter, batch>>

BatchAnnounced ==
    /\ Surprise
    /\ batch' = TRUE
    /\ UNCHANGED <<plan, up, pacer, turns, cool, cur, late, enter>>

\* The session is lost or automation is switched off, and the reverse; a new
\* session has to enter again.
Outage ==
    /\ up' = ~up
    /\ resetSideLaneFairness
    /\ enter' \in IF up THEN {enter} ELSE BOOLEAN
    /\ UNCHANGED <<plan, pacer, cool, cur, late, batch, budget>>

Decide == TickIdle \/ TickBootstrap \/ TickBatch \/ TickEnter \/ Tick

Next ==
    \/ Advance \/ Decide \/ Execute
    \/ Replan \/ BatchAnnounced \/ Outage
    \/ \E k \in Kinds : Other(k)

Spec == Init /\ [][Next]_vars

\* Time passes, the decision loop's timer fires, a pacer's wait ends.
FairSpec == Spec /\ WF_vars(Advance) /\ WF_vars(Decide) /\ WF_vars(Execute)

-----------------------------------------------------------------------------
(* Properties.                                                             *)

\* From some time on the operation is offered to a running account, and the
\* preamble's sync is not in the way.
Stays(o) == <>[](o \in plan /\ up /\ ~enter)

(* Side work, and a race read, that stays on offer is executed again and   *)
(* again, however much farm work, other side work and failures there are:  *)
(* request spacing does not erase its wait, and no lane monopolizes the    *)
(* account (selectRunnableOperation). Contested mutations may starve it.   *)
SideServed ==
    \A s \in Side \cup Syncs : Stays(s) /\ <>[](plan \cap Mutations = {}) => []<>(cur = s)

(* Farm work that stays on offer is executed again and again: after overdue *)
(* side work, after a race read, and between contested mutations, which     *)
(* keep only their last slot free (reserveUrgentSlot). Mutations and reads  *)
(* that alternate may starve it: a mutation clears the turn a read owes.    *)
FarmServed ==
    \A f \in Farm :
        Stays(f) /\ <>[](plan \cap Mutations = {} \/ plan \cap Syncs = {}) => []<>(cur = f)
=============================================================================
