------------------------------ MODULE GameGate ------------------------------
(***************************************************************************)
(* The admission gate of internal/runner/game_gate.go.  A piece of game    *)
(* I/O is admitted by begin, tracked in the work map until its release,    *)
(* and cancelled when the gate is blocked.  wait returns once the tracked  *)
(* work has drained.  Every operation holds g.mu for its whole body, so it *)
(* is one action; wait takes its snapshot under the mutex and then selects *)
(* on the idle channel without it.                                         *)
(*                                                                         *)
(* A Go channel is modelled by its generation: begin makes a new channel   *)
(* when the map was empty, release closes the current one when the map     *)
(* becomes empty again.                                                    *)
(***************************************************************************)
EXTENDS Naturals, FiniteSets

CONSTANTS
    Work,       \* the pieces of game I/O that may ask for admission, each once
    Waiters     \* the calls of wait

VARIABLES
    blocked,    \* g.blocked
    work,       \* the keys of g.work
    phase,      \* per piece of I/O: not yet asked, running, ended
    cancelled,  \* pieces of I/O whose context is cancelled
    idle,       \* generation of the channel in g.idle, 0 when it is still nil
    closed,     \* generations of the channels that have been closed
    wpc,        \* where each call of wait is
    wchan,      \* the channel a waiting call selects on
    held        \* history: blocked has held since this call of wait began

gateVars == <<blocked, work, phase, cancelled, idle, closed>>
waitVars == <<wpc, wchan, held>>
vars == <<blocked, work, phase, cancelled, idle, closed, wpc, wchan, held>>

\* Generations in use: channel 0 stands for the nil channel.
Channels == Nat

Init ==
    /\ blocked = FALSE
    /\ work = {}
    /\ phase = [w \in Work |-> "new"]
    /\ cancelled = {}
    /\ idle = 0
    /\ closed = {}
    /\ wpc = [x \in Waiters |-> "out"]
    /\ wchan = [x \in Waiters |-> 0]
    /\ held = [x \in Waiters |-> FALSE]

----------------------------------------------------------------------------
(* Mutated operations, for the runs that show what each property rejects. *)

\* begin without the test of g.blocked.
BeginIgnoresBlock(w) ==
    /\ phase[w] = "new"
    /\ w \notin cancelled
    /\ idle' = IF work = {} THEN idle + 1 ELSE idle
    /\ work' = work \cup {w}
    /\ phase' = [phase EXCEPT ![w] = "running"]
    /\ UNCHANGED <<blocked, cancelled, closed, waitVars>>

\* begin that keeps the channel of the previous busy period.
BeginKeepsChannel(w) ==
    /\ phase[w] = "new"
    /\ ~blocked /\ w \notin cancelled
    /\ idle' = IF idle = 0 THEN 1 ELSE idle
    /\ work' = work \cup {w}
    /\ phase' = [phase EXCEPT ![w] = "running"]
    /\ UNCHANGED <<blocked, cancelled, closed, waitVars>>

\* release that closes the channel whenever one piece of work ends.
ReleaseClosesEarly(w) ==
    /\ phase[w] = "running"
    /\ phase' = [phase EXCEPT ![w] = "ended"]
    /\ work' = work \ {w}
    /\ cancelled' = cancelled \cup {w}
    /\ closed' = closed \cup {idle}
    /\ UNCHANGED <<blocked, idle, waitVars>>

\* block that only closes admission.
BlockKeepsWork ==
    /\ blocked' = TRUE
    /\ UNCHANGED <<work, phase, cancelled, idle, closed, waitVars>>
----------------------------------------------------------------------------

\* begin: refused while blocked and for a context that is already cancelled.
begin(w) ==
    /\ phase[w] = "new"
    /\ ~blocked /\ w \notin cancelled
    /\ idle' = IF work = {} THEN idle + 1 ELSE idle
    /\ work' = work \cup {w}
    /\ phase' = [phase EXCEPT ![w] = "running"]
    /\ UNCHANGED <<blocked, cancelled, closed, waitVars>>

beginRefused(w) ==
    /\ phase[w] = "new"
    /\ blocked \/ w \in cancelled
    /\ phase' = [phase EXCEPT ![w] = "ended"]
    /\ UNCHANGED <<blocked, work, cancelled, idle, closed, waitVars>>

\* The release function returned by begin; sync.Once lets it act one time.
release(w) ==
    /\ phase[w] = "running"
    /\ phase' = [phase EXCEPT ![w] = "ended"]
    /\ work' = work \ {w}
    /\ cancelled' = cancelled \cup {w}
    /\ closed' = IF work \ {w} = {} THEN closed \cup {idle} ELSE closed
    /\ UNCHANGED <<blocked, idle, waitVars>>

block ==
    /\ blocked' = TRUE
    /\ cancelled' = cancelled \cup work
    /\ UNCHANGED <<work, phase, idle, closed, waitVars>>

open ==
    /\ blocked' = FALSE
    /\ held' = [x \in Waiters |-> FALSE]
    /\ UNCHANGED <<work, phase, cancelled, idle, closed, wpc, wchan>>

\* The caller's own context ends: a client goes away or a deadline passes.
CancelParent(w) ==
    /\ w \notin cancelled
    /\ phase[w] # "ended"
    /\ cancelled' = cancelled \cup {w}
    /\ UNCHANGED <<blocked, work, phase, idle, closed, waitVars>>

\* wait: the snapshot of (g.idle, len(g.work)) under the mutex.
wait(x) ==
    /\ wpc[x] = "out"
    /\ wpc' = [wpc EXCEPT ![x] = IF work = {} THEN "returned" ELSE "waiting"]
    /\ wchan' = [wchan EXCEPT ![x] = idle]
    /\ held' = [held EXCEPT ![x] = blocked]
    /\ UNCHANGED gateVars

\* wait: the select receives from the closed channel.
waitIdle(x) ==
    /\ wpc[x] = "waiting"
    /\ wchan[x] \in closed
    /\ wpc' = [wpc EXCEPT ![x] = "returned"]
    /\ UNCHANGED <<gateVars, wchan, held>>

\* wait: the select sees the end of its own context.
waitCancelled(x) ==
    /\ wpc[x] = "waiting"
    /\ wpc' = [wpc EXCEPT ![x] = "failed"]
    /\ UNCHANGED <<gateVars, wchan, held>>

Next ==
    \/ \E w \in Work : begin(w) \/ beginRefused(w) \/ release(w) \/ CancelParent(w)
    \/ block \/ open
    \/ \E x \in Waiters : wait(x) \/ waitIdle(x) \/ waitCancelled(x)

\* Cancelled I/O returns and releases (every begin is paired with a release
\* after the I/O has returned); the runtime schedules a ready select.
Fairness ==
    /\ \A w \in Work : WF_vars(w \in cancelled /\ release(w))
    /\ \A x \in Waiters : WF_vars(waitIdle(x))

Spec == Init /\ [][Next]_vars
FairSpec == Spec /\ Fairness
----------------------------------------------------------------------------

TypeOK ==
    /\ blocked \in BOOLEAN
    /\ work \subseteq Work
    /\ phase \in [Work -> {"new", "running", "ended"}]
    /\ cancelled \subseteq Work
    /\ idle \in Channels
    /\ closed \subseteq Channels
    /\ wpc \in [Waiters -> {"out", "waiting", "returned", "failed"}]
    /\ wchan \in [Waiters -> Channels]
    /\ held \in [Waiters -> BOOLEAN]

(***************************************************************************)
(* A call of wait that returned nil while the gate stayed blocked means    *)
(* that no game I/O is in flight, and none will be until open.             *)
(***************************************************************************)
WaitMeansDrained ==
    \A x \in Waiters : wpc[x] = "returned" /\ held[x] => work = {}

(***************************************************************************)
(* release never closes a channel that is already closed (which panics):   *)
(* while work is tracked, the current channel is open, and every closed    *)
(* generation is an older one or the current one of an idle gate.          *)
(***************************************************************************)
CloseAtMostOnce ==
    work # {} => idle \notin closed

(***************************************************************************)
(* Blocking reaches every admitted piece of I/O, those admitted just       *)
(* before it included: a blocked gate tracks no work with a live context.  *)
(***************************************************************************)
BlockedWorkIsCancelled ==
    blocked => work \subseteq cancelled

(***************************************************************************)
(* A call of wait never hangs: it returns once the gate is drained, unless *)
(* the gate is opened again first.                                         *)
(***************************************************************************)
WaitReturns ==
    \A x \in Waiters :
        (wpc[x] = "waiting" /\ held[x]) ~> (wpc[x] # "waiting" \/ ~held[x])

----------------------------------------------------------------------------
\* The strengthening under which the safety properties are inductive.
ChannelInv ==
    /\ \A g \in closed : g <= idle
    /\ work # {} => idle \notin closed /\ idle # 0
    /\ work = {} /\ idle # 0 => idle \in closed

WorkInv == work = {w \in Work : phase[w] = "running"}

WaiterInv ==
    \A x \in Waiters :
        /\ held[x] => blocked
        /\ wpc[x] = "waiting" => wchan[x] <= idle
        /\ wpc[x] = "waiting" /\ held[x] => wchan[x] = idle

GateInv ==
    /\ TypeOK /\ ChannelInv /\ WorkInv /\ WaiterInv
    /\ WaitMeansDrained /\ CloseAtMostOnce /\ BlockedWorkIsCancelled
=============================================================================
