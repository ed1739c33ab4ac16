--------------------------- MODULE SessionRecovery ---------------------------
(***************************************************************************)
(* One running account: its connection loop, the recovery of a session     *)
(* that another device displaced, and the policy that all of them read and *)
(* write (internal/runner/reconnect.go, session_invalidation.go,           *)
(* login_risk.go, startup_commit.go, Runner.SetPolicy, and SetPolicy of    *)
(* internal/apiserver/policy_service.go).                                  *)
(*                                                                         *)
(* Four kinds of threads share the runner:                                 *)
(*  - Loop, the connection loop;                                           *)
(*  - Notices, callbacks of a connection that report an invalid session;   *)
(*  - Edits, requests that save the account's settings;                    *)
(*  - Ops, lifecycle commands that enable or pause automation, or          *)
(*    disconnect; they hold the account's lifecycle lock.                  *)
(* Each step between two acquisitions of Runner.mu, or accesses to the     *)
(* database, is one action.  Of the policy only automation_enabled (on)    *)
(* and displaced_session_relogin_enabled (relogin) matter here.            *)
(***************************************************************************)
EXTENDS Naturals, FiniteSets

CONSTANTS
    Loop, Notices, Edits, Ops,
    OpKinds,    \* bound: the commands that are exercised
    Impatient,  \* bound: the requests whose context may end before they save
    Casts       \* bound: the sets of requests that come together

Threads == {Loop} \cup Notices \cup Edits \cup Ops
Kinds == {"enable", "pause", "disconnect"}

ASSUME ThreadAssumption ==
    /\ Loop \notin Notices \cup Edits \cup Ops
    /\ Notices \cap (Edits \cup Ops) = {} /\ Edits \cap Ops = {}
    /\ OpKinds \subseteq Kinds
    /\ Impatient \subseteq Edits \cup Ops

VARIABLES
    durable,    \* the stored policy
    live,       \* Runner.policy
    invalid,    \* Runner.sessionInvalidated
    auto,       \* Runner.sessionAutoRelogin
    ctx,        \* the runner's context has not ended
    stopped,    \* Stop has run: cancel = nil, done closed
    registered, \* the runner is in Manager.runners
    sock,       \* the loop's current client
    mode,       \* the loop is in reconnect or in reloginAfterDisplacement
    lock,       \* the account's lifecycle lock is held
    pc, snap, ret,
    off,        \* per thread: the policy that disables automation
    seen,       \* per thread: displaced or auto (notices), runtime (edits, ops)
    op,         \* per op: its kind
    paused      \* history: the last completed command was a pause

flags == <<invalid, auto>>
run == <<ctx, stopped, registered>>
local == <<snap, off, ret, seen, op>>
vars == <<durable, live, invalid, auto, ctx, stopped, registered, sock, mode, lock, pc,
          snap, off, ret, seen, op, paused>>

Policy == [on : BOOLEAN, relogin : BOOLEAN]
LoopPCs == {"serve", "check", "sleep", "prepare", "begin", "login", "verify",
            "complete", "failed", "nil", "end"}
PCs == LoopPCs \cup {"new", "decide", "mark", "get", "persist", "apply", "effective",
        "repersist", "read", "save", "enable", "unregister", "discard", "unlock",
        "failclosed", "disable", "dapply", "dsave", "stop", "done"}

\* A started runner: connected; or without a connection, because the first one
\* failed or because its session was displaced during the first login.
Init ==
    /\ durable \in Policy /\ live = durable
    /\ \/ invalid = FALSE /\ auto = FALSE /\ sock \in {"none", "open"}
       \/ invalid = TRUE /\ auto = TRUE /\ sock = "none" /\ live.relogin
    /\ ctx = TRUE /\ stopped = FALSE /\ registered = TRUE
    /\ mode = "reconnect" /\ lock = FALSE
    /\ pc = [t \in Threads |->
                IF t # Loop THEN "new" ELSE IF sock = "open" THEN "serve" ELSE "check"]
    /\ snap = [t \in Threads |-> durable] /\ off = snap
    /\ ret = [t \in Threads |-> "done"]
    /\ seen = [t \in Threads |-> FALSE]
    /\ op = [o \in Ops |-> "pause"]
    /\ paused = FALSE

\* The requests that have come, and whether t may be one of them.
Come == {t \in Edits \cup Ops : pc[t] # "new"}
MayCome(t) == pc[t] = "new" /\ \E cast \in Casts : Come \cup {t} \subseteq cast

Goto(t, l) == pc' = [pc EXCEPT ![t] = l]
Snap(t, p) == snap' = [snap EXCEPT ![t] = p]

\* t calls a procedure that ends by returning to l.
Call(t, procedure, l) ==
    /\ Goto(t, procedure)
    /\ ret' = [ret EXCEPT ![t] = l]

\* autoReloginPending and sessionInvalidatedWithoutAutoRelogin.
Pending == invalid /\ auto
Dead == invalid /\ ~auto

----------------------------------------------------------------------------
(* Procedures any thread may run.                                          *)

\* SetPolicy: the live policy is replaced, and a pending relogin that it no
\* longer allows is failed closed.
SetPolicy(t, p, next) ==
    /\ live' = p
    /\ IF auto /\ ~p.relogin
       THEN Call(t, "failclosed", next)
       ELSE Goto(t, next) /\ UNCHANGED ret

\* failClosedPendingDisplacedRelogin.
FailClosed(t) ==
    /\ pc[t] = "failclosed"
    /\ IF auto
       THEN /\ invalid' = TRUE /\ auto' = FALSE /\ ctx' = FALSE
            /\ Goto(t, "disable")
       ELSE Goto(t, ret[t]) /\ UNCHANGED <<invalid, auto, ctx>>
    /\ UNCHANGED <<durable, live, stopped, registered, sock, mode, lock, snap, ret, seen,
                   op, off, paused>>

\* disableAutomationPreferenceForInvalidatedSession: read, apply, save.
Disable(t) ==
    /\ pc[t] = "disable"
    /\ off' = IF live.on THEN [off EXCEPT ![t] = [live EXCEPT !.on = FALSE]] ELSE off
    /\ Goto(t, IF live.on THEN "dapply" ELSE "stop")
    /\ UNCHANGED <<durable, live, flags, run, sock, mode, lock, snap, ret, seen, op, paused>>

\* The nested fail-closed finds automation off already: it marks and stops.
DisableApplies(t) ==
    /\ pc[t] = "dapply"
    /\ live' = off[t]
    /\ IF auto /\ ~off[t].relogin
       THEN invalid' = TRUE /\ auto' = FALSE /\ ctx' = FALSE
       ELSE UNCHANGED <<invalid, auto, ctx>>
    /\ Goto(t, "dsave")
    /\ UNCHANGED <<durable, stopped, registered, sock, mode, lock, local, paused>>

DisableSaves(t) ==
    /\ pc[t] = "dsave"
    /\ durable' = off[t]
    /\ Goto(t, "stop")
    /\ UNCHANGED <<live, flags, run, sock, mode, lock, local, paused>>

\* Variant: the context does not end.
StopKeepsContext(t) ==
    /\ pc[t] = "stop"
    /\ stopped' = TRUE
    /\ sock' = IF ~stopped /\ sock = "open" THEN "closed" ELSE sock
    /\ Goto(t, ret[t])
    /\ UNCHANGED <<durable, live, flags, ctx, registered, mode, lock, local, paused>>

\* Stop: end the context and close the installed client.
Stop(t) ==
    /\ pc[t] = "stop"
    /\ stopped' = TRUE /\ ctx' = FALSE
    /\ sock' = IF ~stopped /\ sock = "open" THEN "closed" ELSE sock
    /\ Goto(t, ret[t])
    /\ UNCHANGED <<durable, live, flags, registered, mode, lock, local, paused>>

\* forgetWhenDone.
Forget ==
    /\ stopped /\ registered
    /\ registered' = FALSE
    /\ UNCHANGED <<durable, live, flags, ctx, stopped, sock, mode, lock, pc, local, paused>>

----------------------------------------------------------------------------
(* The connection loop.                                                    *)

\* Only the network takes a connection away from the loop unasked.
ConnectionLost ==
    /\ sock = "open"
    /\ sock' = "closed"
    /\ UNCHANGED <<durable, live, flags, run, mode, lock, pc, local, paused>>

\* The current client is done, or the context has ended (the deferred Close).
ServeEnds ==
    /\ pc[Loop] = "serve" /\ (~ctx \/ sock = "closed")
    /\ sock' = "none"
    /\ Goto(Loop, IF ctx THEN "check" ELSE "end")
    /\ UNCHANGED <<durable, live, flags, run, mode, lock, local, paused>>

\* connectionLoop without a connection chooses what to do next.
Check ==
    /\ pc[Loop] = "check"
    /\ mode' = IF Pending THEN "relogin" ELSE "reconnect"
    /\ Goto(Loop, IF ~ctx \/ Dead THEN "end" ELSE "sleep")
    /\ UNCHANGED <<durable, live, flags, run, sock, lock, local, paused>>

\* The wait of reconnect and of reloginAfterDisplacement.
Wake ==
    /\ pc[Loop] = "sleep"
    /\ Goto(Loop, CASE mode = "relogin" -> IF ctx THEN "prepare" ELSE "end"
                    [] OTHER            -> IF ctx /\ ~invalid THEN "login" ELSE "nil")
    /\ UNCHANGED <<durable, live, flags, run, sock, mode, lock, local, paused>>

\* reconnect gave up: only a displacement keeps the loop alive.
ReconnectReturnsNil ==
    /\ pc[Loop] = "nil"
    /\ Goto(Loop, IF Pending THEN "check" ELSE "end")
    /\ UNCHANGED <<durable, live, flags, run, sock, mode, lock, local, paused>>

\* Variant: the attempt is given up without failing closed.
PrepareGivesUp ==
    /\ pc[Loop] = "prepare"
    /\ Goto(Loop, IF live.relogin THEN "begin" ELSE "end")
    /\ UNCHANGED <<durable, live, flags, run, sock, mode, lock, local, paused>>

\* prepareAutoReloginAttempt: the switch is read, then beginAutoReloginAttempt
\* decides again with the lock held.
Prepare ==
    /\ pc[Loop] = "prepare"
    /\ IF live.relogin THEN Goto(Loop, "begin") /\ UNCHANGED ret
                       ELSE Call(Loop, "failclosed", "end")
    /\ UNCHANGED <<durable, live, flags, run, sock, mode, lock, snap, seen, op, off, paused>>

BeginAttempt ==
    /\ pc[Loop] = "begin"
    /\ IF auto /\ live.relogin
       THEN invalid' = FALSE /\ Goto(Loop, "login") /\ UNCHANGED ret
       ELSE Call(Loop, "failclosed", "end") /\ UNCHANGED invalid
    /\ UNCHANGED <<durable, live, auto, run, sock, mode, lock, snap, seen, op, off, paused>>

\* connectFresh or connectStoredOrFresh: no connection,
LoginFails ==
    /\ pc[Loop] = "login"
    /\ Goto(Loop, "failed")
    /\ UNCHANGED <<durable, live, flags, run, sock, mode, lock, local, paused>>

\* a login that the server refuses (stopForLoginRefusal),
LoginRefused ==
    /\ pc[Loop] = "login"
    /\ invalid' = TRUE /\ auto' = FALSE
    /\ Call(Loop, "disable", "failed")
    /\ UNCHANGED <<durable, live, run, sock, mode, lock, snap, seen, op, off, paused>>

\* or a client, which connectSession installs and then looks at the flags again.
LoginInstalls ==
    /\ pc[Loop] = "login"
    /\ sock' = "open"
    /\ Goto(Loop, "verify")
    /\ UNCHANGED <<durable, live, flags, run, mode, lock, local, paused>>

Verify ==
    /\ pc[Loop] = "verify"
    /\ LET ok == ctx /\ ~invalid IN
       /\ sock' = IF ok THEN sock ELSE "none"
       /\ Goto(Loop, CASE ~ok -> "failed"
                       [] mode = "relogin" -> "complete"
                       [] OTHER -> "serve")
    /\ UNCHANGED <<durable, live, flags, run, mode, lock, local, paused>>

\* completeAutoRelogin accepts the client, or the client is closed again.
CompleteAttempt ==
    LET accepted == ctx /\ auto /\ ~invalid /\ live.relogin IN
    /\ pc[Loop] = "complete"
    /\ auto' = (auto /\ ~accepted)
    /\ sock' = IF accepted THEN sock ELSE "none"
    /\ IF ~accepted /\ ctx /\ ~Pending
       THEN Call(Loop, "failclosed", "end")
       ELSE /\ Goto(Loop, CASE accepted -> "serve" [] ~ctx -> "end" [] OTHER -> "sleep")
            /\ UNCHANGED ret
    /\ UNCHANGED <<durable, live, invalid, run, mode, lock, snap, seen, op, off, paused>>

\* What the two retry loops make of an error.
AttemptFailed ==
    /\ pc[Loop] = "failed"
    /\ Goto(Loop, CASE mode = "relogin" -> IF ~ctx \/ Dead THEN "end" ELSE "sleep"
                    [] OTHER            -> IF ~ctx \/ invalid THEN "nil" ELSE "sleep")
    /\ UNCHANGED <<durable, live, flags, run, sock, mode, lock, local, paused>>

----------------------------------------------------------------------------
(* Notices: handleSessionInvalidated.                                      *)

\* A displacement is also reported during a login; an expiry only by an
\* installed client.  The relogin switch is read here, before the lock.
Notice(n, displaced) ==
    /\ pc[n] = "new"
    /\ sock = "open" \/ (displaced /\ pc[Loop] = "login")
    /\ seen' = [seen EXCEPT ![n] = displaced /\ live.relogin]
    /\ Goto(n, "mark")
    /\ UNCHANGED <<durable, live, flags, run, sock, mode, lock, snap, ret, op, off, paused>>

\* Variant: a second invalidation overwrites the first.
MarkOverwrites(n) ==
    /\ pc[n] = "mark"
    /\ invalid' = TRUE /\ auto' = seen[n]
    /\ sock' = IF seen[n] /\ sock = "open" THEN "closed" ELSE sock
    /\ Goto(n, IF seen[n] THEN "done" ELSE "disable")
    /\ UNCHANGED <<durable, live, run, mode, lock, local, paused>>

\* The first invalidation counts.  With the relogin allowed, the client is
\* closed and the loop takes over; otherwise automation is disabled.
Mark(n) ==
    /\ pc[n] = "mark"
    /\ IF invalid
       THEN Goto(n, "done") /\ UNCHANGED <<invalid, auto, sock>>
       ELSE /\ invalid' = TRUE /\ auto' = seen[n]
            /\ sock' = IF seen[n] /\ sock = "open" THEN "closed" ELSE sock
            /\ Goto(n, IF seen[n] THEN "done" ELSE "disable")
    /\ UNCHANGED <<durable, live, run, mode, lock, local, paused>>

----------------------------------------------------------------------------
(* Edits: SetPolicy of the settings API.                                   *)

\* policyFor: the start/pause intent of the runner, or the stored one, is
\* carried over into the new settings.
EditReads(e, relogin) ==
    /\ MayCome(e)
    /\ Snap(e, [on |-> IF registered THEN live.on ELSE durable.on, relogin |-> relogin])
    /\ Goto(e, "get")
    /\ UNCHANGED <<durable, live, flags, run, sock, mode, lock, ret, seen, op, off, paused>>

EditGets(e) ==
    /\ pc[e] = "get"
    /\ seen' = [seen EXCEPT ![e] = registered]
    /\ Goto(e, "persist")
    /\ UNCHANGED <<durable, live, flags, run, sock, mode, lock, snap, ret, op, off, paused>>

\* persistAndApplyPolicy.
EditPersists(e) ==
    /\ pc[e] = "persist"
    /\ durable' = snap[e]
    /\ Goto(e, IF seen[e] THEN "apply" ELSE "done")
    /\ UNCHANGED <<live, flags, run, sock, mode, lock, local, paused>>

EditApplies(e) ==
    /\ pc[e] = "apply" /\ e \in Edits
    /\ SetPolicy(e, snap[e], "effective")
    /\ UNCHANGED <<durable, flags, run, sock, mode, lock, snap, seen, op, off, paused>>

EditReturns(e) ==
    /\ pc[e] = "effective"
    /\ Snap(e, live)
    /\ Goto(e, IF live = snap[e] THEN "done" ELSE "repersist")
    /\ UNCHANGED <<durable, live, flags, run, sock, mode, lock, ret, seen, op, off, paused>>

EditRepersists(e) ==
    /\ pc[e] = "repersist"
    /\ durable' = snap[e]
    /\ Goto(e, "done")
    /\ UNCHANGED <<live, flags, run, sock, mode, lock, local, paused>>

EditFails(e) ==
    /\ e \in Impatient /\ pc[e] \in {"persist", "repersist"}
    /\ Goto(e, "done")
    /\ UNCHANGED <<durable, live, flags, run, sock, mode, lock, local, paused>>

----------------------------------------------------------------------------
(* Ops: commands under the account's lifecycle lock.                       *)

OpLocks(o, k) ==
    /\ MayCome(o) /\ ~lock
    /\ lock' = TRUE
    /\ op' = [op EXCEPT ![o] = k]
    /\ Goto(o, IF k = "enable" THEN "enable" ELSE "read")
    /\ UNCHANGED <<durable, live, flags, run, sock, mode, snap, ret, seen, off, paused>>

\* Variant: an invalidated session can be enabled.
EnableIgnoresInvalidation(o) ==
    /\ pc[o] = "enable" /\ registered /\ ~stopped
    /\ live' = [live EXCEPT !.on = TRUE]
    /\ durable' = [live EXCEPT !.on = TRUE]
    /\ paused' = FALSE
    /\ Goto(o, "unlock")
    /\ UNCHANGED <<flags, run, sock, mode, lock, local>>

\* StartAutomation on a registered runner: enableAutomation stores and applies
\* in one critical section of Runner.mu.  (A start without a runner is the
\* subject of AccountLifecycle.)
Enable(o) ==
    LET ok == registered /\ ~stopped /\ ~Dead
        p == [live EXCEPT !.on = TRUE]
    IN
    /\ pc[o] = "enable"
    /\ live' = IF ok THEN p ELSE live
    /\ durable' = IF ok THEN p ELSE durable
    /\ paused' = (paused /\ ~ok)
    /\ Goto(o, "unlock")
    /\ UNCHANGED <<flags, run, sock, mode, lock, local>>

\* PauseAutomation: the policy of the runner, or the stored one, is switched
\* off, applied to the runner, and stored.
PauseReads(o) ==
    /\ pc[o] = "read"
    /\ Snap(o, [(IF registered THEN live ELSE durable) EXCEPT !.on = FALSE])
    /\ Goto(o, IF registered THEN "apply" ELSE "save")
    /\ UNCHANGED <<durable, live, flags, run, sock, mode, lock, ret, seen, op, off, paused>>

PauseApplies(o) ==
    /\ pc[o] = "apply" /\ o \in Ops
    /\ SetPolicy(o, snap[o], "save")
    /\ UNCHANGED <<durable, flags, run, sock, mode, lock, snap, seen, op, off, paused>>

AfterPause(o) == IF op[o] = "disconnect" THEN "unregister" ELSE "unlock"

PauseSaves(o) ==
    /\ pc[o] = "save"
    /\ durable' = snap[o]
    /\ paused' = TRUE
    /\ Goto(o, AfterPause(o))
    /\ UNCHANGED <<live, flags, run, sock, mode, lock, local>>

PauseFails(o) ==
    /\ o \in Impatient /\ pc[o] \in {"read", "save"}
    /\ Goto(o, AfterPause(o))
    /\ UNCHANGED <<durable, live, flags, run, sock, mode, lock, local, paused>>

\* Manager.stop: out of the registry, discardSessionInvalidation, Stop.
Unregister(o) ==
    /\ pc[o] = "unregister"
    /\ registered' = FALSE
    /\ Goto(o, IF registered THEN "discard" ELSE "unlock")
    /\ UNCHANGED <<durable, live, flags, ctx, stopped, sock, mode, lock, local, paused>>

\* Variant: the runner is forgotten and not stopped.
DiscardOnly(o) ==
    /\ pc[o] = "discard"
    /\ invalid' = FALSE /\ auto' = FALSE
    /\ Goto(o, "unlock")
    /\ UNCHANGED <<durable, live, run, sock, mode, lock, local, paused>>

Discard(o) ==
    /\ pc[o] = "discard"
    /\ invalid' = FALSE /\ auto' = FALSE
    /\ Call(o, "stop", "unlock")
    /\ UNCHANGED <<durable, live, run, sock, mode, lock, snap, seen, op, off, paused>>

Unlock(o) ==
    /\ pc[o] = "unlock"
    /\ lock' = FALSE
    /\ Goto(o, "done")
    /\ UNCHANGED <<durable, live, flags, run, sock, mode, local, paused>>

----------------------------------------------------------------------------
Closing(t) == FailClosed(t) \/ Disable(t) \/ DisableApplies(t) \/ DisableSaves(t) \/ Stop(t)

LoopStep ==
    \/ ServeEnds \/ Check \/ Wake \/ ReconnectReturnsNil \/ Prepare \/ BeginAttempt
    \/ LoginFails \/ LoginRefused \/ LoginInstalls \/ Verify \/ CompleteAttempt
    \/ AttemptFailed \/ Closing(Loop)

NoticeStep(n) == Mark(n) \/ Closing(n)

EditStep(e) ==
    \/ EditGets(e) \/ EditPersists(e) \/ EditApplies(e) \/ EditReturns(e)
    \/ EditRepersists(e) \/ Closing(e)

OpStep(o) ==
    \/ Enable(o) \/ PauseReads(o) \/ PauseApplies(o) \/ PauseSaves(o)
    \/ Unregister(o) \/ Discard(o) \/ Unlock(o) \/ Closing(o)

Next ==
    \/ LoopStep \/ Forget \/ ConnectionLost
    \/ \E n \in Notices : NoticeStep(n) \/ \E displaced \in BOOLEAN : Notice(n, displaced)
    \/ \E e \in Edits :
          \/ EditStep(e) \/ EditFails(e)
          \/ \E relogin \in BOOLEAN : EditReads(e, relogin)
    \/ \E o \in Ops : OpStep(o) \/ PauseFails(o) \/ \E k \in OpKinds : OpLocks(o, k)

Spec == Init /\ [][Next]_vars

(***************************************************************************)
(* Fairness: timers fire, game requests return, and started requests and   *)
(* callbacks run to their end.  Notices, edits and commands need not come. *)
(***************************************************************************)
Fairness ==
    /\ WF_vars(LoopStep)
    /\ \A n \in Notices : WF_vars(NoticeStep(n))
    /\ \A e \in Edits : WF_vars(EditStep(e))
    /\ \A o \in Ops : WF_vars(OpStep(o))

FairSpec == Spec /\ Fairness
----------------------------------------------------------------------------
TypeOK ==
    /\ durable \in Policy /\ live \in Policy
    /\ invalid \in BOOLEAN /\ auto \in BOOLEAN
    /\ ctx \in BOOLEAN /\ stopped \in BOOLEAN /\ registered \in BOOLEAN
    /\ sock \in {"none", "open", "closed"}
    /\ mode \in {"reconnect", "relogin"}
    /\ lock \in BOOLEAN
    /\ pc \in [Threads -> PCs]
    /\ snap \in [Threads -> Policy] /\ off \in [Threads -> Policy]
    /\ ret \in [Threads -> PCs]
    /\ seen \in [Threads -> BOOLEAN]
    /\ op \in [Ops -> Kinds]
    /\ paused \in BOOLEAN

(***************************************************************************)
(* A session that is over stays over: once an expiry, a refused login or a *)
(* switched-off relogin has marked the runner, no late displacement, login *)
(* success or settings edit brings the relogin back.  Only Manager.stop    *)
(* clears the marks, of a runner it is about to stop.                      *)
(***************************************************************************)
DeadStaysDead ==
    [][Dead => Dead' \/ \E o \in Ops : pc[o] = "discard"]_vars

(***************************************************************************)
(* An invalid session opts the account out of restoration: once the runner *)
(* is marked and the threads have finished, automation_enabled is stored   *)
(* off (RestoreEnabledRunners: "a non-recoverable session invalidation     *)
(* persists automation_enabled=false"), whatever commands came. A settings *)
(* edit, or a write that fails, may defeat it.                             *)
(***************************************************************************)
AtRest == pc[Loop] = "end" /\ \A t \in Threads \ {Loop} : pc[t] \in {"new", "done"}
InvalidationOptsOut ==
    Come \cap (Edits \cup Impatient) = {} /\ AtRest /\ Dead => ~durable.on

(***************************************************************************)
(* The settings API: "Settings edits must not flip automation back on      *)
(* after the operator paused via AutomationService.Stop."                  *)
(***************************************************************************)
RequestsDone == \A t \in Edits \cup Ops : pc[t] \in {"new", "done"}
PauseSticks == paused /\ RequestsDone => ~durable.on

(***************************************************************************)
(* The connection loop never leaves a runner behind that looks alive.      *)
(***************************************************************************)
NoZombie == (pc[Loop] = "end") ~> stopped

(***************************************************************************)
(* A relogin that the settings no longer allow does not stay pending, even *)
(* when the displacement was judged by the old settings.                   *)
(***************************************************************************)
SwitchOffEndsRecovery == (auto /\ ~live.relogin) ~> (~auto \/ live.relogin \/ stopped)

(***************************************************************************)
(* No connection and no loop outlives the runner's Stop.                   *)
(***************************************************************************)
StopEndsConnection == stopped ~> (pc[Loop] = "end" /\ sock = "none")
=============================================================================
