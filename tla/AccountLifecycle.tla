-------------------------- MODULE AccountLifecycle --------------------------
(***************************************************************************)
(* The lifecycle of game sessions in the daemon: internal/runner/          *)
(* manager.go, account_lifecycle.go, startup_commit.go, maintenance.go and *)
(* account_deletion.go, with the durable rows they read and write.         *)
(*                                                                         *)
(*  - Commands start, replace, pause and stop the runner of an account.    *)
(*    Those that do game I/O pass the daemon-wide gate and the account's   *)
(*    gate first; all but identity probes hold the account's lock.         *)
(*  - A runner owns at most one game connection, which is itself gate work *)
(*    from before it is dialled until it is physically closed.             *)
(*  - The maintenance consumer applies the operator's durable command:     *)
(*    close the gate, stop runners, drain, acknowledge.                    *)
(*  - The deletion worker blocks the account's gate, takes its lock, stops *)
(*    its runner, drains it, and removes durable rows in batches.          *)
(*  - The daemon may crash at any point and start again.                   *)
(*                                                                         *)
(* A command is used once; the runner it creates is named after it.        *)
(***************************************************************************)
EXTENDS Naturals, FiniteSets

CONSTANTS
    Accounts,
    Commands,   \* invocations of lifecycle commands
    Target,     \* the account each command is about
    None,       \* no runner, no victim
    Offered,    \* bound: the product paths that are exercised
    Deletable,  \* bound: the accounts whose deletion may be requested
    MaxRev,     \* bound: operator commands
    MaxRows,    \* bound: history rows of an account
    Impatient,  \* bound: the commands whose caller may go away
    MaxFailures \* bound: crashes, and failed accesses to the maintenance row

ASSUME BoundsAssumption ==
    /\ MaxRev \in Nat /\ MaxRows \in Nat /\ MaxFailures \in Nat
    /\ Target \in [Commands -> Accounts]
    /\ None \notin Commands
    /\ "free" \notin Commands /\ "deleter" \notin Commands

VARIABLES
    \* durable
    maint,      \* the daemon_maintenance row
    acct,       \* per account: present, pending deletion, gone
    enabled,    \* per account: automation_enabled of the stored policy
    rows,       \* per account: history rows left
    \* in memory: gates and locks
    gblocked,   \* Manager.gameGate.blocked
    gwork,      \* Manager.gameGate.work
    ablocked,   \* accountLifecycleLock.game.blocked
    awork,      \* accountLifecycleLock.game.work
    cancelled,  \* work whose context is cancelled
    lock,       \* accountLifecycleLock.token
    \* in memory: runners
    runners,    \* Manager.runners
    rs,         \* per runner: none, starting, live, stopped
    conn,       \* per runner: its game connection
    \* commands
    kind, pc, victim,
    \* the maintenance consumer and restoration
    mpc, msnap, draining, manualResume, serving, restorePending, todo,
    \* the deletion worker
    dpc, dacct, dvictim, delreq,
    \* counter of the bound
    failures

durable == <<maint, acct, enabled, rows>>
gates   == <<gblocked, gwork, ablocked, awork, cancelled>>
pool    == <<runners, rs, conn>>
cmds    == <<kind, pc, victim>>
consumer == <<mpc, msnap, draining, manualResume, serving, restorePending, todo>>
deleter == <<dpc, dacct, dvictim, delreq>>
vars == <<maint, acct, enabled, rows, gblocked, gwork, ablocked, awork, cancelled,
          lock, runners, rs, conn, kind, pc, victim, mpc, msnap, draining,
          manualResume, serving, restorePending, todo, dpc, dacct, dvictim, delreq,
          failures>>

\* The product paths into the manager.
StartKinds == {"start", "restore", "redeem", "automation", "reconnect", "reload"}
Gated      == StartKinds \cup {"probe"}
Kinds      == Gated \cup {"pause", "disconnect", "stop"}
Activating == {"automation", "reconnect"}           \* StartAutomation
Replacing  == {"reconnect", "reload"}               \* stop the old runner first
Background == {"restore", "redeem"}                 \* held back by manualResume

ASSUME OfferAssumption == Offered \subseteq Kinds /\ Deletable \subseteq Accounts
                          /\ Impatient \subseteq Commands

\* Gate work: the command's own admission, and the connection of a runner.
CmdWork(c)  == <<c, "cmd">>
ConnWork(c) == <<c, "conn">>
Work == Commands \X {"cmd", "conn"}

MaintRow == [enabled : BOOLEAN, resume : BOOLEAN, rev : Nat, applied : Nat]
NoRow == [enabled |-> FALSE, resume |-> FALSE, rev |-> 0, applied |-> 0]
PCs == {"new", "global", "account", "lock", "save", "unregister", "halt", "begin",
        "load", "login", "commit", "register", "io", "unlock", "release", "done"}
MaintPCs == {"idle", "failstop", "flag", "block", "stop1", "wait", "stop2",
             "reopen", "rwait", "rstop", "open", "ack"}
DelPCs == {"idle", "lock", "stop", "halt", "drain", "clean"}

Init ==
    /\ maint = NoRow
    /\ acct = [a \in Accounts |-> "present"]
    /\ enabled \in [Accounts -> BOOLEAN]
    /\ rows = [a \in Accounts |-> 0]
    /\ gblocked = FALSE /\ gwork = {} /\ cancelled = {}
    /\ ablocked = [a \in Accounts |-> FALSE]
    /\ awork = [a \in Accounts |-> {}]
    /\ lock = [a \in Accounts |-> "free"]
    /\ runners = [a \in Accounts |-> None]
    /\ rs = [c \in Commands |-> "none"]
    /\ conn = [c \in Commands |-> "none"]
    /\ kind = [c \in Commands |-> "start"]
    /\ pc = [c \in Commands |-> "new"]
    /\ victim = [c \in Commands |-> None]
    /\ mpc = "idle" /\ msnap = NoRow
    /\ draining = FALSE /\ manualResume = FALSE
    /\ serving = FALSE /\ restorePending = FALSE /\ todo = {}
    /\ dpc = "idle" /\ dacct \in Accounts /\ dvictim = None /\ delreq = {}
    /\ failures = 0

----------------------------------------------------------------------------
(* Helpers shared by the actions.                                          *)

Goto(c, l) == pc' = [pc EXCEPT ![c] = l]

\* The command returns to its caller and its context is released.
Return(c) ==
    /\ Goto(c, "done")
    /\ cancelled' = cancelled \ {CmdWork(c)}

\* stopMaintenanceRunners: Stop on the snapshot of the registry.
StopRegistered ==
    rs' = [c \in Commands |->
              IF \E a \in Accounts : runners[a] = c THEN "stopped" ELSE rs[c]]

BackgroundStartsAllowed == ~gblocked /\ ~manualResume

----------------------------------------------------------------------------
(* Commands: admission.                                                    *)

\* A product path calls the manager; restoration has its own action below.
Invoke(c, k) ==
    /\ serving /\ pc[c] = "new" /\ k # "restore"
    /\ kind' = [kind EXCEPT ![c] = k]
    /\ Goto(c, IF k \in Gated THEN "global" ELSE "lock")
    /\ UNCHANGED <<durable, gates, lock, pool, victim, consumer, deleter, failures>>

\* The request context of a command ends.  Manager.Stop takes none.
CancelRequest(c) ==
    /\ c \in Impatient /\ pc[c] \notin {"new", "done"} /\ kind[c] # "stop"
    /\ CmdWork(c) \notin cancelled
    /\ cancelled' = cancelled \cup {CmdWork(c)}
    /\ UNCHANGED <<durable, gblocked, gwork, ablocked, awork, lock, pool, cmds,
                   consumer, deleter, failures>>

\* BeginGameWork: the daemon-wide gate.
BeginGlobal(c) ==
    /\ pc[c] = "global"
    /\ \/ /\ gblocked \/ CmdWork(c) \in cancelled
          /\ Return(c)
          /\ UNCHANGED gwork
       \/ /\ ~gblocked /\ CmdWork(c) \notin cancelled
          /\ gwork' = gwork \cup {CmdWork(c)}
          /\ Goto(c, "account")
          /\ UNCHANGED cancelled
    /\ UNCHANGED <<durable, gblocked, ablocked, awork, lock, pool, kind,
                   victim, consumer, deleter, failures>>

\* BeginAccountGameWork: then the gate of the account.
BeginAccount(c) ==
    LET a == Target[c] IN
    /\ pc[c] = "account"
    /\ \/ /\ ablocked[a] \/ CmdWork(c) \in cancelled
          /\ gwork' = gwork \ {CmdWork(c)}
          /\ Return(c)
          /\ UNCHANGED awork
       \/ /\ ~ablocked[a] /\ CmdWork(c) \notin cancelled
          /\ awork' = [awork EXCEPT ![a] = @ \cup {CmdWork(c)}]
          /\ Goto(c, IF kind[c] = "probe" THEN "io" ELSE "lock")
          /\ UNCHANGED <<gwork, cancelled>>
    /\ UNCHANGED <<durable, gblocked, ablocked, lock, pool, kind, victim,
                   consumer, deleter, failures>>

\* The I/O of an identity probe or a reauthorization returns.
ProbeReturns(c) ==
    /\ pc[c] = "io"
    /\ Goto(c, "release")
    /\ UNCHANGED <<durable, gates, lock, pool, kind, victim, consumer, deleter, failures>>

\* LockContext: the account's token, given up when the context has ended.
LockContext(c) ==
    LET a == Target[c] IN
    /\ pc[c] = "lock"
    /\ \/ /\ CmdWork(c) \in cancelled
          /\ Goto(c, "release")
          /\ UNCHANGED lock
       \/ /\ CmdWork(c) \notin cancelled /\ lock[a] = "free"
          /\ lock' = [lock EXCEPT ![a] = c]
          /\ Goto(c, CASE kind[c] \in Replacing \cup {"stop"} -> "unregister"
                       [] kind[c] \in {"pause", "disconnect"} -> "save"
                       [] OTHER -> "begin")
    /\ UNCHANGED <<durable, gates, pool, kind, victim, consumer, deleter, failures>>

\* The deferred Unlock.
Unlock(c) ==
    /\ pc[c] = "unlock"
    /\ lock' = [lock EXCEPT ![Target[c]] = "free"]
    /\ Goto(c, "release")
    /\ UNCHANGED <<durable, gates, pool, kind, victim, consumer, deleter, failures>>

\* The release function of BeginAccountGameWork (a command that passed no
\* gate holds none).
Release(c) ==
    /\ pc[c] = "release"
    /\ gwork' = gwork \ {CmdWork(c)}
    /\ awork' = [awork EXCEPT ![Target[c]] = @ \ {CmdWork(c)}]
    /\ Return(c)
    /\ UNCHANGED <<durable, gblocked, ablocked, lock, pool, kind, victim, consumer,
                   deleter, failures>>

----------------------------------------------------------------------------
(* Commands: the work done under the account's lock.                       *)

\* PauseAutomation stores automation_enabled = false.  The policy is not read
\* or written under an ended context, and the deletion guard aborts the write.
SavePaused(c) ==
    LET a == Target[c] IN
    /\ pc[c] = "save"
    /\ enabled' = IF CmdWork(c) \in cancelled \/ acct[a] # "present"
                  THEN enabled ELSE [enabled EXCEPT ![a] = FALSE]
    /\ Goto(c, IF kind[c] = "disconnect" THEN "unregister" ELSE "unlock")
    /\ UNCHANGED <<maint, acct, rows, gates, lock, pool, kind, victim, consumer,
                   deleter, failures>>

\* Manager.stop, first half: the runner leaves the registry.
Unregister(c) ==
    LET a == Target[c]
        next == IF kind[c] \in Replacing THEN "begin" ELSE "unlock"
    IN
    /\ pc[c] = "unregister"
    /\ \/ /\ kind[c] = "reconnect" /\ CmdWork(c) \in cancelled
          /\ Goto(c, "unlock")
          /\ UNCHANGED <<runners, victim>>
       \/ /\ ~(kind[c] = "reconnect" /\ CmdWork(c) \in cancelled)
          /\ runners' = [runners EXCEPT ![a] = None]
          /\ victim' = [victim EXCEPT ![c] = runners[a]]
          /\ Goto(c, IF runners[a] = None THEN next ELSE "halt")
    /\ UNCHANGED <<durable, gates, lock, rs, conn, kind, consumer, deleter, failures>>

\* Manager.stop, second half: Runner.Stop.
Halt(c) ==
    /\ pc[c] = "halt"
    /\ rs' = [rs EXCEPT ![victim[c]] = "stopped"]
    /\ victim' = [victim EXCEPT ![c] = None]
    /\ Goto(c, IF kind[c] \in Replacing THEN "begin" ELSE "unlock")
    /\ UNCHANGED <<durable, gates, lock, runners, conn, kind, consumer, deleter, failures>>

\* Variant: the registry is not consulted.
BeginReplaces(c) ==
    /\ pc[c] = "begin"
    /\ Goto(c, IF CmdWork(c) \in cancelled \/ (manualResume /\ kind[c] \in Background)
               THEN "unlock" ELSE "load")
    /\ UNCHANGED <<durable, gates, lock, pool, kind, victim, consumer, deleter, failures>>

\* Variant: background sources are not held back after maintenance.
BeginIgnoresManualResume(c) ==
    /\ pc[c] = "begin"
    /\ Goto(c, IF CmdWork(c) \in cancelled \/ runners[Target[c]] # None
               THEN "unlock" ELSE "load")
    /\ UNCHANGED <<durable, gates, lock, pool, kind, victim, consumer, deleter, failures>>

\* start: an existing runner is reused (and its automation enabled when asked
\* for); otherwise background sources wait for the manual resume.
Begin(c) ==
    LET a == Target[c]
        r == runners[a]
    IN
    /\ pc[c] = "begin"
    /\ \/ /\ CmdWork(c) \in cancelled
          /\ Goto(c, "unlock")
          /\ UNCHANGED enabled
       \/ /\ CmdWork(c) \notin cancelled /\ r # None
          /\ enabled' = IF kind[c] \in Activating /\ rs[r] = "live" /\ acct[a] = "present"
                        THEN [enabled EXCEPT ![a] = TRUE] ELSE enabled
          /\ Goto(c, "unlock")
       \/ /\ CmdWork(c) \notin cancelled /\ r = None
          /\ Goto(c, IF manualResume /\ kind[c] \in Background THEN "unlock" ELSE "load")
          /\ UNCHANGED enabled
    /\ UNCHANGED <<maint, acct, rows, gates, lock, pool, kind, victim, consumer,
                   deleter, failures>>

\* Variant: the account row is not read again.
LoadTrustsCaller(c) ==
    /\ pc[c] = "load"
    /\ rs' = [rs EXCEPT ![c] = "starting"]
    /\ Goto(c, "login")
    /\ UNCHANGED <<durable, gates, lock, runners, conn, kind, victim, consumer, deleter,
                   failures>>

\* start: the account and its stored intent are read before any I/O.
Load(c) ==
    LET a == Target[c] IN
    /\ pc[c] = "load"
    /\ \/ /\ \/ CmdWork(c) \in cancelled
             \/ acct[a] # "present"
             \/ kind[c] = "restore" /\ ~enabled[a]
          /\ Goto(c, "unlock")
          /\ UNCHANGED rs
       \/ /\ CmdWork(c) \notin cancelled
          /\ acct[a] = "present"
          /\ kind[c] = "restore" => enabled[a]
          /\ rs' = [rs EXCEPT ![c] = "starting"]
          /\ Goto(c, "login")
    /\ UNCHANGED <<durable, gates, lock, runners, conn, kind, victim, consumer, deleter,
                   failures>>

\* Runner.start: the login fails and the new runner is stopped, or it reaches
\* finish, with a connection or (transport failure, protection) without one.
LoginFails(c) ==
    /\ pc[c] = "login"
    /\ rs' = [rs EXCEPT ![c] = "stopped"]
    /\ Goto(c, "unlock")
    /\ UNCHANGED <<durable, gates, lock, runners, conn, kind, victim, consumer, deleter,
                   failures>>

LoginDone(c) ==
    /\ pc[c] = "login" /\ conn[c] \in {"none", "open"}
    /\ Goto(c, "commit")
    /\ UNCHANGED <<durable, gates, lock, pool, kind, victim, consumer, deleter, failures>>

\* completeStartup: the last check before the runner is published.
CompleteStartup(c) ==
    LET a == Target[c]
        ok == CmdWork(c) \notin cancelled /\ acct[a] = "present" /\ rs[c] = "starting"
    IN
    /\ pc[c] = "commit"
    /\ rs' = [rs EXCEPT ![c] = IF ok THEN "live" ELSE "stopped"]
    /\ enabled' = IF ok /\ kind[c] \in Activating
                  THEN [enabled EXCEPT ![a] = TRUE] ELSE enabled
    /\ Goto(c, IF ok THEN "register" ELSE "unlock")
    /\ UNCHANGED <<maint, acct, rows, gates, lock, runners, conn, kind, victim, consumer,
                   deleter, failures>>

\* start: the runner enters the registry.
Register(c) ==
    /\ pc[c] = "register"
    /\ runners' = [runners EXCEPT ![Target[c]] = c]
    /\ Goto(c, "unlock")
    /\ UNCHANGED <<durable, gates, lock, rs, conn, kind, victim, consumer, deleter, failures>>

----------------------------------------------------------------------------
(* Runners.                                                                *)

\* connectSession: the connection passes both gates before it is dialled.
\* A live runner reconnects on its own; a starting one connects for its command.
ConnectGlobal(c) ==
    /\ conn[c] = "none"
    /\ rs[c] = "live" \/ (rs[c] = "starting" /\ pc[c] = "login")
    /\ ~gblocked
    /\ gwork' = gwork \cup {ConnWork(c)}
    /\ conn' = [conn EXCEPT ![c] = "global"]
    /\ UNCHANGED <<durable, gblocked, ablocked, awork, cancelled, lock, runners, rs,
                   cmds, consumer, deleter, failures>>

ConnectAccount(c) ==
    LET a == Target[c] IN
    /\ conn[c] = "global"
    /\ \/ /\ ablocked[a] \/ ConnWork(c) \in cancelled
          /\ gwork' = gwork \ {ConnWork(c)}
          /\ cancelled' = cancelled \ {ConnWork(c)}
          /\ conn' = [conn EXCEPT ![c] = "none"]
          /\ UNCHANGED awork
       \/ /\ ~ablocked[a] /\ ConnWork(c) \notin cancelled
          /\ awork' = [awork EXCEPT ![a] = @ \cup {ConnWork(c)}]
          /\ conn' = [conn EXCEPT ![c] = "open"]
          /\ UNCHANGED <<gwork, cancelled>>
    /\ UNCHANGED <<durable, gblocked, ablocked, lock, runners, rs, cmds, consumer,
                   deleter, failures>>

\* OnClosed after the physical close: a cancelled gate context, Stop, the end
\* of the connection loop and the network all lead here.
ConnectionCloses(c) ==
    /\ conn[c] = "open"
    /\ gwork' = gwork \ {ConnWork(c)}
    /\ awork' = [awork EXCEPT ![Target[c]] = @ \ {ConnWork(c)}]
    /\ cancelled' = cancelled \ {ConnWork(c)}
    /\ conn' = [conn EXCEPT ![c] = "none"]
    /\ UNCHANGED <<durable, gblocked, ablocked, lock, runners, rs, cmds, consumer,
                   deleter, failures>>

\* A runner stops itself: session invalidated, login refused, reputation guard.
RunnerStops(c) ==
    /\ rs[c] \in {"starting", "live"}
    /\ rs' = [rs EXCEPT ![c] = "stopped"]
    /\ UNCHANGED <<durable, gates, lock, runners, conn, cmds, consumer, deleter, failures>>

\* forgetWhenDone removes the stopped runner, if it is still the registered one.
ForgetWhenDone(c) ==
    /\ rs[c] = "stopped" /\ runners[Target[c]] = c
    /\ runners' = [runners EXCEPT ![Target[c]] = None]
    /\ UNCHANGED <<durable, gates, lock, rs, conn, cmds, consumer, deleter, failures>>

\* Variant: without the deletion guard.
LogEventUnguarded(c) ==
    LET a == Target[c] IN
    /\ rs[c] # "none" /\ acct[a] # "gone" /\ rows[a] < MaxRows
    /\ rows' = [rows EXCEPT ![a] = @ + 1]
    /\ UNCHANGED <<maint, acct, enabled, gates, lock, pool, cmds, consumer, deleter,
                   failures>>

\* A runner (a late callback of a stopped one too) writes a history row; the
\* deletion guard ignores the insert once the account is pending.
LogEvent(c) ==
    LET a == Target[c] IN
    /\ rs[c] # "none"
    /\ acct[a] = "present" /\ rows[a] < MaxRows
    /\ rows' = [rows EXCEPT ![a] = @ + 1]
    /\ UNCHANGED <<maint, acct, enabled, gates, lock, pool, cmds, consumer, deleter,
                   failures>>

----------------------------------------------------------------------------
(* Maintenance.                                                            *)

\* gardend maintenance on|off: RequestMaintenance.
RequestMaintenance(on, resume) ==
    /\ maint.rev < MaxRev
    /\ maint' = [enabled |-> on, resume |-> ~on /\ resume,
                 rev |-> maint.rev + 1, applied |-> maint.applied]
    /\ UNCHANGED <<acct, enabled, rows, gates, lock, pool, cmds, consumer, deleter, failures>>

\* ApplyMaintenance reads the durable command...
ReadMaintenance ==
    /\ mpc = "idle"
    /\ msnap' = maint
    /\ mpc' = IF maint.enabled THEN "flag" ELSE "reopen"
    /\ UNCHANGED <<durable, gates, lock, pool, cmds, draining, manualResume, serving,
                   restorePending, todo, deleter, failures>>

\* ... and fails closed when it cannot.
ReadMaintenanceFails ==
    /\ mpc = "idle" /\ serving /\ failures < MaxFailures
    /\ failures' = failures + 1
    /\ gblocked' = TRUE
    /\ cancelled' = cancelled \cup gwork
    /\ mpc' = "failstop"
    /\ UNCHANGED <<durable, gwork, ablocked, awork, lock, pool, cmds, msnap, draining,
                   manualResume, serving, restorePending, todo, deleter>>

FailClosedStop ==
    /\ mpc = "failstop"
    /\ StopRegistered
    /\ mpc' = "idle"
    /\ UNCHANGED <<durable, gates, lock, runners, conn, cmds, msnap, draining,
                   manualResume, serving, restorePending, todo, deleter, failures>>

FlagMaintenance ==
    /\ mpc = "flag"
    /\ draining' = TRUE /\ manualResume' = TRUE
    /\ mpc' = "block"
    /\ UNCHANGED <<durable, gates, lock, pool, cmds, msnap, serving, restorePending, todo,
                   deleter, failures>>

\* Variant: admitted work is not cancelled.
BlockGateKeepsWork ==
    /\ mpc = "block"
    /\ gblocked' = TRUE
    /\ mpc' = "stop1"
    /\ UNCHANGED <<durable, gwork, ablocked, awork, cancelled, lock, pool, cmds, msnap,
                   draining, manualResume, serving, restorePending, todo, deleter, failures>>

BlockGate ==
    /\ mpc = "block"
    /\ gblocked' = TRUE
    /\ cancelled' = cancelled \cup gwork
    /\ mpc' = "stop1"
    /\ UNCHANGED <<durable, gwork, ablocked, awork, lock, pool, cmds, msnap, draining,
                   manualResume, serving, restorePending, todo, deleter, failures>>

StopRunners ==
    /\ mpc = "stop1"
    /\ StopRegistered
    /\ mpc' = "wait"
    /\ UNCHANGED <<durable, gates, lock, runners, conn, cmds, msnap, draining,
                   manualResume, serving, restorePending, todo, deleter, failures>>

\* Variant: no wait.
DrainGateSkipsWait ==
    /\ mpc \in {"wait", "rwait"}
    /\ mpc' = IF mpc = "wait" THEN "stop2" ELSE "rstop"
    /\ UNCHANGED <<durable, gates, lock, pool, cmds, msnap, draining, manualResume,
                   serving, restorePending, todo, deleter, failures>>

\* gameGate.wait on the way into maintenance (wait) and out of it (rwait).
DrainGate ==
    /\ mpc \in {"wait", "rwait"}
    /\ gwork = {}
    /\ mpc' = IF mpc = "wait" THEN "stop2" ELSE "rstop"
    /\ UNCHANGED <<durable, gates, lock, pool, cmds, msnap, draining, manualResume,
                   serving, restorePending, todo, deleter, failures>>

\* A start admitted before the block may have registered while we drained.
StopLateRunners ==
    /\ mpc \in {"stop2", "rstop"}
    /\ StopRegistered
    /\ draining' = FALSE
    /\ mpc' = IF mpc = "stop2" THEN "ack" ELSE "open"
    /\ UNCHANGED <<durable, gates, lock, runners, conn, cmds, msnap, manualResume,
                   serving, restorePending, todo, deleter, failures>>

LeaveMaintenance ==
    /\ mpc = "reopen"
    /\ mpc' = IF gblocked THEN "rwait" ELSE "open"
    /\ UNCHANGED <<durable, gates, lock, pool, cmds, msnap, draining, manualResume,
                   serving, restorePending, todo, deleter, failures>>

OpenGate ==
    /\ mpc = "open"
    /\ manualResume' = IF msnap.rev # msnap.applied /\ msnap.resume
                       THEN FALSE ELSE manualResume
    /\ gblocked' = FALSE
    /\ mpc' = "ack"
    /\ UNCHANGED <<durable, gwork, ablocked, awork, cancelled, lock, pool, cmds, msnap,
                   draining, serving, restorePending, todo, deleter, failures>>

\* AcknowledgeMaintenance, unless the command has been superseded; leaving
\* maintenance with resume starts a restoration.  The first pass of a boot
\* ends with the daemon serving and restoring.
Acknowledge ==
    LET acked == msnap.rev # msnap.applied /\ maint.rev = msnap.rev IN
    /\ mpc = "ack"
    /\ maint' = IF acked THEN [maint EXCEPT !.applied = msnap.rev] ELSE maint
    /\ restorePending' = (restorePending \/ ~serving
                          \/ (acked /\ ~msnap.enabled /\ msnap.resume))
    /\ serving' = TRUE
    /\ mpc' = "idle" /\ msnap' = NoRow
    /\ UNCHANGED <<acct, enabled, rows, gates, lock, pool, cmds, draining, manualResume,
                   todo, deleter, failures>>

AcknowledgeFails ==
    /\ mpc = "ack" /\ serving /\ msnap.rev # msnap.applied /\ failures < MaxFailures
    /\ failures' = failures + 1
    /\ mpc' = "idle" /\ msnap' = NoRow
    /\ UNCHANGED <<durable, gates, lock, pool, cmds, draining, manualResume,
                   serving, restorePending, todo, deleter>>

\* RestoreEnabledRunners: list the enabled accounts, then start one by one.
RestoreList ==
    /\ restorePending
    /\ restorePending' = FALSE
    /\ todo' = IF BackgroundStartsAllowed
               THEN todo \cup {a \in Accounts : acct[a] = "present" /\ enabled[a]}
               ELSE todo
    /\ UNCHANGED <<durable, gates, lock, pool, cmds, mpc, msnap, draining, manualResume,
                   serving, deleter, failures>>

RestoreNext(c) ==
    /\ BackgroundStartsAllowed
    /\ Target[c] \in todo /\ pc[c] = "new"
    /\ todo' = todo \ {Target[c]}
    /\ kind' = [kind EXCEPT ![c] = "restore"]
    /\ Goto(c, "global")
    /\ UNCHANGED <<durable, gates, lock, pool, victim, mpc, msnap, draining, manualResume,
                   serving, restorePending, deleter, failures>>

RestoreSkips ==
    /\ todo # {} /\ ~BackgroundStartsAllowed
    /\ todo' = {}
    /\ UNCHANGED <<durable, gates, lock, pool, cmds, mpc, msnap, draining, manualResume,
                   serving, restorePending, deleter, failures>>

----------------------------------------------------------------------------
(* Deletion.                                                               *)

\* DeleteAccount: the durable intent first...
RequestDeletion(a) ==
    /\ serving /\ acct[a] = "present"
    /\ acct' = [acct EXCEPT ![a] = "pending"]
    /\ delreq' = delreq \cup {a}
    /\ UNCHANGED <<maint, enabled, rows, gates, lock, pool, cmds, consumer, dpc, dacct,
                   dvictim, failures>>

\* ... then the block of the account's gate.
DeleteBlocks(a) ==
    /\ a \in delreq
    /\ delreq' = delreq \ {a}
    /\ ablocked' = [ablocked EXCEPT ![a] = TRUE]
    /\ cancelled' = cancelled \cup awork[a]
    /\ UNCHANGED <<durable, gblocked, gwork, awork, lock, pool, cmds, consumer, dpc,
                   dacct, dvictim, failures>>

\* cleanAccountDeletion, one step per call it makes.
DeleterBlocks(a) ==
    /\ dpc = "idle" /\ acct[a] = "pending"
    /\ dacct' = a
    /\ ablocked' = [ablocked EXCEPT ![a] = TRUE]
    /\ cancelled' = cancelled \cup awork[a]
    /\ dpc' = "lock"
    /\ UNCHANGED <<durable, gblocked, gwork, awork, lock, pool, cmds, consumer, dvictim,
                   delreq, failures>>

DeleterLocks ==
    /\ dpc = "lock" /\ lock[dacct] = "free"
    /\ lock' = [lock EXCEPT ![dacct] = "deleter"]
    /\ dpc' = "stop"
    /\ UNCHANGED <<durable, gates, pool, cmds, consumer, dacct, dvictim, delreq, failures>>

DeleterLockTimeout ==
    /\ dpc = "lock"
    /\ dpc' = "idle"
    /\ UNCHANGED <<durable, gates, lock, pool, cmds, consumer, dacct, dvictim, delreq, failures>>

DeleterUnregisters ==
    /\ dpc = "stop"
    /\ dvictim' = runners[dacct]
    /\ runners' = [runners EXCEPT ![dacct] = None]
    /\ dpc' = IF runners[dacct] = None THEN "drain" ELSE "halt"
    /\ UNCHANGED <<durable, gates, lock, rs, conn, cmds, consumer, dacct, delreq, failures>>

DeleterHalts ==
    /\ dpc = "halt"
    /\ rs' = [rs EXCEPT ![dvictim] = "stopped"]
    /\ dvictim' = None
    /\ dpc' = "drain"
    /\ UNCHANGED <<durable, gates, lock, runners, conn, cmds, consumer, dacct, delreq, failures>>

DeleterDrains ==
    /\ dpc = "drain" /\ awork[dacct] = {}
    /\ dpc' = "clean"
    /\ UNCHANGED <<durable, gates, lock, pool, cmds, consumer, dacct, dvictim, delreq, failures>>

\* CleanAccountDeletionBatch: history rows first, then the account itself.
DeleterCleans ==
    /\ dpc = "clean"
    /\ \/ /\ rows[dacct] > 0
          /\ rows' = [rows EXCEPT ![dacct] = @ - 1]
          /\ UNCHANGED acct
       \/ /\ rows[dacct] = 0
          /\ acct' = [acct EXCEPT ![dacct] = "gone"]
          /\ UNCHANGED rows
    /\ lock' = [lock EXCEPT ![dacct] = "free"]
    /\ dpc' = "idle"
    /\ UNCHANGED <<maint, enabled, gates, pool, cmds, consumer, dacct, dvictim, delreq, failures>>

\* The runner vanishes between Get and stop, the drain budget passes, or the
\* batch fails: the worker retries later.
DeleterGivesUp ==
    /\ dpc \in {"stop", "drain", "clean"}
    /\ dpc = "stop" => runners[dacct] = None
    /\ lock' = [lock EXCEPT ![dacct] = "free"]
    /\ dpc' = "idle"
    /\ UNCHANGED <<durable, gates, pool, cmds, consumer, dacct, dvictim, delreq, failures>>

----------------------------------------------------------------------------
\* The daemon dies and NewManager builds its memory anew from the durable row.
CrashAndRestart ==
    /\ failures < MaxFailures
    /\ failures' = failures + 1
    /\ gblocked' = maint.enabled /\ manualResume' = maint.enabled
    /\ gwork' = {} /\ cancelled' = {}
    /\ ablocked' = [a \in Accounts |-> FALSE]
    /\ awork' = [a \in Accounts |-> {}]
    /\ lock' = [a \in Accounts |-> "free"]
    /\ runners' = [a \in Accounts |-> None]
    /\ rs' = [c \in Commands |-> "none"]
    /\ conn' = [c \in Commands |-> "none"]
    /\ pc' = [c \in Commands |-> IF pc[c] = "new" THEN "new" ELSE "done"]
    /\ victim' = [c \in Commands |-> None]
    /\ mpc' = "idle" /\ msnap' = NoRow /\ draining' = FALSE
    /\ serving' = FALSE /\ restorePending' = FALSE /\ todo' = {}
    /\ dpc' = "idle" /\ dvictim' = None /\ delreq' = {}
    /\ UNCHANGED <<durable, kind, dacct>>

CommandStep(c) ==
    \/ BeginGlobal(c) \/ BeginAccount(c) \/ LockContext(c) \/ Unlock(c) \/ Release(c)
    \/ SavePaused(c) \/ Unregister(c) \/ Halt(c) \/ Begin(c) \/ Load(c)
    \/ CompleteStartup(c) \/ Register(c)

RunnerStep(c) ==
    \/ ConnectGlobal(c) \/ ConnectAccount(c) \/ ConnectionCloses(c)
    \/ RunnerStops(c) \/ ForgetWhenDone(c) \/ LogEvent(c)

ConsumerStep ==
    \/ ReadMaintenance \/ FlagMaintenance \/ BlockGate \/ StopRunners \/ DrainGate
    \/ StopLateRunners \/ LeaveMaintenance \/ OpenGate \/ Acknowledge \/ FailClosedStop

Next ==
    \/ \E c \in Commands :
          \/ \E k \in Offered : Invoke(c, k)
          \/ CancelRequest(c) \/ ProbeReturns(c) \/ LoginFails(c) \/ LoginDone(c)
          \/ CommandStep(c) \/ RunnerStep(c) \/ RestoreNext(c)
    \/ \E on, resume \in BOOLEAN : RequestMaintenance(on, resume)
    \/ ConsumerStep \/ ReadMaintenanceFails \/ AcknowledgeFails
    \/ RestoreList \/ RestoreSkips
    \/ \E a \in Deletable : RequestDeletion(a)
    \/ \E a \in Accounts : DeleteBlocks(a) \/ DeleterBlocks(a)
    \/ DeleterLocks \/ DeleterLockTimeout \/ DeleterUnregisters \/ DeleterHalts
    \/ DeleterDrains \/ DeleterCleans \/ DeleterGivesUp
    \/ CrashAndRestart

Spec == Init /\ [][Next]_vars

(***************************************************************************)
(* Fairness.  The consumer polls on a ticker and the runtime schedules     *)
(* ready goroutines; cancelled game I/O returns; the connection of a       *)
(* stopped runner, or one whose gate context ended, is closed; the worker  *)
(* visits every pending account again and again, and its budgets are long  *)
(* enough for a free lock and a drained gate now and then.  Commands,      *)
(* logins with a live context, faults and crashes are not fair.            *)
(***************************************************************************)
Cancelled(c) == CmdWork(c) \in cancelled

Fairness ==
    /\ WF_vars(ConsumerStep)
    /\ \A c \in Commands :
          /\ WF_vars(CommandStep(c))
          /\ WF_vars(Cancelled(c) /\ (ProbeReturns(c) \/ LoginFails(c)))
          /\ WF_vars(ConnectAccount(c))
          /\ WF_vars((rs[c] = "stopped" \/ ConnWork(c) \in cancelled) /\ ConnectionCloses(c))
    /\ \A a \in Accounts : SF_vars(DeleterBlocks(a))
    /\ SF_vars(DeleterUnregisters) /\ WF_vars(DeleterHalts)
    /\ SF_vars(DeleterLocks) /\ SF_vars(DeleterDrains) /\ SF_vars(DeleterCleans)

FairSpec == Spec /\ Fairness
----------------------------------------------------------------------------

TypeOK ==
    /\ maint \in MaintRow
    /\ acct \in [Accounts -> {"present", "pending", "gone"}]
    /\ enabled \in [Accounts -> BOOLEAN]
    /\ rows \in [Accounts -> Nat]
    /\ gblocked \in BOOLEAN /\ gwork \subseteq Work /\ cancelled \subseteq Work
    /\ ablocked \in [Accounts -> BOOLEAN]
    /\ awork \in [Accounts -> SUBSET Work]
    /\ lock \in [Accounts -> Commands \cup {"free", "deleter"}]
    /\ runners \in [Accounts -> Commands \cup {None}]
    /\ rs \in [Commands -> {"none", "starting", "live", "stopped"}]
    /\ conn \in [Commands -> {"none", "global", "open"}]
    /\ kind \in [Commands -> Kinds]
    /\ pc \in [Commands -> PCs]
    /\ victim \in [Commands -> Commands \cup {None}]
    /\ mpc \in MaintPCs /\ msnap \in MaintRow
    /\ draining \in BOOLEAN /\ manualResume \in BOOLEAN
    /\ serving \in BOOLEAN /\ restorePending \in BOOLEAN /\ todo \subseteq Accounts
    /\ dpc \in DelPCs /\ dacct \in Accounts /\ dvictim \in Commands \cup {None}
    /\ delreq \subseteq Accounts
    /\ failures \in Nat

\* A runner that has not been stopped.
Running(c) == rs[c] \in {"starting", "live"}

\* A runner between the two halves of Manager.stop.
BeingStopped(c) == dvictim = c \/ \E d \in Commands : victim[d] = c

(***************************************************************************)
(* Acknowledging "maintenance on" means what the operator is told: no game *)
(* I/O of any kind is in flight, no connection exists, and no registered   *)
(* runner can make one, also after a crash and restart.                    *)
(***************************************************************************)
AcknowledgedMeansDrained ==
    maint.enabled /\ maint.applied = maint.rev =>
        /\ gblocked /\ gwork = {}
        /\ \A c \in Commands : conn[c] = "none"
        /\ \A a \in Accounts : runners[a] # None => ~Running(runners[a])

(***************************************************************************)
(* An account never has two runners that have not been stopped, whatever   *)
(* mix of starts, reconnects, restorations and deletions is in progress.   *)
(***************************************************************************)
AtMostOneRunner ==
    \A c, d \in Commands :
        Running(c) /\ Running(d) /\ Target[c] = Target[d] => c = d

(***************************************************************************)
(* Rows of an account are removed only while nothing of it is running, and *)
(* nothing of it runs once it is gone (CleanAccountDeletionBatch "is       *)
(* called only after the manager drained game I/O").                       *)
(***************************************************************************)
DeletionIsIsolated ==
    \A c \in Commands :
        (acct[Target[c]] = "gone" \/ (dpc = "clean" /\ dacct = Target[c])) =>
            ~Running(c) /\ conn[c] # "open"

(***************************************************************************)
(* A background start cannot straddle a maintenance window: once the gate  *)
(* is open again and a manual resume is still required, every runner of a  *)
(* background source (restoration, redeem) has been stopped, or has left   *)
(* the registry and is about to be stopped by the command that removed it. *)
(***************************************************************************)
BackgroundStaysParked ==
    manualResume /\ ~gblocked /\ mpc # "block" =>
        \A c \in Commands : kind[c] \in Background /\ Running(c) => BeingStopped(c)

(***************************************************************************)
(* The operator's last command is eventually acknowledged.                 *)
(***************************************************************************)
CommandIsAcknowledged ==
    (maint.applied # maint.rev) ~> (maint.applied = maint.rev)

(***************************************************************************)
(* A committed deletion completes, across crashes and give-ups.            *)
(***************************************************************************)
DeletionCompletes ==
    \A a \in Accounts : (acct[a] = "pending") ~> (acct[a] = "gone")

----------------------------------------------------------------------------
(* The inductive invariants behind the safety properties.                  *)

\* The daemon-wide gate counts exactly the admitted commands and connections.
Inside == PCs \ {"new", "global", "done"}
Counted(c) ==
    /\ CmdWork(c) \in gwork <=> (kind[c] \in Gated /\ pc[c] \in Inside)
    /\ ConnWork(c) \in gwork <=> conn[c] # "none"
    /\ pc[c] \in {"global", "account", "begin", "load", "login", "commit", "register", "io"}
          => kind[c] \in Gated
GateCountsWork == \A c \in Commands : Counted(c)

\* What the consumer read is the row, or an earlier command.
SnapshotIsOld ==
    /\ maint.applied <= maint.rev
    /\ mpc \notin {"idle", "failstop"} =>
          /\ msnap.applied = maint.applied
          /\ msnap.applied <= msnap.rev /\ msnap.rev <= maint.rev
          /\ msnap.rev = maint.rev => msnap.enabled = maint.enabled

\* The gate is shut, nothing is inside, and no registered runner can come back.
Quiet ==
    /\ gblocked /\ gwork = {}
    /\ \A a \in Accounts : runners[a] # None => ~Running(runners[a])

ConsumerPhases ==
    /\ mpc \in {"flag", "block", "stop1", "wait", "stop2"} => msnap.enabled
    /\ mpc \in {"reopen", "rwait", "rstop", "open"} => ~msnap.enabled
    /\ mpc \in {"stop1", "wait", "stop2"} => gblocked
    /\ mpc = "stop2" => gwork = {}
    /\ mpc = "ack" /\ msnap.enabled => Quiet
    /\ maint.enabled /\ maint.applied = maint.rev => Quiet

DrainInv == GateCountsWork /\ SnapshotIsOld /\ ConsumerPhases

\* The account's lock belongs to whoever works on its runner.
Locked  == {"save", "unregister", "halt", "begin", "load", "login", "commit",
            "register", "unlock"}
Deleting == {"stop", "halt", "drain", "clean"}
LockIsHeld ==
    /\ \A c \in Commands : pc[c] \in Locked => lock[Target[c]] = c
    /\ dpc \in Deleting => lock[dacct] = "deleter"

\* Where a runner that has not been stopped can be.
Creating(c) == pc[c] \in {"login", "commit", "register"}
Registered(c) == runners[Target[c]] = c
RunnersAreOwned ==
    \A c \in Commands : Running(c) => Creating(c) \/ Registered(c) \/ BeingStopped(c)

\* The registry is empty while the lock's holder creates or stops a runner.
RegistryIsEmptied ==
    /\ \A a \in Accounts : runners[a] # None => Target[runners[a]] = a
    /\ \A c \in Commands :
          pc[c] \in {"halt", "load", "login", "commit", "register"}
              => runners[Target[c]] = None
    /\ \A c \in Commands :
          victim[c] # None => pc[c] = "halt" /\ Target[victim[c]] = Target[c]
    /\ dpc \in {"halt", "drain", "clean"} => runners[dacct] = None
    /\ dvictim # None => dpc = "halt" /\ Target[dvictim] = dacct

RunnerInv == LockIsHeld /\ RunnersAreOwned /\ RegistryIsEmptied

\* An open connection is work of its account; the account being cleaned has
\* none, and nothing of a removed account can open one.
AccountIsSealed ==
    /\ \A c \in Commands : conn[c] = "open" => ConnWork(c) \in awork[Target[c]]
    /\ dpc # "idle" => ablocked[dacct]
    /\ dpc = "clean" => awork[dacct] = {}
    /\ \A c \in Commands : acct[Target[c]] = "gone" =>
          /\ ~Running(c) /\ conn[c] # "open"
          /\ ablocked[Target[c]] \/ conn[c] = "none"

\* A background command cannot be creating a runner, and has none that stays.
Parked(c) ==
    kind[c] \in Background =>
        /\ pc[c] \notin {"load", "login", "commit", "register"}
        /\ Running(c) => BeingStopped(c)

RunnersWereCreated ==
    /\ \A c \in Commands :
          /\ rs[c] # "none" =>
                pc[c] \in {"login", "commit", "register", "unlock", "release", "done"}
          /\ Creating(c) \/ Registered(c) \/ BeingStopped(c) => rs[c] # "none"

ParkInv ==
    /\ RunnersWereCreated
    /\ mpc \in {"rwait", "rstop"} => gblocked
    /\ mpc = "rstop" => gwork = {}
    /\ manualResume /\ (mpc = "open" \/ (~gblocked /\ mpc # "block")) =>
          \A c \in Commands : Parked(c)
=============================================================================
