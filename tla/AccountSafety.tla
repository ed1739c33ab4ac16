---------------------------- MODULE AccountSafety ----------------------------
(***************************************************************************)
(* The request protection of one account and the recovery from it          *)
(* (internal/runner/account_restriction.go, account_safety.go,             *)
(* session_recovery.go, recovery_wait.go, reputation_guard.go, the connect *)
(* functions of lifecycle.go and reconnect.go, and                         *)
(* internal/store/account_request_safety.go).                              *)
(*                                                                         *)
(* A server error opens protection: no game request passes until a login   *)
(* after the deadline and two probes have succeeded.  The state of the     *)
(* protection is a row of the database; each runner of the account loads   *)
(* it once and works on its copy.  Runners are the runners the account has *)
(* had, at most one of them registered.  A runner's connection loop, the   *)
(* responses its sockets deliver, settings changes, replacement of the     *)
(* runner and crashes of the daemon interleave.  Time is counted in units  *)
(* of the shortest backoff; 0 stands for "never".                          *)
(***************************************************************************)
EXTENDS Integers, Sequences, FiniteSets

CONSTANTS
    Runners,
    Late,         \* the runners whose goroutines may outlive their Stop
    Codes,        \* the restriction codes the server sends
    RPCs,         \* the business calls that may fail
    Dates,        \* retry dates a 97778 carries, relative to now; 0 for none
    Base, Cap,    \* restrictionBackoff: 5 and 30 minutes
    Grace,        \* what is added to a server date: 30 seconds
    Interval,     \* freshRecoveryInterval
    Budget,       \* server_error_fresh_login_max_attempts
    Window,       \* serverFailureWindow
    Threshold,    \* serverFailureThreshold
    DelInterval,  \* RaceDeleteInterval
    Deleting,     \* bound: whether race deletions are exercised
    MaxTime, MaxErrors,  \* bounds
    MaxManual     \* bound: manual starts only while fewer logins are counted

ASSUME SafetyAssumption ==
    /\ Late \subseteq Runners
    /\ Codes \subseteq {5000, 97777, 97778} /\ Dates \subseteq Nat
    /\ {Base, Cap, Interval, Budget, Threshold, DelInterval} \subseteq Nat \ {0}
    /\ {Grace, Window, MaxTime, MaxErrors, MaxManual} \subseteq Nat
    /\ Deleting \in BOOLEAN

VARIABLES
    now,
    row,     \* the row of account_request_safety
    policy,  \* of the account's runner: automation_enabled and
             \* server_error_fresh_login_enabled
    cache,   \* a cached session is stored
    pc,      \* where the runner's connection attempt or its loop is
    mem,     \* Runner.safety
    rev,     \* Runner.safetyRevision
    fails,   \* Runner.serverFailures
    flight,  \* responses of the runner's sockets are still to be observed
    wake,    \* Runner.recoveryWake holds a token
    att,     \* the locals of the attempt
    errors,  \* bound: the errors observed so far
    dirty,   \* history: an error was recorded since the runner's last login
    autos,   \* history: automatic authentications since the last verified recovery
    reserved, \* history: the last reserved login
    deleted  \* history: the time of the last reserved race deletion

hist == <<errors, dirty, autos, reserved, deleted>>
vars == <<now, row, policy, cache, pc, mem, rev, fails, flight, wake, att,
          errors, dirty, autos, reserved, deleted>>
db == <<row, cache>>
guard == <<mem, rev, fails>>
thread == <<pc, att>>

(* The locals of an attempt: who runs it (boot: a manual or automatic      *)
(* start, or the connection loop), recoveryAttemptKey, whether it resumes  *)
(* a cached session, the revisions it has read, and why the loop waits.    *)
NoAttempt == [boot |-> "loop", protected |-> FALSE, resume |-> FALSE,
              restore |-> 0, login |-> 0, why |-> "none", retry |-> 0]

Row == [code : Codes \cup {0}, until : Nat, tries : 0..4, fresh : Nat, last : Nat, del : Nat]
NoRow == [code |-> 0, until |-> 0, tries |-> 0, fresh |-> 0, last |-> 0, del |-> 0]
ClearForgetsLogins(s) == [s EXCEPT !.code = 0, !.until = 0, !.tries = 0, !.fresh = 0, !.last = 0]
Clear(s) == [s EXCEPT !.code = 0, !.until = 0, !.tries = 0, !.fresh = 0]
Reasons == {"paused", "optout", "budget", "spacing", "denied"}
Live(r) == pc[r] \notin {"off", "linger", "gone"}
PCs == {"off", "sleep", "wait", "route", "freshwait", "authorize", "reserve", "auth",
        "dial", "login", "lazy", "rep", "final", "clear", "settle", "serve", "park", "blocked",
        "ended", "linger", "gone"}

(***************************************************************************)
(* The decisions                                                           *)
(***************************************************************************)
MinOf(a, b) == IF a <= b THEN a ELSE b
MaxOf(a, b) == IF a >= b THEN a ELSE b

restrictionBackoff(tries) == MinOf(Cap, Base * <<1, 2, 4, 8>>[1 + MinOf(3, MaxOf(0, tries - 1))])

(* An error during the cooldown keeps the severer code.                    *)
LatestCode(prev, code) == code
severerCode(prev, code) ==
    IF prev.code = 97778 \/ (prev.code = 97777 /\ code = 5000) THEN prev.code ELSE code

nextAccountRestriction(prev, code, date) ==
    LET active == prev.code # 0 /\ prev.until > now
        tries == IF active THEN prev.tries ELSE MinOf(4, prev.tries + 1)
        dated == code = 97778 /\ date > 0
        until == IF ~active
                 THEN IF dated THEN now + date + Grace
                      ELSE now + (IF code = 97778 THEN Cap ELSE restrictionBackoff(tries))
                 ELSE IF dated THEN MaxOf(prev.until, now + date + Grace)
                      ELSE IF code = 97778 /\ prev.code # 97778
                           THEN MaxOf(prev.until, now + Cap) ELSE prev.until
    IN  [prev EXCEPT !.tries = tries, !.until = MaxOf(until, prev.until),
                     !.code = IF active THEN severerCode(prev, code) ELSE code]

(* The permit of an explicit start, revoked by the next server rejection.  *)
manualRecoveryAuthorized(r) == att[r].boot = "manual" /\ rev[r] = 0

(* checkGameRPCContext, for a login and for a probe under revision v.      *)
Admitted(r) == now >= mem[r].until \/ manualRecoveryAuthorized(r)
Paused(r) == att[r].protected /\ ~policy.on /\ ~manualRecoveryAuthorized(r)
checkLogin(r) ==
    IF mem[r].code = 0 THEN "ok"
    ELSE IF Paused(r) THEN "paused"
    ELSE IF Admitted(r) THEN "ok" ELSE "restricted"
checkProbe(r, v) == IF mem[r].code # 0 /\ v # rev[r] /\ ~Paused(r) THEN "restricted" ELSE checkLogin(r)

checkFreshRecoveryAuthorization(r) ==
    LET free == mem[r].code = 0 \/ manualRecoveryAuthorized(r)
    IN  IF checkLogin(r) # "ok" THEN checkLogin(r)
        ELSE IF ~free /\ ~policy.on THEN "paused"
        ELSE IF ~free /\ ~policy.fresh THEN "optout" ELSE "ok"

(* What Start, connectionLoop and reconnect do with a failed attempt; m is *)
(* the protection it leaves behind.                                        *)
NextPC(r, kind, m) ==
    CASE att[r].boot = "manual" -> "gone"
      [] att[r].boot = "auto" -> IF kind # "guard" /\ (kind = "socket" \/ m.code # 0)
                                 THEN "sleep" ELSE "gone"
      [] OTHER -> IF kind = "guard" THEN "ended"
                  ELSE IF kind \in Reasons THEN "park" ELSE "sleep"

(* Only the connection loop keeps a reason, and a time to retry.           *)
Waiting(r, kind, m) ==
    IF NextPC(r, kind, m) # "park" THEN NoAttempt
    ELSE [NoAttempt EXCEPT !.why = kind,
                           !.retry = IF kind = "spacing" THEN m.last + Interval ELSE 0]

Fail(r, kind, m) ==
    /\ pc' = [pc EXCEPT ![r] = NextPC(r, kind, m)]
    /\ att' = [att EXCEPT ![r] = Waiting(r, kind, m)]

(* preserveCachedSession: an error of a resumed session that says nothing  *)
(* about the cached token.  Every other error discards the cache, and the  *)
(* attempt goes on with a fresh login, unless the deletion fails.          *)
preserveCachedSession(r, kind, m, v) ==
    \/ kind = "socket"
    \/ m.code # 0 /\ \/ m.until > now /\ ~(att[r].boot = "manual" /\ v = 0)
                     \/ v # att[r].restore
                     \/ kind # "expired"

Broken(r, kind, m, v, kept) ==
    IF att[r].resume /\ ~preserveCachedSession(r, kind, m, v)
    THEN \/ /\ cache' = FALSE
            /\ pc' = [pc EXCEPT ![r] = "freshwait"]
            /\ att' = [att EXCEPT ![r].resume = FALSE, ![r].restore = 0]
         \/ cache' = kept /\ Fail(r, "error", m)
    ELSE cache' = kept /\ Fail(r, kind, m)
------------------------------------------------------------------------------
(***************************************************************************)
(* Observed errors                                                         *)
(***************************************************************************)

(* recordAccountRestrictionLocked: the copy in memory changes in any case, *)
(* the row only if it can be saved.                                        *)
SaveForgetsAttempts(s) == row' = [s EXCEPT !.del = row.del, !.fresh = 0]
SaveWholeRow(s) == row' = s
SaveAccountRestriction(s) == row' = [s EXCEPT !.del = row.del]

Record(r, next) ==
    /\ mem' = [mem EXCEPT ![r] = next]
    /\ rev' = [rev EXCEPT ![r] = @ + 1]
    /\ SaveAccountRestriction(next) \/ row' = row
    /\ dirty' = [dirty EXCEPT ![r] = TRUE]

(* observeGameRPCAt for a 5000 without protection: it takes Threshold      *)
(* failures of more than one call within the window.                       *)
Recent(r, rpc) ==
    LET kept == SelectSeq(fails[r], LAMBDA f : f.at >= now - Window /\ f.at <= now)
        all == Append(kept, [rpc |-> rpc, at |-> now])
    IN  IF Len(all) > Threshold THEN SubSeq(all, Len(all) - Threshold + 1, Len(all)) ELSE all

Burst(s, rpc) == Len(s) >= Threshold /\ \E i \in DOMAIN s : s[i].rpc # rpc

observe(r, code, rpc, date) ==
    /\ errors < MaxErrors /\ errors' = errors + 1
    /\ IF code = 5000 /\ mem[r].code = 0
       THEN /\ fails' = [fails EXCEPT ![r] = Recent(r, rpc)]
            /\ IF Burst(Recent(r, rpc), rpc)
               THEN Record(r, nextAccountRestriction(mem[r], code, date))
               ELSE UNCHANGED <<mem, rev, row, dirty>>
       ELSE fails' = fails /\ Record(r, nextAccountRestriction(mem[r], code, date))
    /\ UNCHANGED <<autos, reserved, deleted>>

(* A response of a business call reaches observeGameRPC, perhaps long      *)
(* after the socket was closed, and for a Late runner after its Stop.      *)
Response(r) ==
    /\ flight[r] /\ pc[r] # "off" /\ (Live(r) \/ r \in Late)
    /\ \E more \in BOOLEAN : flight' = [flight EXCEPT ![r] = more]
    /\ \/ \E code \in Codes, rpc \in RPCs, date \in Dates : observe(r, code, rpc, date)
       \/ UNCHANGED <<mem, rev, fails, row, hist>>
    /\ UNCHANGED <<now, policy, cache, pc, att, wake>>
------------------------------------------------------------------------------
(***************************************************************************)
(* Start, and the way to a session                                         *)
(***************************************************************************)

(* Manager.start and Runner.start of a new runner, under the account's     *)
(* lifecycle lock.                                                         *)
Start(r, boot) ==
    /\ pc[r] = "off" /\ \A q \in Runners : ~Live(q)
    /\ boot = "manual" => row.fresh < MaxManual
    /\ mem' = [mem EXCEPT ![r] = row]
    /\ LET parked == row.code # 0 /\ boot = "auto"
       IN  /\ pc' = [pc EXCEPT ![r] = IF parked THEN "sleep" ELSE "wait"]
           /\ att' = [att EXCEPT ![r].boot = IF parked THEN "loop" ELSE boot]
    /\ UNCHANGED <<now, row, policy, cache, rev, fails, flight, wake, hist>>

(* reconnect: the pause before the next attempt.                           *)
Wakeup(r) ==
    /\ pc[r] = "sleep"
    /\ pc' = [pc EXCEPT ![r] = "wait"]
    /\ UNCHANGED <<now, db, policy, guard, flight, wake, att, hist>>

waitAccountRestriction(r, from, to) ==
    /\ pc[r] = from
    /\ mem[r].code = 0 \/ Admitted(r)
    /\ pc' = [pc EXCEPT ![r] = to]
    /\ UNCHANGED <<now, db, policy, guard, flight, wake, att, hist>>

(* connectStoredOrFresh after the wait.                                    *)
prefersFreshRecovery(r) == mem[r].code # 0 /\ policy.on /\ policy.fresh

Route(r) ==
    /\ pc[r] = "route"
    /\ IF mem[r].code # 0 /\ ~policy.on /\ ~manualRecoveryAuthorized(r)
       THEN Fail(r, "paused", mem[r]) /\ UNCHANGED cache
       ELSE LET a == [att[r] EXCEPT !.protected = mem[r].code # 0]
                To(p, b) == pc' = [pc EXCEPT ![r] = p] /\ att' = [att EXCEPT ![r] = b]
            IN  \/ /\ (prefersFreshRecovery(r) /\ ~manualRecoveryAuthorized(r)) \/ ~cache
                   /\ To("freshwait", a) /\ UNCHANGED cache
                \/ /\ cache /\ ~(prefersFreshRecovery(r) /\ ~manualRecoveryAuthorized(r))
                   /\ \/ /\ To("dial", [a EXCEPT !.resume = TRUE, !.restore = rev[r]])
                         /\ UNCHANGED cache
                      \/ cache' = FALSE /\ To("freshwait", a)    \* it does not decode
                \/ Fail(r, "error", mem[r]) /\ UNCHANGED cache        \* the database fails
    /\ UNCHANGED <<now, row, policy, guard, flight, wake, hist>>

(* connectFresh and reserveFreshRecovery: the check before the lock ...    *)
Authorize(r) ==
    /\ pc[r] = "authorize"
    /\ IF checkFreshRecoveryAuthorization(r) = "ok"
       THEN pc' = [pc EXCEPT ![r] = "reserve"] /\ att' = att
       ELSE Fail(r, checkFreshRecoveryAuthorization(r), mem[r])
    /\ UNCHANGED <<now, db, policy, guard, flight, wake, hist>>

(* ... and under it the limits, in memory and in the row.                  *)
Refusal(r) ==
    IF ~policy.on THEN "paused"
    ELSE IF mem[r].fresh >= Budget THEN "budget"
    ELSE IF mem[r].last # 0 /\ now < mem[r].last + Interval THEN "spacing" ELSE "none"

Reservable(manual) ==
    /\ row.code # 0 /\ row.tries >= 1
    /\ manual \/ /\ row.until <= now /\ row.fresh < Budget
                 /\ row.last = 0 \/ row.last + Interval <= now

CountedInTime(s) == [s EXCEPT !.last = now]
Counted(s) == [s EXCEPT !.fresh = @ + 1, !.last = now]

Reserve(r) ==
    /\ pc[r] = "reserve"
    /\ LET manual == manualRecoveryAuthorized(r)
       IN  \/ /\ mem[r].code = 0
              /\ pc' = [pc EXCEPT ![r] = "auth"]
              /\ UNCHANGED <<row, mem, att, reserved>>
           \/ /\ mem[r].code # 0 /\ ~manual /\ Refusal(r) # "none"
              /\ Fail(r, Refusal(r), mem[r])
              /\ UNCHANGED <<row, mem, reserved>>
           \/ /\ mem[r].code # 0 /\ (manual \/ Refusal(r) = "none")
              /\ \/ /\ Reservable(manual)
                    /\ row' = Counted(row) /\ mem' = [mem EXCEPT ![r] = Counted(@)]
                    /\ pc' = [pc EXCEPT ![r] = "auth"] /\ att' = att
                    /\ reserved' = [at |-> now, manual |-> manual]
                 \/ /\ ~Reservable(manual) /\ Fail(r, "denied", mem[r])
                    /\ UNCHANGED <<row, mem, reserved>>
                 \/ Fail(r, "error", mem[r]) /\ UNCHANGED <<row, mem, reserved>>  \* not saved
    /\ UNCHANGED <<now, policy, cache, rev, fails, flight, wake, errors, dirty, autos, deleted>>

(* The channel authentication, checked once more; a refusal stops the      *)
(* runner (stopForLoginRefusal).                                           *)
Authenticate(r) ==
    /\ pc[r] = "auth"
    /\ IF checkFreshRecoveryAuthorization(r) # "ok"
       THEN Fail(r, checkFreshRecoveryAuthorization(r), mem[r]) /\ autos' = autos
       ELSE /\ \/ pc' = [pc EXCEPT ![r] = "dial"] /\ att' = att
               \/ Fail(r, "error", mem[r])
               \/ pc' = [pc EXCEPT ![r] = "gone"] /\ att' = [att EXCEPT ![r] = NoAttempt]
            /\ autos' = IF mem[r].code # 0 /\ ~manualRecoveryAuthorized(r)
                        THEN autos + 1 ELSE autos
    /\ UNCHANGED <<now, db, policy, guard, flight, wake, errors, dirty, reserved, deleted>>

(* connectSession: the socket.                                             *)
Dial(r) ==
    /\ pc[r] = "dial"
    /\ IF ~att[r].resume /\ checkFreshRecoveryAuthorization(r) # "ok"
       THEN Fail(r, checkFreshRecoveryAuthorization(r), mem[r]) /\ UNCHANGED cache
       ELSE \/ pc' = [pc EXCEPT ![r] = "login"] /\ att' = att /\ UNCHANGED cache
            \/ Broken(r, "socket", mem[r], rev[r], cache)
    /\ UNCHANGED <<now, row, policy, guard, flight, wake, hist>>

(* A call of the attempt fails: rejected before it is sent, answered with  *)
(* a restriction, told that the session expired, or lost.                  *)
CallFails(r, verdict) ==
    \/ /\ verdict # "ok"
       /\ Broken(r, verdict, mem[r], rev[r], cache)
       /\ UNCHANGED <<row, guard, hist>>
    \/ /\ verdict = "ok"
       /\ \E kind \in {"expired", "error"} : Broken(r, kind, mem[r], rev[r], cache)
       /\ UNCHANGED <<row, guard, hist>>
    \/ /\ verdict = "ok"
       /\ \E code \in Codes, rpc \in RPCs, date \in Dates : observe(r, code, rpc, date)
       /\ Broken(r, "error", mem'[r], rev'[r], cache)

(* index.login or index.reLogin.                                           *)
Login(r) ==
    /\ pc[r] = "login"
    /\ \/ /\ checkLogin(r) = "ok"
          /\ pc' = [pc EXCEPT ![r] = IF mem[r].code # 0 THEN "lazy" ELSE "settle"]
          /\ att' = [att EXCEPT ![r].login = rev[r]]
          /\ flight' = [flight EXCEPT ![r] = @ \/ mem[r].code = 0]
          /\ dirty' = [dirty EXCEPT ![r] = FALSE]
          /\ UNCHANGED <<cache, row, guard, errors, autos, reserved, deleted>>
       \/ CallFails(r, checkLogin(r)) /\ UNCHANGED flight
    /\ UNCHANGED <<now, policy, wake>>

(***************************************************************************)
(* Verification and the end of protection                                  *)
(***************************************************************************)

(* disableAutomationForReputation.                                         *)
TripGuard(r) ==
    /\ policy' = [policy EXCEPT !.on = FALSE]
    /\ wake' = [wake EXCEPT ![r] = @ \/ policy.on]

(* verifyRecoveryState: usr.lazySync, then reputation.view.                *)
ProbeLazy(r) ==
    /\ pc[r] = "lazy"
    /\ \/ /\ checkProbe(r, att[r].login) = "ok"
          /\ pc' = [pc EXCEPT ![r] = "rep"]
          /\ UNCHANGED <<att, cache, row, guard, hist>>
       \/ CallFails(r, checkProbe(r, att[r].login))
    /\ UNCHANGED <<now, policy, wake, flight>>

ProbeReputation(r) ==
    /\ pc[r] = "rep"
    /\ \/ /\ checkProbe(r, att[r].login) = "ok"
          /\ pc' = [pc EXCEPT ![r] = "final"]
          /\ UNCHANGED <<policy, wake, att, cache, row, guard, hist>>
       \/ /\ checkProbe(r, att[r].login) = "ok"           \* a score below the threshold
          /\ TripGuard(r)
          /\ Broken(r, "guard", mem[r], rev[r], FALSE)
          /\ UNCHANGED <<row, guard, hist>>
       \/ CallFails(r, checkProbe(r, att[r].login)) /\ UNCHANGED <<policy, wake>>
    /\ UNCHANGED <<now, flight>>

FinalCheck(r) ==
    /\ pc[r] = "final"
    /\ IF checkProbe(r, att[r].login) = "ok"
       THEN pc' = [pc EXCEPT ![r] = "clear"] /\ UNCHANGED <<att, cache>>
       ELSE Broken(r, checkProbe(r, att[r].login), mem[r], rev[r], cache)
    /\ UNCHANGED <<now, row, policy, guard, flight, wake, hist>>

(* clearAccountRestriction requires that no error came since the login.    *)
UnchallengedIfCooled(r) == now >= mem[r].until
Unchallenged(r) == rev[r] = att[r].login

Release(r) ==
    /\ Unchallenged(r)
    /\ SaveAccountRestriction(Clear(mem[r]))
    /\ mem' = [mem EXCEPT ![r] = Clear(@)]
    /\ fails' = [fails EXCEPT ![r] = <<>>]
    /\ autos' = 0

clearAccountRestriction(r) ==
    /\ pc[r] = "clear"
    /\ \/ /\ Release(r)
          /\ pc' = [pc EXCEPT ![r] = "settle"]
          /\ flight' = [flight EXCEPT ![r] = TRUE]
          /\ UNCHANGED <<att, cache>>
       \/ /\ Broken(r, "error", mem[r], rev[r], cache)    \* not saved, or a newer error
          /\ UNCHANGED <<row, mem, fails, flight, autos>>
    /\ UNCHANGED <<now, policy, rev, wake, errors, dirty, reserved, deleted>>

(* The same in a Late runner that was stopped after its last check.        *)
ClearAfterStop(r) ==
    /\ pc[r] = "linger"
    /\ Release(r) \/ UNCHANGED <<row, mem, fails, autos>>
    /\ pc' = [pc EXCEPT ![r] = "gone"]
    /\ att' = [att EXCEPT ![r] = NoAttempt]
    /\ UNCHANGED <<now, policy, cache, rev, flight, wake, errors, dirty, reserved, deleted>>

(* The rest of connectSession: the startup calls and the reputation guard, *)
(* then the session is saved and served.  A start hands over to the loop.  *)
Settle(r) ==
    /\ pc[r] = "settle"
    /\ \/ /\ pc' = [pc EXCEPT ![r] = "serve"]
          /\ att' = [att EXCEPT ![r] = NoAttempt]
          /\ cache' \in {cache, TRUE}
          /\ UNCHANGED <<policy, wake>>
       \/ /\ Broken(r, "error", mem[r], rev[r], cache)
          /\ UNCHANGED <<policy, wake>>
       \/ /\ TripGuard(r)
          /\ Broken(r, "guard", mem[r], rev[r], FALSE)
    /\ UNCHANGED <<now, row, guard, flight, hist>>

(***************************************************************************)
(* The loop                                                                *)
(***************************************************************************)

(* A business call passes beforeGameRPC and is sent.                       *)
Business(r) ==
    /\ pc[r] = "serve" /\ mem[r].code = 0 /\ ~flight[r]
    /\ flight' = [flight EXCEPT ![r] = TRUE]
    /\ UNCHANGED <<now, db, policy, guard, thread, wake, hist>>

(* The socket is lost, or recoverAccountRestriction closes it.             *)
Disconnect(r) ==
    /\ pc[r] = "serve"
    /\ pc' = [pc EXCEPT ![r] = "sleep"]
    /\ UNCHANGED <<now, db, policy, guard, flight, wake, att, hist>>

(* The reputation guard of a tick, which stops the runner.                 *)
GuardTick(r) ==
    /\ pc[r] = "serve" /\ mem[r].code = 0
    /\ TripGuard(r)
    /\ cache' = FALSE
    /\ pc' = [pc EXCEPT ![r] = "gone"]
    /\ UNCHANGED <<now, row, guard, flight, att, hist>>

(* reserveRaceDelete.                                                      *)
ReserveRaceDelete(r) ==
    /\ pc[r] = "serve" /\ Deleting
    /\ mem[r].del = 0 \/ now >= mem[r].del + DelInterval
    /\ IF row.del = 0 \/ row.del + DelInterval <= now
       THEN /\ row' = [row EXCEPT !.del = now]
            /\ mem' = [mem EXCEPT ![r].del = now]
            /\ deleted' = now
       ELSE mem' = [mem EXCEPT ![r].del = row.del] /\ UNCHANGED <<row, deleted>>
    /\ UNCHANGED <<now, policy, cache, rev, fails, flight, wake, thread, errors, dirty, autos,
                   reserved>>

(* reconnect has returned with a reason to wait; setRecoveryWait.          *)
Park(r) ==
    /\ pc[r] = "park"
    /\ pc' = [pc EXCEPT ![r] = "blocked"]
    /\ UNCHANGED <<now, db, policy, guard, flight, wake, att, hist>>

(* waitRecovery.                                                           *)
Retry(r) ==
    /\ pc[r] = "blocked"
    /\ wake[r] \/ (att[r].retry # 0 /\ now >= att[r].retry)
    /\ \/ wake[r] /\ wake' = [wake EXCEPT ![r] = FALSE]
       \/ att[r].retry # 0 /\ now >= att[r].retry /\ wake' = wake
    /\ pc' = [pc EXCEPT ![r] = "sleep"]
    /\ att' = [att EXCEPT ![r] = NoAttempt]
    /\ UNCHANGED <<now, db, policy, guard, flight, hist>>
------------------------------------------------------------------------------
(***************************************************************************)
(* The environment                                                         *)
(***************************************************************************)

(* A settings change reaches the registered runner through SetPolicy, and  *)
(* an explicit start of a registered runner through enableAutomation; both *)
(* end with wakeRecovery.                                                  *)
WakeOnlyWaiting == wake' = [r \in Runners |-> wake[r] \/ pc[r] = "blocked"]
wakeRecovery == wake' = [r \in Runners |-> wake[r] \/ Live(r)]

SetPolicy(p) ==
    /\ policy' = p /\ p # policy
    /\ wakeRecovery
    /\ UNCHANGED <<now, db, guard, flight, thread, hist>>

(* Runner.Stop does not wait for the goroutines it cancels.                *)
Stop(r) ==
    /\ Live(r)
    /\ IF pc[r] = "clear" /\ r \in Late
       THEN pc' = [pc EXCEPT ![r] = "linger"] /\ att' = att
       ELSE pc' = [pc EXCEPT ![r] = "gone"] /\ att' = [att EXCEPT ![r] = NoAttempt]
    /\ UNCHANGED <<now, db, policy, guard, flight, wake, hist>>

(* A stopped runner without goroutines is garbage; the next runner of the  *)
(* account starts from nothing but the row.                                *)
Collect(r) ==
    /\ pc[r] = "gone" /\ (r \notin Late \/ ~flight[r])
    /\ pc' = [pc EXCEPT ![r] = "off"]
    /\ mem' = [mem EXCEPT ![r] = NoRow]
    /\ rev' = [rev EXCEPT ![r] = 0]
    /\ fails' = [fails EXCEPT ![r] = <<>>]
    /\ flight' = [flight EXCEPT ![r] = FALSE]
    /\ wake' = [wake EXCEPT ![r] = FALSE]
    /\ dirty' = [dirty EXCEPT ![r] = FALSE]
    /\ UNCHANGED <<now, db, policy, att, errors, autos, reserved, deleted>>

Crash ==
    /\ \E r \in Runners : pc[r] # "off"
    /\ pc' = [r \in Runners |-> IF pc[r] = "off" THEN "off" ELSE "gone"]
    /\ att' = [r \in Runners |-> NoAttempt]
    /\ flight' = [r \in Runners |-> FALSE]
    /\ UNCHANGED <<now, db, policy, guard, wake, hist>>

(* What takes less than the shortest backoff ends before the clock moves:  *)
(* the HTTP requests between a reservation and the authentication, of at   *)
(* most 30 seconds each, and the goroutines that outlive a Stop.           *)
Tick ==
    /\ now < MaxTime
    /\ \A r \in Runners : /\ pc[r] \notin {"auth", "linger"}
                          /\ pc[r] = "gone" => ~(flight[r] /\ r \in Late)
    /\ now' = now + 1
    /\ UNCHANGED <<db, policy, guard, flight, wake, thread, hist>>
------------------------------------------------------------------------------
Init ==
    /\ now = 1 /\ row = NoRow /\ cache = FALSE
    /\ policy \in [on : BOOLEAN, fresh : BOOLEAN]
    /\ pc = [r \in Runners |-> "off"]
    /\ mem = [r \in Runners |-> NoRow]
    /\ rev = [r \in Runners |-> 0]
    /\ fails = [r \in Runners |-> <<>>]
    /\ flight = [r \in Runners |-> FALSE]
    /\ wake = [r \in Runners |-> FALSE]
    /\ att = [r \in Runners |-> NoAttempt]
    /\ errors = 0 /\ dirty = [r \in Runners |-> FALSE] /\ autos = 0
    /\ reserved = [at |-> 0, manual |-> FALSE] /\ deleted = 0

Step(r) ==
    \/ \E boot \in {"manual", "auto"} : Start(r, boot)
    \/ Wakeup(r)
    \/ waitAccountRestriction(r, "wait", "route")
    \/ Route(r)
    \/ waitAccountRestriction(r, "freshwait", "authorize")
    \/ Authorize(r) \/ Reserve(r) \/ Authenticate(r)
    \/ Dial(r) \/ Login(r) \/ ProbeLazy(r) \/ ProbeReputation(r) \/ FinalCheck(r)
    \/ clearAccountRestriction(r) \/ ClearAfterStop(r) \/ Settle(r)
    \/ Business(r) \/ Disconnect(r) \/ GuardTick(r) \/ ReserveRaceDelete(r) \/ Park(r) \/ Retry(r)
    \/ Response(r) \/ Stop(r) \/ Collect(r)

Next ==
    \/ \E r \in Runners : Step(r)
    \/ \E p \in [on : BOOLEAN, fresh : BOOLEAN] : SetPolicy(p)
    \/ Crash \/ Tick

Spec == Init /\ [][Next]_vars
------------------------------------------------------------------------------
Attempt == [boot : {"manual", "auto", "loop"}, protected : BOOLEAN, resume : BOOLEAN,
            restore : Nat, login : Nat, why : Reasons \cup {"none"}, retry : Nat]

DataOK ==
    /\ now \in Nat /\ row \in Row /\ cache \in BOOLEAN
    /\ policy \in [on : BOOLEAN, fresh : BOOLEAN]
    /\ mem \in [Runners -> Row] /\ rev \in [Runners -> Nat]
    /\ flight \in [Runners -> BOOLEAN] /\ wake \in [Runners -> BOOLEAN]
    /\ errors \in Nat /\ dirty \in [Runners -> BOOLEAN] /\ autos \in Nat
    /\ reserved \in [at : Nat, manual : BOOLEAN] /\ deleted \in Nat

ThreadOK == pc \in [Runners -> PCs] /\ att \in [Runners -> Attempt]

ShapeOK == DataOK /\ ThreadOK

TypeOK == ShapeOK /\ fails \in [Runners -> Seq([rpc : RPCs, at : Nat])]

(* A successful probe never ends protection once the server has refused a  *)
(* call after the login the probe belongs to, whichever socket of the      *)
(* runner the refusal came from: "a late error cannot be cleared by an     *)
(* older successful probe" (clearAccountRestriction, observeGameRPCAt).    *)
NewerErrorWins ==
    [][\A r \in Runners : (mem[r].code # 0 /\ mem'[r].code = 0 /\ pc'[r] # "off")
                             => ~dirty[r]]_vars

(* Errors that arrive while the cooldown runs neither shorten it nor make  *)
(* the account forget the severer code, and only a 97778 prolongs it: calls *)
(* already in flight cannot keep an account waiting for ever               *)
(* (nextAccountRestriction).                                               *)
Severity(code) == CASE code = 97778 -> 3 [] code = 97777 -> 2 [] code = 5000 -> 1 [] OTHER -> 0

CooldownHolds ==
    [][\A r \in Runners : LET s == mem[r] t == mem'[r] IN
         (rev'[r] > rev[r] /\ s.code # 0 /\ s.until > now) =>
             /\ t.until >= s.until /\ Severity(t.code) >= Severity(s.code)
             /\ t.until # s.until => t.code = 97778
             /\ t.tries = s.tries]_vars

(* Between two verified recoveries the account authenticates at most       *)
(* Budget times on its own, across failures, runner replacements, crashes  *)
(* and errors that could not be saved (reserveFreshRecovery).              *)
BudgetIsKept == autos <= Budget

(* Every reserved login stays counted until a verified recovery ends the   *)
(* incident: "only verified recovery resets that count"                    *)
(* (ReserveManualRecovery, SaveAccountRestriction).                        *)
AttemptsStayCounted == [][row'.fresh < row.fresh => row'.code = 0]_vars

(* An automatic authentication is reserved at least Interval after the     *)
(* reservation before it, manual ones and those of earlier incidents and   *)
(* runners included.                                                       *)
SpacingIsKept ==
    [][(reserved' # reserved /\ ~reserved'.manual)
         => \/ reserved.at = 0
            \/ reserved'.at >= reserved.at + Interval]_vars

(* A loop that waits for a setting has a wake-up pending as soon as the    *)
(* setting has changed, also when it changed between the decision to wait  *)
(* and the wait (waitRecovery, wakeRecovery).                              *)
NoLostWakeup ==
    \A r \in Runners : (pc[r] = "blocked" /\ ~wake[r]) =>
        /\ att[r].why = "paused" => ~policy.on
        /\ att[r].why = "optout" => ~policy.fresh

(* Two reserved race deletions are DelInterval apart, whatever runners of  *)
(* the account, also stopped ones, save in between (ReserveRaceDelete,     *)
(* SaveAccountRestriction).                                                *)
DeletesAreSpaced ==
    [][deleted' # deleted
         => deleted = 0 \/ deleted' >= deleted + DelInterval]_vars
==============================================================================
