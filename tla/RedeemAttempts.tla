--------------------------- MODULE RedeemAttempts ---------------------------
(***************************************************************************)
(* How one daemon tries redeem codes on its accounts: internal/redeem/     *)
(* service.go (the attempt workers and the submission of codes), the rows  *)
(* redeem_codes and redeem_attempts of internal/store/redeem.go, and       *)
(* Runner.RedeemCode of internal/runner/redeem.go.                         *)
(*                                                                         *)
(*  - A code that is submitted gets one attempt row per account.           *)
(*  - A worker selects the accounts it may use, claims a due row under a   *)
(*    run token and a lease, starts the account when it is offline, asks   *)
(*    the game, and completes or releases the row by its token.            *)
(*  - A lease that runs out, or a restart, puts the row back in the queue; *)
(*    its worker may still be under way and report later.                  *)
(*  - A verdict on the code itself (expired, invalid) settles its queue.   *)
(*                                                                         *)
(* Times are what the queries make of them: whether a retry is due, a      *)
(* lease has run out, a code has passed its expiry. A worker has one claim *)
(* at a time, so its name stands for the token of that claim. The sessions *)
(* of the accounts and the maintenance gate are environment; the game may  *)
(* answer anything, also different things to different accounts.           *)
(***************************************************************************)
EXTENDS Naturals, FiniteSets

CONSTANTS
    Codes, Accounts, Workers,
    NoOne, \* the run token of a row nobody runs
    Crowd  \* bound: accounts served while sessions and the gate change

ASSUME NoOneAssumption == NoOne \notin Workers
ASSUME CrowdAssumption == Crowd \in Nat
ASSUME RowsAssumption == Codes # {} /\ Accounts # {}

VARIABLES
    code,   \* redeem_codes: validation, propagation_state, whether before its expiry
    att,    \* redeem_attempts: status, whether retry_at has come, run_token, whether the lease is over
    worker, \* the goroutines of runAttempts
    reach,  \* per account: connected, startable (offline, may be started), waiting
    served, \* accounts that are neither being deleted nor of a disabled user
    maint   \* MaintenanceStatus().Enabled

vars == <<code, att, worker, reach, served, maint>>
env  == <<reach, served, maint>>

Rows   == Codes \X Accounts
Dead   == {"expired", "invalid"}
Proved == {"success", "already_redeemed"}
Queued == {"pending", "retryable"}
Settled == Dead \cup Proved \cup {"unknown"}
Validations == Settled \cup Queued
Suppressed == [v \in Dead |-> IF v = "invalid" THEN "suppressed_invalid" ELSE "suppressed_expired"]

Stages == {"idle", "selected", "claimed", "dialling", "calling", "reporting"}

\* A redeem_attempts row; "none" where there is no row yet.
Row(status, due) == [status |-> status, due |-> due, token |-> NoOne, over |-> FALSE]

CodeRows == [val : Validations \cup {"absent"},
             prop : {"waiting_validation", "eligible", "suppressed_invalid", "suppressed_expired"},
             live : BOOLEAN]
AttemptRows == [status : Validations \cup {"none", "running"}, due : BOOLEAN,
                token : Workers \cup {NoOne}, over : BOOLEAN]
Jobs == [at : Stages, ids : SUBSET Accounts, job : Rows, out : Validations]

TokenFits(r) == r.token # NoOne <=> r.status = "running"

(* The tables and the workers have their types, and a row has a run token  *)
(* exactly while it runs: a token left behind would let the worker of an   *)
(* earlier claim own the next one.                                         *)
TypeOK ==
    /\ code \in [Codes -> CodeRows]
    /\ att \in [Rows -> AttemptRows]
    /\ worker \in [Workers -> Jobs]
    /\ reach \in [Accounts -> {"connected", "startable", "waiting"}]
    /\ served \subseteq Accounts
    /\ maint \in BOOLEAN
    /\ \A x \in Rows : TokenFits(att[x])

Idle == [at |-> "idle", ids |-> {}, job |-> CHOOSE x \in Rows : TRUE, out |-> "retryable"]

Init ==
    /\ code = [c \in Codes |-> [val |-> "absent", prop |-> "waiting_validation", live |-> TRUE]]
    /\ att = [x \in Rows |-> Row("none", TRUE)]
    /\ worker = [w \in Workers |-> Idle]
    /\ reach \in [Accounts -> {"connected", "startable"}]
    /\ served \in SUBSET Accounts
    /\ maint = FALSE

-----------------------------------------------------------------------------
(* The statements of the store, as functions of the tables.                *)

\* The code is tried at all: neither verdict nor expiry is against it.
Usable(codes, c) == codes[c].val \notin Dead \cup {"absent"} /\ codes[c].live

EnsureRedeemAttempts(codes, rows) ==
    [x \in Rows |-> IF rows[x].status = "none" /\ Usable(codes, x[1]) /\ x[2] \in served
                    THEN Row("pending", TRUE) ELSE rows[x]]

\* Mutant: rows whose lease is over wait for a restart.
RecoverNothing(rows) == rows

\* Mutant: the recovered row keeps its token.
RecoverStatusOnly(rows) ==
    [x \in Rows |-> IF rows[x].status = "running" /\ rows[x].over
                    THEN [rows[x] EXCEPT !.status = "retryable"] ELSE rows[x]]

RecoverExpiredRedeemAttempts(rows) ==
    [x \in Rows |-> IF rows[x].status = "running" /\ rows[x].over
                    THEN Row("retryable", TRUE) ELSE rows[x]]

RecoverRedeemWork(rows) ==
    [x \in Rows |-> IF rows[x].status = "running" THEN Row("retryable", TRUE) ELSE rows[x]]

WakeRedeemAttemptsForAccount(a, rows) ==
    [x \in Rows |-> IF x[2] = a /\ rows[x].status = "retryable"
                    THEN [rows[x] EXCEPT !.due = TRUE] ELSE rows[x]]

DueRow(rows, x) ==
    rows[x].status \in Queued /\ rows[x].due /\ Usable(code, x[1]) /\ x[2] \in served

\* Mutant: the row is found by its id alone.
OwnsByID(w) == worker[w].job \in Rows

\* The worker's token is the one of the row.
Owns(w) ==
    LET x == worker[w].job IN att[x].status = "running" /\ att[x].token = w

\* The code after the result s of one attempt.
CodeAfter(c, s) ==
    CASE s = "success" -> [code[c] EXCEPT !.val = s, !.prop = "eligible"]
      [] s = "already_redeemed" ->
            IF code[c].val = "success" THEN code[c]
            ELSE [code[c] EXCEPT !.val = s, !.prop = "eligible"]
      [] s \in Dead -> [code[c] EXCEPT !.val = s, !.prop = Suppressed[s]]
      [] OTHER -> [code[c] EXCEPT !.val = s]

\* The rows after it: a verdict on the code settles the rows that wait.
RowsAfter(x, s) ==
    [y \in Rows |-> IF y = x THEN Row(s, s # "retryable")
                    ELSE IF y[1] = x[1] /\ s \in Dead /\ att[y].status \in Queued
                    THEN [att[y] EXCEPT !.status = s, !.due = TRUE] ELSE att[y]]

-----------------------------------------------------------------------------
(* The attempt workers.                                                    *)

EligibleAccountIDs(rows) ==
    {a \in Accounts : reach[a] # "waiting" /\ \E c \in Codes : DueRow(rows, <<c, a>>)}

\* processNextAttempt up to the choice of accounts.
Select(w) ==
    /\ worker[w].at = "idle" /\ ~maint
    /\ LET rows == EnsureRedeemAttempts(code, RecoverExpiredRedeemAttempts(att)) IN
         /\ att' = rows
         /\ worker' = [worker EXCEPT ![w] =
              IF EligibleAccountIDs(rows) = {} THEN Idle
              ELSE [Idle EXCEPT !.at = "selected", !.ids = EligibleAccountIDs(rows)]]
    /\ UNCHANGED <<code, env>>

\* The oldest due row of the accounts selected before; which one is oldest is
\* left open. None may be left by now.
NextRedeemAttempt(w) ==
    LET due == {x \in Rows : DueRow(att, x) /\ x[2] \in worker[w].ids} IN
    /\ worker[w].at = "selected"
    /\ \/ /\ due = {}
          /\ worker' = [worker EXCEPT ![w] = Idle]
          /\ UNCHANGED att
       \/ \E x \in due :
            /\ att' = [att EXCEPT ![x] = [Row("running", TRUE) EXCEPT !.token = w]]
            /\ worker' = [worker EXCEPT ![w] = [Idle EXCEPT !.at = "claimed", !.job = x]]
    /\ UNCHANGED <<code, env>>

Goes(w, stage) == worker' = [worker EXCEPT ![w].at = stage]

WillReport(w, s) == worker' = [worker EXCEPT ![w].at = "reporting", ![w].out = s]

\* The row goes back to the queue, unless it is no longer the worker's or the
\* statement fails; that is only logged.
ReleaseRedeemAttempt(w, due) ==
    /\ \/ Owns(w) /\ att' = [att EXCEPT ![worker[w].job] = Row("pending", due)]
       \/ UNCHANGED att
    /\ worker' = [worker EXCEPT ![w] = Idle]
    /\ UNCHANGED <<code, env>>

\* The session policy is applied again to the account of the claimed row.
CheckSession(w) ==
    LET a == worker[w].job[2] IN
    /\ worker[w].at = "claimed"
    /\ \/ reach[a] = "waiting" /\ ReleaseRedeemAttempt(w, TRUE)
       \/ reach[a] = "connected" /\ Goes(w, "calling") /\ UNCHANGED <<code, att, env>>
       \/ reach[a] = "startable" /\ Goes(w, "dialling") /\ UNCHANGED <<code, att, env>>
       \/ \* the stored policy cannot be read
          /\ reach[a] = "startable" /\ WillReport(w, "retryable")
          /\ UNCHANGED <<code, att, env>>

\* A session event wakes the rows of the account, unless the subscriber's
\* buffer is full and drops it.
Connected(a) ==
    /\ reach' = [reach EXCEPT ![a] = "connected"]
    /\ att' \in {att, WakeRedeemAttemptsForAccount(a, att)}

\* StartWithSource succeeds or not, within its 90 seconds.
StartSession(w) ==
    /\ worker[w].at = "dialling"
    /\ \/ /\ ~maint /\ reach[worker[w].job[2]] # "waiting"
          /\ Connected(worker[w].job[2]) /\ Goes(w, "calling")
       \/ WillReport(w, "retryable") /\ UNCHANGED <<att, reach>>
    /\ UNCHANGED <<code, served, maint>>

\* What classifyRedeemOutcome makes of the game's answers.
Outcomes == Settled \cup {"retryable"}

\* Runner.RedeemCode: the account is busy, or the request does not get through,
\* or the game answers.
RedeemCode(w) ==
    /\ worker[w].at = "calling"
    /\ \/ ReleaseRedeemAttempt(w, FALSE)
       \/ WillReport(w, "retryable") /\ UNCHANGED <<code, att, env>>
       \/ /\ reach[worker[w].job[2]] = "connected" /\ ~maint
          /\ \E s \in Outcomes : WillReport(w, s)
          /\ UNCHANGED <<code, att, env>>

\* The report of a worker whose row was taken away, or that cannot be written,
\* is dropped.
CompleteRedeemAttempt(w) ==
    LET x == worker[w].job
        s == worker[w].out IN
    /\ worker[w].at = "reporting"
    /\ \/ /\ Owns(w)
          /\ att' = RowsAfter(x, s)
          /\ code' = [code EXCEPT ![x[1]] = CodeAfter(x[1], s)]
       \/ UNCHANGED <<att, code>>
    /\ worker' = [worker EXCEPT ![w] = Idle]
    /\ UNCHANGED env

-----------------------------------------------------------------------------
(* Submissions, and what else happens.                                     *)

\* Mutant: a report of a known code asks for a new validation.
ReportedAfresh(c) == {[code[c] EXCEPT !.val = "pending", !.live = TRUE]}

\* The code row after a report of the code: a new row waits for validation, an
\* old one may only get a later expiry.
Reported(c) ==
    IF code[c].val = "absent" THEN {[code[c] EXCEPT !.val = "pending"]}
    ELSE {code[c], [code[c] EXCEPT !.live = TRUE]}

\* submit: UpsertRedeemCode and EnsureRedeemAttempts.
Submit(c) ==
    \E r \in Reported(c) :
      /\ code' = [code EXCEPT ![c] = r]
      /\ att' = EnsureRedeemAttempts(code', att)
      /\ UNCHANGED <<worker, env>>

\* An administrator moves the expiry into the future or into the past.
UpdateExpiry(c) ==
    /\ code[c].val # "absent"
    /\ code' = [code EXCEPT ![c].live = ~code[c].live]
    /\ att' = EnsureRedeemAttempts(code', att)
    /\ UNCHANGED <<worker, env>>

\* The retry time of a queued row comes, the lease of a running one ends.
RetryComes(x) ==
    /\ att[x].status \in Queued /\ ~att[x].due
    /\ att' = [att EXCEPT ![x].due = TRUE]
    /\ UNCHANGED <<code, worker, env>>

LeaseEnds(x) ==
    /\ att[x].status = "running" /\ ~att[x].over
    /\ att' = [att EXCEPT ![x].over = TRUE]
    /\ UNCHANGED <<code, worker, env>>

ExpiryPasses(c) ==
    /\ code[c].live /\ code[c].val # "absent"
    /\ code' = [code EXCEPT ![c].live = FALSE]
    /\ UNCHANGED <<att, worker, env>>

SessionChanges(a) ==
    /\ \/ reach[a] # "connected" /\ ~maint /\ Connected(a)
       \/ /\ \E r \in {"startable", "waiting"} \ {reach[a]} : reach' = [reach EXCEPT ![a] = r]
          /\ UNCHANGED att
    /\ UNCHANGED <<code, worker, served, maint>>

AccountWithdrawn(a) ==
    /\ a \in served
    /\ served' = served \ {a}
    /\ UNCHANGED <<code, att, worker, reach, maint>>

\* Maintenance stops every session; afterwards they wait for their owner or
\* may be started.
MaintenanceToggles ==
    /\ maint' = ~maint
    /\ reach' \in IF maint THEN {reach, [a \in Accounts |-> "startable"]}
                  ELSE {[a \in Accounts |-> "waiting"]}
    /\ UNCHANGED <<code, att, worker, served>>

\* The daemon dies; NewService recovers the rows before the workers run.
Restart ==
    /\ worker' = [w \in Workers |-> Idle]
    /\ att' = RecoverRedeemWork(att)
    /\ reach' = [a \in Accounts |-> IF maint THEN "waiting" ELSE "startable"]
    /\ UNCHANGED <<code, served, maint>>

Work(w) ==
    \/ Select(w) \/ NextRedeemAttempt(w) \/ CheckSession(w)
    \/ StartSession(w) \/ RedeemCode(w) \/ CompleteRedeemAttempt(w)

Disturb ==
    /\ Cardinality(served) <= Crowd
    /\ \/ MaintenanceToggles
       \/ \E a \in Accounts : SessionChanges(a) \/ AccountWithdrawn(a)

Next ==
    \/ \E w \in Workers : Work(w)
    \/ \E c \in Codes : Submit(c) \/ UpdateExpiry(c) \/ ExpiryPasses(c)
    \/ \E x \in Rows : RetryComes(x) \/ LeaseEnds(x)
    \/ Restart
    \/ Disturb

Spec == Init /\ [][Next]_vars

\* Workers poll every two seconds and every call they make has a deadline;
\* retry times and leases come.
FairSpec ==
    /\ Spec
    /\ \A w \in Workers : WF_vars(Work(w))
    /\ \A x \in Rows : WF_vars(RetryComes(x)) /\ WF_vars(LeaseEnds(x))

-----------------------------------------------------------------------------
(* Properties.                                                             *)

\* No attempt of the code is under way.
Quiet(c) == \A a \in Accounts : att[<<c, a>>].status # "running"

(* An attempt with a result keeps it: neither a worker whose lease ran out *)
(* and whose row was tried again (RecoverExpiredRedeemAttempts), nor a     *)
(* restart, a new report of the code or the verdict of another account     *)
(* changes it (CompleteRedeemAttempt's WHERE clauses).                     *)
SettledStays ==
    [][\A x \in Rows : att[x].status \in Settled => att'[x].status = att[x].status]_vars

(* A code found expired or invalid, with no attempt of it under way, stays *)
(* so and is never tried again, whoever reports it again, whatever its     *)
(* expiry becomes and however often the daemon restarts (UpsertRedeemCode, *)
(* EnsureRedeemAttempts, nextRedeemAttempt).                               *)
QuietVerdictHolds ==
    [][\A c \in Codes : code[c].val \in Dead /\ Quiet(c) =>
            code'[c].val = code[c].val /\ Quiet(c)']_vars

(* An attempt does not stay "running": its worker reports or releases it,  *)
(* or its lease is recovered, also when the write failed; only maintenance *)
(* suspends that (processNextAttempt).                                     *)
RunningEnds ==
    \A x \in Rows : att[x].status = "running" ~> (att[x].status # "running" \/ maint)
=============================================================================
