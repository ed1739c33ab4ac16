------------------------ MODULE RedeemAttemptsProofs ------------------------
(***************************************************************************)
(* The redeem attempts keep their results, and a verdict on a code with no *)
(* attempt under way holds, for any codes, accounts and workers.           *)
(***************************************************************************)
EXTENDS RedeemAttempts, TLAPS

\* A row of the table, with its token in order.
GoodRow(r) == r \in AttemptRows /\ TokenFits(r)

\* A row that nobody runs is a good row.
LEMMA RowGood ==
    ASSUME NEW s \in Validations \cup {"none"}, NEW d \in BOOLEAN
    PROVE  GoodRow(Row(s, d)) /\ Row(s, d).status = s
  BY DEF GoodRow, Row, AttemptRows, TokenFits, Validations, Settled, Dead, Proved, Queued

\* An idle worker has the type of a worker.
LEMMA IdleType == Idle \in Jobs
<1>1. PICK c \in Codes, a \in Accounts : TRUE
  BY RowsAssumption
<1>2. <<c, a>> \in Rows
  BY DEF Rows
<1>3. (CHOOSE x \in Rows : TRUE) \in Rows
  BY <1>2
<1> QED
  BY <1>3 DEF Idle, Jobs, Stages, Validations, Queued

\* What the store's statements do to the rows: each row stays good, a settled
\* one keeps its status, and none begins to run.
Gentle(rows, new) ==
    /\ new \in [Rows -> AttemptRows]
    /\ \A x \in Rows : /\ TokenFits(new[x])
                       /\ rows[x].status \in Settled => new[x].status = rows[x].status
                       /\ new[x].status = "running" => rows[x].status = "running"

\* The rows of the table, all good.
GoodTable(rows) == rows \in [Rows -> AttemptRows] /\ \A x \in Rows : TokenFits(rows[x])

\* EnsureRedeemAttempts only adds rows that wait.
LEMMA EnsureGentle ==
    ASSUME NEW rows, GoodTable(rows), NEW codes
    PROVE  Gentle(rows, EnsureRedeemAttempts(codes, rows))
<1>1. GoodRow(Row("pending", TRUE)) /\ Row("pending", TRUE).status = "pending"
  BY RowGood DEF Validations, Queued
<1> QED
  BY <1>1 DEF Gentle, GoodTable, EnsureRedeemAttempts, GoodRow, Settled, Dead, Proved

\* The recovery of expired leases touches running rows only.
LEMMA RecoverGentle ==
    ASSUME NEW rows, GoodTable(rows)
    PROVE  /\ Gentle(rows, RecoverExpiredRedeemAttempts(rows))
           /\ Gentle(rows, RecoverRedeemWork(rows))
<1>1. GoodRow(Row("retryable", TRUE)) /\ Row("retryable", TRUE).status = "retryable"
  BY RowGood DEF Validations, Queued
<1> QED
  BY <1>1 DEF Gentle, GoodTable, RecoverExpiredRedeemAttempts, RecoverRedeemWork, GoodRow,
              Settled, Dead, Proved

\* Waking an account's rows changes when they are due, not what they are.
LEMMA WakeGentle ==
    ASSUME NEW rows, GoodTable(rows), NEW a
    PROVE  Gentle(rows, WakeRedeemAttemptsForAccount(a, rows))
  BY DEF Gentle, GoodTable, WakeRedeemAttemptsForAccount, TokenFits, AttemptRows

\* Two statements one after the other.
LEMMA GentleTwice ==
    ASSUME NEW r1, NEW r2, NEW r3, Gentle(r1, r2), Gentle(r2, r3)
    PROVE  Gentle(r1, r3)
  BY DEF Gentle
-----------------------------------------------------------------------------
(* What a step does to the results and to the verdicts.                    *)

KeepsResults ==
    \A x \in Rows : att[x].status \in Settled => att'[x].status = att[x].status

KeepsVerdicts ==
    \A c \in Codes : code[c].val \in Dead /\ Quiet(c) =>
        code'[c].val = code[c].val /\ Quiet(c)'

GoodStep == TypeOK' /\ KeepsResults /\ KeepsVerdicts

\* A step that changes the rows gently and no code's verdict is good when the
\* rest keeps its type.
LEMMA GentleStep ==
    ASSUME TypeOK, Gentle(att, att'),
           \A c \in Codes : code[c].val \in Dead => code'[c].val = code[c].val,
           code' \in [Codes -> CodeRows], worker' \in [Workers -> Jobs],
           reach' \in [Accounts -> {"connected", "startable", "waiting"}],
           served' \subseteq Accounts, maint' \in BOOLEAN
    PROVE  GoodStep
<1>1. TypeOK'
  BY DEF TypeOK, Gentle
<1>2. KeepsResults
  BY DEF KeepsResults, Gentle
<1>3. KeepsVerdicts
  <2> SUFFICES ASSUME NEW c \in Codes, code[c].val \in Dead, Quiet(c)
               PROVE  code'[c].val = code[c].val /\ Quiet(c)'
    BY DEF KeepsVerdicts
  <2> SUFFICES ASSUME NEW a \in Accounts PROVE att'[<<c, a>>].status # "running"
    BY DEF Quiet
  <2>1. <<c, a>> \in Rows
    BY DEF Rows
  <2> QED
    BY <2>1 DEF Gentle, Quiet
<1> QED
  BY <1>1, <1>2, <1>3 DEF GoodStep

\* No change at all is a gentle change.
LEMMA SameIsGentle == ASSUME TypeOK, att' = att PROVE Gentle(att, att')
  BY DEF TypeOK, Gentle

\* A worker's next stage keeps the types.
LEMMA StageType ==
    ASSUME TypeOK, NEW w \in Workers, NEW s \in Stages
    PROVE  [worker EXCEPT ![w].at = s] \in [Workers -> Jobs]
  BY DEF TypeOK, Jobs

\* A worker's result keeps the types.
LEMMA ReportType ==
    ASSUME TypeOK, NEW w \in Workers, NEW s \in Validations
    PROVE  [worker EXCEPT ![w].at = "reporting", ![w].out = s] \in [Workers -> Jobs]
<1>1. "reporting" \in Stages
  BY DEF Stages
<1> QED
  BY <1>1 DEF TypeOK, Jobs

\* An idle worker keeps the types.
LEMMA IdleWorker ==
    ASSUME TypeOK, NEW w \in Workers PROVE [worker EXCEPT ![w] = Idle] \in [Workers -> Jobs]
  BY IdleType DEF TypeOK

\* Giving a row back is good, whether or not it still belongs to the worker.
LEMMA ReleaseGood ==
    ASSUME TypeOK, NEW w \in Workers, NEW d \in BOOLEAN, ReleaseRedeemAttempt(w, d)
    PROVE  GoodStep
<1>1. worker[w].job \in Rows
  BY DEF TypeOK, Jobs
<1>2. GoodRow(Row("pending", d)) /\ Row("pending", d).status = "pending"
  BY RowGood DEF Validations, Queued
<1>3. Gentle(att, att')
  <2>1. CASE Owns(w) /\ att' = [att EXCEPT ![worker[w].job] = Row("pending", d)]
    BY <1>1, <1>2, <2>1 DEF TypeOK, Gentle, GoodRow, Owns, Settled, Dead, Proved
  <2>2. CASE UNCHANGED att
    BY <2>2, SameIsGentle
  <2> QED
    BY <2>1, <2>2 DEF ReleaseRedeemAttempt
<1> QED
  BY <1>3, IdleWorker, GentleStep DEF ReleaseRedeemAttempt, env, TypeOK
\* A session that comes up is good, whether or not its event gets through.
LEMMA ConnectedGentle ==
    ASSUME TypeOK, NEW a \in Accounts, Connected(a) PROVE Gentle(att, att')
<1>1. GoodTable(att)
  BY DEF TypeOK, GoodTable
<1>2. CASE att' = att
  BY <1>2, SameIsGentle
<1>3. CASE att' = WakeRedeemAttemptsForAccount(a, att)
  BY <1>1, <1>3, WakeGentle
<1> QED
  BY <1>2, <1>3 DEF Connected

\* Every step of a worker is good.
LEMMA WorkGood == ASSUME TypeOK, NEW w \in Workers, Work(w) PROVE GoodStep
<1>0. GoodTable(att) /\ worker[w] \in Jobs /\ worker[w].job \in Rows /\ worker[w].out \in Validations
  BY DEF TypeOK, GoodTable, Jobs
<1>1. CASE Select(w)
  <2> DEFINE mid == RecoverExpiredRedeemAttempts(att)
             rows == EnsureRedeemAttempts(code, mid)
             ids == EligibleAccountIDs(rows)
  <2>1. Gentle(att, mid) /\ GoodTable(mid)
    BY <1>0, RecoverGentle DEF Gentle, GoodTable
  <2>2. Gentle(att, rows)
    BY <2>1, EnsureGentle, GentleTwice
  <2>3. ids \subseteq Accounts
    BY DEF EligibleAccountIDs
  <2>4. [Idle EXCEPT !.at = "selected", !.ids = ids] \in Jobs
    <3> HIDE DEF ids
    <3> QED
      BY <2>3, IdleType DEF Jobs, Stages
  <2>5. worker' \in [Workers -> Jobs]
    <3> HIDE DEF ids
    <3> QED
      BY <1>1, <2>4, IdleType DEF Select, TypeOK, ids
  <2>6. att' = rows
    BY <1>1 DEF Select
  <2> QED
    BY <1>1, <2>2, <2>5, <2>6, GentleStep DEF Select, env, TypeOK
<1>2. CASE NextRedeemAttempt(w)
  <2> DEFINE due == {x \in Rows : DueRow(att, x) /\ x[2] \in worker[w].ids}
  <2>1. CASE due = {} /\ worker' = [worker EXCEPT ![w] = Idle] /\ UNCHANGED att
    BY <1>2, <2>1, IdleWorker, SameIsGentle, GentleStep DEF NextRedeemAttempt, env, TypeOK
  <2>2. ASSUME NEW x \in due,
               att' = [att EXCEPT ![x] = [Row("running", TRUE) EXCEPT !.token = w]],
               worker' = [worker EXCEPT ![w] = [Idle EXCEPT !.at = "claimed", !.job = x]]
        PROVE  GoodStep
    <3> DEFINE r == [Row("running", TRUE) EXCEPT !.token = w]
    <3>1. r \in AttemptRows /\ TokenFits(r) /\ r.status = "running"
      BY NoOneAssumption DEF Row, AttemptRows, TokenFits
    <3>2. x \in Rows /\ att[x].status \in Queued /\ Usable(code, x[1])
      BY <2>2 DEF DueRow
    <3>3. [Idle EXCEPT !.at = "claimed", !.job = x] \in Jobs
      BY <3>2, IdleType DEF Jobs, Stages
    <3>4. UNCHANGED <<code, reach, served, maint>>
      BY <1>2 DEF NextRedeemAttempt, env
    <3>5. TypeOK'
      <4> HIDE DEF r
      <4> QED
        BY <2>2, <3>1, <3>2, <3>3, <3>4 DEF TypeOK, r
    <3>6. KeepsResults
      BY <2>2, <3>2 DEF KeepsResults, TypeOK, Queued, Settled, Dead, Proved
    <3>7. KeepsVerdicts
      <4> SUFFICES ASSUME NEW c \in Codes, code[c].val \in Dead, Quiet(c)
                   PROVE  Quiet(c)'
        BY <3>4 DEF KeepsVerdicts
      <4> SUFFICES ASSUME NEW a \in Accounts PROVE att'[<<c, a>>].status # "running"
        BY DEF Quiet
      <4>1. <<c, a>> \in Rows /\ <<c, a>> # x
        BY <3>2 DEF Rows, Usable
      <4> QED
        BY <4>1, <2>2 DEF Quiet, TypeOK
    <3> QED
      BY <3>5, <3>6, <3>7 DEF GoodStep
  <2> QED
    BY <1>2, <2>1, <2>2 DEF NextRedeemAttempt
<1>3. CASE CheckSession(w)
  <2>1. CASE ReleaseRedeemAttempt(w, TRUE)
    BY <2>1, ReleaseGood
  <2>2. CASE UNCHANGED <<code, att, env>> /\
             (Goes(w, "calling") \/ Goes(w, "dialling") \/ WillReport(w, "retryable"))
    <3>1. worker' \in [Workers -> Jobs]
      <4>1. CASE Goes(w, "calling")
        BY <4>1, StageType DEF Goes, Stages
      <4>2. CASE Goes(w, "dialling")
        BY <4>2, StageType DEF Goes, Stages
      <4>3. CASE WillReport(w, "retryable")
        BY <4>3, ReportType DEF WillReport, Validations, Queued
      <4> QED
        BY <2>2, <4>1, <4>2, <4>3
    <3> QED
      BY <2>2, <3>1, SameIsGentle, GentleStep DEF env, TypeOK
  <2> QED
    BY <1>3, <2>1, <2>2 DEF CheckSession
<1>4. CASE StartSession(w)
  <2> DEFINE a == worker[w].job[2]
  <2>0. a \in Accounts
    BY <1>0 DEF Rows
  <2>1. CASE Connected(a) /\ Goes(w, "calling")
    <3>1. Gentle(att, att')
      BY <2>0, <2>1, ConnectedGentle
    <3>2. worker' \in [Workers -> Jobs]
      BY <2>1, StageType DEF Goes, Stages
    <3>3. reach' \in [Accounts -> {"connected", "startable", "waiting"}]
      BY <2>0, <2>1 DEF Connected, TypeOK
    <3> QED
      BY <1>4, <3>1, <3>2, <3>3, GentleStep DEF StartSession, TypeOK
  <2>2. CASE WillReport(w, "retryable") /\ UNCHANGED <<att, reach>>
    <3>1. worker' \in [Workers -> Jobs]
      BY <2>2, ReportType DEF WillReport, Validations, Queued
    <3> QED
      BY <1>4, <2>2, <3>1, SameIsGentle, GentleStep DEF StartSession, TypeOK
  <2> QED
    BY <1>4, <2>1, <2>2 DEF StartSession
<1>5. CASE RedeemCode(w)
  <2>1. CASE ReleaseRedeemAttempt(w, FALSE)
    BY <2>1, ReleaseGood
  <2>2. ASSUME NEW s \in Outcomes, WillReport(w, s), UNCHANGED <<code, att, env>>
        PROVE  GoodStep
    <3>1. worker' \in [Workers -> Jobs]
      BY <2>2, ReportType DEF WillReport, Outcomes, Validations, Queued
    <3> QED
      BY <2>2, <3>1, SameIsGentle, GentleStep DEF env, TypeOK
  <2>3. "retryable" \in Outcomes
    BY DEF Outcomes
  <2> QED
    BY <1>5, <2>1, <2>2, <2>3 DEF RedeemCode
<1>6. CASE CompleteRedeemAttempt(w)
  <2> DEFINE x == worker[w].job
             s == worker[w].out
  <2>1. CASE UNCHANGED <<att, code>>
    BY <1>6, <2>1, IdleWorker, SameIsGentle, GentleStep DEF CompleteRedeemAttempt, env, TypeOK
  <2>2. CASE Owns(w) /\ att' = RowsAfter(x, s) /\ code' = [code EXCEPT ![x[1]] = CodeAfter(x[1], s)]
    <3>0. x \in Rows /\ s \in Validations /\ x[1] \in Codes /\ x[2] \in Accounts
          /\ x = <<x[1], x[2]>> /\ att[x].status = "running"
      BY <1>0, <2>2 DEF Rows, Owns
    <3>1. GoodRow(Row(s, s # "retryable")) /\ Row(s, s # "retryable").status = s
      BY <3>0, RowGood
    <3>2. Gentle(att, att')
      <4> HIDE DEF x, s
      <4>1. \A y \in Rows : /\ att'[y] \in AttemptRows
                            /\ TokenFits(att'[y])
                            /\ att[y].status \in Settled => att'[y].status = att[y].status
                            /\ att'[y].status = "running" => att[y].status = "running"
        <5> TAKE y \in Rows
        <5>1. att[y] \in AttemptRows /\ TokenFits(att[y])
          BY DEF TypeOK
        <5>2. CASE y = x
          BY <2>2, <3>0, <3>1, <5>2 DEF RowsAfter, GoodRow, Settled, Dead, Proved
        <5>3. CASE y # x /\ y[1] = x[1] /\ s \in Dead /\ att[y].status \in Queued
          <6>1. att'[y] = [att[y] EXCEPT !.status = s, !.due = TRUE]
            BY <2>2, <5>3 DEF RowsAfter
          <6> QED
            BY <5>1, <5>3, <6>1, <3>0
               DEF AttemptRows, TokenFits, Queued, Settled, Dead, Proved, Validations
        <5>4. CASE y # x /\ ~(y[1] = x[1] /\ s \in Dead /\ att[y].status \in Queued)
          <6>1. att'[y] = att[y]
            BY <2>2, <5>4 DEF RowsAfter
          <6> QED
            BY <5>1, <6>1
        <5> QED
          BY <5>2, <5>3, <5>4
      <4>2. att' = [y \in Rows |-> att'[y]]
        BY <2>2 DEF RowsAfter
      <4> QED
        BY <4>1, <4>2 DEF Gentle
    <3>3. CodeAfter(x[1], s) \in CodeRows
      <4>1. code[x[1]] \in CodeRows
        BY <3>0 DEF TypeOK
      <4> HIDE DEF x, s
      <4>2. CASE s \in Dead
        BY <3>0, <4>1, <4>2 DEF CodeAfter, CodeRows, Suppressed, Dead
      <4>3. CASE s \notin Dead
        BY <3>0, <4>1, <4>3 DEF CodeAfter, CodeRows
      <4> QED
        BY <4>2, <4>3
    <3>4. TypeOK' /\ KeepsResults
      <4> HIDE DEF x, s
      <4>1. worker' \in [Workers -> Jobs]
        BY <1>6, IdleWorker DEF CompleteRedeemAttempt
      <4>2. UNCHANGED <<reach, served, maint>>
        BY <1>6 DEF CompleteRedeemAttempt, env
      <4>3. code' \in [Codes -> CodeRows]
        BY <2>2, <3>0, <3>3 DEF TypeOK
      <4> QED
        BY <3>2, <4>1, <4>2, <4>3 DEF TypeOK, Gentle, KeepsResults
    <3>5. KeepsVerdicts
      <4> SUFFICES ASSUME NEW c \in Codes, code[c].val \in Dead, Quiet(c)
                   PROVE  code'[c].val = code[c].val /\ Quiet(c)'
        BY DEF KeepsVerdicts
      <4>1. c # x[1]
        BY <3>0 DEF Quiet
      <4>2. code'[c] = code[c]
        BY <2>2, <4>1 DEF TypeOK
      <4>3. ASSUME NEW a \in Accounts PROVE att'[<<c, a>>].status # "running"
        <5>1. <<c, a>> \in Rows
          BY DEF Rows
        <5> QED
          BY <5>1, <3>2 DEF Gentle, Quiet
      <4> QED
        BY <4>2, <4>3 DEF Quiet
    <3> QED
      BY <3>4, <3>5 DEF GoodStep
  <2> QED
    BY <1>6, <2>1, <2>2 DEF CompleteRedeemAttempt
<1> QED
  BY <1>1, <1>2, <1>3, <1>4, <1>5, <1>6 DEF Work
\* Submissions, clocks and the environment take good steps.
LEMMA OtherGood ==
    ASSUME TypeOK, Next, ~ \E w \in Workers : Work(w) PROVE GoodStep
<1>0. GoodTable(att)
  BY DEF TypeOK, GoodTable
<1>1. ASSUME NEW c \in Codes, Submit(c) PROVE GoodStep
  <2>1. PICK r \in Reported(c) : code' = [code EXCEPT ![c] = r]
    BY <1>1 DEF Submit
  <2>2. code[c] \in CodeRows
    BY DEF TypeOK
  <2>3. r \in CodeRows /\ (code[c].val \in Dead => r.val = code[c].val)
    BY <2>1, <2>2 DEF Reported, CodeRows, Dead, Validations, Queued
  <2>4. code' \in [Codes -> CodeRows]
        /\ \A d \in Codes : code[d].val \in Dead => code'[d].val = code[d].val
    BY <2>1, <2>3 DEF TypeOK
  <2>5. Gentle(att, att')
    BY <1>0, <1>1, EnsureGentle DEF Submit
  <2> QED
    BY <1>1, <2>4, <2>5, GentleStep DEF Submit, env, TypeOK
<1>2. ASSUME NEW c \in Codes, UpdateExpiry(c) PROVE GoodStep
  <2>1. code' \in [Codes -> CodeRows]
        /\ \A d \in Codes : code[d].val \in Dead => code'[d].val = code[d].val
    BY <1>2 DEF UpdateExpiry, TypeOK, CodeRows
  <2>2. Gentle(att, att')
    BY <1>0, <1>2, EnsureGentle DEF UpdateExpiry
  <2> QED
    BY <1>2, <2>1, <2>2, GentleStep DEF UpdateExpiry, env, TypeOK
<1>3. ASSUME NEW c \in Codes, ExpiryPasses(c) PROVE GoodStep
  <2>1. code' \in [Codes -> CodeRows]
        /\ \A d \in Codes : code[d].val \in Dead => code'[d].val = code[d].val
    BY <1>3 DEF ExpiryPasses, TypeOK, CodeRows
  <2> QED
    BY <1>3, <2>1, SameIsGentle, GentleStep DEF ExpiryPasses, env, TypeOK
<1>4. ASSUME NEW x \in Rows, RetryComes(x) \/ LeaseEnds(x) PROVE GoodStep
  <2>1. Gentle(att, att')
    <3>1. CASE RetryComes(x)
      BY <3>1 DEF RetryComes, Gentle, TypeOK, TokenFits, AttemptRows
    <3>2. CASE LeaseEnds(x)
      BY <3>2 DEF LeaseEnds, Gentle, TypeOK, TokenFits, AttemptRows
    <3> QED
      BY <1>4, <3>1, <3>2
  <2> QED
    BY <1>4, <2>1, GentleStep DEF RetryComes, LeaseEnds, env, TypeOK
<1>5. CASE Restart
  <2>1. worker' \in [Workers -> Jobs]
    BY <1>5, IdleType DEF Restart
  <2>2. Gentle(att, att')
    BY <1>0, <1>5, RecoverGentle DEF Restart
  <2>3. reach' \in [Accounts -> {"connected", "startable", "waiting"}]
    BY <1>5 DEF Restart
  <2> QED
    BY <1>5, <2>1, <2>2, <2>3, GentleStep DEF Restart, TypeOK
<1>6. CASE MaintenanceToggles
  <2>1. reach' \in [Accounts -> {"connected", "startable", "waiting"}]
    BY <1>6 DEF MaintenanceToggles, TypeOK
  <2> QED
    BY <1>6, <2>1, SameIsGentle, GentleStep DEF MaintenanceToggles, TypeOK
<1>7. ASSUME NEW a \in Accounts, SessionChanges(a) PROVE GoodStep
  <2>1. Gentle(att, att')
    BY <1>7, ConnectedGentle, SameIsGentle DEF SessionChanges
  <2>2. reach' \in [Accounts -> {"connected", "startable", "waiting"}]
    BY <1>7 DEF SessionChanges, Connected, TypeOK
  <2> QED
    BY <1>7, <2>1, <2>2, GentleStep DEF SessionChanges, TypeOK
<1>8. ASSUME NEW a \in Accounts, AccountWithdrawn(a) PROVE GoodStep
  BY <1>8, SameIsGentle, GentleStep DEF AccountWithdrawn, TypeOK
<1> QED
  BY <1>1, <1>2, <1>3, <1>4, <1>5, <1>6, <1>7, <1>8 DEF Next, Disturb

\* Every step of the specification is good.
LEMMA StepGood == ASSUME TypeOK, [Next]_vars PROVE GoodStep
<1>1. CASE UNCHANGED vars
  BY <1>1, SameIsGentle, GentleStep DEF vars, TypeOK
<1>2. CASE Next
  BY <1>2, WorkGood, OtherGood
<1> QED
  BY <1>1, <1>2

\* The empty tables satisfy the type invariant.
LEMMA InitType == Init => TypeOK
<1> SUFFICES ASSUME Init PROVE TypeOK
  OBVIOUS
<1>1. GoodRow(Row("none", TRUE))
  BY RowGood
<1>2. att \in [Rows -> AttemptRows] /\ \A x \in Rows : TokenFits(att[x])
  BY <1>1 DEF Init, GoodRow
<1>3. code \in [Codes -> CodeRows]
  BY DEF Init, CodeRows
<1>4. worker \in [Workers -> Jobs]
  BY IdleType DEF Init
<1> QED
  BY <1>2, <1>3, <1>4 DEF Init, TypeOK

-----------------------------------------------------------------------------
(* The theorems.                                                           *)

(* The tables and the workers keep their types, and a row of               *)
(* redeem_attempts has a run token exactly while it runs.                  *)
THEOREM RedeemTypes == Spec => []TypeOK
<1>1. TypeOK /\ [Next]_vars => TypeOK'
  BY StepGood DEF GoodStep
<1> QED
  BY <1>1, InitType, PTL DEF Spec

(* The result of an attempt is never overwritten: not by a worker whose    *)
(* lease was taken over, a restart, a new report or another verdict        *)
(* (CompleteRedeemAttempt and the recovery statements).                    *)
THEOREM ResultsStay == Spec => SettledStays
<1>1. TypeOK /\ [Next]_vars =>
        [\A x \in Rows : att[x].status \in Settled => att'[x].status = att[x].status]_vars
  BY StepGood DEF GoodStep, KeepsResults
<1> QED
  BY <1>1, RedeemTypes, PTL DEF Spec, SettledStays

(* A verdict against a code that has no attempt under way holds, and no    *)
(* attempt of the code starts again (nextRedeemAttempt, UpsertRedeemCode). *)
THEOREM VerdictsHold == Spec => QuietVerdictHolds
<1>1. TypeOK /\ [Next]_vars =>
        [\A c \in Codes : code[c].val \in Dead /\ Quiet(c) =>
            code'[c].val = code[c].val /\ Quiet(c)']_vars
  BY StepGood DEF GoodStep, KeepsVerdicts
<1> QED
  BY <1>1, RedeemTypes, PTL DEF Spec, QuietVerdictHolds
=============================================================================
