------------------------- MODULE AccountSafetyProofs -------------------------
(***************************************************************************)
(* For any number of runners, error codes, budgets and bounds: a refusal   *)
(* that is newer than the login of a probe is never cleared by that probe, *)
(* a recovery that waits for a setting never misses its change, errors do  *)
(* not disturb a running cooldown, and race deletions keep their distance. *)
(* When no runner outlives its Stop: automatic logins stay counted, within *)
(* the budget and apart.                                                   *)
(***************************************************************************)
EXTENDS AccountSafety, TLAPS

(* The steps between a login under protection and its end.                 *)
Probing == {"lazy", "rep", "final", "clear", "linger"}

(* A runner that has not started knows of no protection.                   *)
Blank == \A r \in Runners : pc[r] = "off" => mem[r].code = 0

(* An error since the login has moved the revision past the one the probes *)
(* carry.                                                                  *)
RevisionTells ==
    \A r \in Runners : pc[r] \in Probing =>
        /\ rev[r] >= att[r].login
        /\ dirty[r] => rev[r] > att[r].login

(* From the decision to wait on, the setting is as it was or a token is in *)
(* the channel.                                                            *)
WaitsForSetting ==
    \A r \in Runners : (pc[r] \in {"park", "blocked"} /\ ~wake[r]) =>
        /\ att[r].why = "paused" => ~policy.on
        /\ att[r].why = "optout" => ~policy.fresh

IInv == ShapeOK /\ Blank /\ RevisionTells /\ WaitsForSetting

------------------------------------------------------------------------------
(* The restriction codes are not 0, which stands for no protection.        *)
LEMMA CodesAreErrors ==
  /\ \A c \in Codes : c \in Nat /\ c # 0
  /\ \A c \in Codes \cup {0} : c = 0 \/ c = 5000 \/ c = 97777 \/ c = 97778
  BY SafetyAssumption

(* The backoff is a length of time, and never none.                        *)
LEMMA BackoffType ==
  \A t \in 0..4 : restrictionBackoff(t) \in Nat /\ restrictionBackoff(t) > 0
  <1> SUFFICES ASSUME NEW t \in 0..4
               PROVE  restrictionBackoff(t) \in Nat /\ restrictionBackoff(t) > 0
    OBVIOUS
  <1> DEFINE k == MinOf(3, MaxOf(0, t - 1))
  <1>1. k \in 0..3
    BY DEF MinOf, MaxOf
  <1>2. <<1, 2, 4, 8>>[1 + k] \in {1, 2, 4, 8}
    <2>1. k = 0 \/ k = 1 \/ k = 2 \/ k = 3
      BY <1>1
    <2> QED BY <2>1
  <1>3. Base \in Nat \ {0} /\ Cap \in Nat \ {0}
    BY SafetyAssumption
  <1> DEFINE b == <<1, 2, 4, 8>>[1 + k]
  <1> HIDE DEF k
  <1>4. Base * b \in Nat /\ Base * b > 0
    <2> HIDE DEF b
    <2>1. b = 1 \/ b = 2 \/ b = 4 \/ b = 8
      BY <1>2 DEF b
    <2> QED BY <1>3, <2>1
  <1> QED BY <1>3, <1>4 DEF restrictionBackoff, MinOf, k

(* An observed error leaves an account that is protected and has to wait,  *)
(* with the counters of the logins untouched.                              *)
LEMMA NextRow ==
  ASSUME ShapeOK, NEW prev \in Row, NEW code \in Codes, NEW date \in Dates
  PROVE  /\ nextAccountRestriction(prev, code, date) \in Row
         /\ nextAccountRestriction(prev, code, date).code # 0
         /\ nextAccountRestriction(prev, code, date).until > now
         /\ nextAccountRestriction(prev, code, date).fresh = prev.fresh
         /\ nextAccountRestriction(prev, code, date).last = prev.last
  <1> DEFINE n == nextAccountRestriction(prev, code, date)
             active == prev.code # 0 /\ prev.until > now
             tries == IF active THEN prev.tries ELSE MinOf(4, prev.tries + 1)
             dated == code = 97778 /\ date > 0
             until == IF ~active
                      THEN IF dated THEN now + date + Grace
                           ELSE now + (IF code = 97778 THEN Cap ELSE restrictionBackoff(tries))
                      ELSE IF dated THEN MaxOf(prev.until, now + date + Grace)
                           ELSE IF code = 97778 /\ prev.code # 97778
                                THEN MaxOf(prev.until, now + Cap) ELSE prev.until
             c == IF active THEN severerCode(prev, code) ELSE code
             u == MaxOf(until, prev.until)
  <1>1. /\ now \in Nat /\ Grace \in Nat /\ date \in Nat /\ prev.until \in Nat
        /\ Cap \in Nat \ {0}
    BY SafetyAssumption DEF ShapeOK, DataOK, ThreadOK, Row
  <1>2. tries \in 0..4
    BY DEF MinOf, Row
  <1>3. restrictionBackoff(tries) \in Nat /\ restrictionBackoff(tries) > 0
    BY <1>2, BackoffType
  <1>4. until \in Nat /\ (active \/ until > now) /\ (active => prev.until > now)
    <2>1. active => prev.until > now
      OBVIOUS
    <2> HIDE DEF tries, active
    <2> QED BY <1>1, <1>3, <2>1 DEF MaxOf
  <1>5. u \in Nat /\ u > now
    <2> HIDE DEF until, active
    <2> QED BY <1>1, <1>4 DEF MaxOf
  <1>6. c \in Codes
    BY SafetyAssumption DEF severerCode, Row
  <1>7. n = [prev EXCEPT !.tries = tries, !.until = u, !.code = c]
    BY DEF nextAccountRestriction
  <1>8. /\ n \in Row /\ n.code = c /\ n.until = u
        /\ n.fresh = prev.fresh /\ n.last = prev.last
    <2> HIDE DEF n, c, u, tries
    <2> QED BY <1>2, <1>5, <1>6, <1>7 DEF Row
  <1>9. n.code # 0
    <2> HIDE DEF n, c
    <2> QED BY <1>6, <1>8, CodesAreErrors
  <1>10. n.until > now
    <2> HIDE DEF n, u
    <2> QED BY <1>5, <1>8
  <1> HIDE DEF c, u
  <1> QED BY <1>8, <1>9, <1>10

------------------------------------------------------------------------------
(* The locals of a thread that runs no attempt have their type.            *)
LEMMA NoAttemptType == NoAttempt \in Attempt
  BY DEF NoAttempt, Attempt, Reasons

(* What a failed attempt leaves behind: the loop waits for a setting only  *)
(* for the reason the attempt failed with.                                 *)
LEMMA FailFacts ==
  ASSUME ShapeOK, NEW r \in Runners, NEW kind, NEW m \in Row, Fail(r, kind, m)
  PROVE  /\ pc' \in [Runners -> PCs] /\ att' \in [Runners -> Attempt]
         /\ pc'[r] \in {"gone", "sleep", "ended", "park"}
         /\ pc'[r] = "park" => kind \in Reasons /\ att'[r].why = kind
         /\ \A q \in Runners \ {r} : pc'[q] = pc[q] /\ att'[q] = att[q]
  <1>1. NextPC(r, kind, m) \in {"gone", "sleep", "ended", "park"}
    BY DEF NextPC
  <1>2. NextPC(r, kind, m) = "park" => kind \in Reasons
    BY DEF NextPC, Reasons
  <1>3. m.last + Interval \in Nat
    BY SafetyAssumption DEF Row
  <1>4. NoAttempt \in Attempt
    BY NoAttemptType
  <1>5. /\ Waiting(r, kind, m) \in Attempt
        /\ NextPC(r, kind, m) = "park" => Waiting(r, kind, m).why = kind
    <2>1. CASE NextPC(r, kind, m) # "park"
      BY <1>4, <2>1 DEF Waiting
    <2>2. CASE NextPC(r, kind, m) = "park"
      BY <1>2, <1>3, <2>2 DEF Waiting, NoAttempt, Attempt
    <2> QED BY <2>1, <2>2
  <1> QED BY <1>1, <1>2, <1>5 DEF Fail, ShapeOK, DataOK, ThreadOK, PCs

(* A failed call of a resumed session: the same, or the attempt goes on    *)
(* with a fresh login.                                                     *)
LEMMA BrokenFacts ==
  ASSUME ShapeOK, NEW r \in Runners, NEW kind, NEW m \in Row, NEW v,
         NEW kept, Broken(r, kind, m, v, kept)
  PROVE  /\ cache' = FALSE \/ cache' = kept
         /\ pc' \in [Runners -> PCs] /\ att' \in [Runners -> Attempt]
         /\ pc'[r] \in {"gone", "sleep", "ended", "park", "freshwait"}
         /\ pc'[r] = "park" => kind \in Reasons /\ att'[r].why = kind
         /\ \A q \in Runners \ {r} : pc'[q] = pc[q] /\ att'[q] = att[q]
  <1>1. CASE Fail(r, kind, m) /\ cache' = kept
    BY <1>1, FailFacts
  <1>2. CASE Fail(r, "error", m) /\ cache' = kept
    <2>1. "error" \notin Reasons
      BY DEF Reasons
    <2> QED BY <1>2, <2>1, FailFacts
  <1>3. CASE /\ cache' = FALSE
             /\ pc' = [pc EXCEPT ![r] = "freshwait"]
             /\ att' = [att EXCEPT ![r].resume = FALSE, ![r].restore = 0]
    <2> DEFINE o == [att[r] EXCEPT !.resume = FALSE, !.restore = 0]
    <2>1. att' \in [Runners -> Attempt]
      <3>1. o \in Attempt
        <4> DEFINE z == 0
                   f == FALSE
        <4>1. o = [att[r] EXCEPT !.resume = f, !.restore = z]
          OBVIOUS
        <4>2. z \in Nat /\ f \in BOOLEAN /\ att[r] \in Attempt
          BY DEF ShapeOK, ThreadOK
        <4> HIDE DEF o, z, f
        <4> QED BY <4>1, <4>2 DEF Attempt
      <3>2. att' = [att EXCEPT ![r] = o]
        BY <1>3 DEF ShapeOK, ThreadOK
      <3> HIDE DEF o
      <3> QED BY <3>1, <3>2 DEF ShapeOK, ThreadOK
    <2>2. \A q \in Runners \ {r} : att'[q] = att[q]
      BY <1>3 DEF ShapeOK, DataOK, ThreadOK
    <2> QED BY <1>3, <2>1, <2>2 DEF ShapeOK, DataOK, ThreadOK, PCs
  <1> QED BY <1>1, <1>2, <1>3 DEF Broken

(* An observed error never ends protection, and moves the revision when it *)
(* is recorded.                                                            *)
LEMMA ObserveFacts ==
  ASSUME ShapeOK, NEW r \in Runners, NEW code \in Codes, NEW rpc \in RPCs,
         NEW date \in Dates, observe(r, code, rpc, date)
  PROVE  /\ row' \in Row /\ mem' \in [Runners -> Row] /\ rev' \in [Runners -> Nat]
         /\ dirty' \in [Runners -> BOOLEAN] /\ errors' \in Nat
         /\ UNCHANGED <<autos, reserved, deleted>>
         /\ mem[r].code # 0 => mem'[r].code # 0
         /\ rev'[r] = rev[r] + 1 \/ (rev'[r] = rev[r] /\ dirty'[r] = dirty[r])
         /\ \A q \in Runners \ {r} : /\ mem'[q] = mem[q] /\ rev'[q] = rev[q]
                                      /\ dirty'[q] = dirty[q]
  <1> DEFINE n == nextAccountRestriction(mem[r], code, date)
  <1>1. n \in Row /\ n.code # 0
    BY NextRow DEF ShapeOK, DataOK, ThreadOK
  <1>2. errors' \in Nat /\ UNCHANGED <<autos, reserved, deleted>>
    BY DEF observe, ShapeOK, DataOK, ThreadOK
  <1>3. CASE Record(r, n)
    <2> HIDE DEF n
    <2>1. row' \in Row
      BY <1>1, <1>3 DEF Record, SaveAccountRestriction, ShapeOK, DataOK, ThreadOK, Row
    <2> QED BY <1>1, <1>2, <1>3, <2>1 DEF Record, ShapeOK, DataOK, ThreadOK
  <1>4. CASE UNCHANGED <<mem, rev, row, dirty>>
    BY <1>2, <1>4 DEF ShapeOK, DataOK, ThreadOK
  <1> QED BY <1>3, <1>4 DEF observe

(* The answer that makes a check fail names the setting it failed for.     *)
LEMMA VerdictFacts ==
  ASSUME NEW r \in Runners
  PROVE  /\ checkLogin(r) = "paused" => ~policy.on
         /\ checkLogin(r) # "optout"
         /\ \A v : /\ checkProbe(r, v) = "paused" => ~policy.on
                   /\ checkProbe(r, v) # "optout"
         /\ checkFreshRecoveryAuthorization(r) = "paused" => ~policy.on
         /\ checkFreshRecoveryAuthorization(r) = "optout" => ~policy.fresh
  BY DEF checkLogin, checkProbe, checkFreshRecoveryAuthorization, Paused

(* The initial states satisfy the inductive invariant.                     *)
LEMMA InitInv == Init => IInv
  <1> SUFFICES ASSUME Init PROVE IInv
    OBVIOUS
  <1>1. NoRow \in Row
    BY DEF NoRow, Row
  <1>2. NoAttempt \in Attempt
    BY NoAttemptType
  <1>3. ShapeOK
    BY <1>1, <1>2 DEF Init, ShapeOK, DataOK, ThreadOK, PCs
  <1>4. Blank /\ RevisionTells /\ WaitsForSetting
    BY DEF Init, Blank, RevisionTells, WaitsForSetting, Probing, NoRow
  <1> QED BY <1>3, <1>4 DEF IInv

(* A step of runner r needs to be looked at for r only: it leaves the      *)
(* others alone, and changes the settings, if at all, by pausing.          *)
LEMMA OneRunnerSteps ==
  ASSUME IInv, NEW r \in Runners, ShapeOK',
         \A q \in Runners \ {r} : /\ pc'[q] = pc[q] /\ att'[q] = att[q] /\ mem'[q] = mem[q]
                                  /\ rev'[q] = rev[q] /\ dirty'[q] = dirty[q]
                                  /\ wake'[q] = wake[q],
         policy' = policy \/ policy' = [policy EXCEPT !.on = FALSE],
         pc'[r] = "off" => mem'[r].code = 0,
         pc'[r] \in Probing => /\ rev'[r] >= att'[r].login
                               /\ dirty'[r] => rev'[r] > att'[r].login,
         (pc'[r] \in {"park", "blocked"} /\ ~wake'[r]) =>
             /\ att'[r].why = "paused" => ~policy'.on
             /\ att'[r].why = "optout" => ~policy'.fresh
  PROVE  IInv'
  <1>1. Blank'
    BY DEF IInv, Blank
  <1>2. RevisionTells'
    BY DEF IInv, RevisionTells
  <1>3. WaitsForSetting'
    BY DEF IInv, WaitsForSetting, ShapeOK, DataOK, ThreadOK
  <1> QED BY <1>1, <1>2, <1>3 DEF IInv

(* A verdict other than "ok" ends the attempt, or lets a resumed one go on *)
(* with a fresh login; the errors a call meets never end protection.       *)
LEMMA CallFacts ==
  ASSUME ShapeOK, NEW r \in Runners, NEW verdict, CallFails(r, verdict)
  PROVE  /\ row' \in Row /\ mem' \in [Runners -> Row] /\ rev' \in [Runners -> Nat]
         /\ dirty' \in [Runners -> BOOLEAN] /\ errors' \in Nat
         /\ UNCHANGED <<autos, reserved, deleted>> /\ cache' \in BOOLEAN
         /\ pc' \in [Runners -> PCs] /\ att' \in [Runners -> Attempt]
         /\ pc'[r] \in {"gone", "sleep", "ended", "park", "freshwait"}
         /\ pc'[r] = "park" => verdict \in Reasons /\ att'[r].why = verdict
         /\ mem[r].code # 0 => mem'[r].code # 0
         /\ \A q \in Runners \ {r} : /\ pc'[q] = pc[q] /\ att'[q] = att[q]
                                      /\ mem'[q] = mem[q] /\ rev'[q] = rev[q]
                                      /\ dirty'[q] = dirty[q]
  <1>1. mem[r] \in Row /\ cache \in BOOLEAN
    BY DEF ShapeOK, DataOK, ThreadOK
  <1>2. "error" \notin Reasons /\ "expired" \notin Reasons
    BY DEF Reasons
  <1>3. CASE Broken(r, verdict, mem[r], rev[r], cache) /\ UNCHANGED <<row, guard, hist>>
    <2>1. /\ cache' = FALSE \/ cache' = cache
          /\ pc' \in [Runners -> PCs] /\ att' \in [Runners -> Attempt]
          /\ pc'[r] \in {"gone", "sleep", "ended", "park", "freshwait"}
          /\ pc'[r] = "park" => verdict \in Reasons /\ att'[r].why = verdict
          /\ \A q \in Runners \ {r} : pc'[q] = pc[q] /\ att'[q] = att[q]
      BY <1>1, <1>3, BrokenFacts
    <2> QED BY <1>1, <1>3, <2>1 DEF ShapeOK, DataOK, guard, hist
  <1>4. CASE /\ \E kind \in {"expired", "error"} : Broken(r, kind, mem[r], rev[r], cache)
             /\ UNCHANGED <<row, guard, hist>>
    <2>1. PICK kind \in {"expired", "error"} : Broken(r, kind, mem[r], rev[r], cache)
      BY <1>4
    <2>2. kind \notin Reasons
      BY <1>2
    <2>3. /\ cache' = FALSE \/ cache' = cache
          /\ pc' \in [Runners -> PCs] /\ att' \in [Runners -> Attempt]
          /\ pc'[r] \in {"gone", "sleep", "ended", "park", "freshwait"}
          /\ pc'[r] = "park" => kind \in Reasons /\ att'[r].why = kind
          /\ \A q \in Runners \ {r} : pc'[q] = pc[q] /\ att'[q] = att[q]
      BY <1>1, <2>1, BrokenFacts
    <2> QED BY <1>1, <1>4, <2>2, <2>3 DEF ShapeOK, DataOK, guard, hist
  <1>5. CASE /\ \E code \in Codes, rpc \in RPCs, date \in Dates : observe(r, code, rpc, date)
             /\ Broken(r, "error", mem'[r], rev'[r], cache)
    <2>1. PICK code \in Codes, rpc \in RPCs, date \in Dates : observe(r, code, rpc, date)
      BY <1>5
    <2>2. mem' \in [Runners -> Row]
      BY <2>1, ObserveFacts
    <2>3. mem'[r] \in Row
      BY <2>2
    <2> DEFINE m == mem'[r]
               v == rev'[r]
    <2>4. /\ cache' = FALSE \/ cache' = cache
          /\ pc' \in [Runners -> PCs] /\ att' \in [Runners -> Attempt]
          /\ pc'[r] \in {"gone", "sleep", "ended", "park", "freshwait"}
          /\ pc'[r] = "park" => "error" \in Reasons
          /\ \A q \in Runners \ {r} : pc'[q] = pc[q] /\ att'[q] = att[q]
      <3>1. m \in Row /\ Broken(r, "error", m, v, cache)
        BY <1>5, <2>3
      <3> HIDE DEF m, v
      <3> QED BY <1>1, <3>1, BrokenFacts
    <2>5. /\ row' \in Row /\ rev' \in [Runners -> Nat]
          /\ dirty' \in [Runners -> BOOLEAN] /\ errors' \in Nat
          /\ UNCHANGED <<autos, reserved, deleted>>
          /\ mem[r].code # 0 => mem'[r].code # 0
          /\ \A q \in Runners \ {r} : /\ mem'[q] = mem[q] /\ rev'[q] = rev[q]
                                       /\ dirty'[q] = dirty[q]
      BY <2>1, ObserveFacts
    <2> HIDE DEF m, v
    <2> QED BY <1>1, <1>2, <2>2, <2>4, <2>5
  <1> QED BY <1>3, <1>4, <1>5 DEF CallFails

(* A failed attempt keeps the invariant: the reason it gives to wait is    *)
(* the setting as it is.                                                   *)
LEMMA EndStep ==
  ASSUME IInv, NEW r \in Runners, NEW kind, DataOK',
         pc' \in [Runners -> PCs], att' \in [Runners -> Attempt],
         pc'[r] \in {"gone", "sleep", "ended", "park", "freshwait"},
         pc'[r] = "park" => kind \in Reasons /\ att'[r].why = kind,
         \A q \in Runners \ {r} : /\ pc'[q] = pc[q] /\ att'[q] = att[q] /\ mem'[q] = mem[q]
                                  /\ rev'[q] = rev[q] /\ dirty'[q] = dirty[q]
                                  /\ wake'[q] = wake[q],
         policy' = policy \/ policy' = [policy EXCEPT !.on = FALSE],
         kind = "paused" => ~policy'.on, kind = "optout" => ~policy'.fresh
  PROVE  IInv'
  <1>1. ShapeOK'
    BY DEF ShapeOK, ThreadOK
  <1> QED BY <1>1, OneRunnerSteps DEF Probing, Reasons

(* The same for a step that fails an attempt and writes nothing.           *)
LEMMA FailStep ==
  ASSUME IInv, NEW r \in Runners, NEW kind, Fail(r, kind, mem[r]),
         UNCHANGED <<now, db, policy, guard, flight, wake, hist>>,
         kind = "paused" => ~policy.on, kind = "optout" => ~policy.fresh
  PROVE  IInv'
  <1>1. ShapeOK /\ mem[r] \in Row
    BY DEF IInv, ShapeOK, DataOK
  <1>2. DataOK'
    BY DEF IInv, ShapeOK, DataOK, db, guard, hist
  <1>3. /\ pc' \in [Runners -> PCs] /\ att' \in [Runners -> Attempt]
        /\ pc'[r] \in {"gone", "sleep", "ended", "park"}
        /\ pc'[r] = "park" => kind \in Reasons /\ att'[r].why = kind
        /\ \A q \in Runners \ {r} : pc'[q] = pc[q] /\ att'[q] = att[q]
    BY <1>1, FailFacts
  <1> QED BY <1>2, <1>3, EndStep DEF guard, hist

(* And for one that may discard the cached session or trip the guard.      *)
LEMMA BrokenStep ==
  ASSUME IInv, NEW r \in Runners, NEW kind, NEW kept \in BOOLEAN,
         Broken(r, kind, mem[r], rev[r], kept),
         UNCHANGED <<now, row, guard, flight, hist>>,
         (policy' = policy /\ wake' = wake) \/ TripGuard(r),
         kind = "paused" => ~policy.on, kind = "optout" => ~policy.fresh
  PROVE  IInv'
  <1>1. ShapeOK /\ mem[r] \in Row
    BY DEF IInv, ShapeOK, DataOK
  <1>2. /\ cache' = FALSE \/ cache' = kept
        /\ pc' \in [Runners -> PCs] /\ att' \in [Runners -> Attempt]
        /\ pc'[r] \in {"gone", "sleep", "ended", "park", "freshwait"}
        /\ pc'[r] = "park" => kind \in Reasons /\ att'[r].why = kind
        /\ \A q \in Runners \ {r} : pc'[q] = pc[q] /\ att'[q] = att[q]
    BY <1>1, BrokenFacts
  <1>3. /\ policy' = policy \/ policy' = [policy EXCEPT !.on = FALSE]
        /\ policy' \in [on : BOOLEAN, fresh : BOOLEAN]
        /\ wake' \in [Runners -> BOOLEAN]
        /\ \A q \in Runners \ {r} : wake'[q] = wake[q]
        /\ kind = "paused" => ~policy'.on
        /\ kind = "optout" => ~policy'.fresh
    BY <1>1 DEF TripGuard, ShapeOK, DataOK
  <1>4. DataOK'
    BY <1>1, <1>2, <1>3 DEF ShapeOK, DataOK, guard, hist
  <1> QED BY <1>2, <1>3, <1>4, EndStep DEF guard, hist

(* And for a call that fails.                                              *)
LEMMA CallStep ==
  ASSUME IInv, NEW r \in Runners, NEW verdict, CallFails(r, verdict),
         UNCHANGED <<now, policy, wake, flight>>,
         verdict = "paused" => ~policy.on, verdict = "optout" => ~policy.fresh
  PROVE  IInv'
  <1>1. ShapeOK
    BY DEF IInv
  <1>2. /\ row' \in Row /\ mem' \in [Runners -> Row] /\ rev' \in [Runners -> Nat]
        /\ dirty' \in [Runners -> BOOLEAN] /\ errors' \in Nat
        /\ UNCHANGED <<autos, reserved, deleted>> /\ cache' \in BOOLEAN
        /\ pc' \in [Runners -> PCs] /\ att' \in [Runners -> Attempt]
        /\ pc'[r] \in {"gone", "sleep", "ended", "park", "freshwait"}
        /\ pc'[r] = "park" => verdict \in Reasons /\ att'[r].why = verdict
        /\ \A q \in Runners \ {r} : /\ pc'[q] = pc[q] /\ att'[q] = att[q]
                                     /\ mem'[q] = mem[q] /\ rev'[q] = rev[q]
                                     /\ dirty'[q] = dirty[q]
    BY <1>1, CallFacts
  <1>3. DataOK'
    BY <1>1, <1>2 DEF ShapeOK, DataOK
  <1> QED BY <1>2, <1>3, EndStep

(* What the end of protection leaves of a row: the time of the last login  *)
(* and of the last race deletion.                                          *)
LEMMA ClearRow ==
  \A x \in Row : /\ Clear(x) \in Row
                 /\ Clear(x).code = 0 /\ Clear(x).fresh = 0
                 /\ Clear(x).last = x.last /\ Clear(x).del = x.del
  <1> SUFFICES ASSUME NEW x \in Row
               PROVE  /\ Clear(x) \in Row
                      /\ Clear(x).code = 0 /\ Clear(x).fresh = 0
                      /\ Clear(x).last = x.last /\ Clear(x).del = x.del
    OBVIOUS
  <1> DEFINE n == Clear(x)
             z == 0
  <1>1. n = [x EXCEPT !.code = z, !.until = z, !.tries = z, !.fresh = z]
    BY DEF Clear
  <1>2. z \in Codes \cup {0} /\ z \in Nat /\ z \in 0..4
    OBVIOUS
  <1> HIDE DEF n, z
  <1>3. n \in Row /\ n.code = z /\ n.fresh = z /\ n.last = x.last /\ n.del = x.del
    BY <1>1, <1>2 DEF Row
  <1> QED BY <1>3 DEF n, z

(* The end of protection keeps the types.                                  *)
LEMMA ReleaseFacts ==
  ASSUME ShapeOK, NEW r \in Runners, Release(r)
  PROVE  /\ row' \in Row /\ mem' \in [Runners -> Row] /\ autos' \in Nat
         /\ \A q \in Runners \ {r} : mem'[q] = mem[q]
  <1>1. \A x \in Row : Clear(x) \in Row
    BY ClearRow
  <1>2. \A x \in Row, d \in Nat : [x EXCEPT !.del = d] \in Row
    BY DEF Row
  <1>3. row.del \in Nat /\ mem[r] \in Row
    BY DEF ShapeOK, DataOK, Row
  <1>4. row' \in Row
    BY <1>1, <1>2, <1>3 DEF Release, SaveAccountRestriction
  <1> QED BY <1>1, <1>3, <1>4 DEF Release, ShapeOK, DataOK

(* A step of one runner keeps the invariant.                               *)
LEMMA RunnerStep ==
  ASSUME IInv, NEW r \in Runners, Step(r)
  PROVE  IInv'
  <1> USE DEF IInv
  <1>s. ShapeOK /\ NoAttempt \in Attempt /\ mem[r] \in Row /\ cache \in BOOLEAN
    BY NoAttemptType DEF ShapeOK, DataOK
  <1>1. CASE \E boot \in {"manual", "auto"} : Start(r, boot)
    <2>1. ShapeOK'
      <3>1. PICK boot \in {"manual", "auto"} : Start(r, boot)
        BY <1>1
      <3> DEFINE b == IF row.code # 0 /\ boot = "auto" THEN "loop" ELSE boot
      <3>2. b \in {"manual", "auto", "loop"}
        OBVIOUS
      <3>3. att' = [att EXCEPT ![r].boot = b]
        BY <3>1 DEF Start
      <3>4. att' \in [Runners -> Attempt]
        <4> DEFINE o == [att[r] EXCEPT !.boot = b]
        <4>1. att[r] \in Attempt
          BY DEF ShapeOK, ThreadOK
        <4>2. att' = [att EXCEPT ![r] = o]
          BY <3>3 DEF ShapeOK, ThreadOK
        <4> HIDE DEF b
        <4>3. o \in Attempt
          BY <3>2, <4>1 DEF Attempt
        <4> HIDE DEF o
        <4> QED BY <4>2, <4>3 DEF ShapeOK, ThreadOK
      <3>5. pc' \in [Runners -> PCs] /\ mem' \in [Runners -> Row]
        BY <1>s, <3>1 DEF Start, ShapeOK, DataOK, ThreadOK, PCs
      <3>6. UNCHANGED <<now, row, policy, cache, rev, fails, flight, wake, hist>>
        BY <3>1 DEF Start
      <3> QED BY <1>s, <3>4, <3>5, <3>6 DEF ShapeOK, DataOK, ThreadOK, hist
    <2> QED BY <1>s, <1>1, <2>1, OneRunnerSteps
             DEF Start, Attempt, ShapeOK, DataOK, ThreadOK, Blank, RevisionTells, WaitsForSetting, Probing, db, guard, thread, hist
  <1>2. CASE Wakeup(r)
    <2>1. ShapeOK'
      BY <1>s, <1>2 DEF Wakeup, ShapeOK, DataOK, ThreadOK, PCs, db, guard, thread, hist
    <2> QED BY <1>s, <1>2, <2>1, OneRunnerSteps
             DEF Wakeup, ShapeOK, DataOK, ThreadOK, Blank, RevisionTells, WaitsForSetting, Probing, db, guard, thread, hist
  <1>3. CASE waitAccountRestriction(r, "wait", "route")
    <2>1. ShapeOK'
      BY <1>s, <1>3 DEF waitAccountRestriction, ShapeOK, DataOK, ThreadOK, PCs, db, guard, thread, hist
    <2> QED BY <1>s, <1>3, <2>1, OneRunnerSteps
             DEF waitAccountRestriction, ShapeOK, DataOK, ThreadOK, Blank, RevisionTells, WaitsForSetting, Probing, db, guard, thread, hist
  <1>4. CASE Route(r)
    <2>1. ASSUME Fail(r, "paused", mem[r]), UNCHANGED cache, ~policy.on PROVE IInv'
      BY <1>4, <2>1, FailStep DEF Route, db
    <2>2. ASSUME Fail(r, "error", mem[r]), UNCHANGED cache PROVE IInv'
      BY <1>4, <2>2, FailStep DEF Route, db
    <2>3. ASSUME NEW a \in Attempt, NEW p \in {"freshwait", "dial"}, cache' \in BOOLEAN,
                 pc' = [pc EXCEPT ![r] = p], att' = [att EXCEPT ![r] = a]
          PROVE  IInv'
      <3>1. UNCHANGED <<now, row, policy, guard, flight, wake, hist>>
        BY <1>4 DEF Route
      <3>2. ShapeOK'
        BY <1>s, <2>3, <3>1 DEF ShapeOK, DataOK, ThreadOK, PCs, guard, hist
      <3>3. p \notin Probing \cup {"off", "park", "blocked"}
        BY DEF Probing
      <3> QED BY <1>s, <2>3, <3>1, <3>2, <3>3, OneRunnerSteps
              DEF ShapeOK, DataOK, ThreadOK, guard, hist
    <2> DEFINE b == mem[r].code # 0
               a == [att[r] EXCEPT !.protected = b]
               c == [a EXCEPT !.resume = TRUE, !.restore = rev[r]]
    <2>4. a \in Attempt /\ c \in Attempt
      <3>1. b \in BOOLEAN /\ att[r] \in Attempt /\ rev[r] \in Nat
        BY <1>s DEF ShapeOK, DataOK, ThreadOK
      <3>2. a \in Attempt
        <4> HIDE DEF b
        <4> QED BY <3>1 DEF Attempt
      <3>3. c \in Attempt
        <4> HIDE DEF a
        <4> QED BY <3>1, <3>2 DEF Attempt
      <3> QED BY <3>2, <3>3
    <2>5. CASE mem[r].code # 0 /\ ~policy.on /\ ~manualRecoveryAuthorized(r)
      BY <1>4, <2>1, <2>5 DEF Route
    <2>6. CASE ~(mem[r].code # 0 /\ ~policy.on /\ ~manualRecoveryAuthorized(r))
      <3>1. \/ /\ pc' = [pc EXCEPT ![r] = "freshwait"] /\ att' = [att EXCEPT ![r] = a]
               /\ cache' \in {cache, FALSE}
            \/ /\ pc' = [pc EXCEPT ![r] = "dial"] /\ att' = [att EXCEPT ![r] = c]
               /\ cache' = cache
            \/ Fail(r, "error", mem[r]) /\ UNCHANGED cache
        BY <1>4, <2>6 DEF Route
      <3> HIDE DEF a, c
      <3> QED BY <1>s, <2>2, <2>3, <2>4, <3>1
    <2> QED BY <2>5, <2>6
  <1>5. CASE waitAccountRestriction(r, "freshwait", "authorize")
    <2>1. ShapeOK'
      BY <1>s, <1>5 DEF waitAccountRestriction, ShapeOK, DataOK, ThreadOK, PCs, db, guard, thread, hist
    <2> QED BY <1>s, <1>5, <2>1, OneRunnerSteps
             DEF waitAccountRestriction, ShapeOK, DataOK, ThreadOK, Blank, RevisionTells, WaitsForSetting, Probing, db, guard, thread, hist
  <1>6. CASE Authorize(r)
    <2>1. CASE checkFreshRecoveryAuthorization(r) = "ok"
      <3>1. ShapeOK'
        BY <1>s, <1>6, <2>1 DEF Authorize, ShapeOK, DataOK, ThreadOK, PCs, db, guard, hist
      <3> QED BY <1>s, <1>6, <2>1, <3>1, OneRunnerSteps
              DEF Authorize, ShapeOK, DataOK, ThreadOK, Probing, db, guard, hist
    <2>2. CASE checkFreshRecoveryAuthorization(r) # "ok"
      BY <1>6, <2>2, FailStep, VerdictFacts DEF Authorize
    <2> QED BY <2>1, <2>2
  <1>7. CASE Reserve(r)
    <2>1. UNCHANGED <<now, policy, cache, rev, fails, flight, wake, errors, dirty, autos, deleted>>
      BY <1>7 DEF Reserve
    <2>2. ASSUME NEW kind, Fail(r, kind, mem[r]), UNCHANGED <<row, mem, reserved>>,
                 kind = "paused" => ~policy.on, kind # "optout"
          PROVE  IInv'
      BY <2>1, <2>2, FailStep DEF db, guard, hist
    <2>3. ASSUME pc' = [pc EXCEPT ![r] = "auth"], att' = att,
                 row' \in {row, Counted(row)},
                 mem' \in {mem, [mem EXCEPT ![r] = Counted(@)]},
                 reserved' \in [at : Nat, manual : BOOLEAN]
          PROVE  IInv'
      <3>1. \A x \in Row : Counted(x) \in Row
        <4> SUFFICES ASSUME NEW x \in Row PROVE Counted(x) \in Row
          OBVIOUS
        <4> DEFINE n == Counted(x)
                   f == x.fresh + 1
        <4>1. n = [x EXCEPT !.fresh = f, !.last = now]
          BY DEF Counted
        <4>2. f \in Nat /\ now \in Nat
          BY <1>s DEF Row, ShapeOK, DataOK
        <4> HIDE DEF n, f
        <4>3. n \in Row
          BY <4>1, <4>2 DEF Row
        <4> QED BY <4>3 DEF n
      <3>2. row' \in Row /\ mem' \in [Runners -> Row]
        BY <1>s, <2>3, <3>1 DEF ShapeOK, DataOK
      <3>3. \A q \in Runners \ {r} : mem'[q] = mem[q]
        BY <1>s, <2>3 DEF ShapeOK, DataOK
      <3>4. ShapeOK'
        BY <1>s, <2>1, <2>3, <3>2 DEF ShapeOK, DataOK, ThreadOK, PCs
      <3> QED BY <1>s, <2>1, <2>3, <3>3, <3>4, OneRunnerSteps
              DEF ShapeOK, DataOK, ThreadOK, Probing
    <2>4. /\ Refusal(r) = "paused" => ~policy.on
          /\ Refusal(r) # "optout"
      BY DEF Refusal
    <2> DEFINE manual == manualRecoveryAuthorized(r)
    <2>5. manual \in BOOLEAN
      BY DEF manualRecoveryAuthorized
    <2>6. [at |-> now, manual |-> manual] \in [at : Nat, manual : BOOLEAN]
      <3> HIDE DEF manual
      <3> QED BY <1>s, <2>5 DEF ShapeOK, DataOK
    <2>7. \/ pc' = [pc EXCEPT ![r] = "auth"] /\ UNCHANGED <<row, mem, att, reserved>>
          \/ Fail(r, Refusal(r), mem[r]) /\ UNCHANGED <<row, mem, reserved>>
          \/ /\ row' = Counted(row) /\ mem' = [mem EXCEPT ![r] = Counted(@)]
             /\ pc' = [pc EXCEPT ![r] = "auth"] /\ att' = att
             /\ reserved' = [at |-> now, manual |-> manual]
          \/ Fail(r, "denied", mem[r]) /\ UNCHANGED <<row, mem, reserved>>
          \/ Fail(r, "error", mem[r]) /\ UNCHANGED <<row, mem, reserved>>
      BY <1>7 DEF Reserve
    <2>8. reserved \in [at : Nat, manual : BOOLEAN]
      BY <1>s DEF ShapeOK, DataOK
    <2> HIDE DEF manual
    <2> QED BY <2>2, <2>3, <2>4, <2>6, <2>7, <2>8
  <1>8. CASE Authenticate(r)
    <2>1. ShapeOK'
      BY <1>s, <1>8, FailFacts, VerdictFacts DEF Authenticate, ShapeOK, DataOK, ThreadOK, PCs, db, guard, thread, hist
    <2> QED BY <1>s, <1>8, <2>1, OneRunnerSteps, FailFacts, VerdictFacts
             DEF Authenticate, ShapeOK, DataOK, ThreadOK, Blank, RevisionTells, WaitsForSetting, Probing, db, guard, thread, hist
  <1>9. CASE Dial(r)
    <2>1. CASE Fail(r, checkFreshRecoveryAuthorization(r), mem[r]) /\ UNCHANGED cache
      BY <1>9, <2>1, FailStep, VerdictFacts DEF Dial, db
    <2>2. CASE pc' = [pc EXCEPT ![r] = "login"] /\ att' = att /\ UNCHANGED cache
      <3>1. ShapeOK'
        BY <1>s, <1>9, <2>2 DEF Dial, ShapeOK, DataOK, ThreadOK, PCs, guard, hist
      <3> QED BY <1>s, <1>9, <2>2, <3>1, OneRunnerSteps
              DEF Dial, ShapeOK, DataOK, ThreadOK, Probing, guard, hist
    <2>3. CASE Broken(r, "socket", mem[r], rev[r], cache)
      <3>1. UNCHANGED <<now, row, policy, guard, flight, wake, hist>>
        BY <1>9 DEF Dial
      <3> QED BY <1>s, <2>3, <3>1, BrokenStep
    <2> QED BY <1>9, <2>1, <2>2, <2>3 DEF Dial
  <1>10. CASE Login(r)
    <2>1. CASE CallFails(r, checkLogin(r)) /\ UNCHANGED flight
      BY <1>10, <2>1, CallStep, VerdictFacts DEF Login
    <2>2. ASSUME pc' = [pc EXCEPT ![r] = IF mem[r].code # 0 THEN "lazy" ELSE "settle"],
                 att' = [att EXCEPT ![r].login = rev[r]],
                 flight' = [flight EXCEPT ![r] = @ \/ mem[r].code = 0],
                 dirty' = [dirty EXCEPT ![r] = FALSE],
                 UNCHANGED <<cache, row, guard, errors, autos, reserved, deleted>>
          PROVE  IInv'
      <3>1. UNCHANGED <<now, policy, wake, mem, rev>>
        BY <1>10, <2>2 DEF Login, guard
      <3>2. att' \in [Runners -> Attempt]
        <4> DEFINE o == [att[r] EXCEPT !.login = rev[r]]
        <4>1. att[r] \in Attempt /\ rev[r] \in Nat
          BY <1>s DEF ShapeOK, DataOK, ThreadOK
        <4>2. att' = [att EXCEPT ![r] = o]
          BY <1>s, <2>2 DEF ShapeOK, ThreadOK
        <4>3. o \in Attempt
          BY <4>1 DEF Attempt
        <4> HIDE DEF o
        <4> QED BY <1>s, <4>2, <4>3 DEF ShapeOK, ThreadOK
      <3> DEFINE clear == mem[r].code = 0
                 f == flight[r] \/ clear
      <3>3. f \in BOOLEAN
        OBVIOUS
      <3>4. flight' = [flight EXCEPT ![r] = f]
        BY <2>2
      <3>5. flight' \in [Runners -> BOOLEAN]
        <4> HIDE DEF f
        <4> QED BY <1>s, <3>3, <3>4 DEF ShapeOK, DataOK
      <3>6. pc' \in [Runners -> PCs] /\ pc'[r] \in {"lazy", "settle"}
        BY <1>s, <2>2 DEF ShapeOK, ThreadOK, PCs
      <3>7. dirty' \in [Runners -> BOOLEAN] /\ ~dirty'[r]
        BY <1>s, <2>2 DEF ShapeOK, DataOK
      <3>8. ShapeOK'
        BY <1>s, <2>2, <3>1, <3>2, <3>5, <3>6, <3>7 DEF ShapeOK, DataOK, ThreadOK
      <3>9. att'[r].login = rev[r] /\ rev[r] \in Nat
        BY <1>s, <2>2 DEF ShapeOK, DataOK, ThreadOK, Attempt
      <3>10. \A q \in Runners \ {r} : pc'[q] = pc[q] /\ att'[q] = att[q] /\ dirty'[q] = dirty[q]
        BY <1>s, <2>2 DEF ShapeOK, DataOK, ThreadOK
      <3> QED BY <3>1, <3>6, <3>7, <3>8, <3>9, <3>10, OneRunnerSteps
    <2> QED BY <1>10, <2>1, <2>2 DEF Login
  <1>11. CASE ProbeLazy(r)
    <2>1. CASE CallFails(r, checkProbe(r, att[r].login))
      BY <1>11, <2>1, CallStep, VerdictFacts DEF ProbeLazy
    <2>2. CASE /\ pc' = [pc EXCEPT ![r] = "rep"]
               /\ UNCHANGED <<att, cache, row, guard, hist>>
      <3>1. ShapeOK'
        BY <1>s, <1>11, <2>2 DEF ProbeLazy, ShapeOK, DataOK, ThreadOK, PCs, guard, hist
      <3> QED BY <1>s, <1>11, <2>2, <3>1, OneRunnerSteps
              DEF ProbeLazy, ShapeOK, DataOK, ThreadOK, RevisionTells, Probing, guard, hist
    <2> QED BY <1>11, <2>1, <2>2 DEF ProbeLazy
  <1>12. CASE ProbeReputation(r)
    <2>1. CASE CallFails(r, checkProbe(r, att[r].login)) /\ UNCHANGED <<policy, wake>>
      BY <1>12, <2>1, CallStep, VerdictFacts DEF ProbeReputation
    <2>2. CASE /\ pc' = [pc EXCEPT ![r] = "final"]
               /\ UNCHANGED <<policy, wake, att, cache, row, guard, hist>>
      <3>1. ShapeOK'
        BY <1>s, <1>12, <2>2 DEF ProbeReputation, ShapeOK, DataOK, ThreadOK, PCs, guard, hist
      <3> QED BY <1>s, <1>12, <2>2, <3>1, OneRunnerSteps
              DEF ProbeReputation, ShapeOK, DataOK, ThreadOK, RevisionTells, Probing, guard, hist
    <2>3. CASE /\ TripGuard(r) /\ Broken(r, "guard", mem[r], rev[r], FALSE)
               /\ UNCHANGED <<row, guard, hist>>
      <3>1. UNCHANGED <<now, flight>>
        BY <1>12 DEF ProbeReputation
      <3> DEFINE kept == FALSE
      <3>2. kept \in BOOLEAN /\ Broken(r, "guard", mem[r], rev[r], kept)
        BY <2>3
      <3> HIDE DEF kept
      <3> QED BY <2>3, <3>1, <3>2, BrokenStep
    <2> QED BY <1>12, <2>1, <2>2, <2>3 DEF ProbeReputation
  <1>13. CASE FinalCheck(r)
    <2>1. CASE checkProbe(r, att[r].login) # "ok"
      BY <1>s, <1>13, <2>1, BrokenStep, VerdictFacts DEF FinalCheck
    <2>2. CASE checkProbe(r, att[r].login) = "ok"
      <3>1. ShapeOK'
        BY <1>s, <1>13, <2>2 DEF FinalCheck, ShapeOK, DataOK, ThreadOK, PCs, guard, hist
      <3> QED BY <1>s, <1>13, <2>2, <3>1, OneRunnerSteps
              DEF FinalCheck, ShapeOK, DataOK, ThreadOK, RevisionTells, Probing, guard, hist
    <2> QED BY <2>1, <2>2
  <1>14. CASE clearAccountRestriction(r)
    <2>1. CASE /\ Broken(r, "error", mem[r], rev[r], cache)
               /\ UNCHANGED <<row, mem, fails, flight, autos>>
      BY <1>s, <1>14, <2>1, BrokenStep DEF clearAccountRestriction, guard, hist
    <2>2. CASE /\ Release(r) /\ pc' = [pc EXCEPT ![r] = "settle"]
               /\ flight' = [flight EXCEPT ![r] = TRUE]
               /\ UNCHANGED <<att, cache>>
      <3>1. ShapeOK'
        BY <1>s, <1>14, <2>2, ReleaseFacts
           DEF clearAccountRestriction, ShapeOK, DataOK, ThreadOK, PCs
      <3> QED BY <1>s, <1>14, <2>2, <3>1, ReleaseFacts, OneRunnerSteps
              DEF clearAccountRestriction, ShapeOK, DataOK, ThreadOK, Probing
    <2> QED BY <1>14, <2>1, <2>2 DEF clearAccountRestriction
  <1>15. CASE ClearAfterStop(r)
    <2>1. /\ row' \in Row /\ mem' \in [Runners -> Row] /\ autos' \in Nat
          /\ \A q \in Runners \ {r} : mem'[q] = mem[q]
      BY <1>s, <1>15, ReleaseFacts DEF ClearAfterStop, ShapeOK, DataOK
    <2>2. ShapeOK'
      BY <1>s, <1>15, <2>1 DEF ClearAfterStop, ShapeOK, DataOK, ThreadOK, PCs
    <2> QED BY <1>s, <1>15, <2>1, <2>2, OneRunnerSteps
            DEF ClearAfterStop, ShapeOK, DataOK, ThreadOK, Probing
  <1>16. CASE Settle(r)
    <2>1. CASE Broken(r, "error", mem[r], rev[r], cache) /\ UNCHANGED <<policy, wake>>
      BY <1>s, <1>16, <2>1, BrokenStep DEF Settle
    <2>2. CASE TripGuard(r) /\ Broken(r, "guard", mem[r], rev[r], FALSE)
      <3>1. UNCHANGED <<now, row, guard, flight, hist>>
        BY <1>16 DEF Settle
      <3> DEFINE kept == FALSE
      <3>2. kept \in BOOLEAN /\ Broken(r, "guard", mem[r], rev[r], kept)
        BY <2>2
      <3> HIDE DEF kept
      <3> QED BY <2>2, <3>1, <3>2, BrokenStep
    <2>3. CASE /\ pc' = [pc EXCEPT ![r] = "serve"]
               /\ att' = [att EXCEPT ![r] = NoAttempt]
               /\ cache' \in {cache, TRUE} /\ UNCHANGED <<policy, wake>>
      <3>1. ShapeOK'
        BY <1>s, <1>16, <2>3 DEF Settle, ShapeOK, DataOK, ThreadOK, PCs, guard, hist
      <3> QED BY <1>s, <1>16, <2>3, <3>1, OneRunnerSteps
              DEF Settle, ShapeOK, DataOK, ThreadOK, Probing, guard, hist
    <2> QED BY <1>16, <2>1, <2>2, <2>3 DEF Settle
  <1>17. CASE Business(r)
    <2>1. ShapeOK'
      BY <1>s, <1>17 DEF Business, ShapeOK, DataOK, ThreadOK, PCs, db, guard, thread, hist
    <2> QED BY <1>s, <1>17, <2>1, OneRunnerSteps
             DEF Business, ShapeOK, DataOK, ThreadOK, Blank, RevisionTells, WaitsForSetting, Probing, db, guard, thread, hist
  <1>18. CASE Disconnect(r)
    <2>1. ShapeOK'
      BY <1>s, <1>18 DEF Disconnect, ShapeOK, DataOK, ThreadOK, PCs, db, guard, thread, hist
    <2> QED BY <1>s, <1>18, <2>1, OneRunnerSteps
             DEF Disconnect, ShapeOK, DataOK, ThreadOK, Blank, RevisionTells, WaitsForSetting, Probing, db, guard, thread, hist
  <1>19. CASE GuardTick(r)
    <2>1. ShapeOK'
      BY <1>s, <1>19 DEF GuardTick, TripGuard, ShapeOK, DataOK, ThreadOK, PCs, db, guard, thread, hist
    <2> QED BY <1>s, <1>19, <2>1, OneRunnerSteps
             DEF GuardTick, TripGuard, ShapeOK, DataOK, ThreadOK, Blank, RevisionTells, WaitsForSetting, Probing, db, guard, thread, hist
  <1>20. CASE ReserveRaceDelete(r)
    <2>1. \A x \in Row, d \in Nat : [x EXCEPT !.del = d] \in Row /\ [x EXCEPT !.del = d].code = x.code
      BY DEF Row
    <2>2. PICK d \in {now, row.del} : mem' = [mem EXCEPT ![r].del = d]
      BY <1>20 DEF ReserveRaceDelete
    <2>3. d \in Nat
      BY <1>s DEF ShapeOK, DataOK, Row
    <2>4. mem' \in [Runners -> Row] /\ \A q \in Runners \ {r} : mem'[q] = mem[q]
      BY <1>s, <2>1, <2>2, <2>3 DEF ShapeOK, DataOK
    <2>5. row' \in Row /\ deleted' \in Nat
      BY <1>s, <1>20, <2>1 DEF ReserveRaceDelete, ShapeOK, DataOK
    <2>6. ShapeOK'
      BY <1>s, <1>20, <2>4, <2>5 DEF ReserveRaceDelete, ShapeOK, DataOK, ThreadOK, thread
    <2> QED BY <1>s, <1>20, <2>4, <2>6, OneRunnerSteps
            DEF ReserveRaceDelete, ShapeOK, DataOK, ThreadOK, Probing, thread
  <1>21. CASE Park(r)
    <2>1. ShapeOK'
      BY <1>s, <1>21 DEF Park, ShapeOK, DataOK, ThreadOK, PCs, db, guard, thread, hist
    <2> QED BY <1>s, <1>21, <2>1, OneRunnerSteps
             DEF Park, ShapeOK, DataOK, ThreadOK, Blank, RevisionTells, WaitsForSetting, Probing, db, guard, thread, hist
  <1>22. CASE Retry(r)
    <2>1. ShapeOK'
      BY <1>s, <1>22 DEF Retry, ShapeOK, DataOK, ThreadOK, PCs, db, guard, thread, hist
    <2> QED BY <1>s, <1>22, <2>1, OneRunnerSteps
             DEF Retry, ShapeOK, DataOK, ThreadOK, Blank, RevisionTells, WaitsForSetting, Probing, db, guard, thread, hist
  <1>23. CASE Response(r)
    <2>1. /\ row' \in Row /\ mem' \in [Runners -> Row] /\ rev' \in [Runners -> Nat]
          /\ dirty' \in [Runners -> BOOLEAN] /\ errors' \in Nat
          /\ UNCHANGED <<autos, reserved, deleted>>
          /\ rev'[r] = rev[r] + 1 \/ (rev'[r] = rev[r] /\ dirty'[r] = dirty[r])
          /\ \A q \in Runners \ {r} : /\ mem'[q] = mem[q] /\ rev'[q] = rev[q]
                                       /\ dirty'[q] = dirty[q]
      <3>1. CASE \E code \in Codes, rpc \in RPCs, date \in Dates : observe(r, code, rpc, date)
        BY <1>s, <3>1, ObserveFacts
      <3>2. CASE UNCHANGED <<mem, rev, fails, row, hist>>
        BY <1>s, <3>2 DEF ShapeOK, DataOK, hist
      <3> QED BY <1>23, <3>1, <3>2 DEF Response
    <2>2. flight' \in [Runners -> BOOLEAN]
      BY <1>s, <1>23 DEF Response, ShapeOK, DataOK
    <2>3. UNCHANGED <<now, policy, cache, pc, att, wake>> /\ pc[r] # "off"
      BY <1>23 DEF Response
    <2>4. ShapeOK'
      BY <1>s, <2>1, <2>2, <2>3 DEF ShapeOK, DataOK, ThreadOK
    <2>5. pc'[r] \in Probing => /\ rev'[r] >= att'[r].login
                                /\ dirty'[r] => rev'[r] > att'[r].login
      <3>1. rev[r] \in Nat /\ att[r].login \in Nat
        BY <1>s DEF ShapeOK, DataOK, ThreadOK, Attempt
      <3> QED BY <1>s, <2>1, <2>3, <3>1 DEF RevisionTells
    <2> QED BY <1>s, <2>1, <2>3, <2>4, <2>5, OneRunnerSteps DEF WaitsForSetting
  <1>24. CASE Stop(r)
    <2>1. ShapeOK'
      BY <1>s, <1>24 DEF Stop, Live, ShapeOK, DataOK, ThreadOK, PCs, db, guard, thread, hist
    <2>2. UNCHANGED <<policy, mem, rev, dirty, wake>>
      BY <1>24 DEF Stop, guard, hist
    <2>3. \A q \in Runners \ {r} : pc'[q] = pc[q] /\ att'[q] = att[q]
      BY <1>s, <1>24 DEF Stop, ShapeOK, ThreadOK
    <2>4. CASE pc[r] = "clear" /\ r \in Late
      <3>1. pc'[r] = "linger" /\ att' = att
        BY <1>s, <1>24, <2>4 DEF Stop, ShapeOK, ThreadOK
      <3>2. /\ rev[r] >= att[r].login
            /\ dirty[r] => rev[r] > att[r].login
        BY <2>4 DEF RevisionTells, Probing
      <3> QED BY <2>1, <2>2, <2>3, <3>1, <3>2, OneRunnerSteps
    <2>5. CASE ~(pc[r] = "clear" /\ r \in Late)
      <3>1. pc'[r] = "gone"
        BY <1>s, <1>24, <2>5 DEF Stop, ShapeOK, ThreadOK
      <3> QED BY <2>1, <2>2, <2>3, <3>1, OneRunnerSteps DEF Probing
    <2> QED BY <2>4, <2>5
  <1>25. CASE Collect(r)
    <2>1. ShapeOK'
      BY <1>s, <1>25 DEF Collect, NoRow, Row, ShapeOK, DataOK, ThreadOK, PCs, db, guard, thread, hist
    <2>2. pc'[r] = "off" /\ mem'[r].code = 0 /\ policy' = policy
      BY <1>s, <1>25 DEF Collect, NoRow, ShapeOK, DataOK, ThreadOK
    <2>3. \A q \in Runners \ {r} : /\ pc'[q] = pc[q] /\ att'[q] = att[q] /\ mem'[q] = mem[q]
                                    /\ rev'[q] = rev[q] /\ dirty'[q] = dirty[q]
                                    /\ wake'[q] = wake[q]
      BY <1>s, <1>25 DEF Collect, ShapeOK, DataOK, ThreadOK
    <2> QED BY <2>1, <2>2, <2>3, OneRunnerSteps DEF Probing
  <1> QED BY <1>1, <1>2, <1>3, <1>4, <1>5, <1>6, <1>7, <1>8, <1>9, <1>10, <1>11, <1>12, <1>13, <1>14, <1>15, <1>16, <1>17, <1>18, <1>19, <1>20, <1>21, <1>22, <1>23, <1>24, <1>25 DEF Step

(* Every step keeps the invariant; a change of the settings leaves a token *)
(* with every runner that may wait for it.                                 *)
LEMMA InductiveStep == IInv /\ [Next]_vars => IInv'
  <1> SUFFICES ASSUME IInv, [Next]_vars PROVE IInv'
    OBVIOUS
  <1>1. ASSUME NEW r \in Runners, Step(r) PROVE IInv'
    BY <1>1, RunnerStep
  <1>2. ASSUME NEW p \in [on : BOOLEAN, fresh : BOOLEAN], SetPolicy(p) PROVE IInv'
    <2>1. \A r \in Runners : pc[r] \in {"park", "blocked"} => wake'[r]
      BY <1>2 DEF SetPolicy, wakeRecovery, Live
    <2>2. wake' \in [Runners -> BOOLEAN]
      BY <1>2 DEF SetPolicy, wakeRecovery, Live, IInv, ShapeOK, DataOK
    <2>3. ShapeOK'
      BY <1>2, <2>2 DEF SetPolicy, IInv, ShapeOK, DataOK, ThreadOK, db, guard, thread, hist
    <2>4. Blank' /\ RevisionTells'
      BY <1>2 DEF SetPolicy, IInv, Blank, RevisionTells, guard, thread, hist
    <2>5. WaitsForSetting'
      BY <1>2, <2>1 DEF SetPolicy, WaitsForSetting, thread
    <2> QED BY <2>3, <2>4, <2>5 DEF IInv
  <1>3. ASSUME Crash PROVE IInv'
    <2>1. ShapeOK'
      BY <1>3, NoAttemptType DEF Crash, IInv, ShapeOK, DataOK, ThreadOK, PCs, db, guard, hist
    <2>2. \A r \in Runners : pc'[r] \in {"off", "gone"} /\ (pc'[r] = "off" => pc[r] = "off")
      BY <1>3 DEF Crash
    <2> QED BY <1>3, <2>1, <2>2
            DEF Crash, IInv, Blank, RevisionTells, WaitsForSetting, Probing, guard
  <1>4. ASSUME Tick PROVE IInv'
    <2>1. ShapeOK'
      BY <1>4 DEF Tick, IInv, ShapeOK, DataOK, ThreadOK, db, guard, thread, hist
    <2> QED BY <1>4, <2>1
            DEF Tick, IInv, Blank, RevisionTells, WaitsForSetting, guard, thread, hist
  <1>5. ASSUME UNCHANGED vars PROVE IInv'
    BY <1>5 DEF vars, IInv, ShapeOK, DataOK, ThreadOK, Blank, RevisionTells, WaitsForSetting
  <1> QED BY <1>1, <1>2, <1>3, <1>4, <1>5 DEF Next

(* The invariant holds in every reachable state.                           *)
LEMMA Invariance == Spec => []IInv
  BY InitInv, InductiveStep, PTL DEF Spec

(* A loop that waits for a setting has a wake-up pending as soon as the    *)
(* setting has changed (waitRecovery, wakeRecovery), however many runners  *)
(* the account has had and whatever they do.                               *)
THEOREM WakeupTheorem == Spec => []NoLostWakeup
  <1>1. IInv => NoLostWakeup
    BY DEF IInv, WaitsForSetting, NoLostWakeup
  <1> QED BY <1>1, Invariance, PTL

(* One step of a runner ends the protection of a started runner only by a  *)
(* release, and a release has seen no error since its login.               *)
LEMMA OnlyUnchallenged ==
  ASSUME IInv, NEW q \in Runners, Step(q), NEW r \in Runners,
         mem[r].code # 0, mem'[r].code = 0, pc'[r] # "off"
  PROVE  ~dirty[r]
  <1> USE DEF IInv
  <1>s. ShapeOK /\ mem \in [Runners -> Row] /\ pc \in [Runners -> PCs]
    BY DEF ShapeOK, DataOK, ThreadOK
  <1>1. CASE mem' = mem
    BY <1>1
  <1>2. CASE \E boot \in {"manual", "auto"} : Start(q, boot)
    <2>1. pc[q] = "off" /\ mem' = [mem EXCEPT ![q] = row]
      BY <1>2 DEF Start
    <2> QED BY <1>s, <2>1 DEF Blank
  <1>3. CASE Reserve(q)
    <2>1. mem' = mem \/ mem' = [mem EXCEPT ![q] = Counted(@)]
      BY <1>3 DEF Reserve
    <2>2. \A x \in Row : Counted(x).code = x.code
      BY DEF Counted, Row
    <2> QED BY <1>s, <2>1, <2>2
  <1>4. CASE \E v : CallFails(q, v)
    BY <1>s, <1>4, CallFacts
  <1>5. CASE Release(q) /\ pc[q] \in {"clear", "linger"}
    <2>1. r = q
      BY <1>s, <1>5 DEF Release
    <2>2. rev[q] = att[q].login /\ rev[q] \in Nat
      BY <1>s, <1>5 DEF Release, Unchallenged, ShapeOK, DataOK
    <2> QED BY <1>s, <1>5, <2>1, <2>2 DEF RevisionTells, Probing, ShapeOK, DataOK
  <1>6. CASE ReserveRaceDelete(q)
    <2>1. PICK d \in {now, row.del} : mem' = [mem EXCEPT ![q].del = d]
      BY <1>6 DEF ReserveRaceDelete
    <2>2. \A x \in Row : [x EXCEPT !.del = d].code = x.code
      BY DEF Row
    <2> QED BY <1>s, <2>1, <2>2
  <1>7. CASE \E code \in Codes, rpc \in RPCs, date \in Dates : observe(q, code, rpc, date)
    BY <1>s, <1>7, ObserveFacts
  <1>8. CASE Collect(q)
    <2>1. /\ pc' = [pc EXCEPT ![q] = "off"]
          /\ mem' = [mem EXCEPT ![q] = NoRow]
      BY <1>8 DEF Collect
    <2> QED BY <1>s, <2>1
  <1>9. CASE Response(q)
    BY <1>1, <1>7, <1>9 DEF Response
  <1>10. CASE Login(q) \/ ProbeLazy(q) \/ ProbeReputation(q)
    BY <1>1, <1>4, <1>10 DEF Login, ProbeLazy, ProbeReputation, guard
  <1>11. CASE clearAccountRestriction(q) \/ ClearAfterStop(q)
    BY <1>1, <1>5, <1>11 DEF clearAccountRestriction, ClearAfterStop
  <1>12. CASE \/ Wakeup(q) \/ Route(q)
              \/ waitAccountRestriction(q, "wait", "route")
              \/ waitAccountRestriction(q, "freshwait", "authorize")
              \/ Authorize(q) \/ Authenticate(q) \/ Dial(q) \/ FinalCheck(q) \/ Settle(q)
              \/ Business(q) \/ Disconnect(q) \/ GuardTick(q) \/ Park(q) \/ Retry(q) \/ Stop(q)
    BY <1>1, <1>12 DEF Wakeup, Route, waitAccountRestriction, Authorize, Authenticate, Dial,
       FinalCheck, Settle, Business, Disconnect, GuardTick, Park, Retry, Stop, guard
  <1> QED BY <1>2, <1>3, <1>6, <1>8, <1>9, <1>10, <1>11, <1>12 DEF Step

(* "A late error cannot be cleared by an older successful probe"           *)
(* (clearAccountRestriction): the protection of a running runner ends only *)
(* if the server has refused nothing since the login of the probe.         *)
THEOREM NewerErrorTheorem == Spec => NewerErrorWins
  <1> DEFINE Wins == \A r \in Runners : (mem[r].code # 0 /\ mem'[r].code = 0 /\ pc'[r] # "off")
                                            => ~dirty[r]
  <1>1. IInv /\ [Next]_vars => [Wins]_vars
    <2> SUFFICES ASSUME IInv, Next, NEW r \in Runners,
                        mem[r].code # 0, mem'[r].code = 0, pc'[r] # "off"
                 PROVE  ~dirty[r]
      OBVIOUS
    <2>1. CASE \E q \in Runners : Step(q)
      BY <2>1, OnlyUnchallenged
    <2>2. CASE \E p \in [on : BOOLEAN, fresh : BOOLEAN] : SetPolicy(p)
      BY <2>2 DEF SetPolicy, guard
    <2>3. CASE Crash \/ Tick
      BY <2>3 DEF Crash, Tick, guard
    <2> QED BY <2>1, <2>2, <2>3 DEF Next
  <1> QED BY <1>1, Invariance, PTL DEF Spec, NewerErrorWins

------------------------------------------------------------------------------
(***************************************************************************)
(* The cooldown, and the row                                               *)
(***************************************************************************)

(* An error during the cooldown prolongs it at most, which takes a 97778,  *)
(* keeps the severer code and does not count as another failure.           *)
LEMMA NextInCooldown ==
  ASSUME ShapeOK, NEW prev \in Row, NEW code \in Codes, NEW date \in Dates,
         prev.code # 0, prev.until > now,
         NEW n, n = nextAccountRestriction(prev, code, date)
  PROVE  /\ n.until >= prev.until /\ Severity(n.code) >= Severity(prev.code)
         /\ n.until # prev.until => n.code = 97778
         /\ n.tries = prev.tries
  <1> DEFINE active == prev.code # 0 /\ prev.until > now
             t == IF active THEN prev.tries ELSE MinOf(4, prev.tries + 1)
             dated == code = 97778 /\ date > 0
             until == IF ~active
                      THEN IF dated THEN now + date + Grace
                           ELSE now + (IF code = 97778 THEN Cap ELSE restrictionBackoff(t))
                      ELSE IF dated THEN MaxOf(prev.until, now + date + Grace)
                           ELSE IF code = 97778 /\ prev.code # 97778
                                THEN MaxOf(prev.until, now + Cap) ELSE prev.until
             c == IF active THEN severerCode(prev, code) ELSE code
             u == MaxOf(until, prev.until)
  <1>1. /\ now \in Nat /\ Grace \in Nat /\ date \in Nat /\ prev.until \in Nat
        /\ Cap \in Nat
    BY SafetyAssumption DEF ShapeOK, DataOK, Row
  <1>2. n = [prev EXCEPT !.tries = t, !.until = u, !.code = c]
    BY DEF nextAccountRestriction
  <1>3. n.until = u /\ n.code = c /\ n.tries = t
    <2> HIDE DEF c, u, t
    <2> QED BY <1>2 DEF Row
  <1>4. u >= prev.until /\ (u # prev.until => code = 97778) /\ t = prev.tries
    BY <1>1 DEF MaxOf
  <1>5. code = 97778 => c = 97778
    BY DEF severerCode
  <1>6. Severity(c) >= Severity(prev.code)
    <2>1. code = 5000 \/ code = 97777 \/ code = 97778
      BY CodesAreErrors
    <2>2. prev.code = 5000 \/ prev.code = 97777 \/ prev.code = 97778
      <3>1. prev.code \in Codes \cup {0}
        BY DEF Row
      <3> QED BY <3>1, CodesAreErrors
    <2> QED BY <2>1, <2>2 DEF severerCode, Severity
  <1> HIDE DEF c, u, t
  <1> QED BY <1>3, <1>4, <1>5, <1>6

(* The ways a step of a runner changes its copy of the protection, the row *)
(* or the record of the reserved logins and deletions.                     *)
LEMMA StepKinds ==
  ASSUME NEW r \in Runners, Step(r)
  PROVE  \/ UNCHANGED <<row, mem, rev, autos, reserved, deleted>>
         \/ \E boot \in {"manual", "auto"} : Start(r, boot)
         \/ Reserve(r)
         \/ Authenticate(r)
         \/ ReserveRaceDelete(r)
         \/ Collect(r)
         \/ \E code \in Codes, rpc \in RPCs, date \in Dates : observe(r, code, rpc, date)
         \/ /\ Release(r) /\ pc[r] \in {"clear", "linger"}
            /\ UNCHANGED <<rev, reserved, deleted>>
  <1>1. CASE \/ Wakeup(r) \/ Route(r)
             \/ waitAccountRestriction(r, "wait", "route")
             \/ waitAccountRestriction(r, "freshwait", "authorize")
             \/ Authorize(r) \/ Dial(r) \/ FinalCheck(r) \/ Settle(r)
             \/ Business(r) \/ Disconnect(r) \/ GuardTick(r) \/ Park(r) \/ Retry(r) \/ Stop(r)
    BY <1>1 DEF Wakeup, Route, waitAccountRestriction, Authorize, Dial, FinalCheck, Settle,
       Business, Disconnect, GuardTick, Park, Retry, Stop, db, guard, hist
  <1>2. ASSUME NEW v, CallFails(r, v)
        PROVE  \/ UNCHANGED <<row, mem, rev, autos, reserved, deleted>>
               \/ \E code \in Codes, rpc \in RPCs, date \in Dates : observe(r, code, rpc, date)
    BY <1>2 DEF CallFails, guard, hist
  <1>3. CASE Login(r)
    BY <1>2, <1>3 DEF Login, guard, hist
  <1>4. CASE ProbeLazy(r)
    BY <1>2, <1>4 DEF ProbeLazy, guard, hist
  <1>5. CASE ProbeReputation(r)
    BY <1>2, <1>5 DEF ProbeReputation, guard, hist
  <1>6. CASE clearAccountRestriction(r) \/ ClearAfterStop(r)
    BY <1>6 DEF clearAccountRestriction, ClearAfterStop
  <1>7. CASE Response(r)
    BY <1>7 DEF Response, hist
  <1> QED BY <1>1, <1>3, <1>4, <1>5, <1>6, <1>7 DEF Step

(* Errors that arrive while the cooldown runs neither shorten it nor make  *)
(* the account forget the severer code, and only a 97778 prolongs it,      *)
(* whatever codes and dates the server sends (nextAccountRestriction).     *)
THEOREM CooldownTheorem == Spec => CooldownHolds
  <1> DEFINE Holds(r) ==
        LET s == mem[r] t == mem'[r] IN
          (rev'[r] > rev[r] /\ s.code # 0 /\ s.until > now) =>
             /\ t.until >= s.until /\ Severity(t.code) >= Severity(s.code)
             /\ t.until # s.until => t.code = 97778
             /\ t.tries = s.tries
  <1>1. IInv /\ [Next]_vars => [\A r \in Runners : Holds(r)]_vars
    <2> SUFFICES ASSUME IInv, Next, NEW r \in Runners,
                        rev'[r] > rev[r], mem[r].code # 0, mem[r].until > now
                 PROVE  Holds(r)
      OBVIOUS
    <2>s. /\ ShapeOK /\ mem \in [Runners -> Row] /\ rev \in [Runners -> Nat]
      BY DEF IInv, ShapeOK, DataOK
    <2>1. rev' # rev
      BY <2>s
    <2>2. PICK q \in Runners : Step(q)
      BY <2>1 DEF Next, SetPolicy, Crash, Tick, guard
    <2>3. ~Collect(q)
      <3> SUFFICES ASSUME Collect(q) PROVE FALSE
        OBVIOUS
      <3>1. rev' = [rev EXCEPT ![q] = 0]
        BY DEF Collect
      <3>2. rev[r] \in Nat /\ (rev'[r] = rev[r] \/ rev'[r] = 0)
        BY <2>s, <3>1
      <3> QED BY <3>2
    <2>4. PICK code \in Codes, rpc \in RPCs, date \in Dates : observe(q, code, rpc, date)
      BY <2>1, <2>2, <2>3, StepKinds DEF Start, Reserve, Authenticate, ReserveRaceDelete, guard
    <2>5. q = r
      BY <2>s, <2>4, ObserveFacts
    <2>6. mem' = [mem EXCEPT ![r] = nextAccountRestriction(mem[r], code, date)]
      BY <2>4, <2>5 DEF observe, Record
    <2>7. mem'[r] = nextAccountRestriction(mem[r], code, date)
      BY <2>s, <2>6
    <2>8. mem[r] \in Row
      BY <2>s
    <2> QED BY <2>s, <2>7, <2>8, NextInCooldown
  <1> QED BY <1>1, Invariance, PTL DEF Spec, CooldownHolds

(* The row remembers the last race deletion.                               *)
DeletionSaved == row.del = deleted

(* Every writer of the row leaves the column of the deletions alone but    *)
(* reserveRaceDelete, which requires the distance.                         *)
LEMMA DeletionStep ==
  ASSUME IInv, DeletionSaved, [Next]_vars
  PROVE  /\ DeletionSaved'
         /\ deleted' # deleted => deleted = 0 \/ deleted' >= deleted + DelInterval
  <1>s. ShapeOK /\ row \in Row /\ mem \in [Runners -> Row]
    BY DEF IInv, ShapeOK, DataOK
  <1>1. ASSUME row'.del = row.del, deleted' = deleted
        PROVE  DeletionSaved' /\ deleted' = deleted
    BY <1>1 DEF DeletionSaved
  <1>2. ASSUME NEW s \in Row, SaveAccountRestriction(s) PROVE row'.del = row.del
    BY <1>s, <1>2 DEF SaveAccountRestriction, Row
  <1>3. CASE UNCHANGED vars
    BY <1>1, <1>3 DEF vars
  <1>4. CASE \/ \E p \in [on : BOOLEAN, fresh : BOOLEAN] : SetPolicy(p)
             \/ Crash \/ Tick
    BY <1>1, <1>4 DEF SetPolicy, Crash, Tick, db, hist
  <1>5. ASSUME NEW r \in Runners, Step(r)
        PROVE  /\ DeletionSaved'
               /\ deleted' # deleted => deleted = 0 \/ deleted' >= deleted + DelInterval
    <2>1. CASE UNCHANGED <<row, mem, rev, autos, reserved, deleted>>
      BY <1>1, <2>1
    <2>2. CASE \E boot \in {"manual", "auto"} : Start(r, boot)
      BY <1>1, <2>2 DEF Start, hist
    <2>3. CASE Reserve(r)
      <3>1. row' = row \/ row' = Counted(row)
        BY <2>3 DEF Reserve
      <3>2. row'.del = row.del
        BY <1>s, <3>1 DEF Counted, Row
      <3> QED BY <1>1, <2>3, <3>2 DEF Reserve
    <2>4. CASE Authenticate(r) \/ Collect(r)
      BY <1>1, <2>4 DEF Authenticate, Collect, db
    <2>5. CASE ReserveRaceDelete(r)
      <3>1. CASE row.del = 0 \/ row.del + DelInterval <= now
        <4>1. row' = [row EXCEPT !.del = now] /\ deleted' = now
          BY <2>5, <3>1 DEF ReserveRaceDelete
        <4> QED BY <1>s, <3>1, <4>1 DEF DeletionSaved, Row
      <3>2. CASE ~(row.del = 0 \/ row.del + DelInterval <= now)
        BY <1>1, <2>5, <3>2 DEF ReserveRaceDelete
      <3> QED BY <3>1, <3>2
    <2>6. CASE \E code \in Codes, rpc \in RPCs, date \in Dates : observe(r, code, rpc, date)
      <3>1. PICK code \in Codes, rpc \in RPCs, date \in Dates : observe(r, code, rpc, date)
        BY <2>6
      <3>2. nextAccountRestriction(mem[r], code, date) \in Row
        BY <1>s, NextRow
      <3>3. row'.del = row.del
        BY <1>2, <3>1, <3>2 DEF observe, Record
      <3> QED BY <1>1, <3>1, <3>3 DEF observe
    <2>7. CASE Release(r) /\ UNCHANGED <<rev, reserved, deleted>>
      <3>1. Clear(mem[r]) \in Row
        BY <1>s, ClearRow
      <3>2. row'.del = row.del
        BY <1>2, <2>7, <3>1 DEF Release
      <3> QED BY <1>1, <2>7, <3>2
    <2> QED BY <1>5, <2>1, <2>2, <2>3, <2>4, <2>5, <2>6, <2>7, StepKinds
  <1> QED BY <1>3, <1>4, <1>5 DEF Next

(* Two reserved race deletions are DelInterval apart, whatever the runners *)
(* of the account, stopped ones included, save in between                  *)
(* (ReserveRaceDelete, SaveAccountRestriction).                            *)
THEOREM DeletionTheorem == Spec => DeletesAreSpaced
  <1>1. Init => DeletionSaved
    BY DEF Init, DeletionSaved, NoRow
  <1>2. IInv /\ DeletionSaved /\ [Next]_vars
          => /\ DeletionSaved'
             /\ [deleted' # deleted => deleted = 0 \/ deleted' >= deleted + DelInterval]_vars
    BY DeletionStep
  <1> QED BY <1>1, <1>2, Invariance, PTL DEF Spec, DeletesAreSpaced

------------------------------------------------------------------------------
(***************************************************************************)
(* The accounting of the logins, for runners whose goroutines end with     *)
(* their Stop.  (A runner that outlives its Stop saves the counters it has *)
(* loaded over those of its successor.)                                    *)
(***************************************************************************)

(* The account has one runner at a time, and none works on after its Stop. *)
OneLive == \A r, q \in Runners : Live(r) /\ Live(q) => r = q
NoneLingers == \A r \in Runners : pc[r] # "linger"

(* The counters of the runner are those of the row.                        *)
Synced(r) == mem[r].fresh = row.fresh /\ mem[r].last = row.last
LiveSynced == \A r \in Runners : Live(r) => Synced(r)

(* A login about to be made without the user's permit is counted already,  *)
(* and was within the budget when it was.                                  *)
Unattended(r) ==
    /\ pc[r] = "auth" /\ mem[r].code # 0 /\ mem[r].until <= now
    /\ ~manualRecoveryAuthorized(r)
Paid(r) == Unattended(r) => autos < row.fresh /\ row.fresh <= Budget
LoginsPaid == \A r \in Runners : Paid(r)

RowCounts == autos <= row.fresh /\ row.last = reserved.at

Accounting ==
    OneLive /\ NoneLingers /\ LiveSynced /\ LoginsPaid /\ RowCounts /\ BudgetIsKept

(* A step of a runner leaves the others alone, belongs to a live runner    *)
(* unless it starts or collects one, and reaches the authentication by a   *)
(* reservation only.                                                       *)
LEMMA Frame ==
  ASSUME Late = {}, IInv, NoneLingers, NEW r \in Runners, Step(r)
  PROVE  /\ \A q \in Runners \ {r} : /\ pc'[q] = pc[q] /\ att'[q] = att[q]
                                       /\ mem'[q] = mem[q] /\ rev'[q] = rev[q]
         /\ pc'[r] # "linger" /\ now' = now
         /\ Live(r) \/ Collect(r) \/ \E boot \in {"manual", "auto"} : Start(r, boot)
         /\ pc'[r] = "auth" => Reserve(r) \/ (pc[r] = "auth" /\ Response(r))
  <1> DEFINE Goal ==
         /\ \A q \in Runners \ {r} : /\ pc'[q] = pc[q] /\ att'[q] = att[q]
                                       /\ mem'[q] = mem[q] /\ rev'[q] = rev[q]
         /\ pc'[r] # "linger" /\ now' = now
         /\ Live(r) \/ Collect(r) \/ \E boot \in {"manual", "auto"} : Start(r, boot)
         /\ pc'[r] = "auth" => Reserve(r) \/ (pc[r] = "auth" /\ Response(r))
  <1> SUFFICES Goal
    OBVIOUS
  <1>s. /\ ShapeOK /\ mem \in [Runners -> Row] /\ pc \in [Runners -> PCs]
        /\ rev \in [Runners -> Nat] /\ att \in [Runners -> Attempt] /\ mem[r] \in Row
    BY DEF IInv, ShapeOK, DataOK, ThreadOK
  <1>1. ASSUME NEW kind, Fail(r, kind, mem[r]), UNCHANGED <<mem, rev, now>>, Live(r)
        PROVE  Goal
    <2>1. /\ pc'[r] \in {"gone", "sleep", "ended", "park"}
          /\ \A q \in Runners \ {r} : pc'[q] = pc[q] /\ att'[q] = att[q]
      BY <1>s, <1>1, FailFacts
    <2> QED BY <1>1, <2>1
  <1>2. ASSUME NEW kind, NEW kept, Broken(r, kind, mem[r], rev[r], kept),
               UNCHANGED <<mem, rev, now>>, Live(r)
        PROVE  Goal
    <2>1. /\ pc'[r] \in {"gone", "sleep", "ended", "park", "freshwait"}
          /\ \A q \in Runners \ {r} : pc'[q] = pc[q] /\ att'[q] = att[q]
      BY <1>s, <1>2, BrokenFacts
    <2> QED BY <1>2, <2>1
  <1>3. ASSUME NEW v, CallFails(r, v), now' = now, Live(r)
        PROVE  Goal
    <2>1. /\ pc'[r] \in {"gone", "sleep", "ended", "park", "freshwait"}
          /\ \A q \in Runners \ {r} : /\ pc'[q] = pc[q] /\ att'[q] = att[q]
                                       /\ mem'[q] = mem[q] /\ rev'[q] = rev[q]
      BY <1>s, <1>3, CallFacts
    <2> QED BY <1>3, <2>1
  <1>4. ASSUME NEW p \in PCs \ {"linger", "auth"}, NEW a, Live(r),
               pc' = [pc EXCEPT ![r] = p], att' = att \/ att' = [att EXCEPT ![r] = a],
               UNCHANGED <<mem, rev, now>>
        PROVE  Goal
    BY <1>s, <1>4
  <1>5. CASE \E boot \in {"manual", "auto"} : Start(r, boot)
    BY <1>s, <1>5 DEF Start
  <1>6. CASE Collect(r)
    BY <1>s, <1>6 DEF Collect
  <1>7. CASE Wakeup(r) \/ Disconnect(r) \/ GuardTick(r) \/ Park(r) \/ Retry(r)
    BY <1>s, <1>7 DEF Wakeup, Disconnect, GuardTick, Park, Retry, Live, guard
  <1>8. CASE \/ waitAccountRestriction(r, "wait", "route")
             \/ waitAccountRestriction(r, "freshwait", "authorize")
    BY <1>s, <1>8 DEF waitAccountRestriction, Live, guard
  <1>9. CASE Route(r)
    <2>1. Live(r) /\ UNCHANGED <<mem, rev, now>>
      BY <1>9 DEF Route, Live, guard
    <2>2. \/ \E kind : Fail(r, kind, mem[r])
          \/ \E p \in {"freshwait", "dial"} : \E a :
                pc' = [pc EXCEPT ![r] = p] /\ att' = [att EXCEPT ![r] = a]
      BY <1>9 DEF Route
    <2> HIDE DEF Goal
    <2> QED BY <1>1, <1>4, <2>1, <2>2 DEF PCs
  <1>10. CASE Authorize(r)
    <2>1. Live(r) /\ UNCHANGED <<mem, rev, now>>
      BY <1>10 DEF Authorize, Live, guard
    <2>2. \/ \E kind : Fail(r, kind, mem[r])
          \/ pc' = [pc EXCEPT ![r] = "reserve"] /\ att' = att
      BY <1>10 DEF Authorize
    <2> HIDE DEF Goal
    <2> QED BY <1>1, <1>4, <2>1, <2>2 DEF PCs
  <1>11. CASE Reserve(r)
    <2>1. Live(r) /\ UNCHANGED <<rev, now>>
      BY <1>11 DEF Reserve, Live
    <2>2. CASE \E kind : Fail(r, kind, mem[r]) /\ mem' = mem
      <3> HIDE DEF Goal
      <3> QED BY <1>1, <2>1, <2>2
    <2>3. CASE /\ pc' = [pc EXCEPT ![r] = "auth"] /\ att' = att
               /\ mem' = mem \/ mem' = [mem EXCEPT ![r] = Counted(@)]
      BY <1>s, <1>11, <2>1, <2>3
    <2> HIDE DEF Goal
    <2> QED BY <1>11, <2>2, <2>3 DEF Reserve
  <1>12. CASE Authenticate(r)
    <2>1. Live(r) /\ UNCHANGED <<mem, rev, now>>
      BY <1>12 DEF Authenticate, Live, guard
    <2>2. \/ \E kind : Fail(r, kind, mem[r])
          \/ pc' = [pc EXCEPT ![r] = "dial"] /\ att' = att
          \/ pc' = [pc EXCEPT ![r] = "gone"] /\ att' = [att EXCEPT ![r] = NoAttempt]
      BY <1>12 DEF Authenticate
    <2> HIDE DEF Goal
    <2> QED BY <1>1, <1>4, <2>1, <2>2 DEF PCs
  <1>13. CASE Dial(r)
    <2>1. Live(r) /\ UNCHANGED <<mem, rev, now>>
      BY <1>13 DEF Dial, Live, guard
    <2>2. \/ \E kind : Fail(r, kind, mem[r])
          \/ Broken(r, "socket", mem[r], rev[r], cache)
          \/ pc' = [pc EXCEPT ![r] = "login"] /\ att' = att
      BY <1>13 DEF Dial
    <2> HIDE DEF Goal
    <2> QED BY <1>1, <1>2, <1>4, <2>1, <2>2 DEF PCs
  <1>14. CASE Login(r)
    <2>1. Live(r) /\ now' = now
      BY <1>14 DEF Login, Live
    <2>2. CASE \E v : CallFails(r, v)
      <3> HIDE DEF Goal
      <3> QED BY <1>3, <2>1, <2>2
    <2>3. CASE /\ pc' = [pc EXCEPT ![r] = IF mem[r].code # 0 THEN "lazy" ELSE "settle"]
               /\ att' = [att EXCEPT ![r].login = rev[r]] /\ UNCHANGED guard
      BY <1>s, <2>1, <2>3 DEF guard
    <2> HIDE DEF Goal
    <2> QED BY <1>14, <2>2, <2>3 DEF Login
  <1>15. CASE ProbeLazy(r)
    <2>1. Live(r) /\ now' = now
      BY <1>15 DEF ProbeLazy, Live
    <2>2. \/ CallFails(r, checkProbe(r, att[r].login))
          \/ pc' = [pc EXCEPT ![r] = "rep"] /\ att' = att /\ UNCHANGED <<mem, rev>>
      BY <1>15 DEF ProbeLazy, guard
    <2> HIDE DEF Goal
    <2> QED BY <1>3, <1>4, <2>1, <2>2 DEF PCs
  <1>16. CASE ProbeReputation(r)
    <2>1. Live(r) /\ now' = now
      BY <1>16 DEF ProbeReputation, Live
    <2>2. \/ CallFails(r, checkProbe(r, att[r].login))
          \/ Broken(r, "guard", mem[r], rev[r], FALSE) /\ UNCHANGED <<mem, rev>>
          \/ pc' = [pc EXCEPT ![r] = "final"] /\ att' = att /\ UNCHANGED <<mem, rev>>
      BY <1>16 DEF ProbeReputation, guard
    <2> HIDE DEF Goal
    <2> QED BY <1>2, <1>3, <1>4, <2>1, <2>2 DEF PCs
  <1>17. CASE FinalCheck(r)
    <2>1. Live(r) /\ UNCHANGED <<mem, rev, now>>
      BY <1>17 DEF FinalCheck, Live, guard
    <2>2. \/ Broken(r, checkProbe(r, att[r].login), mem[r], rev[r], cache)
          \/ pc' = [pc EXCEPT ![r] = "clear"] /\ att' = att
      BY <1>17 DEF FinalCheck
    <2> HIDE DEF Goal
    <2> QED BY <1>2, <1>4, <2>1, <2>2 DEF PCs
  <1>18. CASE clearAccountRestriction(r)
    <2>1. Live(r) /\ UNCHANGED <<rev, now>>
      BY <1>18 DEF clearAccountRestriction, Live
    <2>2. CASE Broken(r, "error", mem[r], rev[r], cache) /\ mem' = mem
      <3> HIDE DEF Goal
      <3> QED BY <1>2, <2>1, <2>2
    <2>3. CASE Release(r) /\ pc' = [pc EXCEPT ![r] = "settle"] /\ att' = att
      BY <1>s, <2>1, <2>3 DEF Release
    <2> HIDE DEF Goal
    <2> QED BY <1>18, <2>2, <2>3 DEF clearAccountRestriction
  <1>19. CASE ClearAfterStop(r)
    BY <1>19 DEF ClearAfterStop, NoneLingers
  <1>20. CASE Settle(r)
    <2>1. Live(r) /\ UNCHANGED <<mem, rev, now>>
      BY <1>20 DEF Settle, Live, guard
    <2>2. \/ Broken(r, "error", mem[r], rev[r], cache)
          \/ Broken(r, "guard", mem[r], rev[r], FALSE)
          \/ pc' = [pc EXCEPT ![r] = "serve"] /\ att' = [att EXCEPT ![r] = NoAttempt]
      BY <1>20 DEF Settle
    <2> HIDE DEF Goal
    <2> QED BY <1>2, <1>4, <2>1, <2>2 DEF PCs
  <1>21. CASE Business(r)
    BY <1>s, <1>21 DEF Business, Live, guard, thread
  <1>22. CASE ReserveRaceDelete(r)
    BY <1>s, <1>22 DEF ReserveRaceDelete, Live, thread
  <1>23. CASE Response(r)
    <2>1. /\ Live(r) /\ UNCHANGED <<pc, att, now>>
          /\ pc[r] # "linger"
      BY <1>23 DEF Response, NoneLingers
    <2>2. \A q \in Runners \ {r} : mem'[q] = mem[q] /\ rev'[q] = rev[q]
      BY <1>s, <1>23, ObserveFacts DEF Response
    <2> QED BY <1>23, <2>1, <2>2
  <1>24. CASE Stop(r)
    BY <1>s, <1>24 DEF Stop, Live, guard
  <1> HIDE DEF Goal
  <1> QED
    BY <1>5, <1>6, <1>7, <1>8, <1>9, <1>10, <1>11, <1>12, <1>13, <1>14, <1>15, <1>16, <1>17,
       <1>18, <1>19, <1>20, <1>21, <1>22, <1>23, <1>24 DEF Step

(* What an observed error does to the row and to the runner's copy: the    *)
(* counters stay, and the copy is left waiting if it is changed.           *)
LEMMA ObserveCounts ==
  ASSUME ShapeOK, NEW r \in Runners, NEW code \in Codes, NEW rpc \in RPCs,
         NEW date \in Dates, observe(r, code, rpc, date), Synced(r)
  PROVE  /\ Synced(r)' /\ row'.fresh = row.fresh /\ row'.last = row.last
         /\ UNCHANGED <<autos, reserved>>
         /\ \/ mem'[r].until > now
            \/ mem' = mem /\ rev' = rev
  <1> DEFINE n == nextAccountRestriction(mem[r], code, date)
  <1>1. mem \in [Runners -> Row] /\ row \in Row
    BY DEF ShapeOK, DataOK
  <1>2. n \in Row /\ n.until > now /\ n.fresh = mem[r].fresh /\ n.last = mem[r].last
    BY <1>1, NextRow
  <1>3. UNCHANGED <<autos, reserved>>
    BY DEF observe
  <1>4. CASE Record(r, n)
    <2> HIDE DEF n
    <2>1. mem'[r] = n
      BY <1>1, <1>4 DEF Record
    <2>2. row' = row \/ row' = [n EXCEPT !.del = row.del]
      BY <1>4 DEF Record, SaveAccountRestriction
    <2>3. row'.fresh = row.fresh /\ row'.last = row.last
      BY <1>2, <2>2 DEF Row, Synced
    <2> QED BY <1>2, <1>3, <2>1, <2>3 DEF Synced
  <1>5. CASE UNCHANGED <<mem, rev, row>>
    BY <1>3, <1>5 DEF Synced
  <1> QED BY <1>4, <1>5 DEF observe

(* A step of a live runner keeps the books, whatever it is.                *)
LEMMA BookStep ==
  ASSUME Late = {}, IInv, Accounting, NEW r \in Runners, Step(r), Live(r)
  PROVE  /\ Synced(r)' /\ Paid(r)' /\ RowCounts' /\ BudgetIsKept'
         /\ row'.fresh < row.fresh => row'.code = 0
         /\ (reserved' # reserved /\ ~reserved'.manual)
               => reserved.at = 0 \/ reserved'.at >= reserved.at + Interval
  <1> DEFINE Spaced == (reserved' # reserved /\ ~reserved'.manual)
                         => reserved.at = 0 \/ reserved'.at >= reserved.at + Interval
             Books == /\ Synced(r)' /\ Paid(r)' /\ RowCounts' /\ BudgetIsKept'
                      /\ row'.fresh < row.fresh => row'.code = 0
                      /\ Spaced
  <1> SUFFICES Books
    OBVIOUS
  <1>s. /\ ShapeOK /\ mem \in [Runners -> Row] /\ rev \in [Runners -> Nat] /\ row \in Row
        /\ pc \in [Runners -> PCs] /\ att \in [Runners -> Attempt]
        /\ now \in Nat /\ autos \in Nat /\ reserved \in [at : Nat, manual : BOOLEAN]
        /\ mem[r].fresh \in Nat /\ row.fresh \in Nat /\ row.last \in Nat
    BY DEF IInv, ShapeOK, DataOK, ThreadOK, Row
  <1>b. Budget \in Nat /\ Interval \in Nat
    BY SafetyAssumption
  <1>a. Synced(r) /\ Paid(r) /\ RowCounts /\ BudgetIsKept
    BY DEF Accounting, LiveSynced, LoginsPaid
  <1>f. now' = now /\ (pc'[r] = "auth" => Reserve(r) \/ (pc[r] = "auth" /\ Response(r)))
    BY Frame DEF Accounting
  <1>1. ASSUME pc[r] = "auth", Response(r), UNCHANGED <<mem, rev>>
        PROVE  Unattended(r)' => Unattended(r)
    BY <1>1, <1>f DEF Response, Unattended, manualRecoveryAuthorized
  <1>2. CASE UNCHANGED <<row, mem, rev, autos, reserved, deleted>>
    <2>1. Paid(r)'
      <3>1. CASE pc'[r] # "auth"
        BY <3>1 DEF Paid, Unattended
      <3>2. CASE Response(r) /\ pc[r] = "auth"
        BY <1>1, <1>2, <1>a, <3>2 DEF Paid
      <3>3. CASE Reserve(r)
        <4>1. CASE pc'[r] = "auth"
          <5>1. mem[r].code = 0
            <6> SUFFICES ASSUME mem[r].code # 0 PROVE FALSE
              OBVIOUS
            <6>1. \/ \E kind : Fail(r, kind, mem[r])
                  \/ row' = Counted(row)
              BY <3>3 DEF Reserve
            <6>2. ~ \E kind : Fail(r, kind, mem[r])
              BY <1>s, <4>1, FailFacts
            <6>3. Counted(row).fresh = row.fresh + 1
              BY <1>s DEF Counted, Row
            <6> QED BY <1>s, <1>2, <6>1, <6>2, <6>3
          <5> QED BY <1>2, <5>1 DEF Paid, Unattended
        <4> QED BY <4>1 DEF Paid, Unattended
      <3> QED BY <1>f, <3>1, <3>2, <3>3
    <2> QED BY <1>s, <1>2, <1>a, <2>1 DEF Synced, RowCounts, BudgetIsKept
  <1>3. CASE Reserve(r)
    <2>1. CASE row' = row /\ mem' = mem /\ reserved' = reserved
      <3>1. UNCHANGED <<row, mem, rev, autos, reserved, deleted>>
        BY <1>3, <2>1 DEF Reserve
      <3> QED BY <1>2, <3>1
    <2>2. CASE /\ Reservable(manualRecoveryAuthorized(r))
               /\ row' = Counted(row) /\ mem' = [mem EXCEPT ![r] = Counted(@)]
               /\ att' = att
               /\ reserved' = [at |-> now, manual |-> manualRecoveryAuthorized(r)]
      <3>1. \A x \in Row : Counted(x).fresh = x.fresh + 1 /\ Counted(x).last = now
        BY <1>s DEF Counted, Row
      <3>2. row'.fresh = row.fresh + 1 /\ row'.last = now
        BY <1>s, <2>2, <3>1
      <3>3. mem'[r].fresh = mem[r].fresh + 1 /\ mem'[r].last = now
        BY <1>s, <2>2, <3>1
      <3>4. Synced(r)'
        BY <1>a, <3>2, <3>3 DEF Synced
      <3>5. autos' = autos /\ rev' = rev
        BY <1>3 DEF Reserve
      <3>6. Paid(r)'
        <4>1. CASE manualRecoveryAuthorized(r)
          BY <2>2, <3>5, <4>1 DEF Paid, Unattended, manualRecoveryAuthorized
        <4>2. CASE ~manualRecoveryAuthorized(r)
          <5>1. row.fresh < Budget
            BY <2>2, <4>2 DEF Reservable
          <5> QED BY <1>s, <1>b, <1>a, <3>2, <3>5, <5>1 DEF Paid, RowCounts
        <4> QED BY <4>1, <4>2
      <3>7. RowCounts' /\ BudgetIsKept'
        BY <1>s, <1>a, <2>2, <3>2, <3>5 DEF RowCounts, BudgetIsKept
      <3>8. Spaced
        <4> SUFFICES ASSUME ~reserved'.manual
                     PROVE  reserved.at = 0 \/ reserved'.at >= reserved.at + Interval
          OBVIOUS
        <4>1. ~manualRecoveryAuthorized(r) /\ reserved'.at = now
          BY <2>2
        <4>2. row.last = 0 \/ row.last + Interval <= now
          BY <2>2, <4>1 DEF Reservable
        <4> QED BY <1>s, <1>b, <1>a, <4>1, <4>2 DEF RowCounts
      <3> HIDE DEF Spaced
      <3> QED BY <1>s, <3>2, <3>4, <3>6, <3>7, <3>8
    <2> HIDE DEF Books
    <2> QED BY <1>3, <2>1, <2>2 DEF Reserve
  <1>4. CASE Authenticate(r)
    <2>1. UNCHANGED <<row, mem, rev, reserved>>
      BY <1>4 DEF Authenticate, db, guard
    <2>2. ~Reserve(r) /\ ~Response(r) => pc'[r] # "auth"
      BY <1>f
    <2>3. pc'[r] # "auth"
      <3>1. CASE \E kind : Fail(r, kind, mem[r])
        BY <1>s, <3>1, FailFacts
      <3>2. CASE \E p \in {"dial", "gone"} : pc' = [pc EXCEPT ![r] = p]
        BY <1>s, <3>2
      <3> QED BY <1>4, <3>1, <3>2 DEF Authenticate
    <2>4. Paid(r)'
      BY <2>3 DEF Paid, Unattended
    <2>5. autos' <= row.fresh /\ autos' <= Budget
      <3>1. CASE autos' = autos
        BY <1>a, <3>1 DEF RowCounts, BudgetIsKept
      <3>2. CASE autos' # autos
        <4>1. /\ autos' = autos + 1 /\ pc[r] = "auth" /\ mem[r].code # 0
              /\ ~manualRecoveryAuthorized(r) /\ checkFreshRecoveryAuthorization(r) = "ok"
          BY <1>4, <3>2 DEF Authenticate
        <4>2. mem[r].until <= now
          <5>1. mem[r].until \in Nat
            BY <1>s DEF Row
          <5>2. now >= mem[r].until
            BY <4>1 DEF checkFreshRecoveryAuthorization, checkLogin, Admitted
          <5> QED BY <1>s, <5>1, <5>2
        <4>3. autos < row.fresh /\ row.fresh <= Budget
          BY <1>a, <4>1, <4>2 DEF Paid, Unattended
        <4> QED BY <1>s, <1>b, <4>1, <4>3
      <3> QED BY <3>1, <3>2
    <2> QED BY <1>s, <1>a, <2>1, <2>4, <2>5 DEF Synced, RowCounts, BudgetIsKept
  <1>5. CASE ReserveRaceDelete(r)
    <2>1. PICK d \in {now, row.del} : mem' = [mem EXCEPT ![r].del = d]
      BY <1>5 DEF ReserveRaceDelete
    <2>2. mem'[r].fresh = mem[r].fresh /\ mem'[r].last = mem[r].last
      BY <1>s, <2>1 DEF Row
    <2>3. row'.fresh = row.fresh /\ row'.last = row.last
      BY <1>s, <1>5 DEF ReserveRaceDelete, Row
    <2>4. UNCHANGED <<autos, reserved, pc>> /\ pc[r] = "serve"
      BY <1>5 DEF ReserveRaceDelete, thread
    <2> QED BY <1>s, <1>a, <2>2, <2>3, <2>4
            DEF Synced, RowCounts, BudgetIsKept, Paid, Unattended
  <1>6. CASE \E code \in Codes, rpc \in RPCs, date \in Dates : observe(r, code, rpc, date)
    <2>1. PICK code \in Codes, rpc \in RPCs, date \in Dates : observe(r, code, rpc, date)
      BY <1>6
    <2>2. /\ Synced(r)' /\ row'.fresh = row.fresh /\ row'.last = row.last
          /\ UNCHANGED <<autos, reserved>>
          /\ mem'[r].until > now \/ (mem' = mem /\ rev' = rev)
      BY <1>s, <1>a, <2>1, ObserveCounts
    <2>3. RowCounts' /\ BudgetIsKept'
      BY <1>a, <2>2 DEF RowCounts, BudgetIsKept
    <2>4. mem'[r].until \in Nat
      BY <1>s, <2>1, ObserveFacts DEF Row
    <2>5. Paid(r)'
      <3>1. CASE pc'[r] # "auth"
        BY <3>1 DEF Paid, Unattended
      <3>2. CASE mem'[r].until > now
        BY <1>s, <1>f, <2>4, <3>2 DEF Paid, Unattended
      <3>3. CASE Response(r) /\ pc[r] = "auth" /\ mem' = mem /\ rev' = rev
        BY <1>1, <1>a, <2>2, <3>3 DEF Paid
      <3>4. CASE Reserve(r) /\ mem' = mem /\ rev' = rev
        BY <2>1, <3>4 DEF Reserve, observe, ShapeOK, DataOK, IInv
      <3> QED BY <1>f, <2>2, <3>1, <3>2, <3>3, <3>4
    <2> QED BY <1>s, <2>2, <2>3, <2>5
  <1>7. CASE /\ Release(r) /\ pc[r] \in {"clear", "linger"}
             /\ UNCHANGED <<rev, reserved, deleted>>
    <2>1. mem'[r] = Clear(mem[r]) /\ row' = [Clear(mem[r]) EXCEPT !.del = row.del] /\ autos' = 0
      BY <1>s, <1>7 DEF Release, SaveAccountRestriction
    <2> DEFINE c == Clear(mem[r])
    <2>2. c \in Row /\ c.code = 0 /\ c.fresh = 0 /\ c.last = mem[r].last
      BY <1>s, ClearRow
    <2>3. mem'[r].fresh = 0 /\ mem'[r].last = mem[r].last
      BY <2>1, <2>2
    <2>4. row'.fresh = 0 /\ row'.last = mem[r].last /\ row'.code = 0
      <3> HIDE DEF c
      <3>1. row' = [c EXCEPT !.del = row.del]
        BY <2>1 DEF c
      <3> QED BY <2>2, <3>1 DEF Row
    <2>5. Synced(r)' /\ RowCounts' /\ BudgetIsKept'
      BY <1>a, <1>b, <1>7, <2>1, <2>3, <2>4 DEF Synced, RowCounts, BudgetIsKept
    <2>6. mem'[r].code = 0
      BY <2>1, <2>2
    <2>7. Paid(r)'
      BY <2>6 DEF Paid, Unattended
    <2> QED BY <1>7, <2>4, <2>5, <2>7
  <1>8. ~Collect(r) /\ ~ \E boot \in {"manual", "auto"} : Start(r, boot)
    BY DEF Live, Collect, Start
  <1> HIDE DEF Books
  <1> QED BY <1>2, <1>3, <1>4, <1>5, <1>6, <1>7, <1>8, StepKinds

(* Every step keeps the books.  Only one runner is live: the counters of   *)
(* no other can go out of step with the row.                               *)
LEMMA AccountingStep ==
  ASSUME Late = {}, IInv, Accounting, [Next]_vars
  PROVE  /\ Accounting'
         /\ row'.fresh < row.fresh => row'.code = 0
         /\ (reserved' # reserved /\ ~reserved'.manual)
               => reserved.at = 0 \/ reserved'.at >= reserved.at + Interval
  <1> DEFINE Goal ==
         /\ Accounting'
         /\ row'.fresh < row.fresh => row'.code = 0
         /\ (reserved' # reserved /\ ~reserved'.manual)
               => reserved.at = 0 \/ reserved'.at >= reserved.at + Interval
  <1> SUFFICES Goal
    OBVIOUS
  <1>s. /\ mem \in [Runners -> Row] /\ row \in Row /\ row.fresh \in Nat
        /\ pc \in [Runners -> PCs] /\ now \in Nat
    BY DEF IInv, ShapeOK, DataOK, ThreadOK, Row
  <1>1. ASSUME NEW r \in Runners, Step(r), Live(r) PROVE Goal
    <2>1. /\ \A q \in Runners \ {r} : /\ pc'[q] = pc[q] /\ att'[q] = att[q]
                                       /\ mem'[q] = mem[q] /\ rev'[q] = rev[q]
          /\ pc'[r] # "linger"
      BY <1>1, Frame DEF Accounting
    <2>2. \A q \in Runners \ {r} : ~Live(q) /\ ~Live(q)'
      BY <1>1, <2>1 DEF Accounting, OneLive, Live
    <2>3. OneLive' /\ NoneLingers'
      BY <2>1, <2>2 DEF OneLive, NoneLingers, Accounting
    <2>4. /\ Synced(r)' /\ Paid(r)' /\ RowCounts' /\ BudgetIsKept'
          /\ row'.fresh < row.fresh => row'.code = 0
          /\ (reserved' # reserved /\ ~reserved'.manual)
               => reserved.at = 0 \/ reserved'.at >= reserved.at + Interval
      BY <1>1, BookStep
    <2>5. LiveSynced'
      BY <2>2, <2>4 DEF LiveSynced
    <2>6. \A q \in Runners \ {r} : Paid(q)'
      BY <2>2 DEF Paid, Unattended, Live
    <2>7. LoginsPaid'
      BY <2>4, <2>6 DEF LoginsPaid
    <2> QED BY <2>3, <2>4, <2>5, <2>7 DEF Accounting
  <1>2. ASSUME NEW r \in Runners, \E boot \in {"manual", "auto"} : Start(r, boot) PROVE Goal
    <2>1. /\ mem' = [mem EXCEPT ![r] = row] /\ UNCHANGED <<row, autos, reserved, now, rev>>
          /\ \A q \in Runners : ~Live(q)
          /\ pc' = [pc EXCEPT ![r] = "sleep"] \/ pc' = [pc EXCEPT ![r] = "wait"]
      BY <1>2 DEF Start, hist
    <2>2. \A q \in Runners : /\ Live(q)' => q = r
                             /\ pc'[q] # "linger" /\ pc'[q] # "auth"
      BY <1>s, <2>1 DEF Live, Accounting, NoneLingers
    <2>3. Synced(r)'
      BY <1>s, <2>1 DEF Synced
    <2>4. OneLive' /\ NoneLingers' /\ LiveSynced' /\ LoginsPaid'
      BY <2>2, <2>3 DEF OneLive, NoneLingers, LiveSynced, LoginsPaid, Paid, Unattended
    <2> QED BY <1>s, <2>1, <2>4 DEF Accounting, RowCounts, BudgetIsKept
  <1>3. ASSUME UNCHANGED <<row, autos, reserved>>,
               \A q \in Runners : /\ Live(q)' => Live(q) /\ UNCHANGED <<mem[q], att[q], rev[q]>>
                                  /\ pc'[q] = "linger" => pc[q] = "linger"
                                  /\ pc'[q] = "auth" => pc[q] = "auth" /\ now' = now
        PROVE  Goal
    <2>1. OneLive' /\ NoneLingers'
      BY <1>3 DEF Accounting, OneLive, NoneLingers
    <2>2. LiveSynced'
      BY <1>3 DEF Accounting, LiveSynced, Synced
    <2>3. \A q \in Runners : Unattended(q)' => Unattended(q)
      BY <1>3 DEF Unattended, manualRecoveryAuthorized, Live
    <2>4. LoginsPaid'
      BY <1>3, <2>3 DEF Accounting, LoginsPaid, Paid
    <2> QED BY <1>s, <1>3, <2>1, <2>2, <2>4 DEF Accounting, RowCounts, BudgetIsKept
  <1>4. ASSUME NEW r \in Runners, Collect(r) PROVE Goal
    <2>1. /\ UNCHANGED <<row, autos, reserved, now, att>>
          /\ pc' = [pc EXCEPT ![r] = "off"]
          /\ \A q \in Runners \ {r} : mem'[q] = mem[q] /\ rev'[q] = rev[q]
      BY <1>4 DEF Collect, db, IInv, ShapeOK, DataOK
    <2>2. \A q \in Runners : /\ Live(q)' => Live(q) /\ UNCHANGED <<mem[q], att[q], rev[q]>>
                             /\ pc'[q] = "linger" => pc[q] = "linger"
                             /\ pc'[q] = "auth" => pc[q] = "auth" /\ now' = now
      BY <1>s, <2>1 DEF Live
    <2> HIDE DEF Goal
    <2> QED BY <1>3, <2>1, <2>2
  <1>5. CASE \/ \E p \in [on : BOOLEAN, fresh : BOOLEAN] : SetPolicy(p)
             \/ UNCHANGED vars
    <2>1. UNCHANGED <<row, autos, reserved, now, att, pc, mem, rev>>
      BY <1>5 DEF SetPolicy, db, guard, hist, thread, vars
    <2> HIDE DEF Goal
    <2> QED BY <1>3, <2>1 DEF Live
  <1>6. CASE Crash
    <2>1. /\ UNCHANGED <<row, autos, reserved>>
          /\ \A q \in Runners : pc'[q] \in {"off", "gone"}
      BY <1>6 DEF Crash, db, hist
    <2> HIDE DEF Goal
    <2> QED BY <1>3, <2>1 DEF Live
  <1>7. CASE Tick
    <2>1. /\ UNCHANGED <<row, autos, reserved, att, pc, mem, rev>>
          /\ \A q \in Runners : pc[q] # "auth"
      BY <1>7 DEF Tick, db, hist, guard, thread
    <2> HIDE DEF Goal
    <2> QED BY <1>3, <2>1 DEF Live
  <1>8. ASSUME NEW r \in Runners, Step(r) PROVE Goal
    <2>1. Live(r) \/ Collect(r) \/ \E boot \in {"manual", "auto"} : Start(r, boot)
      BY <1>8, Frame DEF Accounting
    <2> HIDE DEF Goal
    <2> QED BY <1>1, <1>2, <1>4, <1>8, <2>1
  <1> HIDE DEF Goal
  <1> QED BY <1>5, <1>6, <1>7, <1>8 DEF Next

(* The books are in order in the initial states.                           *)
LEMMA AccountingInit == Init => Accounting
  BY SafetyAssumption
     DEF Init, Accounting, OneLive, NoneLingers, LiveSynced, LoginsPaid, Paid, Unattended,
         RowCounts, BudgetIsKept, NoRow, Live

(* The books are in order in every reachable state.                        *)
LEMMA AccountingInvariance == ASSUME Late = {} PROVE Spec => []Accounting
  <1>1. IInv /\ Accounting /\ [Next]_vars => Accounting'
    BY AccountingStep
  <1> QED BY <1>1, AccountingInit, Invariance, PTL DEF Spec

(* Between two verified recoveries the account authenticates at most       *)
(* Budget times on its own, across failures, replaced runners, crashes and *)
(* errors that could not be saved (reserveFreshRecovery), if the           *)
(* goroutines of a stopped runner are gone before the next one starts.     *)
THEOREM BudgetTheorem == ASSUME Late = {} PROVE Spec => []BudgetIsKept
  <1>1. Accounting => BudgetIsKept
    BY DEF Accounting
  <1> QED BY <1>1, AccountingInvariance, PTL

(* Under the same condition "only verified recovery resets that count"     *)
(* (ReserveManualRecovery): every reserved login stays counted.            *)
THEOREM CountedTheorem == ASSUME Late = {} PROVE Spec => AttemptsStayCounted
  <1>1. IInv /\ Accounting /\ [Next]_vars => [row'.fresh < row.fresh => row'.code = 0]_vars
    BY AccountingStep
  <1> QED BY <1>1, AccountingInvariance, Invariance, PTL DEF Spec, AttemptsStayCounted

(* Under the same condition an automatic login is reserved at least        *)
(* Interval after the reservation before it, manual ones and those of      *)
(* earlier incidents and runners included (reserveFreshRecovery, Clear).   *)
THEOREM SpacingTheorem == ASSUME Late = {} PROVE Spec => SpacingIsKept
  <1>1. IInv /\ Accounting /\ [Next]_vars
          => [(reserved' # reserved /\ ~reserved'.manual)
                => reserved.at = 0 \/ reserved'.at >= reserved.at + Interval]_vars
    BY AccountingStep
  <1> QED BY <1>1, AccountingInvariance, Invariance, PTL DEF Spec, SpacingIsKept
==============================================================================
