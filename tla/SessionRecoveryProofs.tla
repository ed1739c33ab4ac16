------------------------ MODULE SessionRecoveryProofs ------------------------
(***************************************************************************)
(* For every set of notices, edits and commands: SessionRecovery is well   *)
(* typed, a session that is over stays over, and it leaves automation      *)
(* stored off.                                                             *)
(***************************************************************************)
EXTENDS SessionRecovery, TLAPS

\* Every step keeps every variable within its type.
LEMMA TypeStep == TypeOK /\ [Next]_vars => TypeOK'
  <1> SUFFICES ASSUME TypeOK, [Next]_vars PROVE TypeOK'
    OBVIOUS
  <1> USE ThreadAssumption DEF TypeOK, Policy, PCs, LoopPCs, Threads, Pending, Dead,
       flags, run, local
  <1>1. ASSUME NEW t \in Threads, FailClosed(t) PROVE TypeOK'
    <2>1. invalid' \in BOOLEAN /\ auto' \in BOOLEAN /\ ctx' \in BOOLEAN
      BY <1>1 DEF FailClosed, Goto
    <2> QED BY <2>1, <1>1 DEF FailClosed, Goto
  <1>2. ASSUME NEW t \in Threads, Disable(t) PROVE TypeOK'
    <2>1. [live EXCEPT !.on = FALSE] \in Policy
      OBVIOUS
    <2>2. off' \in [Threads -> Policy]
      BY <2>1, <1>2 DEF Disable
    <2> QED BY <2>2, <1>2 DEF Disable, Goto
  <1>3. ASSUME NEW t \in Threads, DisableApplies(t) PROVE TypeOK'
    <2>1. invalid' \in BOOLEAN /\ auto' \in BOOLEAN /\ ctx' \in BOOLEAN
      BY <1>3 DEF DisableApplies, Goto
    <2>2. live' \in Policy /\ pc' \in [Threads -> PCs]
      BY <1>3 DEF DisableApplies, Goto
    <2>3. UNCHANGED <<durable, stopped, registered, sock, mode, lock, local, paused>>
      BY <1>3 DEF DisableApplies
    <2> QED BY <2>1, <2>2, <2>3
  <1>4. ASSUME NEW t \in Threads, DisableSaves(t) PROVE TypeOK'
    BY <1>4 DEF DisableSaves, Goto
  <1>5. ASSUME NEW t \in Threads, Stop(t) PROVE TypeOK'
    <2>1. pc' \in [Threads -> PCs] /\ sock' \in {"none", "open", "closed"}
      BY <1>5 DEF Stop, Goto
    <2>2. stopped' = TRUE /\ ctx' = FALSE
      BY <1>5 DEF Stop
    <2>3. UNCHANGED <<durable, live, flags, registered, mode, lock, local, paused>>
      BY <1>5 DEF Stop
    <2> HIDE DEF Policy, PCs, LoopPCs, Threads
    <2> QED BY <2>1, <2>2, <2>3
  <1>6. ASSUME Forget PROVE TypeOK'
    <2>1. registered' \in BOOLEAN
      BY <1>6 DEF Forget
    <2> QED BY <2>1, <1>6 DEF Forget
  <1>7. ASSUME ConnectionLost PROVE TypeOK'
    BY <1>7 DEF ConnectionLost
  <1>8. ASSUME ServeEnds PROVE TypeOK'
    BY <1>8 DEF ServeEnds, Goto
  <1>9. ASSUME Check PROVE TypeOK'
    BY <1>9 DEF Check, Goto
  <1>10. ASSUME Wake PROVE TypeOK'
    BY <1>10 DEF Wake, Goto
  <1>11. ASSUME ReconnectReturnsNil PROVE TypeOK'
    BY <1>11 DEF ReconnectReturnsNil, Goto
  <1>12. ASSUME Prepare PROVE TypeOK'
    BY <1>12 DEF Prepare, Goto, Call
  <1>13. ASSUME BeginAttempt PROVE TypeOK'
    <2>1. invalid' \in BOOLEAN /\ auto' \in BOOLEAN
      BY <1>13 DEF BeginAttempt, Goto, Call
    <2> QED BY <2>1, <1>13 DEF BeginAttempt, Goto, Call
  <1>14. ASSUME LoginFails PROVE TypeOK'
    BY <1>14 DEF LoginFails, Goto
  <1>15. ASSUME LoginRefused PROVE TypeOK'
    <2>1. invalid' \in BOOLEAN /\ auto' \in BOOLEAN
      BY <1>15 DEF LoginRefused, Goto, Call
    <2> QED BY <2>1, <1>15 DEF LoginRefused, Goto, Call
  <1>16. ASSUME LoginInstalls PROVE TypeOK'
    BY <1>16 DEF LoginInstalls, Goto
  <1>17. ASSUME Verify PROVE TypeOK'
    BY <1>17 DEF Verify, Goto
  <1>18. ASSUME CompleteAttempt PROVE TypeOK'
    BY <1>18 DEF CompleteAttempt, Goto, Call
  <1>19. ASSUME AttemptFailed PROVE TypeOK'
    BY <1>19 DEF AttemptFailed, Goto
  <1>20. ASSUME NEW n \in Notices, NEW displaced \in BOOLEAN, Notice(n, displaced)
        PROVE  TypeOK'
    BY <1>20 DEF Notice, Goto
  <1>21. ASSUME NEW n \in Notices, Mark(n) PROVE TypeOK'
    <2>1. invalid' \in BOOLEAN /\ auto' \in BOOLEAN
      BY <1>21 DEF Mark, Goto
    <2> QED BY <2>1, <1>21 DEF Mark, Goto
  <1>22. ASSUME NEW e \in Edits, NEW relogin \in BOOLEAN, EditReads(e, relogin)
        PROVE  TypeOK'
    BY <1>22 DEF EditReads, Goto, Snap
  <1>23. ASSUME NEW e \in Edits, EditGets(e) PROVE TypeOK'
    BY <1>23 DEF EditGets, Goto
  <1>24. ASSUME NEW e \in Edits, EditPersists(e) PROVE TypeOK'
    BY <1>24 DEF EditPersists, Goto
  <1>25. ASSUME NEW e \in Edits, EditApplies(e) PROVE TypeOK'
    BY <1>25 DEF EditApplies, SetPolicy, Goto, Call
  <1>26. ASSUME NEW e \in Edits, EditReturns(e) PROVE TypeOK'
    BY <1>26 DEF EditReturns, Goto, Snap
  <1>27. ASSUME NEW e \in Edits, EditRepersists(e) PROVE TypeOK'
    BY <1>27 DEF EditRepersists, Goto
  <1>28. ASSUME NEW e \in Edits, EditFails(e) PROVE TypeOK'
    BY <1>28 DEF EditFails, Goto
  <1>29. ASSUME NEW o \in Ops, NEW k \in OpKinds, OpLocks(o, k) PROVE TypeOK'
    BY <1>29 DEF OpLocks, MayCome, Goto, Kinds
  <1>30. ASSUME NEW o \in Ops, Enable(o) PROVE TypeOK'
    <2>1. [live EXCEPT !.on = TRUE] \in Policy
      OBVIOUS
    <2>2. live' \in Policy /\ durable' \in Policy /\ paused' \in BOOLEAN
      BY <2>1, <1>30 DEF Enable
    <2>3. pc' \in [Threads -> PCs]
      BY <1>30 DEF Enable, Goto
    <2>4. UNCHANGED <<flags, run, sock, mode, lock, local>>
      BY <1>30 DEF Enable
    <2> QED BY <2>2, <2>3, <2>4
  <1>31. ASSUME NEW o \in Ops, PauseReads(o) PROVE TypeOK'
    <2>1. [live EXCEPT !.on = FALSE] \in Policy /\ [durable EXCEPT !.on = FALSE] \in
       Policy
      OBVIOUS
    <2>2. snap' \in [Threads -> Policy]
      BY <2>1, <1>31 DEF PauseReads, Snap
    <2>3. pc' \in [Threads -> PCs]
      BY <1>31 DEF PauseReads, Goto
    <2>4. UNCHANGED <<durable, live, flags, run, sock, mode, lock, ret, seen, op, off, paused>>
      BY <1>31 DEF PauseReads
    <2> QED BY <2>2, <2>3, <2>4
  <1>32. ASSUME NEW o \in Ops, PauseApplies(o) PROVE TypeOK'
    <2>1. live' \in Policy
      BY <1>32 DEF PauseApplies, SetPolicy
    <2>2. pc' \in [Threads -> PCs] /\ ret' \in [Threads -> PCs]
      BY <1>32 DEF PauseApplies, SetPolicy, Goto, Call
    <2>3. UNCHANGED <<durable, flags, run, sock, mode, lock, snap, seen, op, off, paused>>
      BY <1>32 DEF PauseApplies
    <2> QED BY <2>1, <2>2, <2>3
  <1>33. ASSUME NEW o \in Ops, PauseSaves(o) PROVE TypeOK'
    BY <1>33 DEF PauseSaves, Goto, AfterPause
  <1>34. ASSUME NEW o \in Ops, PauseFails(o) PROVE TypeOK'
    BY <1>34 DEF PauseFails, Goto, AfterPause
  <1>35. ASSUME NEW o \in Ops, Unregister(o) PROVE TypeOK'
    <2>1. registered' \in BOOLEAN
      BY <1>35 DEF Unregister, Goto
    <2> QED BY <2>1, <1>35 DEF Unregister, Goto
  <1>36. ASSUME NEW o \in Ops, Discard(o) PROVE TypeOK'
    <2>1. invalid' \in BOOLEAN /\ auto' \in BOOLEAN
      BY <1>36 DEF Discard, Goto, Call
    <2> QED BY <2>1, <1>36 DEF Discard, Goto, Call
  <1>37. ASSUME NEW o \in Ops, Unlock(o) PROVE TypeOK'
    <2>1. lock' \in BOOLEAN
      BY <1>37 DEF Unlock, Goto
    <2> QED BY <2>1, <1>37 DEF Unlock, Goto
  <1>38. CASE UNCHANGED vars
    BY <1>38 DEF vars
  <1> HIDE DEF TypeOK
  <1> QED
    BY <1>1, <1>2, <1>3, <1>4, <1>5, <1>6, <1>7, <1>8, <1>9, <1>10,
       <1>11, <1>12, <1>13, <1>14, <1>15, <1>16, <1>17, <1>18, <1>19, <1>20,
       <1>21, <1>22, <1>23, <1>24, <1>25, <1>26, <1>27, <1>28, <1>29, <1>30,
       <1>31, <1>32, <1>33, <1>34, <1>35, <1>36, <1>37, <1>38
       DEF Next, LoopStep, NoticeStep, EditStep, OpStep, Closing, Threads

\* Only discardSessionInvalidation revives a session that is over.
LEMMA DeadStep ==
  TypeOK /\ [Next]_vars => (Dead => Dead' \/ \E o \in Ops : pc[o] = "discard")
  <1> DEFINE Lasting == Dead => Dead' \/ \E o \in Ops : pc[o] = "discard"
  <1> SUFFICES ASSUME TypeOK, [Next]_vars PROVE Lasting
    OBVIOUS
  <1> USE ThreadAssumption DEF TypeOK, Dead, Pending, flags, run, local
  <1>1. ASSUME NEW t \in Threads, FailClosed(t) PROVE Lasting
    BY <1>1 DEF FailClosed, Goto
  <1>2. ASSUME NEW t \in Threads, Disable(t) PROVE Lasting
    BY <1>2 DEF Disable, Goto
  <1>3. ASSUME NEW t \in Threads, DisableApplies(t) PROVE Lasting
    BY <1>3 DEF DisableApplies, Goto
  <1>4. ASSUME NEW t \in Threads, DisableSaves(t) PROVE Lasting
    BY <1>4 DEF DisableSaves, Goto
  <1>5. ASSUME NEW t \in Threads, Stop(t) PROVE Lasting
    BY <1>5 DEF Stop, Goto
  <1>6. ASSUME Forget PROVE Lasting
    BY <1>6 DEF Forget
  <1>7. ASSUME ConnectionLost PROVE Lasting
    BY <1>7 DEF ConnectionLost
  <1>8. ASSUME ServeEnds PROVE Lasting
    BY <1>8 DEF ServeEnds, Goto
  <1>9. ASSUME Check PROVE Lasting
    BY <1>9 DEF Check, Goto
  <1>10. ASSUME Wake PROVE Lasting
    BY <1>10 DEF Wake, Goto
  <1>11. ASSUME ReconnectReturnsNil PROVE Lasting
    BY <1>11 DEF ReconnectReturnsNil, Goto
  <1>12. ASSUME Prepare PROVE Lasting
    BY <1>12 DEF Prepare, Goto, Call
  <1>13. ASSUME BeginAttempt PROVE Lasting
    BY <1>13 DEF BeginAttempt, Goto, Call
  <1>14. ASSUME LoginFails PROVE Lasting
    BY <1>14 DEF LoginFails, Goto
  <1>15. ASSUME LoginRefused PROVE Lasting
    BY <1>15 DEF LoginRefused, Goto, Call
  <1>16. ASSUME LoginInstalls PROVE Lasting
    BY <1>16 DEF LoginInstalls, Goto
  <1>17. ASSUME Verify PROVE Lasting
    BY <1>17 DEF Verify, Goto
  <1>18. ASSUME CompleteAttempt PROVE Lasting
    BY <1>18 DEF CompleteAttempt, Goto, Call
  <1>19. ASSUME AttemptFailed PROVE Lasting
    BY <1>19 DEF AttemptFailed, Goto
  <1>20. ASSUME NEW n \in Notices, NEW displaced \in BOOLEAN, Notice(n, displaced)
        PROVE  Lasting
    BY <1>20 DEF Notice, Goto
  <1>21. ASSUME NEW n \in Notices, Mark(n) PROVE Lasting
    BY <1>21 DEF Mark, Goto
  <1>22. ASSUME NEW e \in Edits, NEW relogin \in BOOLEAN, EditReads(e, relogin)
        PROVE  Lasting
    BY <1>22 DEF EditReads, Goto, Snap
  <1>23. ASSUME NEW e \in Edits, EditGets(e) PROVE Lasting
    BY <1>23 DEF EditGets, Goto
  <1>24. ASSUME NEW e \in Edits, EditPersists(e) PROVE Lasting
    BY <1>24 DEF EditPersists, Goto
  <1>25. ASSUME NEW e \in Edits, EditApplies(e) PROVE Lasting
    BY <1>25 DEF EditApplies, SetPolicy, Goto, Call
  <1>26. ASSUME NEW e \in Edits, EditReturns(e) PROVE Lasting
    BY <1>26 DEF EditReturns, Goto, Snap
  <1>27. ASSUME NEW e \in Edits, EditRepersists(e) PROVE Lasting
    BY <1>27 DEF EditRepersists, Goto
  <1>28. ASSUME NEW e \in Edits, EditFails(e) PROVE Lasting
    BY <1>28 DEF EditFails, Goto
  <1>29. ASSUME NEW o \in Ops, NEW k \in OpKinds, OpLocks(o, k) PROVE Lasting
    BY <1>29 DEF OpLocks, MayCome, Goto, Kinds
  <1>30. ASSUME NEW o \in Ops, Enable(o) PROVE Lasting
    BY <1>30 DEF Enable, Goto
  <1>31. ASSUME NEW o \in Ops, PauseReads(o) PROVE Lasting
    BY <1>31 DEF PauseReads, Goto, Snap
  <1>32. ASSUME NEW o \in Ops, PauseApplies(o) PROVE Lasting
    BY <1>32 DEF PauseApplies, SetPolicy, Goto, Call
  <1>33. ASSUME NEW o \in Ops, PauseSaves(o) PROVE Lasting
    BY <1>33 DEF PauseSaves, Goto, AfterPause
  <1>34. ASSUME NEW o \in Ops, PauseFails(o) PROVE Lasting
    BY <1>34 DEF PauseFails, Goto, AfterPause
  <1>35. ASSUME NEW o \in Ops, Unregister(o) PROVE Lasting
    BY <1>35 DEF Unregister, Goto
  <1>36. ASSUME NEW o \in Ops, Discard(o) PROVE Lasting
    BY <1>36 DEF Discard, Goto, Call
  <1>37. ASSUME NEW o \in Ops, Unlock(o) PROVE Lasting
    BY <1>37 DEF Unlock, Goto
  <1>38. CASE UNCHANGED vars
    BY <1>38 DEF vars
  <1> HIDE DEF Lasting, TypeOK, Policy, PCs, LoopPCs, Pending, Dead, flags, run, local
  <1> QED
    BY <1>1, <1>2, <1>3, <1>4, <1>5, <1>6, <1>7, <1>8, <1>9, <1>10,
       <1>11, <1>12, <1>13, <1>14, <1>15, <1>16, <1>17, <1>18, <1>19, <1>20,
       <1>21, <1>22, <1>23, <1>24, <1>25, <1>26, <1>27, <1>28, <1>29, <1>30,
       <1>31, <1>32, <1>33, <1>34, <1>35, <1>36, <1>37, <1>38
       DEF Next, LoopStep, NoticeStep, EditStep, OpStep, Closing, Threads

\* A started runner is well typed.
LEMMA TypeInit == Init => TypeOK
  <1> SUFFICES ASSUME Init PROVE TypeOK
    OBVIOUS
  <1>1. pc \in [Threads -> PCs]
    BY DEF Init, PCs, LoopPCs
  <1>2. /\ ret \in [Threads -> PCs] /\ snap \in [Threads -> Policy] /\ off \in [Threads -> Policy]
        /\ seen \in [Threads -> BOOLEAN]
    BY DEF Init, PCs, LoopPCs
  <1>3. /\ invalid \in BOOLEAN /\ auto \in BOOLEAN /\ sock \in {"none", "open", "closed"}
        /\ durable \in Policy /\ live \in Policy
    BY DEF Init
  <1>4. /\ ctx \in BOOLEAN /\ stopped \in BOOLEAN /\ registered \in BOOLEAN
        /\ mode \in {"reconnect", "relogin"} /\ lock \in BOOLEAN
        /\ op \in [Ops -> Kinds] /\ paused \in BOOLEAN
    BY DEF Init, Kinds
  <1> QED BY <1>1, <1>2, <1>3, <1>4 DEF TypeOK

\* Type correctness of the connection loop, the flags and the requests.
THEOREM TypeTheorem == Spec => []TypeOK
  BY TypeInit, TypeStep, PTL DEF Spec

\* completeAutoRelogin, handleSessionInvalidated, SetPolicy and the refusal of
\* a login never revive a session that one of them has ended.
THEOREM DeadTheorem == Spec => DeadStaysDead
  <1>1. TypeOK /\ [Next]_vars
           => [Dead => Dead' \/ \E o \in Ops : pc[o] = "discard"]_vars
    BY DeadStep
  <1> QED BY TypeTheorem, <1>1, PTL DEF Spec, DeadStaysDead

----------------------------------------------------------------------------
(***************************************************************************)
(* An invalid session opts the account out.  The writes of several threads *)
(* to the live and the stored policy interleave, so the property needs to  *)
(* know who is still going to store automation off.                        *)
(***************************************************************************)

\* The procedures that end a session.
ClosingPCs == {"failclosed", "disable", "dapply", "dsave", "stop"}

\* What they return to.
Returns == {"done", "end", "effective", "save", "failed", "unlock"}

\* t is a pause that has been applied and will be saved.
ToSave(t) == pc[t] = "save" \/ (pc[t] \in ClosingPCs /\ ret[t] = "save")

\* t will store a policy with automation off; or it will look whether it has to.
Saving(t) == ToSave(t) \/ pc[t] = "dsave"
Turned(t) == Saving(t) \/ pc[t] \in {"disable", "dapply"}

\* Nobody has come who may store automation on, or fail to store it off.
Quiet == Come \cap (Edits \cup Impatient) = {}

\* What is going to be stored has automation off.
SwitchedOff ==
    /\ \A t \in Threads : ret[t] \in Returns /\ (pc[t] \in {"dapply", "dsave"} => ~off[t].on)
    /\ \A o \in Ops : pc[o] = "apply" \/ ToSave(o) => ~snap[o].on

\* Automation stored on, although it is off or the session is over, is about
\* to be stored off.
OptsOut ==
    Quiet /\ durable.on =>
        /\ ~live.on => \E t \in Threads : Saving(t)
        /\ Dead => \E t \in Threads : Turned(t)

IInv == TypeOK /\ SwitchedOff /\ OptsOut

\* What a step of t owes the invariant.
Owes(t) ==
    /\ \A u \in Threads \ {t} :
         pc'[u] = pc[u] /\ ret'[u] = ret[u] /\ off'[u] = off[u] /\ snap'[u] = snap[u]
    /\ ret'[t] \in Returns /\ (pc'[t] = "new" => UNCHANGED <<durable, live, flags, pc, ret>>)
    /\ pc'[t] \in {"dapply", "dsave"} => ~off'[t].on
    /\ t \in Ops /\ (pc'[t] = "apply" \/ ToSave(t)') => ~snap'[t].on
    /\ (t \notin Edits \cup Impatient /\ durable'.on) =>
         /\ ~live'.on /\ ~Saving(t)' => durable.on /\ ~live.on /\ ~Saving(t)
         /\ Dead' /\ ~Turned(t)' =>
              durable.on /\ ((Dead /\ ~Turned(t)) \/ (~live.on /\ ~Saving(t)))

\* A step that pays its debts keeps the invariant.
LEMMA Pays ==
  ASSUME TypeOK, SwitchedOff, OptsOut, NEW t \in Threads, Owes(t)
  PROVE  SwitchedOff' /\ OptsOut'
<1>1. \A u \in Threads \ {t} :
        pc'[u] = pc[u] /\ ret'[u] = ret[u] /\ off'[u] = off[u] /\ snap'[u] = snap[u]
  BY DEF Owes
<1>2. SwitchedOff'
  <2>1. ASSUME NEW u \in Threads
        PROVE  ret'[u] \in Returns /\ (pc'[u] \in {"dapply", "dsave"} => ~off'[u].on)
    BY <1>1 DEF Owes, SwitchedOff
  <2>2. ASSUME NEW o \in Ops, pc'[o] = "apply" \/ ToSave(o)' PROVE ~snap'[o].on
    <3>1. o \in Threads
      BY DEF Threads
    <3>2. CASE o = t
      BY <2>2, <3>2 DEF Owes
    <3>3. CASE o # t
      BY <1>1, <2>2, <3>1, <3>3 DEF SwitchedOff, ToSave
    <3> QED BY <3>2, <3>3
  <2> QED BY <2>1, <2>2 DEF SwitchedOff
<1>3. ASSUME Quiet', durable'.on
      PROVE  /\ ~live'.on => \E u \in Threads : Saving(u)'
             /\ Dead' => \E u \in Threads : Turned(u)'
  <2>1. Quiet
    <3> SUFFICES ASSUME NEW u \in Edits \cup Ops, pc[u] # "new", u \in Edits \cup Impatient
                 PROVE  FALSE
      BY DEF Quiet, Come
    <3>1. u \in Threads /\ pc'[u] # "new"
      BY <1>1 DEF Owes, Threads
    <3> QED BY <1>3, <3>1 DEF Quiet, Come
  <2>2. CASE t \in Edits \cup Impatient
    <3>1. t \in Edits \cup Ops
      BY <2>2, ThreadAssumption
    <3>2. pc'[t] = "new"
      BY <1>3, <2>2, <3>1 DEF Quiet, Come
    <3>3. UNCHANGED <<durable, live, flags, pc, ret>>
      BY <3>2 DEF Owes
    <3> QED BY <1>3, <2>1, <3>3 DEF OptsOut, Dead, Turned, Saving, ToSave, flags
  <2>3. CASE t \notin Edits \cup Impatient
    <3>1. \A u \in Threads \ {t} : (Saving(u)' <=> Saving(u)) /\ (Turned(u)' <=> Turned(u))
      BY <1>1 DEF Saving, ToSave, Turned
    <3>2. ASSUME ~live'.on PROVE \E u \in Threads : Saving(u)'
      BY <1>3, <2>1, <2>3, <3>1, <3>2 DEF Owes, OptsOut
    <3>3. ASSUME Dead' PROVE \E u \in Threads : Turned(u)'
      <4>1. CASE Turned(t)'
        BY <4>1
      <4>2. CASE ~Turned(t)'
        <5>1. durable.on /\ ((Dead /\ ~Turned(t)) \/ (~live.on /\ ~Saving(t)))
          BY <1>3, <2>3, <3>3, <4>2 DEF Owes
        <5>2. \/ \E u \in Threads : Turned(u) /\ ~Turned(t)
              \/ \E u \in Threads : Saving(u) /\ ~Saving(t)
          BY <2>1, <5>1 DEF OptsOut
        <5>3. \E u \in Threads \ {t} : Turned(u)
          BY <5>2 DEF Turned
        <5> QED BY <3>1, <5>3
      <4> QED BY <4>1, <4>2
    <3> QED BY <3>2, <3>3
  <2> QED BY <2>2, <2>3
<1> QED BY <1>2, <1>3 DEF OptsOut

\* The procedures that any thread may run.
LEMMA ClosingPays ==
  ASSUME TypeOK, SwitchedOff, NEW t \in Threads, Closing(t)
  PROVE  Owes(t)
<1> USE DEF Owes, Returns, ToSave, Saving, Turned, ClosingPCs, Dead, Goto, flags, run, local
<1>0. /\ pc \in [Threads -> PCs] /\ ret \in [Threads -> PCs] /\ off \in [Threads -> Policy]
      /\ snap \in [Threads -> Policy] /\ ret[t] \in Returns
      /\ pc[t] \in {"dapply", "dsave"} => ~off[t].on
      /\ t \in Ops /\ (pc[t] = "apply" \/ ToSave(t)) => ~snap[t].on
  BY DEF TypeOK, SwitchedOff
<1>1. CASE FailClosed(t)
  BY <1>0, <1>1 DEF FailClosed
<1>2. CASE Disable(t)
  <2>1. ~[live EXCEPT !.on = FALSE].on
    BY DEF TypeOK, Policy
  <2> QED BY <1>0, <1>2, <2>1 DEF Disable
<1>3. CASE DisableApplies(t)
  BY <1>0, <1>3 DEF DisableApplies
<1>4. CASE DisableSaves(t)
  BY <1>0, <1>4 DEF DisableSaves
<1>5. CASE Stop(t)
  BY <1>0, <1>5 DEF Stop
<1> QED BY <1>1, <1>2, <1>3, <1>4, <1>5 DEF Closing

\* The connection loop: a login that is refused turns to disabling automation.
LEMMA LoopPays ==
  ASSUME TypeOK, SwitchedOff, LoopStep
  PROVE  Owes(Loop)
<1> USE DEF Owes, Returns, ToSave, Saving, Turned, ClosingPCs, Dead, Pending, Goto, Call, flags, run, local
<1>0. /\ pc \in [Threads -> PCs] /\ ret \in [Threads -> PCs]
      /\ Loop \in Threads /\ Loop \notin Ops /\ ret[Loop] \in Returns
      /\ invalid \in BOOLEAN /\ auto \in BOOLEAN /\ live \in Policy /\ ctx \in BOOLEAN
  BY ThreadAssumption DEF TypeOK, SwitchedOff, Threads
<1>1. CASE ServeEnds
  BY <1>0, <1>1 DEF ServeEnds
<1>2. CASE Check
  BY <1>0, <1>2 DEF Check
<1>3. CASE Wake
  BY <1>0, <1>3 DEF Wake
<1>4. CASE ReconnectReturnsNil
  BY <1>0, <1>4 DEF ReconnectReturnsNil
<1>5. CASE Prepare
  BY <1>0, <1>5 DEF Prepare
<1>6. CASE BeginAttempt
  BY <1>0, <1>6 DEF BeginAttempt
<1>7. CASE LoginFails
  BY <1>0, <1>7 DEF LoginFails
<1>8. CASE LoginRefused
  BY <1>0, <1>8 DEF LoginRefused
<1>9. CASE LoginInstalls
  BY <1>0, <1>9 DEF LoginInstalls
<1>10. CASE Verify
  BY <1>0, <1>10 DEF Verify
<1>11. CASE CompleteAttempt
  BY <1>0, <1>11 DEF CompleteAttempt
<1>12. CASE AttemptFailed
  BY <1>0, <1>12 DEF AttemptFailed
<1> HIDE DEF Owes
<1> QED BY <1>1, <1>2, <1>3, <1>4, <1>5, <1>6, <1>7, <1>8, <1>9, <1>10, <1>11, <1>12,
           ClosingPays, <1>0 DEF LoopStep

\* A notice, and the commands, which hold the account's lock.
LEMMA NoticePays ==
  ASSUME TypeOK, SwitchedOff, NEW n \in Notices,
         NoticeStep(n) \/ \E displaced \in BOOLEAN : Notice(n, displaced)
  PROVE  Owes(n)
<1> USE DEF Owes, Returns, ToSave, Saving, Turned, ClosingPCs, Dead, Goto, flags, run, local
<1>0. /\ pc \in [Threads -> PCs] /\ ret \in [Threads -> PCs] /\ seen \in [Threads -> BOOLEAN]
      /\ n \in Threads /\ n \notin Ops /\ ret[n] \in Returns
  BY ThreadAssumption DEF TypeOK, SwitchedOff, Threads
<1>1. CASE Mark(n)
  BY <1>0, <1>1 DEF Mark
<1>2. CASE \E displaced \in BOOLEAN : Notice(n, displaced)
  BY <1>0, <1>2 DEF Notice
<1> HIDE DEF Owes
<1> QED BY <1>0, <1>1, <1>2, ClosingPays DEF NoticeStep

\* See NoticePays.
LEMMA OpPays ==
  ASSUME TypeOK, SwitchedOff, NEW o \in Ops,
         OpStep(o) \/ PauseFails(o) \/ \E k \in OpKinds : OpLocks(o, k)
  PROVE  Owes(o)
<1> USE DEF Owes, Returns, ToSave, Saving, Turned, ClosingPCs, Dead, Goto, Call, flags, run, local
<1>0. /\ pc \in [Threads -> PCs] /\ ret \in [Threads -> PCs] /\ snap \in [Threads -> Policy]
      /\ o \in Threads /\ o \notin Edits /\ ret[o] \in Returns /\ live \in Policy /\ durable \in Policy
      /\ pc[o] \in {"dapply", "dsave"} => ~off[o].on
      /\ pc[o] = "apply" \/ ToSave(o) => ~snap[o].on
  BY ThreadAssumption DEF TypeOK, SwitchedOff, Threads
<1>1. CASE Enable(o)
  BY <1>0, <1>1 DEF Enable
<1>2. CASE PauseReads(o)
  <2>1. ~[live EXCEPT !.on = FALSE].on /\ ~[durable EXCEPT !.on = FALSE].on
    BY <1>0 DEF Policy
  <2>2. ~snap'[o].on
    BY <1>0, <1>2, <2>1 DEF PauseReads, Snap
  <2> QED BY <1>0, <1>2, <2>2 DEF PauseReads, Snap
<1>3. CASE PauseApplies(o)
  BY <1>0, <1>3 DEF PauseApplies, SetPolicy
<1>4. CASE PauseSaves(o)
  BY <1>0, <1>4 DEF PauseSaves, AfterPause
<1>5. CASE Unregister(o)
  BY <1>0, <1>5 DEF Unregister
<1>6. CASE Discard(o)
  BY <1>0, <1>6 DEF Discard
<1>7. CASE Unlock(o)
  BY <1>0, <1>7 DEF Unlock
<1>8. CASE PauseFails(o)
  BY <1>0, <1>8 DEF PauseFails, AfterPause
<1>9. CASE \E k \in OpKinds : OpLocks(o, k)
  BY <1>0, <1>9 DEF OpLocks, MayCome
<1> HIDE DEF Owes
<1> QED BY <1>1, <1>2, <1>3, <1>4, <1>5, <1>6, <1>7, <1>8, <1>9, ClosingPays, <1>0 DEF OpStep

\* An edit is no quiet request.
LEMMA EditPays ==
  ASSUME TypeOK, SwitchedOff, NEW e \in Edits,
         EditStep(e) \/ EditFails(e) \/ \E relogin \in BOOLEAN : EditReads(e, relogin)
  PROVE  Owes(e)
<1> USE DEF Owes, Returns, ToSave, Saving, Turned, ClosingPCs, Dead, Goto, Call, flags, run, local
<1>0. /\ pc \in [Threads -> PCs] /\ ret \in [Threads -> PCs] /\ snap \in [Threads -> Policy]
      /\ e \in Threads /\ e \in Edits /\ e \notin Ops /\ ret[e] \in Returns
  BY ThreadAssumption DEF TypeOK, SwitchedOff, Threads
<1>1. CASE EditGets(e)
  BY <1>0, <1>1 DEF EditGets
<1>2. CASE EditPersists(e)
  BY <1>0, <1>2 DEF EditPersists
<1>3. CASE EditApplies(e)
  BY <1>0, <1>3 DEF EditApplies, SetPolicy
<1>4. CASE EditReturns(e)
  BY <1>0, <1>4 DEF EditReturns, Snap
<1>5. CASE EditRepersists(e)
  BY <1>0, <1>5 DEF EditRepersists
<1>6. CASE EditFails(e)
  BY <1>0, <1>6 DEF EditFails
<1>7. CASE \E relogin \in BOOLEAN : EditReads(e, relogin)
  BY <1>0, <1>7 DEF EditReads, Snap
<1> HIDE DEF Owes
<1> QED BY <1>1, <1>2, <1>3, <1>4, <1>5, <1>6, <1>7, ClosingPays, <1>0 DEF EditStep

\* The strengthened invariant, which also says who is going to store what.
LEMMA OptsOutStep == IInv /\ [Next]_vars => IInv'
<1> SUFFICES ASSUME IInv, [Next]_vars PROVE IInv'
  OBVIOUS
<1>0. TypeOK /\ SwitchedOff /\ OptsOut /\ TypeOK'
  BY TypeStep DEF IInv
<1>1. \E t \in Threads : Owes(t)
  <2>1. CASE LoopStep
    BY <1>0, <2>1, LoopPays DEF Threads
  <2>2. ASSUME NEW n \in Notices, NoticeStep(n) \/ \E displaced \in BOOLEAN : Notice(n, displaced)
        PROVE  \E t \in Threads : Owes(t)
    BY <1>0, <2>2, NoticePays DEF Threads
  <2>3. ASSUME NEW e \in Edits,
               EditStep(e) \/ EditFails(e) \/ \E relogin \in BOOLEAN : EditReads(e, relogin)
        PROVE  \E t \in Threads : Owes(t)
    BY <1>0, <2>3, EditPays DEF Threads
  <2>4. ASSUME NEW o \in Ops, OpStep(o) \/ PauseFails(o) \/ \E k \in OpKinds : OpLocks(o, k)
        PROVE  \E t \in Threads : Owes(t)
    BY <1>0, <2>4, OpPays DEF Threads
  <2>5. CASE Forget \/ ConnectionLost \/ UNCHANGED vars
    <3>1. UNCHANGED <<durable, live, flags, pc, ret, snap, off>>
      BY <2>5 DEF Forget, ConnectionLost, vars, flags, local
    <3>2. Loop \in Threads /\ Loop \notin Ops /\ ret[Loop] \in Returns
          /\ (pc[Loop] \in {"dapply", "dsave"} => ~off[Loop].on)
      BY <1>0, ThreadAssumption DEF Threads, SwitchedOff
    <3>3. Owes(Loop)
      BY <3>1, <3>2 DEF Owes, ToSave, Saving, Turned, Dead, flags
    <3> QED BY <3>2, <3>3
  <2> QED BY <2>1, <2>2, <2>3, <2>4, <2>5 DEF Next
<1> QED BY <1>0, <1>1, Pays DEF IInv

\* In the beginning the stored and the live policy agree.
LEMMA OptsOutInit == Init => IInv
<1> SUFFICES ASSUME Init PROVE IInv
  OBVIOUS
<1>1. TypeOK
  BY TypeInit
<1>2. /\ \A t \in Threads : ret[t] = "done" /\ pc[t] \in {"new", "serve", "check"}
      /\ live = durable /\ ~Dead
  BY DEF Init, Dead
<1>3. Ops \subseteq Threads
  BY DEF Threads
<1>4. SwitchedOff
  BY <1>2, <1>3 DEF SwitchedOff, ToSave, ClosingPCs, Returns
<1>5. OptsOut
  BY <1>2 DEF OptsOut
<1> QED BY <1>1, <1>4, <1>5 DEF IInv

\* Once a session is over and the threads have finished, automation is stored
\* off, whatever displacements, refused logins, pauses and starts interleaved,
\* unless a settings edit or a failed write came between.
THEOREM OptsOutTheorem == Spec => []InvalidationOptsOut
<1>1. IInv => InvalidationOptsOut
  <2> SUFFICES ASSUME IInv, Quiet, AtRest, Dead, durable.on PROVE FALSE
    BY DEF InvalidationOptsOut, Quiet
  <2>1. PICK t \in Threads : Turned(t)
    BY DEF IInv, OptsOut
  <2>2. pc[t] \in {"end", "new", "done"}
    BY DEF AtRest
  <2> QED BY <2>1, <2>2 DEF Turned, Saving, ToSave, ClosingPCs
<1> QED BY <1>1, OptsOutInit, OptsOutStep, PTL DEF Spec
=============================================================================
