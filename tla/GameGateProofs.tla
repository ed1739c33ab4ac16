--------------------------- MODULE GameGateProofs ---------------------------
(***************************************************************************)
(* The admission gate keeps its promises for any number of pieces of game  *)
(* I/O and any number of waiting calls.                                    *)
(***************************************************************************)
EXTENDS GameGate, TLAPS

\* The empty gate satisfies the inductive invariant.
LEMMA GateInit == Init => GateInv
<1> SUFFICES ASSUME Init PROVE GateInv
  OBVIOUS
<1>1. TypeOK
  BY DEF Init, TypeOK, Channels
<1>2. ChannelInv /\ WorkInv
  BY DEF Init, ChannelInv, WorkInv
<1>3. WaiterInv
  BY DEF Init, WaiterInv
<1>4. WaitMeansDrained /\ CloseAtMostOnce /\ BlockedWorkIsCancelled
  BY DEF Init, WaitMeansDrained, CloseAtMostOnce, BlockedWorkIsCancelled
<1> QED
  BY <1>1, <1>2, <1>3, <1>4 DEF GateInv

\* Every operation of the gate preserves the inductive invariant.
LEMMA GateStep == GateInv /\ [Next]_vars => GateInv'
<1> SUFFICES ASSUME GateInv, [Next]_vars PROVE GateInv'
  OBVIOUS
<1> USE DEF GateInv, TypeOK, ChannelInv, WorkInv, WaiterInv, WaitMeansDrained,
            CloseAtMostOnce, BlockedWorkIsCancelled, Channels, gateVars, waitVars
<1>1. ASSUME NEW w \in Work, begin(w) PROVE GateInv'
  BY <1>1 DEF begin
<1>2. ASSUME NEW w \in Work, beginRefused(w) PROVE GateInv'
  BY <1>2 DEF beginRefused
<1>3. ASSUME NEW w \in Work, release(w) PROVE GateInv'
  BY <1>3 DEF release
<1>4. ASSUME NEW w \in Work, CancelParent(w) PROVE GateInv'
  BY <1>4 DEF CancelParent
<1>5. CASE block
  BY <1>5 DEF block
<1>6. CASE open
  BY <1>6 DEF open
<1>7. ASSUME NEW x \in Waiters, wait(x) PROVE GateInv'
  BY <1>7 DEF wait
<1>8. ASSUME NEW x \in Waiters, waitIdle(x) PROVE GateInv'
  BY <1>8 DEF waitIdle
<1>9. ASSUME NEW x \in Waiters, waitCancelled(x) PROVE GateInv'
  BY <1>9 DEF waitCancelled
<1>10. CASE UNCHANGED vars
  BY <1>10 DEF vars
<1> QED
  BY <1>1, <1>2, <1>3, <1>4, <1>5, <1>6, <1>7, <1>8, <1>9, <1>10 DEF Next

\* The strengthened invariant of the gate holds in every reachable state.
THEOREM GateCorrect == Spec => []GateInv
  BY GateInit, GateStep, PTL DEF Spec

(***************************************************************************)
(* When wait returns nil under a blocked gate, no game I/O is in flight:   *)
(* what ApplyMaintenance and cleanAccountDeletion rely on.                 *)
(***************************************************************************)
THEOREM WaitTheorem == Spec => []WaitMeansDrained
  <1>1. GateInv => WaitMeansDrained
    BY DEF GateInv
  <1> QED
    BY <1>1, GateCorrect, PTL

\* release never closes a closed channel.
THEOREM CloseTheorem == Spec => []CloseAtMostOnce
  <1>1. GateInv => CloseAtMostOnce
    BY DEF GateInv
  <1> QED
    BY <1>1, GateCorrect, PTL

\* block leaves no admitted I/O with a live context.
THEOREM CancelTheorem == Spec => []BlockedWorkIsCancelled
  <1>1. GateInv => BlockedWorkIsCancelled
    BY DEF GateInv
  <1> QED
    BY <1>1, GateCorrect, PTL
=============================================================================
