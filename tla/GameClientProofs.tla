-------------------------- MODULE GameClientProofs --------------------------
(***************************************************************************)
(* The client keeps the rules of the gate, leaves no socket behind a       *)
(* drained one, and hands each response to one party, for any set of calls *)
(* and waiters.                                                            *)
(***************************************************************************)
EXTENDS GameClient, GameGateProofs

\* Every step of the client is a step of the gate, or none.
LEMMA StepsOfGate == ClientNext => [Next]_vars
<1> SUFFICES ASSUME ClientNext PROVE [Next]_vars
  OBVIOUS
<1> USE WorkAssumption
<1>1. \A w \in Work : begin(w) \/ beginRefused(w) \/ release(w) \/ CancelParent(w) => Next
  BY DEF Next
<1>2. CASE Attempts
  BY <1>1, <1>2 DEF Attempts, AttemptBegins, ConnBegins, Connect, DialSucceeds, DialFails,
     Install, AttemptDecides, AttemptFails, AttemptClosed, AttemptReturns
<1>3. CASE Close
  BY <1>1, <1>3 DEF Close, AfterFunc, OwnerCloses, Mark, CloseTakes, CloseSocket,
     CloseNotifies, CloseFails
<1>4. CASE reader
  BY <1>4 DEF reader, Lookup, Deliver, Fire, ReadFrame
<1>5. CASE Gate
  BY <1>1, <1>5 DEF Gate, Next
<1>6. CASE AttemptCancelsLogin
  BY <1>1, <1>6 DEF AttemptCancelsLogin
<1>7. ASSUME NEW c \in Calls, rpc(c) PROVE [Next]_vars
  BY <1>1, <1>7 DEF rpc, CallBegins, CallChecks, CallRegisters, CallWrites, CallWriteFails,
     CallReceives, CallTimesOut, CallSeesClose, CallReturns
<1> QED
  BY <1>2, <1>3, <1>4, <1>5, <1>6, <1>7 DEF ClientNext

\* The client implements the admission gate: its attempt, its connection and
\* its calls enter and leave it as begin and release require.
THEOREM ClientImplementsGate == ClientSpec => Spec
<1>1. ClientInit => Init
  BY DEF ClientInit
<1>2. [ClientNext]_allVars => [Next]_vars
  BY StepsOfGate DEF allVars
<1> QED
  BY <1>1, <1>2, PTL DEF ClientSpec, Spec

\* A client that has not been dialled satisfies the invariant.
LEMMA ClientStart == ClientInit => ClientInv
<1> SUFFICES ASSUME ClientInit PROVE ClientInv
  OBVIOUS
<1> USE WorkAssumption, ModeAssumption DEF ClientInit, Reading
<1>1. ClientTypeOK
  BY DEF ClientTypeOK
<1>2. SocketIsTracked
  BY DEF SocketIsTracked
<1>3. EntryHasOneOwner
  BY DEF EntryHasOneOwner, Delivering
<1>4. AppliedByOne
  BY DEF AppliedByOne, Active, Unwritten
<1> QED
  BY <1>1, <1>2, <1>3, <1>4 DEF ClientInv

\* The variables keep their types.
LEMMA ClientTypes == ClientTypeOK /\ [ClientNext]_allVars => ClientTypeOK'
<1> SUFFICES ASSUME ClientTypeOK, [ClientNext]_allVars PROVE ClientTypeOK'
  OBVIOUS
<1> USE WorkAssumption DEF ClientTypeOK, clientVars, socketVars, closeVars, callVars
<1>1. CASE AttemptBegins
  BY <1>1 DEF AttemptBegins
<1>2. CASE ConnBegins
  BY <1>2 DEF ConnBegins
<1>3. CASE Connect
  BY <1>3 DEF Connect, Shut
<1>4. CASE DialSucceeds
  BY <1>4 DEF DialSucceeds
<1>5. CASE DialFails
  BY <1>5 DEF DialFails
<1>6. CASE Install
  BY <1>6 DEF Install, Shut
<1>7. CASE AttemptDecides
  BY <1>7 DEF AttemptDecides
<1>8. CASE AttemptFails
  BY <1>8 DEF AttemptFails, Shut
<1>9. CASE AttemptClosed
  BY <1>9 DEF AttemptClosed
<1>10. CASE AttemptReturns
  BY <1>10 DEF AttemptReturns
<1>11. CASE AfterFunc
  BY <1>11 DEF AfterFunc, Mark, Shut
<1>12. CASE OwnerCloses
  BY <1>12 DEF OwnerCloses, Mark, Shut
<1>13. CASE CloseTakes
  BY <1>13 DEF CloseTakes
<1>14. CASE CloseSocket
  BY <1>14 DEF CloseSocket
<1>15. CASE CloseNotifies
  BY <1>15 DEF CloseNotifies
<1>16. ASSUME NEW c \in Calls, CloseFails(c) PROVE ClientTypeOK'
  BY <1>16 DEF CloseFails
<1>17. CASE Lookup
  BY <1>17 DEF Lookup
<1>18. CASE Deliver
  BY <1>18 DEF Deliver
<1>19. CASE Fire
  BY <1>19 DEF Fire, Dispatches, Reading
<1>20. ASSUME NEW c \in Calls, ReadFrame(c) PROVE ClientTypeOK'
  BY <1>20 DEF ReadFrame
<1>21. ASSUME NEW c \in Calls, CallBegins(c) PROVE ClientTypeOK'
  BY <1>21 DEF CallBegins
<1>22. ASSUME NEW c \in Calls, CallChecks(c) PROVE ClientTypeOK'
  BY <1>22 DEF CallChecks, Shut
<1>23. ASSUME NEW c \in Calls, CallRegisters(c) PROVE ClientTypeOK'
  BY <1>23 DEF CallRegisters
<1>24. ASSUME NEW c \in Calls, CallWrites(c) PROVE ClientTypeOK'
  BY <1>24 DEF CallWrites
<1>25. ASSUME NEW c \in Calls, CallWriteFails(c) PROVE ClientTypeOK'
  BY <1>25 DEF CallWriteFails
<1>26. ASSUME NEW c \in Calls, CallReceives(c) PROVE ClientTypeOK'
  BY <1>26 DEF CallReceives
<1>27. ASSUME NEW c \in Calls, CallTimesOut(c) PROVE ClientTypeOK'
  BY <1>27 DEF CallTimesOut
<1>28. ASSUME NEW c \in Calls, CallSeesClose(c) PROVE ClientTypeOK'
  BY <1>28 DEF CallSeesClose, Shut
<1>29. ASSUME NEW c \in Calls, CallReturns(c) PROVE ClientTypeOK'
  BY <1>29 DEF CallReturns
<1>30. CASE Gate
  BY <1>30 DEF Gate
<1>31. CASE AttemptCancelsLogin
  BY <1>31 DEF AttemptCancelsLogin
<1>32. CASE UNCHANGED allVars
  BY <1>32 DEF allVars
<1> QED
  BY <1>1, <1>2, <1>3, <1>4, <1>5, <1>6, <1>7, <1>8, <1>9, <1>10, <1>11,
     <1>12, <1>13, <1>14, <1>15, <1>16, <1>17, <1>18, <1>19, <1>20, <1>21,
     <1>22, <1>23, <1>24, <1>25, <1>26, <1>27, <1>28, <1>29, <1>30, <1>31,
     <1>32
     DEF ClientNext, Attempts, Close, reader, rpc

\* Whatever happens, the socket is covered by tracked work.
LEMMA TrackStep == GateInv /\ SocketIsTracked /\ [ClientNext]_allVars => SocketIsTracked'
<1> SUFFICES ASSUME GateInv, SocketIsTracked, [ClientNext]_allVars PROVE SocketIsTracked'
  OBVIOUS
<1>0. phase \in [Work -> {"new", "running", "ended"}]
  BY DEF GateInv, TypeOK
<1> USE <1>0, WorkAssumption DEF SocketIsTracked, vars, gateVars, waitVars, clientVars, socketVars, closeVars, callVars
<1>1. CASE AttemptBegins
  BY <1>1 DEF AttemptBegins, begin, beginRefused
<1>2. CASE ConnBegins
  BY <1>2 DEF ConnBegins, begin, beginRefused
<1>3. CASE Connect
  BY <1>3 DEF Connect, Shut
<1>4. CASE DialSucceeds
  BY <1>4 DEF DialSucceeds
<1>5. CASE DialFails
  BY <1>5 DEF DialFails
<1>6. CASE Install
  BY <1>6 DEF Install, Shut
<1>7. CASE AttemptDecides
  BY <1>7 DEF AttemptDecides
<1>8. CASE AttemptFails
  BY <1>8 DEF AttemptFails, Shut
<1>9. CASE AttemptClosed
  BY <1>9 DEF AttemptClosed
<1>10. CASE AttemptReturns
  BY <1>10 DEF AttemptReturns, release
<1>11. CASE AfterFunc
  BY <1>11 DEF AfterFunc, Mark, Shut
<1>12. CASE OwnerCloses
  BY <1>12 DEF OwnerCloses, Mark, Shut
<1>13. CASE CloseTakes
  BY <1>13 DEF CloseTakes
<1>14. CASE CloseSocket
  BY <1>14 DEF CloseSocket
<1>15. CASE CloseNotifies
  BY <1>15 DEF CloseNotifies, release
<1>16. ASSUME NEW c \in Calls, CloseFails(c) PROVE SocketIsTracked'
  BY <1>16 DEF CloseFails
<1>17. CASE Lookup
  BY <1>17 DEF Lookup
<1>18. CASE Deliver
  BY <1>18 DEF Deliver
<1>19. CASE Fire
  BY <1>19 DEF Fire, Dispatches, Reading
<1>20. ASSUME NEW c \in Calls, ReadFrame(c) PROVE SocketIsTracked'
  BY <1>20 DEF ReadFrame
<1>21. ASSUME NEW c \in Calls, CallBegins(c) PROVE SocketIsTracked'
  BY <1>21 DEF CallBegins, begin, beginRefused
<1>22. ASSUME NEW c \in Calls, CallChecks(c) PROVE SocketIsTracked'
  BY <1>22 DEF CallChecks, Shut
<1>23. ASSUME NEW c \in Calls, CallRegisters(c) PROVE SocketIsTracked'
  BY <1>23 DEF CallRegisters
<1>24. ASSUME NEW c \in Calls, CallWrites(c) PROVE SocketIsTracked'
  BY <1>24 DEF CallWrites
<1>25. ASSUME NEW c \in Calls, CallWriteFails(c) PROVE SocketIsTracked'
  BY <1>25 DEF CallWriteFails
<1>26. ASSUME NEW c \in Calls, CallReceives(c) PROVE SocketIsTracked'
  BY <1>26 DEF CallReceives
<1>27. ASSUME NEW c \in Calls, CallTimesOut(c) PROVE SocketIsTracked'
  BY <1>27 DEF CallTimesOut
<1>28. ASSUME NEW c \in Calls, CallSeesClose(c) PROVE SocketIsTracked'
  BY <1>28 DEF CallSeesClose, Shut
<1>29. ASSUME NEW c \in Calls, CallReturns(c) PROVE SocketIsTracked'
  BY <1>29 DEF CallReturns, release
<1>30. CASE Gate
  BY <1>30 DEF Gate, block, open, wait, waitIdle, waitCancelled, CancelParent
<1>31. CASE AttemptCancelsLogin
  BY <1>31 DEF AttemptCancelsLogin, CancelParent
<1>32. CASE UNCHANGED allVars
  BY <1>32 DEF allVars, vars
<1> QED
  BY <1>1, <1>2, <1>3, <1>4, <1>5, <1>6, <1>7, <1>8, <1>9, <1>10, <1>11,
     <1>12, <1>13, <1>14, <1>15, <1>16, <1>17, <1>18, <1>19, <1>20, <1>21,
     <1>22, <1>23, <1>24, <1>25, <1>26, <1>27, <1>28, <1>29, <1>30, <1>31,
     <1>32
     DEF ClientNext, Attempts, Close, reader, rpc

\* An entry changes hands as a whole.
LEMMA OwnerStep == ClientTypeOK /\ EntryHasOneOwner /\ AppliedByOne /\ [ClientNext]_allVars => EntryHasOneOwner'
<1> SUFFICES ASSUME ClientTypeOK, EntryHasOneOwner, AppliedByOne, [ClientNext]_allVars PROVE EntryHasOneOwner'
  OBVIOUS
<1> USE DEF ClientTypeOK, EntryHasOneOwner, Delivering, clientVars, socketVars, closeVars, callVars
<1>1. CASE AttemptBegins
  BY <1>1 DEF AttemptBegins
<1>2. CASE ConnBegins
  BY <1>2 DEF ConnBegins
<1>3. CASE Connect
  BY <1>3 DEF Connect, Shut
<1>4. CASE DialSucceeds
  BY <1>4 DEF DialSucceeds
<1>5. CASE DialFails
  BY <1>5 DEF DialFails
<1>6. CASE Install
  BY <1>6 DEF Install, Shut
<1>7. CASE AttemptDecides
  BY <1>7 DEF AttemptDecides
<1>8. CASE AttemptFails
  BY <1>8 DEF AttemptFails, Shut
<1>9. CASE AttemptClosed
  BY <1>9 DEF AttemptClosed
<1>10. CASE AttemptReturns
  BY <1>10 DEF AttemptReturns
<1>11. CASE AfterFunc
  BY <1>11 DEF AfterFunc, Mark, Shut
<1>12. CASE OwnerCloses
  BY <1>12 DEF OwnerCloses, Mark, Shut
<1>13. CASE CloseTakes
  BY <1>13 DEF CloseTakes
<1>14. CASE CloseSocket
  BY <1>14 DEF CloseSocket
<1>15. CASE CloseNotifies
  BY <1>15 DEF CloseNotifies
<1>16. ASSUME NEW c \in Calls, CloseFails(c) PROVE EntryHasOneOwner'
  BY <1>16 DEF CloseFails
<1>17. CASE Lookup
  BY <1>17 DEF Lookup
<1>18. CASE Deliver
  BY <1>18 DEF Deliver, AppliedByOne, Active, Unwritten
<1>19. CASE Fire
  <2>1. rd'.at = "reading" /\ UNCHANGED <<kpc, ch, pending, swept>>
    BY <1>19 DEF Fire, Reading
  <2> QED
    BY <2>1
<1>20. ASSUME NEW c \in Calls, ReadFrame(c) PROVE EntryHasOneOwner'
  BY <1>20 DEF ReadFrame
<1>21. ASSUME NEW c \in Calls, CallBegins(c) PROVE EntryHasOneOwner'
  BY <1>21 DEF CallBegins
<1>22. ASSUME NEW c \in Calls, CallChecks(c) PROVE EntryHasOneOwner'
  <2>1. PICK next \in {"returning", "checked"} : kpc' = [kpc EXCEPT ![c] = next]
    BY <1>22 DEF CallChecks
  <2>2. kpc[c] = "begun" /\ UNCHANGED <<ch, pending, swept, rd>>
    BY <1>22 DEF CallChecks
  <2> QED
    BY <2>1, <2>2
<1>23. ASSUME NEW c \in Calls, CallRegisters(c) PROVE EntryHasOneOwner'
  BY <1>23 DEF CallRegisters, AppliedByOne, Active, Unwritten
<1>24. ASSUME NEW c \in Calls, CallWrites(c) PROVE EntryHasOneOwner'
  BY <1>24 DEF CallWrites
<1>25. ASSUME NEW c \in Calls, CallWriteFails(c) PROVE EntryHasOneOwner'
  BY <1>25 DEF CallWriteFails
<1>26. ASSUME NEW c \in Calls, CallReceives(c) PROVE EntryHasOneOwner'
  BY <1>26 DEF CallReceives
<1>27. ASSUME NEW c \in Calls, CallTimesOut(c) PROVE EntryHasOneOwner'
  BY <1>27 DEF CallTimesOut
<1>28. ASSUME NEW c \in Calls, CallSeesClose(c) PROVE EntryHasOneOwner'
  BY <1>28 DEF CallSeesClose, Shut
<1>29. ASSUME NEW c \in Calls, CallReturns(c) PROVE EntryHasOneOwner'
  BY <1>29 DEF CallReturns
<1>30. CASE Gate
  BY <1>30 DEF Gate
<1>31. CASE AttemptCancelsLogin
  BY <1>31 DEF AttemptCancelsLogin
<1>32. CASE UNCHANGED allVars
  BY <1>32 DEF allVars
<1> QED
  BY <1>1, <1>2, <1>3, <1>4, <1>5, <1>6, <1>7, <1>8, <1>9, <1>10, <1>11,
     <1>12, <1>13, <1>14, <1>15, <1>16, <1>17, <1>18, <1>19, <1>20, <1>21,
     <1>22, <1>23, <1>24, <1>25, <1>26, <1>27, <1>28, <1>29, <1>30, <1>31,
     <1>32
     DEF ClientNext, Attempts, Close, reader, rpc

\* Nobody applies what somebody else will apply.
LEMMA AppliedStep == ClientTypeOK /\ EntryHasOneOwner /\ AppliedByOne /\ [ClientNext]_allVars => AppliedByOne'
<1> SUFFICES ASSUME ClientTypeOK, EntryHasOneOwner, AppliedByOne, [ClientNext]_allVars PROVE AppliedByOne'
  OBVIOUS
<1> USE ModeAssumption DEF ClientTypeOK, EntryHasOneOwner, Delivering, AppliedByOne, Active, Unwritten, clientVars, socketVars, closeVars, callVars
<1>1. CASE AttemptBegins
  BY <1>1 DEF AttemptBegins
<1>2. CASE ConnBegins
  BY <1>2 DEF ConnBegins
<1>3. CASE Connect
  BY <1>3 DEF Connect, Shut
<1>4. CASE DialSucceeds
  BY <1>4 DEF DialSucceeds
<1>5. CASE DialFails
  BY <1>5 DEF DialFails
<1>6. CASE Install
  BY <1>6 DEF Install, Shut
<1>7. CASE AttemptDecides
  BY <1>7 DEF AttemptDecides
<1>8. CASE AttemptFails
  BY <1>8 DEF AttemptFails, Shut
<1>9. CASE AttemptClosed
  BY <1>9 DEF AttemptClosed
<1>10. CASE AttemptReturns
  BY <1>10 DEF AttemptReturns
<1>11. CASE AfterFunc
  BY <1>11 DEF AfterFunc, Mark, Shut
<1>12. CASE OwnerCloses
  BY <1>12 DEF OwnerCloses, Mark, Shut
<1>13. CASE CloseTakes
  BY <1>13 DEF CloseTakes
<1>14. CASE CloseSocket
  BY <1>14 DEF CloseSocket
<1>15. CASE CloseNotifies
  BY <1>15 DEF CloseNotifies
<1>16. ASSUME NEW c \in Calls, CloseFails(c) PROVE AppliedByOne'
  BY <1>16 DEF CloseFails
<1>17. CASE Lookup
  BY <1>17 DEF Lookup
<1>18. CASE Deliver
  BY <1>18 DEF Deliver
<1>19. CASE Fire
  BY <1>19 DEF Fire, Dispatches, Reading
<1>20. ASSUME NEW c \in Calls, ReadFrame(c) PROVE AppliedByOne'
  BY <1>20 DEF ReadFrame
<1>21. ASSUME NEW c \in Calls, CallBegins(c) PROVE AppliedByOne'
  BY <1>21 DEF CallBegins
<1>22. ASSUME NEW c \in Calls, CallChecks(c) PROVE AppliedByOne'
  BY <1>22 DEF CallChecks, Shut
<1>23. ASSUME NEW c \in Calls, CallRegisters(c) PROVE AppliedByOne'
  BY <1>23 DEF CallRegisters
<1>24. ASSUME NEW c \in Calls, CallWrites(c) PROVE AppliedByOne'
  BY <1>24 DEF CallWrites
<1>25. ASSUME NEW c \in Calls, CallWriteFails(c) PROVE AppliedByOne'
  BY <1>25 DEF CallWriteFails
<1>26. ASSUME NEW c \in Calls, CallReceives(c) PROVE AppliedByOne'
  BY <1>26 DEF CallReceives
<1>27. ASSUME NEW c \in Calls, CallTimesOut(c) PROVE AppliedByOne'
  BY <1>27 DEF CallTimesOut
<1>28. ASSUME NEW c \in Calls, CallSeesClose(c) PROVE AppliedByOne'
  BY <1>28 DEF CallSeesClose, Shut
<1>29. ASSUME NEW c \in Calls, CallReturns(c) PROVE AppliedByOne'
  BY <1>29 DEF CallReturns
<1>30. CASE Gate
  BY <1>30 DEF Gate
<1>31. CASE AttemptCancelsLogin
  BY <1>31 DEF AttemptCancelsLogin
<1>32. CASE UNCHANGED allVars
  BY <1>32 DEF allVars
<1> QED
  BY <1>1, <1>2, <1>3, <1>4, <1>5, <1>6, <1>7, <1>8, <1>9, <1>10, <1>11,
     <1>12, <1>13, <1>14, <1>15, <1>16, <1>17, <1>18, <1>19, <1>20, <1>21,
     <1>22, <1>23, <1>24, <1>25, <1>26, <1>27, <1>28, <1>29, <1>30, <1>31,
     <1>32
     DEF ClientNext, Attempts, Close, reader, rpc

\* The invariants of the gate and of the client hold in every reachable state.
THEOREM ClientCorrect == ClientSpec => [](GateInv /\ ClientInv)
<1>1. ClientInit => GateInv /\ ClientInv
  BY GateInit, ClientStart DEF ClientInit
<1>2. GateInv /\ ClientInv /\ [ClientNext]_allVars => (GateInv /\ ClientInv)'
  <2> SUFFICES ASSUME GateInv, ClientInv, [ClientNext]_allVars PROVE GateInv' /\ ClientInv'
    OBVIOUS
  <2>1. [Next]_vars
    BY StepsOfGate DEF allVars
  <2>2. GateInv'
    BY <2>1, GateStep
  <2>3. ClientTypeOK' /\ SocketIsTracked' /\ EntryHasOneOwner' /\ AppliedByOne'
    BY ClientTypes, TrackStep, OwnerStep, AppliedStep DEF ClientInv
  <2> QED
    BY <2>2, <2>3 DEF ClientInv
<1> QED
  BY <1>1, <1>2, PTL DEF ClientSpec

(***************************************************************************)
(* When wait has returned under a blocked gate, no socket is up and none   *)
(* is being dialled, for any number of calls and waiters.                  *)
(***************************************************************************)
THEOREM SilenceTheorem == ClientSpec => []DrainedMeansSilent
<1>1. GateInv /\ ClientInv => DrainedMeansSilent
  BY WorkAssumption DEF GateInv, WorkInv, WaitMeansDrained, ClientInv, ClientTypeOK,
     SocketIsTracked, DrainedMeansSilent
<1> QED
  BY <1>1, ClientCorrect, PTL

\* Neither the reader nor Close ever blocks on the channel of a call.
THEOREM SendersTheorem == ClientSpec => []SendersNeverBlock
<1>1. ClientInv => SendersNeverBlock
  BY DEF ClientInv, ClientTypeOK, EntryHasOneOwner, Delivering, SendersNeverBlock
<1> QED
  BY <1>1, ClientCorrect, PTL

\* No response reaches the state twice.
THEOREM MergeTheorem == ClientSpec => []MergedAtMostOnce
<1>1. ClientInv => MergedAtMostOnce
  BY DEF ClientInv, AppliedByOne, MergedAtMostOnce
<1> QED
  BY <1>1, ClientCorrect, PTL
=============================================================================
