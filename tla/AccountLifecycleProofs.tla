----------------------- MODULE AccountLifecycleProofs -----------------------
(***************************************************************************)
(* Proofs of the safety properties of AccountLifecycle, for every set of   *)
(* accounts and commands and every value of the bounds.  Four inductive    *)
(* invariants, each built on the ones before it:                           *)
(*                                                                         *)
(*   DrainInv         the gate's count is exact, and the consumer's phase  *)
(*                    says what it has already established                 *)
(*   RunnerInv        the lock's holder is the only one at work on the     *)
(*                    account's runner                                     *)
(*   AccountIsSealed  what a deletion has shut stays shut                  *)
(*   ParkInv          no background start outlives the drain               *)
(***************************************************************************)
EXTENDS AccountLifecycle, TLAPS

\* Every action keeps every variable within its type.
LEMMA TypeStep == TypeOK /\ [Next]_vars => TypeOK'
  <1> SUFFICES ASSUME TypeOK, [Next]_vars PROVE TypeOK'
    OBVIOUS
  <1> USE BoundsAssumption, OfferAssumption DEF TypeOK, Work, CmdWork, ConnWork,
     MaintRow, NoRow, PCs, MaintPCs, DelPCs,
       durable, gates, pool, cmds, consumer, deleter
  <1>1. ASSUME NEW c \in Commands, NEW k \in Offered, Invoke(c, k) PROVE TypeOK'
    BY <1>1 DEF Invoke, Goto, Gated, StartKinds, Kinds
  <1>2. ASSUME NEW c \in Commands, CancelRequest(c) PROVE TypeOK'
    BY <1>2 DEF CancelRequest
  <1>3. ASSUME NEW c \in Commands, BeginGlobal(c) PROVE TypeOK'
    BY <1>3 DEF BeginGlobal, Return, Goto
  <1>4. ASSUME NEW c \in Commands, BeginAccount(c) PROVE TypeOK'
    BY <1>4 DEF BeginAccount, Return, Goto
  <1>5. ASSUME NEW c \in Commands, ProbeReturns(c) PROVE TypeOK'
    BY <1>5 DEF ProbeReturns, Goto
  <1>6. ASSUME NEW c \in Commands, LockContext(c) PROVE TypeOK'
    BY <1>6 DEF LockContext, Goto, Replacing
  <1>7. ASSUME NEW c \in Commands, Unlock(c) PROVE TypeOK'
    BY <1>7 DEF Unlock, Goto
  <1>8. ASSUME NEW c \in Commands, Release(c) PROVE TypeOK'
    BY <1>8 DEF Release, Return, Goto
  <1>9. ASSUME NEW c \in Commands, SavePaused(c) PROVE TypeOK'
    BY <1>9 DEF SavePaused, Goto
  <1>10. ASSUME NEW c \in Commands, Unregister(c) PROVE TypeOK'
    BY <1>10 DEF Unregister, Goto
  <1>11. ASSUME NEW c \in Commands, Halt(c) PROVE TypeOK'
    <2>1. CASE victim[c] \in Commands
      BY <2>1, <1>11 DEF Halt, Goto
    <2>2. CASE victim[c] = None
      <3>1. rs' = rs BY <2>2, <1>11 DEF Halt
      <3> QED BY <3>1, <1>11 DEF Halt, Goto
    <2> QED BY <2>1, <2>2
  <1>12. ASSUME NEW c \in Commands, Begin(c) PROVE TypeOK'
    <2>1. enabled' = enabled \/ enabled' = [enabled EXCEPT ![Target[c]] = TRUE]
      BY <1>12 DEF Begin
    <2>2. enabled' \in [Accounts -> BOOLEAN]
      BY <2>1
    <2> QED BY <2>2, <1>12 DEF Begin, Goto
  <1>13. ASSUME NEW c \in Commands, Load(c) PROVE TypeOK'
    BY <1>13 DEF Load, Goto
  <1>14. ASSUME NEW c \in Commands, LoginFails(c) PROVE TypeOK'
    BY <1>14 DEF LoginFails, Goto
  <1>15. ASSUME NEW c \in Commands, LoginDone(c) PROVE TypeOK'
    BY <1>15 DEF LoginDone, Goto
  <1>16. ASSUME NEW c \in Commands, CompleteStartup(c) PROVE TypeOK'
    BY <1>16 DEF CompleteStartup, Goto
  <1>17. ASSUME NEW c \in Commands, Register(c) PROVE TypeOK'
    BY <1>17 DEF Register, Goto
  <1>18. ASSUME NEW c \in Commands, ConnectGlobal(c) PROVE TypeOK'
    BY <1>18 DEF ConnectGlobal
  <1>19. ASSUME NEW c \in Commands, ConnectAccount(c) PROVE TypeOK'
    BY <1>19 DEF ConnectAccount
  <1>20. ASSUME NEW c \in Commands, ConnectionCloses(c) PROVE TypeOK'
    BY <1>20 DEF ConnectionCloses
  <1>21. ASSUME NEW c \in Commands, RunnerStops(c) PROVE TypeOK'
    BY <1>21 DEF RunnerStops
  <1>22. ASSUME NEW c \in Commands, ForgetWhenDone(c) PROVE TypeOK'
    BY <1>22 DEF ForgetWhenDone
  <1>23. ASSUME NEW c \in Commands, LogEvent(c) PROVE TypeOK'
    BY <1>23 DEF LogEvent
  <1>24. ASSUME NEW c \in Commands, RestoreNext(c) PROVE TypeOK'
    BY <1>24 DEF RestoreNext, Goto, Gated, StartKinds, Kinds
  <1>25. ASSUME NEW on \in BOOLEAN, NEW resume \in BOOLEAN, RequestMaintenance(on, resume)
        PROVE  TypeOK'
    <2>1. (~on /\ resume) \in BOOLEAN /\ maint.rev + 1 \in Nat /\ maint.applied \in Nat
      OBVIOUS
    <2>2. maint' \in MaintRow
      BY <2>1, <1>25, Zenon DEF RequestMaintenance
    <2> QED BY <2>2, <1>25 DEF RequestMaintenance
  <1>26. ASSUME ReadMaintenance PROVE TypeOK'
    BY <1>26 DEF ReadMaintenance
  <1>27. ASSUME ReadMaintenanceFails PROVE TypeOK'
    BY <1>27 DEF ReadMaintenanceFails
  <1>28. ASSUME FailClosedStop PROVE TypeOK'
    BY <1>28 DEF FailClosedStop, StopRegistered
  <1>29. ASSUME FlagMaintenance PROVE TypeOK'
    BY <1>29 DEF FlagMaintenance
  <1>30. ASSUME BlockGate PROVE TypeOK'
    BY <1>30 DEF BlockGate
  <1>31. ASSUME StopRunners PROVE TypeOK'
    BY <1>31 DEF StopRunners, StopRegistered
  <1>32. ASSUME DrainGate PROVE TypeOK'
    BY <1>32 DEF DrainGate
  <1>33. ASSUME StopLateRunners PROVE TypeOK'
    <2>1. mpc' \in MaintPCs /\ draining' \in BOOLEAN
      BY <1>33 DEF StopLateRunners
    <2>2. rs' \in [Commands -> {"none", "starting", "live", "stopped"}]
      BY <1>33 DEF StopLateRunners, StopRegistered
    <2> QED BY <2>1, <2>2, <1>33 DEF StopLateRunners
  <1>34. ASSUME LeaveMaintenance PROVE TypeOK'
    BY <1>34 DEF LeaveMaintenance
  <1>35. ASSUME OpenGate PROVE TypeOK'
    <2>1. manualResume' \in BOOLEAN /\ gblocked' \in BOOLEAN /\ mpc' \in MaintPCs
      BY <1>35 DEF OpenGate
    <2>2. UNCHANGED <<durable, gwork, ablocked, awork, cancelled, lock, pool, cmds, msnap,
                      draining, serving, restorePending, todo, deleter, failures>>
      BY <1>35 DEF OpenGate
    <2> QED BY <2>1, <2>2
  <1>36. ASSUME Acknowledge PROVE TypeOK'
    BY <1>36 DEF Acknowledge
  <1>37. ASSUME AcknowledgeFails PROVE TypeOK'
    BY <1>37 DEF AcknowledgeFails
  <1>38. ASSUME RestoreList PROVE TypeOK'
    <2>1. restorePending' \in BOOLEAN /\ todo' \subseteq Accounts
      BY <1>38 DEF RestoreList
    <2> QED BY <2>1, <1>38 DEF RestoreList
  <1>39. ASSUME RestoreSkips PROVE TypeOK'
    BY <1>39 DEF RestoreSkips
  <1>40. ASSUME NEW a \in Deletable, RequestDeletion(a) PROVE TypeOK'
    BY <1>40 DEF RequestDeletion
  <1>41. ASSUME NEW a \in Accounts, DeleteBlocks(a) PROVE TypeOK'
    BY <1>41 DEF DeleteBlocks
  <1>42. ASSUME NEW a \in Accounts, DeleterBlocks(a) PROVE TypeOK'
    BY <1>42 DEF DeleterBlocks
  <1>43. ASSUME DeleterLocks PROVE TypeOK'
    BY <1>43 DEF DeleterLocks
  <1>44. ASSUME DeleterLockTimeout PROVE TypeOK'
    BY <1>44 DEF DeleterLockTimeout
  <1>45. ASSUME DeleterUnregisters PROVE TypeOK'
    BY <1>45 DEF DeleterUnregisters
  <1>46. ASSUME DeleterHalts PROVE TypeOK'
    <2>1. CASE dvictim \in Commands
      BY <2>1, <1>46 DEF DeleterHalts
    <2>2. CASE dvictim = None
      <3>1. rs' = rs BY <2>2, <1>46 DEF DeleterHalts
      <3> QED BY <3>1, <1>46 DEF DeleterHalts
    <2> QED BY <2>1, <2>2
  <1>47. ASSUME DeleterDrains PROVE TypeOK'
    BY <1>47 DEF DeleterDrains
  <1>48. ASSUME DeleterCleans PROVE TypeOK'
    BY <1>48 DEF DeleterCleans
  <1>49. ASSUME DeleterGivesUp PROVE TypeOK'
    BY <1>49 DEF DeleterGivesUp
  <1>50. ASSUME CrashAndRestart PROVE TypeOK'
    <2>1. gblocked' \in BOOLEAN /\ manualResume' \in BOOLEAN
      BY <1>50 DEF CrashAndRestart
    <2>2. pc' \in [Commands -> PCs]
      BY <1>50 DEF CrashAndRestart
    <2>3. draining' \in BOOLEAN /\ serving' \in BOOLEAN /\ restorePending' \in BOOLEAN
       /\ msnap' \in MaintRow
      BY <1>50 DEF CrashAndRestart
    <2> QED BY <2>1, <2>2, <2>3, <1>50 DEF CrashAndRestart
  <1>51. CASE UNCHANGED vars
    BY <1>51 DEF vars
  <1> HIDE DEF TypeOK, Work, CmdWork, ConnWork, MaintRow, NoRow, PCs, MaintPCs, DelPCs,
       durable, gates, pool, cmds, consumer, deleter
  <1> QED
    BY <1>1, <1>2, <1>3, <1>4, <1>5, <1>6, <1>7, <1>8, <1>9, <1>10,
       <1>11, <1>12, <1>13, <1>14, <1>15, <1>16, <1>17, <1>18, <1>19, <1>20,
       <1>21, <1>22, <1>23, <1>24, <1>25, <1>26, <1>27, <1>28, <1>29, <1>30,
       <1>31, <1>32, <1>33, <1>34, <1>35, <1>36, <1>37, <1>38, <1>39, <1>40,
       <1>41, <1>42, <1>43, <1>44, <1>45, <1>46, <1>47, <1>48, <1>49, <1>50,
       <1>51
       DEF Next, CommandStep, RunnerStep, ConsumerStep

\* A snapshot taken when the last command is already acknowledged is the row.
LEMMA AcknowledgedSnapshot ==
  ASSUME TypeOK, SnapshotIsOld, mpc \notin {"idle", "failstop"},
         maint.enabled, maint.applied = maint.rev
  PROVE  msnap.enabled
  <1>1. msnap.rev \in Nat /\ maint.rev \in Nat
    BY DEF TypeOK, MaintRow
  <1>2. msnap.rev = maint.rev
    BY <1>1 DEF SnapshotIsOld
  <1>3. msnap.enabled = maint.enabled
    BY <1>2 DEF SnapshotIsOld
  <1> QED BY <1>3

\* The count of the gate stays exact, and the consumer's phases keep their meaning.
LEMMA DrainStep == TypeOK /\ DrainInv /\ [Next]_vars => DrainInv'
  <1> SUFFICES ASSUME TypeOK /\ DrainInv, [Next]_vars PROVE DrainInv'
    OBVIOUS
  <1> USE BoundsAssumption, OfferAssumption DEF TypeOK, DrainInv, GateCountsWork,
     Counted, SnapshotIsOld, ConsumerPhases, Quiet, Running,
       Inside, Work, CmdWork, ConnWork, MaintRow, NoRow, PCs, MaintPCs, Gated,
          StartKinds, Kinds,
       durable, gates, pool, cmds, consumer, deleter
  <1>1. ASSUME NEW c \in Commands, NEW k \in Offered, Invoke(c, k) PROVE DrainInv'
    BY <1>1 DEF Invoke, Goto, Gated, StartKinds, Kinds
  <1>2. ASSUME NEW c \in Commands, CancelRequest(c) PROVE DrainInv'
    BY <1>2 DEF CancelRequest
  <1>3. ASSUME NEW c \in Commands, BeginGlobal(c) PROVE DrainInv'
    <2>1. GateCountsWork'
      <3>1. ASSUME NEW d \in Commands PROVE Counted(d)'
        <4>1. CASE d = c
          BY <4>1, <1>3 DEF BeginGlobal, Return, Goto
        <4>2. CASE d # c
          BY <4>2, <1>3 DEF BeginGlobal, Return, Goto
        <4> QED BY <4>1, <4>2
      <3> QED BY <3>1
    <2>2. SnapshotIsOld' /\ ConsumerPhases'
      BY <1>3 DEF BeginGlobal, Return, Goto
    <2> QED BY <2>1, <2>2
  <1>4. ASSUME NEW c \in Commands, BeginAccount(c) PROVE DrainInv'
    BY <1>4 DEF BeginAccount, Return, Goto
  <1>5. ASSUME NEW c \in Commands, ProbeReturns(c) PROVE DrainInv'
    BY <1>5 DEF ProbeReturns, Goto
  <1>6. ASSUME NEW c \in Commands, LockContext(c) PROVE DrainInv'
    BY <1>6 DEF LockContext, Goto, Replacing
  <1>7. ASSUME NEW c \in Commands, Unlock(c) PROVE DrainInv'
    BY <1>7 DEF Unlock, Goto
  <1>8. ASSUME NEW c \in Commands, Release(c) PROVE DrainInv'
    BY <1>8 DEF Release, Return, Goto
  <1>9. ASSUME NEW c \in Commands, SavePaused(c) PROVE DrainInv'
    BY <1>9 DEF SavePaused, Goto
  <1>10. ASSUME NEW c \in Commands, Unregister(c) PROVE DrainInv'
    <2>1. GateCountsWork'
      <3>1. ASSUME NEW d \in Commands PROVE Counted(d)'
        <4>1. CASE d = c
          BY <4>1, <1>10 DEF Unregister, Goto, Replacing
        <4>2. CASE d # c
          BY <4>2, <1>10 DEF Unregister, Goto, Replacing
        <4> QED BY <4>1, <4>2
      <3> QED BY <3>1
    <2>2. SnapshotIsOld' /\ ConsumerPhases'
      BY <1>10 DEF Unregister, Goto, Replacing
    <2> QED BY <2>1, <2>2
  <1>11. ASSUME NEW c \in Commands, Halt(c) PROVE DrainInv'
    <2>1. GateCountsWork'
      <3>1. ASSUME NEW d \in Commands PROVE Counted(d)'
        <4>1. CASE d = c
          BY <4>1, <1>11 DEF Halt, Goto, Replacing
        <4>2. CASE d # c
          BY <4>2, <1>11 DEF Halt, Goto, Replacing
        <4> QED BY <4>1, <4>2
      <3> QED BY <3>1
    <2>2. SnapshotIsOld' /\ ConsumerPhases'
      BY <1>11 DEF Halt, Goto, Replacing
    <2> QED BY <2>1, <2>2
  <1>12. ASSUME NEW c \in Commands, Begin(c) PROVE DrainInv'
    BY <1>12 DEF Begin, Goto
  <1>13. ASSUME NEW c \in Commands, Load(c) PROVE DrainInv'
    <2>1. GateCountsWork'
      <3>1. ASSUME NEW d \in Commands PROVE Counted(d)'
        <4>1. CASE d = c
          BY <4>1, <1>13 DEF Load, Goto
        <4>2. CASE d # c
          BY <4>2, <1>13 DEF Load, Goto
        <4> QED BY <4>1, <4>2
      <3> QED BY <3>1
    <2>2. SnapshotIsOld' /\ ConsumerPhases'
      BY <1>13 DEF Load, Goto
    <2> QED BY <2>1, <2>2
  <1>14. ASSUME NEW c \in Commands, LoginFails(c) PROVE DrainInv'
    BY <1>14 DEF LoginFails, Goto
  <1>15. ASSUME NEW c \in Commands, LoginDone(c) PROVE DrainInv'
    BY <1>15 DEF LoginDone, Goto
  <1>16. ASSUME NEW c \in Commands, CompleteStartup(c) PROVE DrainInv'
    BY <1>16 DEF CompleteStartup, Goto
  <1>17. ASSUME NEW c \in Commands, Register(c) PROVE DrainInv'
    <2>1. GateCountsWork'
      <3>1. ASSUME NEW d \in Commands PROVE Counted(d)'
        <4>1. CASE d = c
          BY <4>1, <1>17 DEF Register, Goto
        <4>2. CASE d # c
          BY <4>2, <1>17 DEF Register, Goto
        <4> QED BY <4>1, <4>2
      <3> QED BY <3>1
    <2>2. SnapshotIsOld' /\ ConsumerPhases'
      BY <1>17 DEF Register, Goto
    <2> QED BY <2>1, <2>2
  <1>18. ASSUME NEW c \in Commands, ConnectGlobal(c) PROVE DrainInv'
    BY <1>18 DEF ConnectGlobal
  <1>19. ASSUME NEW c \in Commands, ConnectAccount(c) PROVE DrainInv'
    BY <1>19 DEF ConnectAccount
  <1>20. ASSUME NEW c \in Commands, ConnectionCloses(c) PROVE DrainInv'
    BY <1>20 DEF ConnectionCloses
  <1>21. ASSUME NEW c \in Commands, RunnerStops(c) PROVE DrainInv'
    BY <1>21 DEF RunnerStops
  <1>22. ASSUME NEW c \in Commands, ForgetWhenDone(c) PROVE DrainInv'
    BY <1>22 DEF ForgetWhenDone
  <1>23. ASSUME NEW c \in Commands, LogEvent(c) PROVE DrainInv'
    BY <1>23 DEF LogEvent
  <1>24. ASSUME NEW c \in Commands, RestoreNext(c) PROVE DrainInv'
    BY <1>24 DEF RestoreNext, Goto, Gated, StartKinds, Kinds
  <1>25. ASSUME NEW on \in BOOLEAN, NEW resume \in BOOLEAN, RequestMaintenance(on, resume)
        PROVE  DrainInv'
    BY <1>25 DEF RequestMaintenance
  <1>26. ASSUME ReadMaintenance PROVE DrainInv'
    BY <1>26 DEF ReadMaintenance
  <1>27. ASSUME ReadMaintenanceFails PROVE DrainInv'
    BY <1>27 DEF ReadMaintenanceFails
  <1>28. ASSUME FailClosedStop PROVE DrainInv'
    BY <1>28 DEF FailClosedStop, StopRegistered
  <1>29. ASSUME FlagMaintenance PROVE DrainInv'
    BY <1>29 DEF FlagMaintenance
  <1>30. ASSUME BlockGate PROVE DrainInv'
    BY <1>30 DEF BlockGate
  <1>31. ASSUME StopRunners PROVE DrainInv'
    BY <1>31 DEF StopRunners, StopRegistered
  <1>32. ASSUME DrainGate PROVE DrainInv'
    BY <1>32 DEF DrainGate
  <1>33. ASSUME StopLateRunners PROVE DrainInv'
    BY <1>33 DEF StopLateRunners, StopRegistered
  <1>34. ASSUME LeaveMaintenance PROVE DrainInv'
    BY <1>34 DEF LeaveMaintenance
  <1>35. ASSUME OpenGate PROVE DrainInv'
    <2>1. GateCountsWork' /\ SnapshotIsOld'
      BY <1>35 DEF OpenGate
    <2>2. ~msnap.enabled
      BY <1>35 DEF OpenGate
    <2>3. ~(maint.enabled /\ maint.applied = maint.rev)
      BY <2>2, <1>35, AcknowledgedSnapshot DEF OpenGate
    <2> QED BY <2>1, <2>2, <2>3, <1>35 DEF OpenGate
  <1>36. ASSUME Acknowledge PROVE DrainInv'
    BY <1>36 DEF Acknowledge
  <1>37. ASSUME AcknowledgeFails PROVE DrainInv'
    BY <1>37 DEF AcknowledgeFails
  <1>38. ASSUME RestoreList PROVE DrainInv'
    BY <1>38 DEF RestoreList
  <1>39. ASSUME RestoreSkips PROVE DrainInv'
    BY <1>39 DEF RestoreSkips
  <1>40. ASSUME NEW a \in Deletable, RequestDeletion(a) PROVE DrainInv'
    BY <1>40 DEF RequestDeletion
  <1>41. ASSUME NEW a \in Accounts, DeleteBlocks(a) PROVE DrainInv'
    BY <1>41 DEF DeleteBlocks
  <1>42. ASSUME NEW a \in Accounts, DeleterBlocks(a) PROVE DrainInv'
    BY <1>42 DEF DeleterBlocks
  <1>43. ASSUME DeleterLocks PROVE DrainInv'
    BY <1>43 DEF DeleterLocks
  <1>44. ASSUME DeleterLockTimeout PROVE DrainInv'
    BY <1>44 DEF DeleterLockTimeout
  <1>45. ASSUME DeleterUnregisters PROVE DrainInv'
    BY <1>45 DEF DeleterUnregisters
  <1>46. ASSUME DeleterHalts PROVE DrainInv'
    BY <1>46 DEF DeleterHalts
  <1>47. ASSUME DeleterDrains PROVE DrainInv'
    BY <1>47 DEF DeleterDrains
  <1>48. ASSUME DeleterCleans PROVE DrainInv'
    BY <1>48 DEF DeleterCleans
  <1>49. ASSUME DeleterGivesUp PROVE DrainInv'
    BY <1>49 DEF DeleterGivesUp
  <1>50. ASSUME CrashAndRestart PROVE DrainInv'
    BY <1>50 DEF CrashAndRestart
  <1>51. CASE UNCHANGED vars
    BY <1>51 DEF vars
  <1> HIDE DEF DrainInv, TypeOK
  <1> QED
    BY <1>1, <1>2, <1>3, <1>4, <1>5, <1>6, <1>7, <1>8, <1>9, <1>10,
       <1>11, <1>12, <1>13, <1>14, <1>15, <1>16, <1>17, <1>18, <1>19, <1>20,
       <1>21, <1>22, <1>23, <1>24, <1>25, <1>26, <1>27, <1>28, <1>29, <1>30,
       <1>31, <1>32, <1>33, <1>34, <1>35, <1>36, <1>37, <1>38, <1>39, <1>40,
       <1>41, <1>42, <1>43, <1>44, <1>45, <1>46, <1>47, <1>48, <1>49, <1>50,
       <1>51
       DEF Next, CommandStep, RunnerStep, ConsumerStep

\* Runners are created, registered and stopped only by the holder of the lock.
LEMMA RunnersStep == TypeOK /\ RunnerInv /\ [Next]_vars => RunnerInv'
  <1> SUFFICES ASSUME TypeOK /\ RunnerInv, [Next]_vars PROVE RunnerInv'
    OBVIOUS
  <1> USE BoundsAssumption, OfferAssumption DEF TypeOK, RunnerInv, LockIsHeld,
     RunnersAreOwned, RegistryIsEmptied, Running, Creating,
       Registered, BeingStopped, Locked, Deleting, PCs, DelPCs,
       durable, gates, pool, cmds, consumer, deleter
  <1>1. ASSUME NEW c \in Commands, NEW k \in Offered, Invoke(c, k) PROVE RunnerInv'
    BY <1>1 DEF Invoke, Goto, Gated, StartKinds, Kinds
  <1>2. ASSUME NEW c \in Commands, CancelRequest(c) PROVE RunnerInv'
    BY <1>2 DEF CancelRequest
  <1>3. ASSUME NEW c \in Commands, BeginGlobal(c) PROVE RunnerInv'
    BY <1>3 DEF BeginGlobal, Return, Goto
  <1>4. ASSUME NEW c \in Commands, BeginAccount(c) PROVE RunnerInv'
    BY <1>4 DEF BeginAccount, Return, Goto
  <1>5. ASSUME NEW c \in Commands, ProbeReturns(c) PROVE RunnerInv'
    BY <1>5 DEF ProbeReturns, Goto
  <1>6. ASSUME NEW c \in Commands, LockContext(c) PROVE RunnerInv'
    BY <1>6 DEF LockContext, Goto, Replacing
  <1>7. ASSUME NEW c \in Commands, Unlock(c) PROVE RunnerInv'
    BY <1>7 DEF Unlock, Goto
  <1>8. ASSUME NEW c \in Commands, Release(c) PROVE RunnerInv'
    BY <1>8 DEF Release, Return, Goto
  <1>9. ASSUME NEW c \in Commands, SavePaused(c) PROVE RunnerInv'
    BY <1>9 DEF SavePaused, Goto
  <1>10. ASSUME NEW c \in Commands, Unregister(c) PROVE RunnerInv'
    BY <1>10 DEF Unregister, Goto
  <1>11. ASSUME NEW c \in Commands, Halt(c) PROVE RunnerInv'
    BY <1>11 DEF Halt, Goto
  <1>12. ASSUME NEW c \in Commands, Begin(c) PROVE RunnerInv'
    BY <1>12 DEF Begin, Goto
  <1>13. ASSUME NEW c \in Commands, Load(c) PROVE RunnerInv'
    BY <1>13 DEF Load, Goto
  <1>14. ASSUME NEW c \in Commands, LoginFails(c) PROVE RunnerInv'
    BY <1>14 DEF LoginFails, Goto
  <1>15. ASSUME NEW c \in Commands, LoginDone(c) PROVE RunnerInv'
    BY <1>15 DEF LoginDone, Goto
  <1>16. ASSUME NEW c \in Commands, CompleteStartup(c) PROVE RunnerInv'
    BY <1>16 DEF CompleteStartup, Goto
  <1>17. ASSUME NEW c \in Commands, Register(c) PROVE RunnerInv'
    BY <1>17 DEF Register, Goto
  <1>18. ASSUME NEW c \in Commands, ConnectGlobal(c) PROVE RunnerInv'
    BY <1>18 DEF ConnectGlobal
  <1>19. ASSUME NEW c \in Commands, ConnectAccount(c) PROVE RunnerInv'
    BY <1>19 DEF ConnectAccount
  <1>20. ASSUME NEW c \in Commands, ConnectionCloses(c) PROVE RunnerInv'
    BY <1>20 DEF ConnectionCloses
  <1>21. ASSUME NEW c \in Commands, RunnerStops(c) PROVE RunnerInv'
    BY <1>21 DEF RunnerStops
  <1>22. ASSUME NEW c \in Commands, ForgetWhenDone(c) PROVE RunnerInv'
    BY <1>22 DEF ForgetWhenDone
  <1>23. ASSUME NEW c \in Commands, LogEvent(c) PROVE RunnerInv'
    BY <1>23 DEF LogEvent
  <1>24. ASSUME NEW c \in Commands, RestoreNext(c) PROVE RunnerInv'
    BY <1>24 DEF RestoreNext, Goto, Gated, StartKinds, Kinds
  <1>25. ASSUME NEW on \in BOOLEAN, NEW resume \in BOOLEAN, RequestMaintenance(on, resume)
        PROVE  RunnerInv'
    BY <1>25 DEF RequestMaintenance
  <1>26. ASSUME ReadMaintenance PROVE RunnerInv'
    BY <1>26 DEF ReadMaintenance
  <1>27. ASSUME ReadMaintenanceFails PROVE RunnerInv'
    BY <1>27 DEF ReadMaintenanceFails
  <1>28. ASSUME FailClosedStop PROVE RunnerInv'
    BY <1>28 DEF FailClosedStop, StopRegistered
  <1>29. ASSUME FlagMaintenance PROVE RunnerInv'
    BY <1>29 DEF FlagMaintenance
  <1>30. ASSUME BlockGate PROVE RunnerInv'
    BY <1>30 DEF BlockGate
  <1>31. ASSUME StopRunners PROVE RunnerInv'
    BY <1>31 DEF StopRunners, StopRegistered
  <1>32. ASSUME DrainGate PROVE RunnerInv'
    BY <1>32 DEF DrainGate
  <1>33. ASSUME StopLateRunners PROVE RunnerInv'
    BY <1>33 DEF StopLateRunners, StopRegistered
  <1>34. ASSUME LeaveMaintenance PROVE RunnerInv'
    BY <1>34 DEF LeaveMaintenance
  <1>35. ASSUME OpenGate PROVE RunnerInv'
    BY <1>35 DEF OpenGate
  <1>36. ASSUME Acknowledge PROVE RunnerInv'
    BY <1>36 DEF Acknowledge
  <1>37. ASSUME AcknowledgeFails PROVE RunnerInv'
    BY <1>37 DEF AcknowledgeFails
  <1>38. ASSUME RestoreList PROVE RunnerInv'
    BY <1>38 DEF RestoreList
  <1>39. ASSUME RestoreSkips PROVE RunnerInv'
    BY <1>39 DEF RestoreSkips
  <1>40. ASSUME NEW a \in Deletable, RequestDeletion(a) PROVE RunnerInv'
    BY <1>40 DEF RequestDeletion
  <1>41. ASSUME NEW a \in Accounts, DeleteBlocks(a) PROVE RunnerInv'
    BY <1>41 DEF DeleteBlocks
  <1>42. ASSUME NEW a \in Accounts, DeleterBlocks(a) PROVE RunnerInv'
    BY <1>42 DEF DeleterBlocks
  <1>43. ASSUME DeleterLocks PROVE RunnerInv'
    BY <1>43 DEF DeleterLocks
  <1>44. ASSUME DeleterLockTimeout PROVE RunnerInv'
    BY <1>44 DEF DeleterLockTimeout
  <1>45. ASSUME DeleterUnregisters PROVE RunnerInv'
    BY <1>45 DEF DeleterUnregisters
  <1>46. ASSUME DeleterHalts PROVE RunnerInv'
    BY <1>46 DEF DeleterHalts
  <1>47. ASSUME DeleterDrains PROVE RunnerInv'
    BY <1>47 DEF DeleterDrains
  <1>48. ASSUME DeleterCleans PROVE RunnerInv'
    BY <1>48 DEF DeleterCleans
  <1>49. ASSUME DeleterGivesUp PROVE RunnerInv'
    BY <1>49 DEF DeleterGivesUp
  <1>50. ASSUME CrashAndRestart PROVE RunnerInv'
    BY <1>50 DEF CrashAndRestart
  <1>51. CASE UNCHANGED vars
    BY <1>51 DEF vars
  <1> HIDE DEF RunnerInv, TypeOK
  <1> QED
    BY <1>1, <1>2, <1>3, <1>4, <1>5, <1>6, <1>7, <1>8, <1>9, <1>10,
       <1>11, <1>12, <1>13, <1>14, <1>15, <1>16, <1>17, <1>18, <1>19, <1>20,
       <1>21, <1>22, <1>23, <1>24, <1>25, <1>26, <1>27, <1>28, <1>29, <1>30,
       <1>31, <1>32, <1>33, <1>34, <1>35, <1>36, <1>37, <1>38, <1>39, <1>40,
       <1>41, <1>42, <1>43, <1>44, <1>45, <1>46, <1>47, <1>48, <1>49, <1>50,
       <1>51
       DEF Next, CommandStep, RunnerStep, ConsumerStep

\* The account under deletion stays without connections and runners.
LEMMA SealStep == TypeOK /\ RunnerInv /\ AccountIsSealed /\ [Next]_vars =>
   AccountIsSealed'
  <1> SUFFICES ASSUME TypeOK /\ RunnerInv /\ AccountIsSealed, [Next]_vars
        PROVE  AccountIsSealed'
    OBVIOUS
  <1> USE BoundsAssumption, OfferAssumption DEF TypeOK, RunnerInv, LockIsHeld,
     RunnersAreOwned, RegistryIsEmptied, Running, Creating,
       Registered, BeingStopped, Locked, Deleting, PCs, DelPCs, AccountIsSealed,
          ConnWork, CmdWork, Work,
       durable, gates, pool, cmds, consumer, deleter
  <1>1. ASSUME NEW c \in Commands, NEW k \in Offered, Invoke(c, k)
        PROVE  AccountIsSealed'
    BY <1>1 DEF Invoke, Goto, Gated, StartKinds, Kinds
  <1>2. ASSUME NEW c \in Commands, CancelRequest(c) PROVE AccountIsSealed'
    BY <1>2 DEF CancelRequest
  <1>3. ASSUME NEW c \in Commands, BeginGlobal(c) PROVE AccountIsSealed'
    BY <1>3 DEF BeginGlobal, Return, Goto
  <1>4. ASSUME NEW c \in Commands, BeginAccount(c) PROVE AccountIsSealed'
    BY <1>4 DEF BeginAccount, Return, Goto
  <1>5. ASSUME NEW c \in Commands, ProbeReturns(c) PROVE AccountIsSealed'
    BY <1>5 DEF ProbeReturns, Goto
  <1>6. ASSUME NEW c \in Commands, LockContext(c) PROVE AccountIsSealed'
    BY <1>6 DEF LockContext, Goto, Replacing
  <1>7. ASSUME NEW c \in Commands, Unlock(c) PROVE AccountIsSealed'
    BY <1>7 DEF Unlock, Goto
  <1>8. ASSUME NEW c \in Commands, Release(c) PROVE AccountIsSealed'
    BY <1>8 DEF Release, Return, Goto
  <1>9. ASSUME NEW c \in Commands, SavePaused(c) PROVE AccountIsSealed'
    BY <1>9 DEF SavePaused, Goto
  <1>10. ASSUME NEW c \in Commands, Unregister(c) PROVE AccountIsSealed'
    BY <1>10 DEF Unregister, Goto
  <1>11. ASSUME NEW c \in Commands, Halt(c) PROVE AccountIsSealed'
    BY <1>11 DEF Halt, Goto
  <1>12. ASSUME NEW c \in Commands, Begin(c) PROVE AccountIsSealed'
    BY <1>12 DEF Begin, Goto
  <1>13. ASSUME NEW c \in Commands, Load(c) PROVE AccountIsSealed'
    BY <1>13 DEF Load, Goto
  <1>14. ASSUME NEW c \in Commands, LoginFails(c) PROVE AccountIsSealed'
    BY <1>14 DEF LoginFails, Goto
  <1>15. ASSUME NEW c \in Commands, LoginDone(c) PROVE AccountIsSealed'
    BY <1>15 DEF LoginDone, Goto
  <1>16. ASSUME NEW c \in Commands, CompleteStartup(c) PROVE AccountIsSealed'
    BY <1>16 DEF CompleteStartup, Goto
  <1>17. ASSUME NEW c \in Commands, Register(c) PROVE AccountIsSealed'
    BY <1>17 DEF Register, Goto
  <1>18. ASSUME NEW c \in Commands, ConnectGlobal(c) PROVE AccountIsSealed'
    BY <1>18 DEF ConnectGlobal
  <1>19. ASSUME NEW c \in Commands, ConnectAccount(c) PROVE AccountIsSealed'
    BY <1>19 DEF ConnectAccount
  <1>20. ASSUME NEW c \in Commands, ConnectionCloses(c) PROVE AccountIsSealed'
    BY <1>20 DEF ConnectionCloses
  <1>21. ASSUME NEW c \in Commands, RunnerStops(c) PROVE AccountIsSealed'
    BY <1>21 DEF RunnerStops
  <1>22. ASSUME NEW c \in Commands, ForgetWhenDone(c) PROVE AccountIsSealed'
    BY <1>22 DEF ForgetWhenDone
  <1>23. ASSUME NEW c \in Commands, LogEvent(c) PROVE AccountIsSealed'
    BY <1>23 DEF LogEvent
  <1>24. ASSUME NEW c \in Commands, RestoreNext(c) PROVE AccountIsSealed'
    BY <1>24 DEF RestoreNext, Goto, Gated, StartKinds, Kinds
  <1>25. ASSUME NEW on \in BOOLEAN, NEW resume \in BOOLEAN, RequestMaintenance(on, resume)
        PROVE  AccountIsSealed'
    BY <1>25 DEF RequestMaintenance
  <1>26. ASSUME ReadMaintenance PROVE AccountIsSealed'
    BY <1>26 DEF ReadMaintenance
  <1>27. ASSUME ReadMaintenanceFails PROVE AccountIsSealed'
    BY <1>27 DEF ReadMaintenanceFails
  <1>28. ASSUME FailClosedStop PROVE AccountIsSealed'
    BY <1>28 DEF FailClosedStop, StopRegistered
  <1>29. ASSUME FlagMaintenance PROVE AccountIsSealed'
    BY <1>29 DEF FlagMaintenance
  <1>30. ASSUME BlockGate PROVE AccountIsSealed'
    BY <1>30 DEF BlockGate
  <1>31. ASSUME StopRunners PROVE AccountIsSealed'
    BY <1>31 DEF StopRunners, StopRegistered
  <1>32. ASSUME DrainGate PROVE AccountIsSealed'
    BY <1>32 DEF DrainGate
  <1>33. ASSUME StopLateRunners PROVE AccountIsSealed'
    BY <1>33 DEF StopLateRunners, StopRegistered
  <1>34. ASSUME LeaveMaintenance PROVE AccountIsSealed'
    BY <1>34 DEF LeaveMaintenance
  <1>35. ASSUME OpenGate PROVE AccountIsSealed'
    BY <1>35 DEF OpenGate
  <1>36. ASSUME Acknowledge PROVE AccountIsSealed'
    BY <1>36 DEF Acknowledge
  <1>37. ASSUME AcknowledgeFails PROVE AccountIsSealed'
    BY <1>37 DEF AcknowledgeFails
  <1>38. ASSUME RestoreList PROVE AccountIsSealed'
    BY <1>38 DEF RestoreList
  <1>39. ASSUME RestoreSkips PROVE AccountIsSealed'
    BY <1>39 DEF RestoreSkips
  <1>40. ASSUME NEW a \in Deletable, RequestDeletion(a) PROVE AccountIsSealed'
    BY <1>40 DEF RequestDeletion
  <1>41. ASSUME NEW a \in Accounts, DeleteBlocks(a) PROVE AccountIsSealed'
    BY <1>41 DEF DeleteBlocks
  <1>42. ASSUME NEW a \in Accounts, DeleterBlocks(a) PROVE AccountIsSealed'
    BY <1>42 DEF DeleterBlocks
  <1>43. ASSUME DeleterLocks PROVE AccountIsSealed'
    BY <1>43 DEF DeleterLocks
  <1>44. ASSUME DeleterLockTimeout PROVE AccountIsSealed'
    BY <1>44 DEF DeleterLockTimeout
  <1>45. ASSUME DeleterUnregisters PROVE AccountIsSealed'
    BY <1>45 DEF DeleterUnregisters
  <1>46. ASSUME DeleterHalts PROVE AccountIsSealed'
    BY <1>46 DEF DeleterHalts
  <1>47. ASSUME DeleterDrains PROVE AccountIsSealed'
    BY <1>47 DEF DeleterDrains
  <1>48. ASSUME DeleterCleans PROVE AccountIsSealed'
    <2>1. ASSUME NEW c \in Commands, Target[c] = dacct
          PROVE  ~Running(c) /\ conn[c] # "open" /\ ablocked[dacct]
      <3>1. ~Creating(c) /\ ~Registered(c) /\ ~BeingStopped(c)
        BY <1>48, <2>1 DEF DeleterCleans
      <3>2. ConnWork(c) \notin awork[dacct]
        BY <1>48 DEF DeleterCleans
      <3> QED BY <1>48, <2>1, <3>1, <3>2 DEF DeleterCleans
    <2> QED BY <2>1, <1>48 DEF DeleterCleans
  <1>49. ASSUME DeleterGivesUp PROVE AccountIsSealed'
    BY <1>49 DEF DeleterGivesUp
  <1>50. ASSUME CrashAndRestart PROVE AccountIsSealed'
    BY <1>50 DEF CrashAndRestart
  <1>51. CASE UNCHANGED vars
    BY <1>51 DEF vars
  <1> HIDE DEF RunnerInv, TypeOK, AccountIsSealed
  <1> QED
    BY <1>1, <1>2, <1>3, <1>4, <1>5, <1>6, <1>7, <1>8, <1>9, <1>10,
       <1>11, <1>12, <1>13, <1>14, <1>15, <1>16, <1>17, <1>18, <1>19, <1>20,
       <1>21, <1>22, <1>23, <1>24, <1>25, <1>26, <1>27, <1>28, <1>29, <1>30,
       <1>31, <1>32, <1>33, <1>34, <1>35, <1>36, <1>37, <1>38, <1>39, <1>40,
       <1>41, <1>42, <1>43, <1>44, <1>45, <1>46, <1>47, <1>48, <1>49, <1>50,
       <1>51
       DEF Next, CommandStep, RunnerStep, ConsumerStep

\* A background start admitted before maintenance is over before the gate reopens.
LEMMA ParkStep == TypeOK /\ DrainInv /\ RunnerInv /\ ParkInv /\ [Next]_vars => ParkInv'
  <1> SUFFICES ASSUME TypeOK /\ DrainInv /\ RunnerInv /\ ParkInv, [Next]_vars
        PROVE  ParkInv'
    OBVIOUS
  <1> USE BoundsAssumption, OfferAssumption DEF TypeOK, DrainInv, GateCountsWork,
     Counted, RunnerInv, RunnersAreOwned, Running, Creating,
       Registered, BeingStopped, PCs, MaintPCs, ParkInv, Parked, RunnersWereCreated,
          RegistryIsEmptied, Background, Gated, StartKinds, Inside, CmdWork, ConnWork,
          Work,
       durable, gates, pool, cmds, consumer, deleter
  <1>1. ASSUME NEW c \in Commands, NEW k \in Offered, Invoke(c, k) PROVE ParkInv'
    BY <1>1 DEF Invoke, Goto, Gated, StartKinds, Kinds
  <1>2. ASSUME NEW c \in Commands, CancelRequest(c) PROVE ParkInv'
    BY <1>2 DEF CancelRequest
  <1>3. ASSUME NEW c \in Commands, BeginGlobal(c) PROVE ParkInv'
    BY <1>3 DEF BeginGlobal, Return, Goto
  <1>4. ASSUME NEW c \in Commands, BeginAccount(c) PROVE ParkInv'
    BY <1>4 DEF BeginAccount, Return, Goto
  <1>5. ASSUME NEW c \in Commands, ProbeReturns(c) PROVE ParkInv'
    BY <1>5 DEF ProbeReturns, Goto
  <1>6. ASSUME NEW c \in Commands, LockContext(c) PROVE ParkInv'
    BY <1>6 DEF LockContext, Goto, Replacing
  <1>7. ASSUME NEW c \in Commands, Unlock(c) PROVE ParkInv'
    BY <1>7 DEF Unlock, Goto
  <1>8. ASSUME NEW c \in Commands, Release(c) PROVE ParkInv'
    BY <1>8 DEF Release, Return, Goto
  <1>9. ASSUME NEW c \in Commands, SavePaused(c) PROVE ParkInv'
    BY <1>9 DEF SavePaused, Goto
  <1>10. ASSUME NEW c \in Commands, Unregister(c) PROVE ParkInv'
    BY <1>10 DEF Unregister, Goto
  <1>11. ASSUME NEW c \in Commands, Halt(c) PROVE ParkInv'
    BY <1>11 DEF Halt, Goto
  <1>12. ASSUME NEW c \in Commands, Begin(c) PROVE ParkInv'
    BY <1>12 DEF Begin, Goto
  <1>13. ASSUME NEW c \in Commands, Load(c) PROVE ParkInv'
    BY <1>13 DEF Load, Goto
  <1>14. ASSUME NEW c \in Commands, LoginFails(c) PROVE ParkInv'
    BY <1>14 DEF LoginFails, Goto
  <1>15. ASSUME NEW c \in Commands, LoginDone(c) PROVE ParkInv'
    BY <1>15 DEF LoginDone, Goto
  <1>16. ASSUME NEW c \in Commands, CompleteStartup(c) PROVE ParkInv'
    BY <1>16 DEF CompleteStartup, Goto
  <1>17. ASSUME NEW c \in Commands, Register(c) PROVE ParkInv'
    BY <1>17 DEF Register, Goto
  <1>18. ASSUME NEW c \in Commands, ConnectGlobal(c) PROVE ParkInv'
    BY <1>18 DEF ConnectGlobal
  <1>19. ASSUME NEW c \in Commands, ConnectAccount(c) PROVE ParkInv'
    BY <1>19 DEF ConnectAccount
  <1>20. ASSUME NEW c \in Commands, ConnectionCloses(c) PROVE ParkInv'
    BY <1>20 DEF ConnectionCloses
  <1>21. ASSUME NEW c \in Commands, RunnerStops(c) PROVE ParkInv'
    BY <1>21 DEF RunnerStops
  <1>22. ASSUME NEW c \in Commands, ForgetWhenDone(c) PROVE ParkInv'
    BY <1>22 DEF ForgetWhenDone
  <1>23. ASSUME NEW c \in Commands, LogEvent(c) PROVE ParkInv'
    BY <1>23 DEF LogEvent
  <1>24. ASSUME NEW c \in Commands, RestoreNext(c) PROVE ParkInv'
    BY <1>24 DEF RestoreNext, Goto, Gated, StartKinds, Kinds
  <1>25. ASSUME NEW on \in BOOLEAN, NEW resume \in BOOLEAN, RequestMaintenance(on, resume)
        PROVE  ParkInv'
    BY <1>25 DEF RequestMaintenance
  <1>26. ASSUME ReadMaintenance PROVE ParkInv'
    BY <1>26 DEF ReadMaintenance
  <1>27. ASSUME ReadMaintenanceFails PROVE ParkInv'
    BY <1>27 DEF ReadMaintenanceFails
  <1>28. ASSUME FailClosedStop PROVE ParkInv'
    BY <1>28 DEF FailClosedStop, StopRegistered
  <1>29. ASSUME FlagMaintenance PROVE ParkInv'
    BY <1>29 DEF FlagMaintenance
  <1>30. ASSUME BlockGate PROVE ParkInv'
    BY <1>30 DEF BlockGate
  <1>31. ASSUME StopRunners PROVE ParkInv'
    BY <1>31 DEF StopRunners, StopRegistered
  <1>32. ASSUME DrainGate PROVE ParkInv'
    BY <1>32 DEF DrainGate
  <1>33. ASSUME StopLateRunners PROVE ParkInv'
    <2>1. gblocked /\ gwork = {}
      BY <1>33 DEF StopLateRunners, ConsumerPhases
    <2>2. RunnersWereCreated'
      BY <1>33 DEF StopLateRunners, StopRegistered
    <2>3. ASSUME NEW c \in Commands PROVE Parked(c)'
      <3>1. kind[c] \in Background => ~Creating(c) /\ pc[c] # "load"
        BY <2>1
      <3>2. rs'[c] = IF \E a \in Accounts : runners[a] = c THEN "stopped" ELSE rs[c]
        BY <1>33 DEF StopLateRunners, StopRegistered
      <3> QED BY <3>1, <3>2, <1>33 DEF StopLateRunners
    <2> QED BY <2>1, <2>2, <2>3, <1>33 DEF StopLateRunners
  <1>34. ASSUME LeaveMaintenance PROVE ParkInv'
    BY <1>34 DEF LeaveMaintenance
  <1>35. ASSUME OpenGate PROVE ParkInv'
    BY <1>35 DEF OpenGate
  <1>36. ASSUME Acknowledge PROVE ParkInv'
    BY <1>36 DEF Acknowledge
  <1>37. ASSUME AcknowledgeFails PROVE ParkInv'
    BY <1>37 DEF AcknowledgeFails
  <1>38. ASSUME RestoreList PROVE ParkInv'
    BY <1>38 DEF RestoreList
  <1>39. ASSUME RestoreSkips PROVE ParkInv'
    BY <1>39 DEF RestoreSkips
  <1>40. ASSUME NEW a \in Deletable, RequestDeletion(a) PROVE ParkInv'
    BY <1>40 DEF RequestDeletion
  <1>41. ASSUME NEW a \in Accounts, DeleteBlocks(a) PROVE ParkInv'
    BY <1>41 DEF DeleteBlocks
  <1>42. ASSUME NEW a \in Accounts, DeleterBlocks(a) PROVE ParkInv'
    BY <1>42 DEF DeleterBlocks
  <1>43. ASSUME DeleterLocks PROVE ParkInv'
    BY <1>43 DEF DeleterLocks
  <1>44. ASSUME DeleterLockTimeout PROVE ParkInv'
    BY <1>44 DEF DeleterLockTimeout
  <1>45. ASSUME DeleterUnregisters PROVE ParkInv'
    BY <1>45 DEF DeleterUnregisters
  <1>46. ASSUME DeleterHalts PROVE ParkInv'
    BY <1>46 DEF DeleterHalts
  <1>47. ASSUME DeleterDrains PROVE ParkInv'
    BY <1>47 DEF DeleterDrains
  <1>48. ASSUME DeleterCleans PROVE ParkInv'
    BY <1>48 DEF DeleterCleans
  <1>49. ASSUME DeleterGivesUp PROVE ParkInv'
    BY <1>49 DEF DeleterGivesUp
  <1>50. ASSUME CrashAndRestart PROVE ParkInv'
    BY <1>50 DEF CrashAndRestart
  <1>51. CASE UNCHANGED vars
    BY <1>51 DEF vars
  <1> HIDE DEF RunnerInv, TypeOK, ParkInv, DrainInv
  <1> QED
    BY <1>1, <1>2, <1>3, <1>4, <1>5, <1>6, <1>7, <1>8, <1>9, <1>10,
       <1>11, <1>12, <1>13, <1>14, <1>15, <1>16, <1>17, <1>18, <1>19, <1>20,
       <1>21, <1>22, <1>23, <1>24, <1>25, <1>26, <1>27, <1>28, <1>29, <1>30,
       <1>31, <1>32, <1>33, <1>34, <1>35, <1>36, <1>37, <1>38, <1>39, <1>40,
       <1>41, <1>42, <1>43, <1>44, <1>45, <1>46, <1>47, <1>48, <1>49, <1>50,
       <1>51
       DEF Next, CommandStep, RunnerStep, ConsumerStep

\* The inductive invariant of the whole component: types, the drain of the gates,
\* ownership of runners, isolation of deleted accounts, parking of background starts.
SafeInv == TypeOK /\ DrainInv /\ RunnerInv /\ AccountIsSealed /\ ParkInv

\* A daemon that has just booted satisfies it.
LEMMA SafeInit == Init => SafeInv
  <1> SUFFICES ASSUME Init PROVE SafeInv
    OBVIOUS
  <1> USE BoundsAssumption DEF Init, NoRow
  <1>1. TypeOK
    BY DEF TypeOK, MaintRow, Work, Kinds, Gated, StartKinds, PCs, MaintPCs, DelPCs
  <1>2. DrainInv
    BY DEF DrainInv, GateCountsWork, Counted, SnapshotIsOld, ConsumerPhases, Inside
  <1>3. RunnerInv
    BY DEF RunnerInv, LockIsHeld, RunnersAreOwned, RegistryIsEmptied, Running, Locked, Deleting
  <1>4. AccountIsSealed
    BY DEF AccountIsSealed
  <1>5. ParkInv
    BY DEF ParkInv, RunnersWereCreated, Creating, Registered, BeingStopped
  <1> QED BY <1>1, <1>2, <1>3, <1>4, <1>5 DEF SafeInv

\* All inductive invariants together are an invariant of the specification.
THEOREM SafeInvTheorem == Spec => []SafeInv
  <1>1. SafeInv /\ [Next]_vars => SafeInv'
    BY TypeStep, DrainStep, RunnersStep, SealStep, ParkStep DEF SafeInv
  <1> QED BY SafeInit, <1>1, PTL DEF Spec

\* Type correctness of the manager, the consumer and the deletion worker.
THEOREM TypeTheorem == Spec => []TypeOK
  <1>1. SafeInv => TypeOK
    BY DEF SafeInv
  <1> QED BY SafeInvTheorem, <1>1, PTL

\* ApplyMaintenance acknowledges "on" only after a complete drain, and nothing
\* starts again while the acknowledged command stands.
THEOREM DrainTheorem == Spec => []AcknowledgedMeansDrained
  <1>1. SafeInv => AcknowledgedMeansDrained
    BY DEF SafeInv, DrainInv, GateCountsWork, Counted, ConsumerPhases, Quiet,
           AcknowledgedMeansDrained
  <1> QED BY SafeInvTheorem, <1>1, PTL

\* The lifecycle lock and the registry keep an account at one runner.
THEOREM OneRunnerTheorem == Spec => []AtMostOneRunner
  <1>1. SafeInv => AtMostOneRunner
    <2> SUFFICES ASSUME SafeInv, NEW c \in Commands, NEW d \in Commands,
                        Running(c), Running(d), Target[c] = Target[d]
                 PROVE  c = d
      BY DEF AtMostOneRunner
    <2> USE BoundsAssumption DEF SafeInv, TypeOK, RunnerInv, LockIsHeld, RegistryIsEmptied,
            Creating, Registered, BeingStopped, Locked, Deleting
    <2>1. Creating(c) \/ Registered(c) \/ BeingStopped(c)
      BY DEF RunnersAreOwned
    <2>2. Creating(d) \/ Registered(d) \/ BeingStopped(d)
      BY DEF RunnersAreOwned
    <2> QED BY <2>1, <2>2
  <1> QED BY SafeInvTheorem, <1>1, PTL

\* cleanAccountDeletion removes rows only of an account that is at rest.
THEOREM IsolationTheorem == Spec => []DeletionIsIsolated
  <1>1. SafeInv => DeletionIsIsolated
    <2> SUFFICES ASSUME SafeInv, dpc = "clean", NEW c \in Commands, dacct = Target[c]
                 PROVE  ~Running(c) /\ conn[c] # "open"
      BY DEF SafeInv, AccountIsSealed, DeletionIsIsolated
    <2>1. ~Creating(c) /\ ~Registered(c) /\ ~BeingStopped(c)
      BY BoundsAssumption DEF SafeInv, TypeOK, RunnerInv, LockIsHeld, RegistryIsEmptied,
         Creating, Registered, BeingStopped, Locked, Deleting
    <2>2. ~Running(c)
      BY <2>1 DEF SafeInv, RunnerInv, RunnersAreOwned
    <2> QED BY <2>2 DEF SafeInv, AccountIsSealed
  <1> QED BY SafeInvTheorem, <1>1, PTL

\* The manual-resume flag and the drain park every background start.
THEOREM ParkTheorem == Spec => []BackgroundStaysParked
  <1>1. SafeInv => BackgroundStaysParked
    BY DEF SafeInv, ParkInv, Parked, BackgroundStaysParked
  <1> QED BY SafeInvTheorem, <1>1, PTL
=============================================================================
