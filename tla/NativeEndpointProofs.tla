------------------------ MODULE NativeEndpointProofs ------------------------
(***************************************************************************)
(* Proofs about NativeEndpoint, for any set of calling threads.            *)
(***************************************************************************)
EXTENDS NativeEndpoint, TLAPS

USE CallersAssumption DEF Nobody

\* Every step keeps every variable in its type.
LEMMA TypeStep == TypeOK /\ [Next]_vars => TypeOK'
<1> SUFFICES ASSUME TypeOK, [Next]_vars PROVE TypeOK'
  OBVIOUS
<1> USE DEF TypeOK, States, Terminal, Errors, WatchPoints, WorkerPoints, Cancellable,
            Operating, Validating, SettingUp, Exited, CallerPoints, StartPoints, StopPoints,
            status, notifies, shared, worker, callers, SetState, NotifyStop, Fail, Goto, Return
<1>1. ASSUME NEW c \in Callers, CallStart(c) PROVE TypeOK'
  BY <1>1 DEF CallStart
<1>2. ASSUME NEW c \in Callers, CallStop(c) PROVE TypeOK'
  BY <1>2 DEF CallStop
<1>3. ASSUME NEW c \in Callers, CallDestroy(c) PROVE TypeOK'
  <2>1. alive' \in BOOLEAN
    BY <1>3 DEF CallDestroy
  <2>2. pc' \in [Callers -> CallerPoints]
    BY <1>3 DEF CallDestroy
  <2> QED
    BY <1>3, <2>1, <2>2 DEF CallDestroy
<1>4. ASSUME NEW c \in Callers, CallWaitReady(c) PROVE TypeOK'
  BY <1>4 DEF CallWaitReady
<1>5. ASSUME NEW c \in Callers, CallApprove(c) PROVE TypeOK'
  BY <1>5 DEF CallApprove
<1>6. ASSUME NEW c \in Callers, CallAuthorize(c) PROVE TypeOK'
  BY <1>6 DEF CallAuthorize
<1>7. ASSUME NEW c \in Callers, StartLock(c) PROVE TypeOK'
  BY <1>7 DEF StartLock
<1>8. ASSUME NEW c \in Callers, StartCheck(c) PROVE TypeOK'
  BY <1>8 DEF StartCheck
<1>9. ASSUME NEW c \in Callers, StartSpawn(c) PROVE TypeOK'
  <2>1. slot' \in BOOLEAN
    BY <1>9 DEF StartSpawn
  <2>2. pc' \in [Callers -> CallerPoints]
    BY <1>9 DEF StartSpawn
  <2>3. state' \in States /\ error' \in Errors /\ parked' \subseteq Callers
    BY <1>9 DEF StartSpawn
  <2>4. wpc' \in WorkerPoints /\ watch' \in WatchPoints
    BY <1>9 DEF StartSpawn
  <2> QED
    BY <1>9, <2>1, <2>2, <2>3, <2>4 DEF StartSpawn
<1>10. ASSUME NEW c \in Callers, StopLock(c) PROVE TypeOK'
  BY <1>10 DEF StopLock
<1>11. ASSUME NEW c \in Callers, StopRead(c) PROVE TypeOK'
  BY <1>11 DEF StopRead
<1>12. ASSUME NEW c \in Callers, StopIdle(c) PROVE TypeOK'
  BY <1>12 DEF StopIdle
<1>13. ASSUME NEW c \in Callers, StopStopping(c) PROVE TypeOK'
  BY <1>13 DEF StopStopping
<1>14. ASSUME NEW c \in Callers, StopStore(c) PROVE TypeOK'
  BY <1>14 DEF StopStore
<1>15. ASSUME NEW c \in Callers, StopNotify(c) PROVE TypeOK'
  BY <1>15 DEF StopNotify
<1>16. ASSUME NEW c \in Callers, StopJoin(c) PROVE TypeOK'
  <2>1. slot' \in BOOLEAN
    BY <1>16 DEF StopJoin
  <2>2. pc' \in [Callers -> CallerPoints]
    BY <1>16 DEF StopJoin
  <2> QED
    BY <1>16, <2>1, <2>2 DEF StopJoin
<1>17. ASSUME NEW c \in Callers, StopPanic(c) PROVE TypeOK'
  BY <1>17 DEF StopPanic
<1>18. ASSUME NEW c \in Callers, StopFinal(c) PROVE TypeOK'
  BY <1>18 DEF StopFinal
<1>19. ASSUME NEW c \in Callers, StopUnlock(c) PROVE TypeOK'
  BY <1>19 DEF StopUnlock
<1>20. ASSUME NEW c \in Callers, WaitWake(c) PROVE TypeOK'
  BY <1>20 DEF WaitWake
<1>21. ASSUME NEW c \in Callers, WaitTimeout(c) PROVE TypeOK'
  BY <1>21 DEF WaitTimeout
<1>22. ASSUME NEW c \in Callers, ApproveCheck(c) PROVE TypeOK'
  BY <1>22 DEF ApproveCheck
<1>23. ASSUME NEW c \in Callers, ApproveSwap(c) PROVE TypeOK'
  BY <1>23 DEF ApproveSwap
<1>24. ASSUME NEW c \in Callers, ApproveNotify(c) PROVE TypeOK'
  BY <1>24 DEF ApproveNotify
<1>25. ASSUME NEW c \in Callers, AuthorizeCheck(c) PROVE TypeOK'
  BY <1>25 DEF AuthorizeCheck
<1>26. ASSUME NEW c \in Callers, AuthorizeSwap(c) PROVE TypeOK'
  BY <1>26 DEF AuthorizeSwap
<1>27. ASSUME NEW c \in Callers, AuthorizeNotify(c) PROVE TypeOK'
  BY <1>27 DEF AuthorizeNotify
<1>28. CASE WorkerBuild
  BY <1>28 DEF WorkerBuild
<1>29. CASE WatchRegister
  BY <1>29 DEF WatchRegister
<1>30. CASE WatchCheck
  BY <1>30 DEF WatchCheck
<1>31. CASE WorkerLoad
  BY <1>31 DEF WorkerLoad, Polled
<1>32. CASE WorkerBind
  BY <1>32 DEF WorkerBind
<1>33. CASE WorkerConnect
  BY <1>33 DEF WorkerConnect, Polled
<1>34. CASE WorkerConnected
  BY <1>34 DEF WorkerConnected, Advertise, Polled
<1>35. CASE ValidateTest
  BY <1>35 DEF ValidateTest, Polled
<1>36. CASE ValidateArm
  BY <1>36 DEF ValidateArm, Polled
<1>37. CASE ValidateWake
  <2>1. approvePermit' \in BOOLEAN
    BY <1>37 DEF ValidateWake, Polled
  <2>2. wpc' \in WorkerPoints
    BY <1>37 DEF ValidateWake, Polled
  <2> QED
    BY <1>37, <2>1, <2>2 DEF ValidateWake, Polled
<1>38. CASE WorkerValidated
  BY <1>38 DEF WorkerValidated, Advertise, Polled
<1>39. CASE SetupTest
  BY <1>39 DEF SetupTest, Polled
<1>40. CASE SetupArm
  BY <1>40 DEF SetupArm, Polled
<1>41. CASE SetupWake
  <2>1. authorizePermit' \in BOOLEAN
    BY <1>41 DEF SetupWake, Polled
  <2>2. wpc' \in WorkerPoints
    BY <1>41 DEF SetupWake, Polled
  <2> QED
    BY <1>41, <2>1, <2>2 DEF SetupWake, Polled
<1>42. CASE WorkerPromote
  BY <1>42 DEF WorkerPromote, Polled
<1>43. CASE EstablishFails
  BY <1>43 DEF EstablishFails, Polled
<1>44. CASE ConnectionEnds
  BY <1>44 DEF ConnectionEnds, Polled
<1>45. CASE WorkerPanic
  BY <1>45 DEF WorkerPanic, Polled
<1>46. CASE WorkerDrain
  BY <1>46 DEF WorkerDrain
<1>47. CASE FinishCheck
  BY <1>47 DEF FinishCheck
<1>48. CASE FinishStop
  BY <1>48 DEF FinishStop
<1>49. CASE FinishStopped
  BY <1>49 DEF FinishStopped
<1>50. CASE FinishFailed
  BY <1>50 DEF FinishFailed
<1>51. CASE UNCHANGED vars
  BY <1>51 DEF vars
<1> QED
  BY <1>1, <1>2, <1>3, <1>4, <1>5, <1>6, <1>7, <1>8, <1>9, <1>10, <1>11,
     <1>12, <1>13, <1>14, <1>15, <1>16, <1>17, <1>18, <1>19, <1>20, <1>21,
     <1>22, <1>23, <1>24, <1>25, <1>26, <1>27, <1>28, <1>29, <1>30, <1>31,
     <1>32, <1>33, <1>34, <1>35, <1>36, <1>37, <1>38, <1>39, <1>40, <1>41,
     <1>42, <1>43, <1>44, <1>45, <1>46, <1>47, <1>48, <1>49, <1>50, <1>51
  DEF Next, WorkerStep, Call, CallerStep, Destroyed

\* What Inv says beyond the types.
Safety == MutexInv /\ SlotInv /\ StopInv /\ EndInv /\ PathInv /\ DecisionInv
          /\ DestroyInv /\ ReadyInv /\ StoppedOnlyByLocalStop

\* Every step preserves the inductive invariant.
LEMMA InvStep == Inv /\ [Next]_vars => Inv'
<1> SUFFICES ASSUME TypeOK, TypeOK', Safety, [Next]_vars PROVE Safety'
  BY TypeStep DEF Inv, Safety
<1> USE DEF TypeOK, Safety, MutexInv, SlotInv, StopInv, EndInv, PathInv, DecisionInv,
            DestroyInv, ReadyInv, StoppedOnlyByLocalStop, Advertised, Validates, Holding, StartPoints, StopPoints,
            Configs, Terminal, Exited, Cancellable, Operating, Validating, SettingUp,
            status, notifies, shared, worker, callers, SetState, Settable, NotifyStop, Fail,
            Goto, Return
<1>1. ASSUME NEW c \in Callers, CallStart(c) PROVE Safety'
  BY <1>1 DEF CallStart
<1>2. ASSUME NEW c \in Callers, CallStop(c) PROVE Safety'
  BY <1>2 DEF CallStop
<1>3. ASSUME NEW c \in Callers, CallDestroy(c) PROVE Safety'
  BY <1>3 DEF CallDestroy
<1>4. ASSUME NEW c \in Callers, CallWaitReady(c) PROVE Safety'
  BY <1>4 DEF CallWaitReady
<1>5. ASSUME NEW c \in Callers, CallApprove(c) PROVE Safety'
  BY <1>5 DEF CallApprove
<1>6. ASSUME NEW c \in Callers, CallAuthorize(c) PROVE Safety'
  BY <1>6 DEF CallAuthorize
<1>7. ASSUME NEW c \in Callers, StartLock(c) PROVE Safety'
  BY <1>7 DEF StartLock
<1>8. ASSUME NEW c \in Callers, StartCheck(c) PROVE Safety'
  BY <1>8 DEF StartCheck
<1>9. ASSUME NEW c \in Callers, StartSpawn(c) PROVE Safety'
  BY <1>9 DEF StartSpawn
<1>10. ASSUME NEW c \in Callers, StopLock(c) PROVE Safety'
  BY <1>10 DEF StopLock
<1>11. ASSUME NEW c \in Callers, StopRead(c) PROVE Safety'
  BY <1>11 DEF StopRead
<1>12. ASSUME NEW c \in Callers, StopIdle(c) PROVE Safety'
  BY <1>12 DEF StopIdle
<1>13. ASSUME NEW c \in Callers, StopStopping(c) PROVE Safety'
  BY <1>13 DEF StopStopping
<1>14. ASSUME NEW c \in Callers, StopStore(c) PROVE Safety'
  BY <1>14 DEF StopStore
<1>15. ASSUME NEW c \in Callers, StopNotify(c) PROVE Safety'
  BY <1>15 DEF StopNotify
<1>16. ASSUME NEW c \in Callers, StopJoin(c) PROVE Safety'
  BY <1>16 DEF StopJoin
<1>17. ASSUME NEW c \in Callers, StopPanic(c) PROVE Safety'
  BY <1>17 DEF StopPanic
<1>18. ASSUME NEW c \in Callers, StopFinal(c) PROVE Safety'
  BY <1>18 DEF StopFinal
<1>19. ASSUME NEW c \in Callers, StopUnlock(c) PROVE Safety'
  BY <1>19 DEF StopUnlock
<1>20. ASSUME NEW c \in Callers, WaitWake(c) PROVE Safety'
  BY <1>20 DEF WaitWake
<1>21. ASSUME NEW c \in Callers, WaitTimeout(c) PROVE Safety'
  BY <1>21 DEF WaitTimeout
<1>22. ASSUME NEW c \in Callers, ApproveCheck(c) PROVE Safety'
  BY <1>22 DEF ApproveCheck
<1>23. ASSUME NEW c \in Callers, ApproveSwap(c) PROVE Safety'
  BY <1>23 DEF ApproveSwap
<1>24. ASSUME NEW c \in Callers, ApproveNotify(c) PROVE Safety'
  BY <1>24 DEF ApproveNotify
<1>25. ASSUME NEW c \in Callers, AuthorizeCheck(c) PROVE Safety'
  BY <1>25 DEF AuthorizeCheck
<1>26. ASSUME NEW c \in Callers, AuthorizeSwap(c) PROVE Safety'
  BY <1>26 DEF AuthorizeSwap
<1>27. ASSUME NEW c \in Callers, AuthorizeNotify(c) PROVE Safety'
  BY <1>27 DEF AuthorizeNotify
<1>28. CASE WorkerBuild
  BY <1>28 DEF WorkerBuild
<1>29. CASE WatchRegister
  BY <1>29 DEF WatchRegister
<1>30. CASE WatchCheck
  BY <1>30 DEF WatchCheck
<1>31. CASE WorkerLoad
  BY <1>31 DEF WorkerLoad, Polled
<1>32. CASE WorkerBind
  BY <1>32 DEF WorkerBind
<1>33. CASE WorkerConnect
  BY <1>33 DEF WorkerConnect, Polled
<1>34. CASE WorkerConnected
  BY <1>34 DEF WorkerConnected, Advertise, Polled
<1>35. CASE ValidateTest
  BY <1>35 DEF ValidateTest, Polled
<1>36. CASE ValidateArm
  BY <1>36 DEF ValidateArm, Polled
<1>37. CASE ValidateWake
  BY <1>37 DEF ValidateWake, Polled
<1>38. CASE WorkerValidated
  BY <1>38 DEF WorkerValidated, Advertise, Polled
<1>39. CASE SetupTest
  BY <1>39 DEF SetupTest, Polled
<1>40. CASE SetupArm
  BY <1>40 DEF SetupArm, Polled
<1>41. CASE SetupWake
  BY <1>41 DEF SetupWake, Polled
<1>42. CASE WorkerPromote
  BY <1>42 DEF WorkerPromote, Polled
<1>43. CASE EstablishFails
  BY <1>43 DEF EstablishFails, Polled
<1>44. CASE ConnectionEnds
  BY <1>44 DEF ConnectionEnds, Polled
<1>45. CASE WorkerPanic
  BY <1>45 DEF WorkerPanic, Polled
<1>46. CASE WorkerDrain
  BY <1>46 DEF WorkerDrain
<1>47. CASE FinishCheck
  BY <1>47 DEF FinishCheck
<1>48. CASE FinishStop
  BY <1>48 DEF FinishStop
<1>49. CASE FinishStopped
  BY <1>49 DEF FinishStopped
<1>50. CASE FinishFailed
  BY <1>50 DEF FinishFailed
<1>51. CASE UNCHANGED vars
  BY <1>51 DEF vars
<1> QED
  BY <1>1, <1>2, <1>3, <1>4, <1>5, <1>6, <1>7, <1>8, <1>9, <1>10, <1>11,
     <1>12, <1>13, <1>14, <1>15, <1>16, <1>17, <1>18, <1>19, <1>20, <1>21,
     <1>22, <1>23, <1>24, <1>25, <1>26, <1>27, <1>28, <1>29, <1>30, <1>31,
     <1>32, <1>33, <1>34, <1>35, <1>36, <1>37, <1>38, <1>39, <1>40, <1>41,
     <1>42, <1>43, <1>44, <1>45, <1>46, <1>47, <1>48, <1>49, <1>50, <1>51
  DEF Next, WorkerStep, Call, CallerStep, Destroyed

\* The types and the inductive invariant hold in every reachable state.
THEOREM Invariance == Spec => []Inv
<1>1. Init => Inv
  BY DEF Init, Inv, TypeOK, MutexInv, SlotInv, StopInv, EndInv, PathInv, DecisionInv,
         DestroyInv, ReadyInv, StoppedOnlyByLocalStop, Advertised, Validates, Holding,
         StartPoints, StopPoints, CallerPoints, States, Errors, Terminal, Exited, WatchPoints,
         WorkerPoints, Cancellable, Operating, Validating, SettingUp
<1> QED
  BY <1>1, InvStep, PTL DEF Spec

\* stop and destroy return with a final state published and no worker thread left.
THEOREM Quiescence == Spec => []StopReturnsQuiescent
<1>1. Inv => StopReturnsQuiescent
  BY DEF Inv, StopReturnsQuiescent, TypeOK, SlotInv, StopInv
<1> QED
  BY <1>1, Invariance, PTL

\* Every step of the threads is a step of the contract or leaves what it shows alone.
LEMMA ContractStep == Inv /\ Inv' /\ [Next]_vars => [Contract!Next]_(Contract!vars)
<1> SUFFICES ASSUME Inv, Inv', [Next]_vars PROVE [Contract!Next]_(Contract!vars)
  OBVIOUS
<1> USE DEF Inv, TypeOK, Configs, Terminal, status, notifies, shared, worker, callers, SetState,
            Settable, Fail, Contract!vars
\* Locks, lookups, wakeups and the worker's internal progress.
<1>1. ASSUME NEW c \in Callers,
             \/ Call(c) \/ StartLock(c) \/ StopLock(c) \/ StopRead(c) \/ StopStore(c)
             \/ StopNotify(c) \/ StopJoin(c) \/ StopUnlock(c) \/ WaitWake(c) \/ WaitTimeout(c)
             \/ ApproveCheck(c) \/ ApproveNotify(c) \/ AuthorizeCheck(c) \/ AuthorizeNotify(c)
      PROVE UNCHANGED Contract!vars
  BY <1>1 DEF Call, CallStart, CallStop, CallDestroy, CallWaitReady, CallApprove, CallAuthorize,
              StartLock, StopLock, StopRead, StopStore, StopNotify, StopJoin, StopUnlock,
              WaitWake, WaitTimeout, ApproveCheck, ApproveNotify, AuthorizeCheck, AuthorizeNotify
<1>2. ASSUME WatchRegister \/ WatchCheck \/ WorkerLoad \/ WorkerBind \/ WorkerConnect
             \/ ValidateTest \/ ValidateArm \/ ValidateWake \/ SetupTest \/ SetupArm \/ SetupWake
             \/ EstablishFails \/ ConnectionEnds \/ WorkerPanic \/ WorkerDrain
             \/ FinishCheck \/ FinishStop
      PROVE UNCHANGED Contract!vars
  BY <1>2 DEF WatchRegister, WatchCheck, WorkerLoad, WorkerBind, WorkerConnect, ValidateTest,
              ValidateArm, ValidateWake, SetupTest, SetupArm, SetupWake, EstablishFails,
              ConnectionEnds, WorkerPanic, WorkerDrain, FinishCheck, FinishStop
<1>3. ASSUME NEW c \in Callers, StartCheck(c) PROVE Contract!Start \/ UNCHANGED Contract!vars
  BY <1>3 DEF StartCheck, Contract!Start, Contract!Move
<1>4. ASSUME NEW c \in Callers, StartSpawn(c) PROVE Contract!Fail \/ UNCHANGED Contract!vars
  BY <1>4 DEF StartSpawn, Contract!Fail, Contract!Active, Contract!Causes, StopInv
<1>5. ASSUME NEW c \in Callers, StopIdle(c) PROVE Contract!Stop
  BY <1>5 DEF StopIdle, StopInv, Contract!Stop, Contract!Move
<1>6. ASSUME NEW c \in Callers, StopStopping(c) PROVE Contract!Stop \/ UNCHANGED Contract!vars
  BY <1>6 DEF StopStopping, Contract!Stop, Contract!Move, Contract!Active, States, StopInv
<1>7. ASSUME NEW c \in Callers, StopPanic(c) PROVE Contract!Fail
  BY <1>7 DEF StopPanic, Contract!Fail, Contract!Active, Contract!Causes, States, StopInv, SlotInv
<1>8. ASSUME NEW c \in Callers, StopFinal(c) PROVE Contract!Stop \/ UNCHANGED Contract!vars
  BY <1>8 DEF StopFinal, Contract!Stop, Contract!Move, StopInv, EndInv
<1>9. ASSUME NEW c \in Callers, ApproveSwap(c) PROVE Contract!Approve \/ UNCHANGED Contract!vars
  BY <1>9 DEF ApproveSwap, Contract!Approve, DecisionInv
<1>10. ASSUME NEW c \in Callers, AuthorizeSwap(c) PROVE Contract!Authorize \/ UNCHANGED Contract!vars
  BY <1>10 DEF AuthorizeSwap, Contract!Authorize, Contract!Validates, DecisionInv, Validates
<1>11. ASSUME WorkerBuild PROVE Contract!Fail \/ UNCHANGED Contract!vars
  BY <1>11 DEF WorkerBuild, Contract!Fail, Contract!Active, Contract!Causes, PathInv, Advertised
<1>12. ASSUME WorkerConnected
       PROVE Contract!Validate \/ Contract!Setup \/ Contract!Open \/ UNCHANGED Contract!vars
  BY <1>12 DEF WorkerConnected, Advertise, Polled, PathInv, Advertised, Contract!Validate,
               Contract!Setup, Contract!Open, Contract!Move, Contract!Validates
<1>13. ASSUME WorkerValidated PROVE Contract!Setup \/ Contract!Open \/ UNCHANGED Contract!vars
  BY <1>13 DEF WorkerValidated, Advertise, Polled, PathInv, Advertised, Validating,
               Contract!Setup, Contract!Open, Contract!Move
<1>14. ASSUME WorkerPromote PROVE Contract!Open \/ UNCHANGED Contract!vars
  BY <1>14 DEF WorkerPromote, Polled, PathInv, Advertised, SettingUp, Contract!Open, Contract!Move
<1>15. ASSUME FinishStopped PROVE Contract!Stop \/ UNCHANGED Contract!vars
  BY <1>15 DEF FinishStopped, EndInv, Contract!Stop, Contract!Move
<1>16. ASSUME FinishFailed PROVE Contract!Fail
  BY <1>16 DEF FinishFailed, EndInv, SlotInv, Exited, States, Contract!Fail, Contract!Active,
               Contract!Causes
<1>17. CASE UNCHANGED vars
  BY <1>17 DEF vars
<1> QED
  BY <1>1, <1>2, <1>3, <1>4, <1>5, <1>6, <1>7, <1>8, <1>9, <1>10, <1>11, <1>12, <1>13, <1>14,
     <1>15, <1>16, <1>17
  DEF Next, WorkerStep, CallerStep, Destroyed, Contract!Next

\* The threads of native_ffi.rs implement the contract of the header.
THEOREM Refinement == Spec => RefinesContract
<1>1. Init => Contract!Init
  BY DEF Init, Contract!Init, Configs
<1> QED
  BY <1>1, ContractStep, Invariance, PTL DEF Spec, RefinesContract, Contract!Spec

\* Nothing revives a stopping, stopped or failed endpoint or replaces its error.
THEOREM NeverRevived == Spec => NoRevival
<1>1. Inv /\ Inv' /\ [Next]_vars =>
        [/\ state \in Terminal => state' = state /\ error' = error
         /\ state = "Stopping" => state' \in {"Stopping"} \cup Terminal]_vars
  <2> SUFFICES ASSUME Inv, Inv', [Next]_vars, [Contract!Next]_(Contract!vars)
               PROVE  /\ state \in Terminal => state' = state /\ error' = error
                      /\ state = "Stopping" => state' \in {"Stopping"} \cup Terminal
    BY ContractStep
  <2> QED
    BY DEF Inv, Terminal, Contract!Next, Contract!vars, Contract!Start, Contract!Validate,
           Contract!Setup, Contract!Open, Contract!Stop, Contract!Fail, Contract!Approve,
           Contract!Authorize, Contract!Move, Contract!Active
<1> QED
  BY <1>1, Invariance, PTL DEF Spec, NoRevival

=============================================================================
