------------------------ MODULE SchedulerLock_proofs -------------------------
(***************************************************************************)
(* Theorems about the scheduler lock, for any number of processes and any  *)
(* values of the timing constants that satisfy the stated inequalities;    *)
(* and, in a second part, about WorkItemOrder, which shares no state.      *)
(***************************************************************************)
EXTENDS SchedulerLock, WorkItemOrder, TLAPS

\* acquireWithRetry has an attempt left whenever it is about to make one.
TriesLeft ==
  /\ \A p \in Procs : ph[p] = "idle" => tries[p] = 0
  /\ \A p \in Procs : ph[p] = "acquire" => tries[p] < MaxTries

\* The types of the constants, as the provers use them.
LEMMA ConstantTypes ==
  /\ NoProc \notin Procs
  /\ Renew \in Nat /\ Duration \in Nat /\ Liveness \in Nat /\ ErrorMax \in Nat
  /\ Retry \in Nat /\ VerifyWait \in Nat /\ ExpiryBuffer \in Nat
  /\ MaxTries \in Nat /\ MaxLate \in Nat /\ MaxClock \in Nat
  /\ 0 < Renew /\ 0 < MaxTries
  /\ Renew < Liveness /\ Liveness < Duration /\ ErrorMax < Duration
  /\ RenewalErrors \in BOOLEAN
BY LockConstants

\* What the three outcomes of a renewal leave in the row and the timer.
LEMMA RenewalTypes ==
  ASSUME TypeOK, NEW p \in Procs, Renewed(p) \/ RenewalError(p)
  PROVE  /\ row' \in [owner : Procs \cup {NoProc}, beat : 0..MaxClock, exp : Nat]
         /\ lastRenewed' \in [Procs -> 0..MaxClock]
         /\ due' \in [Procs -> Nat]
         /\ renewing' \in [Procs -> BOOLEAN]
<1>1. CASE Renewed(p)
  BY <1>1, ConstantTypes DEF Renewed, RowOf, TypeOK
<1>2. CASE RenewalError(p)
  BY <1>2, ConstantTypes DEF RenewalError, TypeOK
<1> QED
  BY <1>1, <1>2

\* Every variable keeps its type and acquireWithRetry never exceeds its
\* attempts: the invariant TypeOK of the runs, for any constants.
THEOREM TypeCorrect == Spec => []TypeOK
<1> DEFINE IInv == TypeOK /\ TriesLeft
<1>1. Init => IInv
  BY ConstantTypes DEF Init, TypeOK, TriesLeft, NoRow, Phases, MaintStates
<1>2. ASSUME IInv, [Next]_vars PROVE IInv'
  <2> USE ConstantTypes DEF TypeOK, TriesLeft, Goto, lockVars, timerVars, jobVars,
        Phases, LockPhases, BootPhases, LoopPhases, EndPhases, MaintStates
  <2>1. CASE UNCHANGED vars
    BY <1>2, <2>1 DEF vars
  <2>2. CASE tick
    BY <1>2, <2>2 DEF tick
  <2>3. ASSUME NEW p \in Procs, start(p) PROVE IInv'
    BY <1>2, <2>3 DEF start
  <2>4. ASSUME NEW p \in Procs, acquire(p) PROVE IInv'
    BY <1>2, <2>4 DEF acquire, TakeRow, RowOf
  <2>5. ASSUME NEW p \in Procs, inspect(p) PROVE IInv'
    BY <1>2, <2>5 DEF inspect
  <2>6. ASSUME NEW p \in Procs, contend(p) PROVE IInv'
    BY <1>2, <2>6 DEF contend, Refuse
  <2>7. ASSUME NEW p \in Procs, steal(p) PROVE IInv'
    BY <1>2, <2>7 DEF steal, TakeRow, RowOf, Refuse
  <2>8. ASSUME NEW p \in Procs, waitExpiry(p) PROVE IInv'
    BY <1>2, <2>8 DEF waitExpiry, TakeRow, RowOf, Refuse
  <2>9. ASSUME NEW p \in Procs, verify(p) PROVE IInv'
    BY <1>2, <2>9 DEF verify, TakeRow, RowOf
  <2>10. ASSUME NEW p \in Procs, recheck(p) PROVE IInv'
    BY <1>2, <2>10 DEF recheck
  <2>11. ASSUME NEW p \in Procs, reacquire(p) PROVE IInv'
    BY <1>2, <2>11 DEF reacquire, TakeRow, RowOf, Refuse
  <2>12. ASSUME NEW p \in Procs, stopWait(p) PROVE IInv'
    BY <1>2, <2>12 DEF stopWait
  <2>13. ASSUME NEW p \in Procs, startRenewal(p) PROVE IInv'
    <3>1. CASE Renewed(p) \/ RenewalError(p)
      <4>1. /\ running' \in [Procs -> BOOLEAN] /\ ph' \in [Procs -> Phases]
            /\ maint' \in [Procs -> MaintStates]
        BY <1>2, <2>13 DEF startRenewal, Refuse
      <4>2. TypeOK'
        BY <1>2, <2>13, <3>1, <4>1, RenewalTypes DEF startRenewal, Refuse
      <4>3. TriesLeft'
        BY <1>2, <2>13 DEF startRenewal, Refuse
      <4> QED
        BY <4>2, <4>3
    <3>2. CASE Refuse(p)
      BY <1>2, <2>13, <3>2 DEF startRenewal, Refuse
    <3> QED
      BY <2>13, <3>1, <3>2 DEF startRenewal
  <2>14. ASSUME NEW p \in Procs, preflight(p) PROVE IInv'
    BY <1>2, <2>14 DEF preflight
  <2>15. ASSUME NEW p \in Procs, recoverOrphans(p) PROVE IInv'
    BY <1>2, <2>15 DEF recoverOrphans
  <2>16. ASSUME NEW p \in Procs, bootDone(p) PROVE IInv'
    BY <1>2, <2>16 DEF bootDone
  <2>17. ASSUME NEW p \in Procs, bootFail(p) PROVE IInv'
    BY <1>2, <2>17 DEF bootFail, Stopped, RemovedBy, NoRow
  <2>18. ASSUME NEW p \in Procs, renewTick(p) PROVE IInv'
    <3>1. CASE Renewed(p) \/ RenewalError(p)
      BY <1>2, <2>18, <3>1, RenewalTypes DEF renewTick, StopForLoss
    <3>2. CASE StopForLoss(p)
      BY <1>2, <2>18, <3>2 DEF renewTick, StopForLoss
    <3> QED
      BY <2>18, <3>1, <3>2 DEF renewTick
  <2>19. ASSUME NEW p \in Procs, canDispatch(p) PROVE IInv'
    <3>1. CASE RenewExpired(p)
      BY <1>2, <2>19, <3>1, RenewalTypes DEF canDispatch, RenewExpired, StopForLoss
    <3>2. CASE ~RenewExpired(p)
      BY <1>2, <2>19, <3>2 DEF canDispatch, StopForLoss
    <3> QED
      BY <3>1, <3>2
  <2>20. ASSUME NEW p \in Procs, dispatch(p) PROVE IInv'
    BY <1>2, <2>20 DEF dispatch
  <2>21. ASSUME NEW p \in Procs, startWorker(p) PROVE IInv'
    <3>1. CASE RenewExpired(p)
      BY <1>2, <2>21, <3>1, RenewalTypes DEF startWorker, RenewExpired, ReturnedBy
    <3>2. CASE ~RenewExpired(p)
      BY <1>2, <2>21, <3>2 DEF startWorker, ReturnedBy
    <3> QED
      BY <3>1, <3>2
  <2>22. ASSUME NEW p \in Procs, workerStop(p) PROVE IInv'
    BY <1>2, <2>22 DEF workerStop, ReturnedBy
  <2>23. ASSUME NEW p \in Procs, requestStop(p) PROVE IInv'
    BY <1>2, <2>23 DEF requestStop
  <2>24. ASSUME NEW p \in Procs, stop(p) PROVE IInv'
    BY <1>2, <2>24 DEF stop, Stopped, RemovedBy, NoRow
  <2>25. ASSUME NEW p \in Procs, forcedExit(p) PROVE IInv'
    BY <1>2, <2>25 DEF forcedExit, Stopped, RemovedBy, NoRow, ReturnedBy
  <2>26. ASSUME NEW p \in Procs, crash(p) PROVE IInv'
    BY <1>2, <2>26 DEF crash
  <2> QED
    BY <1>2, <2>1, <2>2, <2>3, <2>4, <2>5, <2>6, <2>7, <2>8, <2>9, <2>10,
       <2>11, <2>12, <2>13, <2>14, <2>15, <2>16, <2>17, <2>18, <2>19, <2>20,
       <2>21, <2>22, <2>23, <2>24, <2>25, <2>26
       DEF Next, bootStep, loopStep
<1> QED
  BY <1>1, <1>2, PTL DEF Spec

-----------------------------------------------------------------------------
(* What a step may do to the row and to the renewal timers.                *)

TakesRow(p) == TakeRow(p) /\ (CanAcquire \/ CanForce(p))

LeavesRow(p) ==
  /\ \/ row' = row /\ renewing' = renewing
     \/ /\ row' \in {row, RemovedBy(p)}
        /\ renewing' = [renewing EXCEPT ![p] = FALSE]
  /\ lastRenewed' = lastRenewed
  /\ due' = due

LEMMA RowSteps ==
  ASSUME NEW p \in Procs, bootStep(p) \/ loopStep(p)
  PROVE  /\ clock' = clock
         /\ TakesRow(p) \/ Renewed(p) \/ RenewalError(p) \/ LeavesRow(p)
<1> USE DEF lockVars, timerVars, jobVars
<1>1. CASE start(p) \/ inspect(p) \/ recheck(p) \/ stopWait(p) \/ preflight(p)
           \/ recoverOrphans(p) \/ bootDone(p)
  BY <1>1 DEF start, inspect, recheck, stopWait, preflight, recoverOrphans,
     bootDone, LeavesRow
<1>2. CASE acquire(p) \/ verify(p)
  BY <1>2 DEF acquire, verify, TakesRow, TakeRow, LeavesRow
<1>3. CASE steal(p) \/ waitExpiry(p) \/ reacquire(p)
  BY <1>3 DEF steal, waitExpiry, reacquire, Refuse, TakesRow, TakeRow, LeavesRow
<1>4. CASE contend(p)
  BY <1>4 DEF contend, Refuse, LeavesRow
<1>5. CASE startRenewal(p)
  BY <1>5 DEF startRenewal, Refuse, LeavesRow
<1>6. CASE bootFail(p) \/ stop(p) \/ forcedExit(p)
  BY <1>6 DEF bootFail, stop, forcedExit, Stopped, LeavesRow
<1>7. CASE renewTick(p)
  BY <1>7 DEF renewTick, StopForLoss, LeavesRow
<1>8. CASE canDispatch(p)
  BY <1>8 DEF canDispatch, RenewExpired, StopForLoss, LeavesRow
<1>9. CASE startWorker(p)
  BY <1>9 DEF startWorker, RenewExpired, LeavesRow
<1>10. CASE dispatch(p) \/ workerStop(p) \/ requestStop(p) \/ crash(p)
  BY <1>10 DEF dispatch, workerStop, requestStop, crash, LeavesRow
<1> QED
  BY <1>1, <1>2, <1>3, <1>4, <1>5, <1>6, <1>7, <1>8, <1>9, <1>10
     DEF bootStep, loopStep

\* The row says when its owner last renewed, and for how long.
RowShape ==
  /\ row.owner # NoProc => row.exp = row.beat + Duration
  /\ \A p \in Procs : row.owner = p => row.beat = lastRenewed[p]
  /\ \A p \in Procs : lastRenewed[p] <= clock

\* No armed timer is overdue by more than MaxLate, and none is armed past the
\* moment when errors would concede the lock.
TimerShape ==
  \A p \in Procs : renewing[p] =>
    /\ clock <= due[p] + MaxLate
    /\ \/ due[p] <= lastRenewed[p] + Renew
       \/ due[p] < lastRenewed[p] + ErrorMax + Retry

LEMMA TimingStep ==
  ASSUME TypeOK, RowShape, TimerShape, [Next]_vars
  PROVE  RowShape' /\ TimerShape'
<1> USE ConstantTypes DEF TypeOK, RowShape, TimerShape
<1>1. CASE UNCHANGED vars
  BY <1>1 DEF vars
<1>2. CASE tick
  BY <1>2 DEF tick, timerVars
<1>3. ASSUME NEW p \in Procs, bootStep(p) \/ loopStep(p)
      PROVE  RowShape' /\ TimerShape'
  <2>1. clock' = clock
    BY <1>3, RowSteps
  <2>2. CASE TakesRow(p)
    BY <2>1, <2>2 DEF TakesRow, TakeRow, RowOf
  <2>3. CASE Renewed(p)
    BY <2>1, <2>3 DEF Renewed, RowOf
  <2>4. CASE RenewalError(p)
    BY <2>1, <2>4 DEF RenewalError
  <2>5. CASE LeavesRow(p)
    BY <2>1, <2>5 DEF LeavesRow, RemovedBy, NoRow
  <2> QED
    BY <1>3, <2>2, <2>3, <2>4, <2>5, RowSteps
<1> QED
  BY <1>1, <1>2, <1>3 DEF Next

LEMMA TimingInvariant == Spec => [](TypeOK /\ RowShape /\ TimerShape)
<1>1. Init => RowShape /\ TimerShape
  BY ConstantTypes DEF Init, NoRow, RowShape, TimerShape
<1>2. TypeOK /\ RowShape /\ TimerShape /\ [Next]_vars => RowShape' /\ TimerShape'
  BY TimingStep
<1> QED
  BY <1>1, <1>2, TypeCorrect, PTL DEF Spec

\* The event loop is prompt enough for the error path: the last retry before the
\* concession is served before the row expires.
Prompt ==
  /\ ErrorMax + Retry + MaxLate <= Duration + 1
  /\ Renew + MaxLate <= Duration

\* With a prompt event loop, and any pattern of renewal errors, a process that
\* has not conceded the lock never lets its row expire: a booting process
\* cannot plain-acquire it beside a scheduler that still runs.
THEOREM ConcedesBeforeExpiry ==
  ASSUME Prompt
  PROVE  Spec => []RowOutlivesRenewal
<1>1. TypeOK /\ RowShape /\ TimerShape => RowOutlivesRenewal
  BY ConstantTypes DEF Prompt, TypeOK, RowShape, TimerShape, RowOutlivesRenewal
<1> QED
  BY <1>1, TimingInvariant, PTL

-----------------------------------------------------------------------------
(* The timely case: renewals do not fail, and no timer is served so late    *)
(* that the heartbeat could look stale.                                     *)

Timely == ~RenewalErrors /\ Renew + MaxLate < Liveness

RenewingPhases == (BootPhases \ {"got"}) \cup LoopPhases

\* The strengthening: exactly the processes past the lock phase renew, whoever
\* renews owns the row and armed its timer when it last renewed, and a worker
\* only runs inside the run loop.
HolderShape ==
  /\ \A p \in Procs : renewing[p] <=> ph[p] \in RenewingPhases
  /\ \A p \in Procs : renewing[p] =>
       row.owner = p /\ due[p] = lastRenewed[p] + Renew
  /\ \A p \in Procs : working[p] => ph[p] \in LoopPhases

\* A renewing holder's row can be neither acquired nor stolen.
LEMMA HolderIsFresh ==
  ASSUME Timely, TypeOK, RowShape, TimerShape, HolderShape,
         NEW p \in Procs, NEW q \in Procs, renewing[p], p # q
  PROVE  ~CanAcquire /\ ~CanForce(q)
<1>1. /\ row.owner = p
      /\ clock <= row.beat + Renew + MaxLate
      /\ row.exp = row.beat + Duration
  BY ConstantTypes DEF TypeOK, RowShape, TimerShape, HolderShape
<1>2. row.beat \in Nat /\ clock \in Nat
  BY ConstantTypes DEF TypeOK
<1> QED
  BY <1>1, <1>2, ConstantTypes DEF Timely, CanAcquire, CanForce, Present

\* While somebody renews, nobody else changes the row.
LEMMA OthersLeaveRow ==
  ASSUME Timely, TypeOK, RowShape, TimerShape, HolderShape, [Next]_vars,
         NEW p \in Procs, renewing[p], renewing'[p]
  PROVE  row'.owner = p
<1> USE DEF HolderShape
<1>1. CASE UNCHANGED vars \/ tick
  BY <1>1 DEF vars, tick, timerVars
<1>2. ASSUME NEW q \in Procs, bootStep(q) \/ loopStep(q) PROVE row'.owner = p
  <2>1. CASE TakesRow(q)
    <3>1. q = p
      BY <2>1, HolderIsFresh DEF TakesRow
    <3> QED
      BY <2>1, <3>1 DEF TakesRow, TakeRow, RowOf
  <2>2. CASE Renewed(q)
    BY <2>2 DEF Renewed, RowOf
  <2>3. CASE RenewalError(q)
    BY <2>3 DEF RenewalError
  <2>4. CASE LeavesRow(q)
    <3>1. CASE q = p
      BY <2>4, <3>1 DEF LeavesRow, TypeOK
    <3>2. CASE q # p
      BY <2>4, <3>2 DEF LeavesRow, RemovedBy
    <3> QED
      BY <3>1, <3>2
  <2> QED
    BY <1>2, <2>1, <2>2, <2>3, <2>4, RowSteps
<1> QED
  BY <1>1, <1>2 DEF Next

LEMMA HolderStep ==
  ASSUME Timely, TypeOK, RowShape, TimerShape, HolderShape, [Next]_vars
  PROVE  HolderShape'
<1> USE ConstantTypes DEF TypeOK, Goto, lockVars, timerVars, jobVars, Phases,
      LockPhases, BootPhases, LoopPhases, EndPhases, RenewingPhases
<1>0. ~RenewalErrors
  BY DEF Timely
<1>1. CASE UNCHANGED vars \/ tick
  BY <1>1 DEF vars, tick, HolderShape
<1>2. ASSUME NEW p \in Procs, bootStep(p) \/ loopStep(p) PROVE HolderShape'
  <2>1. /\ \A q \in Procs : renewing'[q] <=> ph'[q] \in RenewingPhases
        /\ \A q \in Procs : working'[q] => ph'[q] \in LoopPhases
    <3> USE DEF HolderShape
    <3>1. CASE start(p) \/ inspect(p) \/ contend(p) \/ recheck(p) \/ stopWait(p)
      BY <3>1 DEF start, inspect, contend, recheck, stopWait, Refuse
    <3>2. CASE acquire(p) \/ steal(p) \/ waitExpiry(p) \/ verify(p) \/ reacquire(p)
      BY <3>2 DEF acquire, steal, waitExpiry, verify, reacquire, TakeRow, Refuse
    <3>3. CASE startRenewal(p)
      BY <1>0, <3>3 DEF startRenewal, Renewed, RenewalError, Refuse
    <3>4. CASE preflight(p) \/ recoverOrphans(p) \/ bootDone(p)
      BY <3>4 DEF preflight, recoverOrphans, bootDone
    <3>5. CASE bootFail(p) \/ stop(p)
      BY <3>5 DEF bootFail, stop, Stopped
    <3>6. CASE renewTick(p)
      BY <1>0, <3>6 DEF renewTick, Renewed, RenewalError, RenewalConceded
    <3>7. CASE canDispatch(p)
      BY <1>0, <3>7 DEF canDispatch, RenewExpired, Renewed, LostAuthority
    <3>8. CASE startWorker(p)
      BY <1>0, <3>8 DEF startWorker, RenewExpired, Renewed, LostAuthority
    <3>9. CASE dispatch(p) \/ workerStop(p) \/ requestStop(p)
      BY <3>9 DEF dispatch, workerStop, requestStop
    <3>10. CASE forcedExit(p) \/ crash(p)
      BY <3>10 DEF forcedExit, crash, Stopped
    <3> QED
      BY <1>2, <3>1, <3>2, <3>3, <3>4, <3>5, <3>6, <3>7, <3>8, <3>9, <3>10
         DEF bootStep, loopStep
  <2>2. ASSUME NEW q \in Procs, renewing'[q]
        PROVE  row'.owner = q /\ due'[q] = lastRenewed'[q] + Renew
    <3>1. CASE Renewed(p)
      BY <2>2, <3>1 DEF Renewed, RowOf, HolderShape
    <3>2. CASE TakesRow(p)
      <4>1. q # p /\ renewing[q]
        BY <2>1, <2>2, <3>2 DEF TakesRow, TakeRow
      <4>2. row'.owner = q
        BY <2>2, <4>1, OthersLeaveRow
      <4> QED
        BY <3>2, <4>1, <4>2 DEF TakesRow, TakeRow, HolderShape
    <3>3. CASE LeavesRow(p)
      <4>1. renewing[q]
        BY <2>2, <3>3 DEF LeavesRow
      <4>2. row'.owner = q
        BY <2>2, <4>1, OthersLeaveRow
      <4> QED
        BY <3>3, <4>1, <4>2 DEF LeavesRow, HolderShape
    <3> QED
      BY <1>0, <1>2, <3>1, <3>2, <3>3, RowSteps DEF RenewalError
  <2> QED
    BY <2>1, <2>2 DEF HolderShape
<1> QED
  BY <1>1, <1>2 DEF Next

\* A process past the lock phase only goes on or ends.
LEMMA PhaseOrder ==
  ASSUME TypeOK, [Next]_vars, NEW p \in Procs, ph[p] \in RenewingPhases
  PROVE  ph'[p] \in RenewingPhases \cup EndPhases
<1> USE DEF TypeOK, Goto, Phases, LockPhases, BootPhases, LoopPhases, EndPhases,
      RenewingPhases
<1>1. CASE UNCHANGED vars \/ tick
  BY <1>1 DEF vars, tick
<1>2. ASSUME NEW q \in Procs, bootStep(q)
      PROVE  ph'[p] \in RenewingPhases \cup EndPhases
  BY <1>2 DEF bootStep, start, acquire, inspect, contend, steal, waitExpiry,
     verify, recheck, reacquire, stopWait, startRenewal, preflight,
     recoverOrphans, bootDone, bootFail, TakeRow, Refuse
<1>3. ASSUME NEW q \in Procs, loopStep(q)
      PROVE  ph'[p] \in RenewingPhases \cup EndPhases
  BY <1>3 DEF loopStep, renewTick, canDispatch, dispatch, startWorker,
     workerStop, requestStop, stop, forcedExit, crash
<1> QED
  BY <1>1, <1>2, <1>3 DEF Next

LEMMA HolderInvariant ==
  ASSUME Timely
  PROVE  Spec => [](TypeOK /\ RowShape /\ TimerShape /\ HolderShape)
<1>1. Init => HolderShape
  BY DEF Init, HolderShape, RenewingPhases, BootPhases, LoopPhases
<1>2. TypeOK /\ RowShape /\ TimerShape /\ HolderShape /\ [Next]_vars => HolderShape'
  BY HolderStep
<1> QED
  BY <1>1, <1>2, TimingInvariant, PTL DEF Spec

\* With timely renewals the lock leaves its holder only when the holder ends: no
\* boot, whatever it waited for and however its reads were interleaved, acquires
\* or steals the row of a scheduler that renews it.
THEOREM TimelyHolderKeepsLock ==
  ASSUME Timely
  PROVE  Spec => LiveHolderKeepsLock
<1> DEFINE Kept == \A p \in Procs : renewing[p] /\ row.owner = p /\ row'.owner # p
                     => ph'[p] \in EndPhases
<1>1. /\ TypeOK /\ RowShape /\ TimerShape /\ HolderShape
      /\ TypeOK' /\ HolderShape' /\ [Next]_vars
      => [Kept]_vars
  <2> SUFFICES ASSUME TypeOK, RowShape, TimerShape, HolderShape, TypeOK',
                      HolderShape', [Next]_vars,
                      NEW p \in Procs, renewing[p], row'.owner # p
               PROVE  ph'[p] \in EndPhases
    OBVIOUS
  <2>1. ~renewing'[p]
    BY OthersLeaveRow
  <2>2. ph'[p] \notin RenewingPhases /\ ph[p] \in RenewingPhases
    BY <2>1 DEF HolderShape
  <2> QED
    BY <2>2, PhaseOrder
<1> QED
  BY <1>1, HolderInvariant, PTL DEF Spec, LiveHolderKeepsLock

\* With timely renewals two workers never execute at once: a worker implies the
\* run loop, the run loop implies an armed renewal, and that implies the row.
THEOREM TimelyNoDuplicateExecution ==
  ASSUME Timely
  PROVE  Spec => []NoDuplicateExecution
<1>1. HolderShape => NoDuplicateExecution
  BY DEF HolderShape, NoDuplicateExecution, RenewingPhases
<1> QED
  BY <1>1, HolderInvariant, PTL

\* A process that dispatched the job owns its lease until it gives it back, and
\* its maintenance thread has finished.
LeaseShape ==
  /\ \A p \in Procs : ph[p] \in LoopPhases => maint[p] = "done"
  /\ \A p \in Procs : working[p] => lease = p /\ ph[p] # "leased"
  /\ \A p \in Procs : ph[p] = "leased" => lease = p

\* The force-requeue of the new holder meets no lease in use.
LEMMA RecoveryMeetsNoWorker ==
  ASSUME TypeOK, HolderShape, LeaseShape, NEW p \in Procs, NEW q \in Procs,
         recoverOrphans(q), working[p] \/ ph[p] = "leased"
  PROVE  lease' = lease
<1>1. row.owner = p /\ ph[p] \in LoopPhases
  BY DEF HolderShape, RenewingPhases, LoopPhases
<1>2. maint[p] = "done"
  BY <1>1 DEF LeaseShape
<1>3. ~OwnsLiveRow(q)
  BY <1>1, <1>2 DEF OwnsLiveRow, recoverOrphans
<1> QED
  BY <1>3 DEF recoverOrphans

LEMMA LeaseStep ==
  ASSUME Timely, TypeOK, HolderShape, LeaseShape, [Next]_vars
  PROVE  LeaseShape'
<1> USE ConstantTypes DEF TypeOK, Goto, lockVars, timerVars, jobVars, LeaseShape,
      LoopPhases
<1>1. CASE UNCHANGED vars \/ tick
  BY <1>1 DEF vars, tick
<1>2. ASSUME NEW p \in Procs, bootStep(p) PROVE LeaseShape'
  <2>1. CASE recoverOrphans(p)
    <3>1. working' = working /\ ph' = ph /\ maint' = [maint EXCEPT ![p] = "done"]
      BY <2>1 DEF recoverOrphans
    <3>2. ASSUME NEW q \in Procs, working[q] \/ ph[q] = "leased" PROVE lease' = lease
      BY <2>1, <3>2, RecoveryMeetsNoWorker
    <3> QED
      BY <3>1, <3>2
  <2>2. CASE bootStep(p) /\ ~recoverOrphans(p)
    BY <2>2 DEF bootStep, start, acquire, inspect, contend, steal, waitExpiry,
       verify, recheck, reacquire, stopWait, startRenewal, preflight, bootDone,
       bootFail, TakeRow, Refuse
  <2> QED
    BY <1>2, <2>1, <2>2
<1>3. ASSUME NEW p \in Procs, loopStep(p) PROVE LeaseShape'
  <2>1. CASE renewTick(p) \/ requestStop(p) \/ stop(p) \/ crash(p)
    BY <2>1 DEF renewTick, StopForLoss, requestStop, stop, crash
  <2>2. CASE canDispatch(p)
    BY <2>2 DEF canDispatch, StopForLoss
  <2>3. CASE dispatch(p)
    BY <2>3 DEF dispatch
  <2>4. CASE startWorker(p)
    BY <2>4 DEF startWorker, ReturnedBy
  <2>5. CASE workerStop(p) \/ forcedExit(p)
    BY <2>5 DEF workerStop, forcedExit, ReturnedBy
  <2> QED
    BY <1>3, <2>1, <2>2, <2>3, <2>4, <2>5 DEF loopStep
<1> QED
  BY <1>1, <1>2, <1>3 DEF Next

\* With timely renewals the force-requeue after a takeover is sound: nobody
\* takes the lease of a worker that is still executing.
THEOREM TimelyWorkerKeepsLease ==
  ASSUME Timely
  PROVE  Spec => WorkerKeepsLease
<1>1. Init => LeaseShape
  BY DEF Init, LeaseShape, LoopPhases
<1>2. TypeOK /\ HolderShape /\ LeaseShape /\ [Next]_vars => LeaseShape'
  BY LeaseStep
<1>3. LeaseShape /\ LeaseShape' =>
        [\A p \in Procs : working[p] /\ working'[p] /\ lease = p => lease' = p]_vars
  BY DEF LeaseShape
<1> QED
  BY <1>1, <1>2, <1>3, HolderInvariant, PTL DEF Spec, WorkerKeepsLease

-----------------------------------------------------------------------------
(***************************************************************************)
(* WorkItemOrder: the scan that the lock holder runs gives files to work   *)
(* items until they merge, for any work items, jobs, scopes and orders.    *)
(***************************************************************************)
\* Rows name work items and files, and whatever has unmerged edits is live.
ClaimTypes ==
  /\ wi \in [WorkItem -> {"active", "complete", "merge_failed", "merged", "canceled"}]
  /\ locks \subseteq WorkItem \X Path
  /\ claims \subseteq WorkItem \X WorkItem \X Path
  /\ edited \subseteq WorkItem \X Path
  /\ cancels \in Nat

Kept(e) ==
  \/ e \in locks
  \/ \E c \in claims : c[2] = e[1] /\ c[3] = e[2] /\ LiveItem(c[1])

\* Until a work item is canceled, edits are made by live work items only, which
\* is why the locks that a merge restores are enough.
EditsKept == cancels = 0 => \A e \in edited : LiveItem(e[1]) /\ Kept(e)

ClaimInv == ClaimTypes /\ EditsKept

\* A pass looks at jobs.
PassOK(s) ==
  /\ s = [order |-> s.order, todo |-> s.todo, at |-> s.at]
  /\ s.todo \subseteq Job /\ s.at \in Job \cup {0}
PassTypes == \A s \in pass : PassOK(s)

\* A step that does not touch the locks, the claims and the edits, and after which
\* live work items are live.
LEMMA ClaimsStill ==
  ASSUME ClaimInv, UNCHANGED <<locks, claims, edited, cancels>>, ClaimTypes',
         \A w \in WorkItem : LiveItem(w) => LiveItem(w)'
  PROVE  ClaimInv'
<1>1. ASSUME cancels = 0, NEW e \in edited
      PROVE  LiveItem(e[1])' /\ Kept(e)'
  <2>1. e[1] \in WorkItem /\ LiveItem(e[1]) /\ Kept(e)
    BY <1>1 DEF ClaimInv, ClaimTypes, EditsKept
  <2>2. \A c \in claims : c[1] \in WorkItem
    BY DEF ClaimInv, ClaimTypes
  <2> QED
    BY <2>1, <2>2 DEF Kept
<1> QED
  BY <1>1 DEF ClaimInv, EditsKept

LEMMA CandidateIsLive ==
  ASSUME NEW j \in Job, Candidate(j)
  PROVE  Wi[j] \in WorkItem /\ LiveItem(Wi[j])
BY OrderConstants DEF OrderConstantsOK, Candidate, LiveItem

\* The lock that is handed over leaves a claim on the work item that takes it.
LEMMA HandoffKeepsClaims ==
  ASSUME ClaimInv, NEW s, NEW j \in Job, handoff(s, j)
  PROVE  ClaimInv'
<1>1. PICK l \in locks : /\ l[1] # Wi[j] /\ l[2] \in Scope[j]
                         /\ locks' = locks \ {l}
                         /\ claims' = claims \cup {<<Wi[j], l[1], l[2]>>}
  BY DEF handoff
<1>2. /\ UNCHANGED <<wi, edited, cancels>>
      /\ Wi[j] \in WorkItem /\ LiveItem(Wi[j])
  BY CandidateIsLive DEF handoff, bounds
<1>3. l \in WorkItem \X Path
  BY DEF ClaimInv, ClaimTypes
<1>4. ClaimTypes'
  BY <1>1, <1>2, <1>3 DEF ClaimInv, ClaimTypes
<1>5. ASSUME cancels = 0, NEW e \in edited
      PROVE  LiveItem(e[1])' /\ Kept(e)'
  <2>1. e \in WorkItem \X Path /\ LiveItem(e[1]) /\ Kept(e)
    BY <1>5 DEF ClaimInv, ClaimTypes, EditsKept
  <2>2. \A w \in WorkItem : LiveItem(w)' <=> LiveItem(w)
    BY <1>2 DEF LiveItem
  <2>3. CASE e = l
    <3> DEFINE c == <<Wi[j], l[1], l[2]>>
    <3>1. c \in claims' /\ c[1] = Wi[j] /\ c[2] = e[1] /\ c[3] = e[2]
      BY <1>1, <2>3
    <3> QED
      BY <1>2, <2>1, <2>2, <3>1 DEF Kept
  <2>4. CASE e # l
    <3>1. \A c \in claims : c[1] \in WorkItem
      BY DEF ClaimInv, ClaimTypes
    <3> QED
      BY <1>1, <2>1, <2>2, <2>4, <3>1 DEF Kept
  <2> QED
    BY <2>3, <2>4
<1> QED
  BY <1>2, <1>4, <1>5 DEF ClaimInv, EditsKept

\* A job that is leased edits under the locks it takes.
LEMMA LeaseKeepsClaims ==
  ASSUME ClaimInv, NEW s, NEW j \in Job, NEW now,
         acquireLeaseWithWriteLocks(s, j, now)
  PROVE  ClaimInv'
<1>1. /\ UNCHANGED <<wi, claims, cancels>>
      /\ locks' = locks \cup ({Wi[j]} \X Scope[j])
      /\ edited' = edited \cup ({Wi[j]} \X Scope[j])
  BY DEF acquireLeaseWithWriteLocks, bounds
<1>2. Wi[j] \in WorkItem /\ LiveItem(Wi[j]) /\ Scope[j] \subseteq Path
  BY CandidateIsLive, OrderConstants DEF acquireLeaseWithWriteLocks, OrderConstantsOK
<1>3. ClaimTypes'
  BY <1>1, <1>2 DEF ClaimInv, ClaimTypes
<1>4. ASSUME cancels = 0, NEW e \in edited'
      PROVE  LiveItem(e[1])' /\ Kept(e)'
  <2>1. \A w \in WorkItem : LiveItem(w)' <=> LiveItem(w)
    BY <1>1 DEF LiveItem
  <2>2. CASE e \in edited
    <3>1. e[1] \in WorkItem /\ LiveItem(e[1]) /\ Kept(e) /\ \A c \in claims : c[1] \in WorkItem
      BY <1>4, <2>2 DEF ClaimInv, ClaimTypes, EditsKept
    <3> QED
      BY <1>1, <2>1, <3>1 DEF Kept
  <2>3. CASE e \in {Wi[j]} \X Scope[j]
    BY <1>1, <1>2, <2>1, <2>3 DEF Kept
  <2> QED
    BY <1>1, <2>2, <2>3
<1> QED
  BY <1>1, <1>3, <1>4 DEF ClaimInv, EditsKept

LEMMA ScanKeepsPass ==
  ASSUME NEW s, PassOK(s), NEW j \in Job, scanCandidate(s, j)
  PROVE  PassTypes'
<1>1. Settled(s, j) \/ pass' = {[s EXCEPT !.at = j]}
  BY DEF scanCandidate, skip, orderBlocked, lockBlocked, Blocked,
    handoff, leaseBlocked, acquireLeaseWithWriteLocks
<1>2. \A t \in pass' : \/ t = [s EXCEPT !.todo = s.todo \ {j}, !.at = 0]
                       \/ t = [s EXCEPT !.at = j]
  BY <1>1 DEF Settled
<1>3. ASSUME NEW t \in pass'
      PROVE  t = [order |-> t.order, todo |-> t.todo, at |-> t.at]
             /\ t.todo \subseteq Job /\ t.at \in Job \cup {0}
  BY <1>2, <1>3 DEF PassOK
<1> QED
  BY <1>3 DEF PassTypes, PassOK

LEMMA ScanKeepsClaims ==
  ASSUME ClaimInv, NEW s, NEW j \in Job, scanCandidate(s, j)
  PROVE  ClaimInv'
<1>1. CASE UNCHANGED <<wi, locks, claims, edited, bounds>>
  BY <1>1, ClaimsStill DEF ClaimInv, ClaimTypes, LiveItem, bounds
<1>2. CASE skip(s, j) \/ orderBlocked(s, j) \/ lockBlocked(s, j)
  BY <1>1, <1>2 DEF skip, orderBlocked, lockBlocked, Blocked
<1>3. CASE handoff(s, j)
  BY <1>3, HandoffKeepsClaims
<1>4. ASSUME NEW now, leaseBlocked(s, j, now)
      PROVE  ClaimInv'
  BY <1>1, <1>4 DEF leaseBlocked, Blocked
<1>5. ASSUME NEW now, acquireLeaseWithWriteLocks(s, j, now)
      PROVE  ClaimInv'
  BY <1>5, LeaseKeepsClaims
<1> QED
  BY <1>2, <1>3, <1>4, <1>5 DEF scanCandidate

\* The work item that merges gives back the locks it took over.
LEMMA MergeKeepsClaims ==
  ASSUME ClaimInv, NEW w \in WorkItem, merge(w)
  PROVE  ClaimInv'
<1>1. /\ wi[w] = "complete" /\ wi' = [wi EXCEPT ![w] = "merged"]
      /\ locks' = {l \in locks : l[1] # w} \cup Restored(w)
      /\ edited' = {e \in edited : e[1] # w}
      /\ UNCHANGED <<claims, cancels>>
  BY DEF merge, bounds
<1>2. Restored(w) \subseteq WorkItem \X Path
  BY DEF Restored, ClaimInv, ClaimTypes
<1>3. ClaimTypes'
  BY <1>1, <1>2 DEF ClaimInv, ClaimTypes
<1>4. \A v \in WorkItem \ {w} : LiveItem(v)' <=> LiveItem(v)
  BY <1>1 DEF LiveItem, ClaimInv, ClaimTypes
<1>5. ASSUME cancels = 0, NEW e \in edited, e[1] # w
      PROVE  LiveItem(e[1])' /\ Kept(e)'
  <2>1. e \in WorkItem \X Path /\ LiveItem(e[1]) /\ Kept(e)
    BY <1>5 DEF ClaimInv, ClaimTypes, EditsKept
  <2>2. CASE e \in locks
    BY <1>1, <1>4, <1>5, <2>1, <2>2 DEF Kept
  <2>3. CASE e \notin locks
    <3>1. PICK c \in claims : c[2] = e[1] /\ c[3] = e[2] /\ LiveItem(c[1])
      BY <2>1, <2>3 DEF Kept
    <3>2. c[1] \in WorkItem
      BY DEF ClaimInv, ClaimTypes
    <3>3. CASE c[1] = w
      <4>1. <<c[2], c[3]>> \in Restored(w)
        BY <1>5, <2>1, <3>1, <3>3 DEF Restored
      <4>2. e = <<c[2], c[3]>>
        BY <2>1, <3>1
      <4> QED
        BY <1>1, <1>4, <1>5, <2>1, <4>1, <4>2 DEF Kept
    <3>4. CASE c[1] # w
      BY <1>1, <1>4, <1>5, <2>1, <3>1, <3>2, <3>4 DEF Kept
    <3> QED
      BY <3>3, <3>4
  <2> QED
    BY <2>2, <2>3
<1> QED
  BY <1>1, <1>3, <1>5 DEF ClaimInv, EditsKept

LEMMA ClaimStep ==
  ASSUME ClaimInv, PassTypes, [OrderNext]_orderVars
  PROVE  ClaimInv' /\ PassTypes'
<1>1. CASE UNCHANGED <<wi, locks, claims, edited, cancels, pass>>
  BY <1>1, ClaimsStill DEF ClaimInv, ClaimTypes, LiveItem, PassTypes
<1>2. CASE Scan
  <2>1. CASE beginPass
    <3>1. PICK order \in LoadedOrders, j \in Job :
            scanCandidate([order |-> order, todo |-> {k \in Job : Candidate(k)},
                                 at |-> 0], j)
      BY <2>1 DEF beginPass
    <3> DEFINE s == [order |-> order, todo |-> {k \in Job : Candidate(k)}, at |-> 0]
    <3>2. PassOK(s)
      BY DEF PassOK
    <3> HIDE DEF s
    <3>3. scanCandidate(s, j)
      BY <3>1 DEF s
    <3> QED
      BY <3>2, <3>3, ScanKeepsClaims, ScanKeepsPass
  <2>2. CASE continuePass
    <3>1. PICK s \in pass : \E j \in IF s.at = 0 THEN s.todo ELSE {s.at} :
                              scanCandidate(s, j)
      BY <2>2 DEF continuePass
    <3>2. PICK j \in IF s.at = 0 THEN s.todo ELSE {s.at} : scanCandidate(s, j)
      BY <3>1
    <3>3. PassOK(s)
      BY DEF PassTypes
    <3>4. j \in Job
      BY <3>2, <3>3 DEF PassOK
    <3> QED
      BY <3>2, <3>3, <3>4, ScanKeepsClaims, ScanKeepsPass
  <2> QED
    BY <1>2, <2>1, <2>2 DEF Scan
<1>3. CASE sleepUntilWake
  BY <1>1, <1>3 DEF sleepUntilWake, orderVars, bounds
<1>4. ASSUME NEW j \in Job, becomesReady(j) \/ Worker(j) \/ answerRetry(j)
      PROVE  ClaimInv' /\ PassTypes'
  BY <1>1, <1>4 DEF becomesReady, Worker, answerRetry, verdictPass,
    verdictFail, requeue, deadLetter, JobEnds, bounds
<1>5. ASSUME NEW w \in WorkItem,
             completeWorkItem(w) \/ mergeFails(w) \/ retryMerge(w)
      PROVE  ClaimInv' /\ PassTypes'
  <2>1. /\ UNCHANGED <<locks, claims, edited, cancels, pass>>
        /\ \E s \in {"complete", "merge_failed"} : wi' = [wi EXCEPT ![w] = s]
    BY <1>5 DEF completeWorkItem, mergeFails, retryMerge, bounds
  <2>2. ClaimTypes' /\ \A v \in WorkItem : LiveItem(v) => LiveItem(v)'
    BY <2>1 DEF ClaimInv, ClaimTypes, LiveItem
  <2> QED
    BY <2>1, <2>2, ClaimsStill DEF PassTypes
<1>6. ASSUME NEW w \in WorkItem, merge(w)
      PROVE  ClaimInv' /\ PassTypes'
  BY <1>6, MergeKeepsClaims DEF merge, PassTypes
<1>7. ASSUME NEW w \in WorkItem, cancel(w)
      PROVE  ClaimInv' /\ PassTypes'
  <2>1. /\ cancels \in Nat /\ cancels' = cancels + 1
        /\ wi' = [wi EXCEPT ![w] = "canceled"] /\ UNCHANGED <<claims, pass>>
        /\ locks' = {l \in locks : l[1] # w} /\ edited' = {e \in edited : e[1] # w}
    BY <1>7 DEF cancel, ClaimInv, ClaimTypes
  <2>2. cancels' # 0
    BY <2>1
  <2> QED
    BY <2>1, <2>2 DEF ClaimInv, ClaimTypes, EditsKept, PassTypes
<1>8. CASE UNCHANGED orderVars
  BY <1>1, <1>8 DEF orderVars, bounds
<1> QED
  BY <1>2, <1>3, <1>4, <1>5, <1>6, <1>7, <1>8 DEF OrderNext

\* The pending edits of a work item stay claimed, across every hand-over of a lock
\* (prepareCrossWiFileSyncHandoff) and every restoration at a merge
\* (restoreExistingOrderClaimLocks), as long as no work item was canceled.
THEOREM PendingEditsClaimed ==
  OrderSpec => [](cancels = 0 => EditsClaimed)
<1>1. OrderInit => ClaimInv /\ PassTypes
  BY DEF OrderInit, ClaimInv, ClaimTypes, EditsKept, PassTypes
<1>2. ClaimInv /\ PassTypes /\ [OrderNext]_orderVars => ClaimInv' /\ PassTypes'
  BY ClaimStep
<1>3. ClaimInv => (cancels = 0 => EditsClaimed)
  BY DEF ClaimInv, EditsKept, Kept, EditsClaimed
<1> QED
  BY <1>1, <1>2, <1>3, PTL DEF OrderSpec

=============================================================================
