------------------------ MODULE TaskSchedulerProofs ------------------------
(***************************************************************************)
(* Proofs about the task scheduler, for any set of threads, any delays and *)
(* any bounds.                                                             *)
(***************************************************************************)
EXTENDS TaskScheduler, TLAPS

USE ThreadsAssumption, KindsAssumption, TimeAssumption, BoundsAssumption

LEMMA MinuteArithmetic ==
    ASSUME TypeOK
    PROVE  /\ tm_min \in 0..59
           /\ ToNextMinute \in Nat
<1>1. WallClock \in Nat
  BY DEF TypeOK, ClockTypeOK, WallClock
<1>2. Minute \in Int
  BY <1>1 DEF Minute
<1>3. tm_min \in 0..59
  BY <1>2 DEF tm_min
<1>4. WallClock % UnitsPerMinute \in 0..(UnitsPerMinute - 1)
  BY <1>1
<1> QED
  BY <1>3, <1>4 DEF ToNextMinute

\* Where the owner and the waiting threads hold a task id.
ControlInv ==
    /\ pc = "loop" <=> currentTask = 0
    /\ \A t \in Threads : tpc[t] # "idle" => awaited[t] # 0

LEMMA CountRunType ==
    ASSUME TypeOK, NEW id, CountRun(id)
    PROVE  runs' \in [Ids -> 0..2]
<1>1. runs \in [Ids -> 0..2]
  BY DEF TypeOK, ClockTypeOK
<1>2. \A i \in Ids : Lesser(runs[i] + 1, 2) \in 0..2
  BY <1>1 DEF Lesser
<1> QED
  BY <1>1, <1>2 DEF CountRun

LEMMA TypeInit == Init => TypeOK
<1> SUFFICES ASSUME Init PROVE TypeOK
  OBVIOUS
<1> USE DEF Init, Ids
<1>1. TaskTypeOK
  BY DEF TaskTypeOK, AllKinds
<1>2. WallClockTypeOK
  BY DEF WallClockTypeOK
<1>3. ControlTypeOK
  BY DEF ControlTypeOK
<1>4. ClockTypeOK
  BY DEF ClockTypeOK
<1>5. FlagTypeOK
  BY DEF FlagTypeOK
<1> QED
  BY <1>1, <1>2, <1>3, <1>4, <1>5 DEF TypeOK

LEMMA TypeStep == TypeOK /\ ControlInv /\ [Next]_vars => TypeOK'
<1> SUFFICES ASSUME TypeOK, ControlInv, [Next]_vars PROVE TypeOK'
  OBVIOUS
<1> USE DEF TypeOK, taskVars, wallVars, threadVars, clockVars, historyVars
<1>1. ASSUME NEW k \in {"once", "restart"}, NEW first \in Delays, scheduleOnce(k, first)
      PROVE  TypeOK'
  <2>1. TaskTypeOK'
    BY SMTT(20), <1>1 DEF scheduleOnce, NewTask, TaskTypeOK, ClockTypeOK, Ids, AllKinds
  <2>2. WallClockTypeOK'
    BY <1>1 DEF scheduleOnce, NewTask, WallClockTypeOK, Ids
  <2>3. ControlTypeOK'
    BY SMTT(20), <1>1 DEF scheduleOnce, NewTask, ControlTypeOK, TaskTypeOK, Ids
  <2>4. ClockTypeOK'
    BY SMTT(20), <1>1 DEF scheduleOnce, NewTask, ClockTypeOK, TaskTypeOK, Ids
  <2>5. FlagTypeOK'
    BY <1>1 DEF scheduleOnce, NewTask, FlagTypeOK
  <2> QED
    BY <2>1, <2>2, <2>3, <2>4, <2>5
<1>2. ASSUME NEW first \in Delays, NEW d \in Delays, scheduleWithFixedDelay(first, d)
      PROVE  TypeOK'
  <2>1. TaskTypeOK'
    BY SMTT(20), <1>2 DEF scheduleWithFixedDelay, NewTask, TaskTypeOK, ClockTypeOK, Ids, AllKinds
  <2>2. WallClockTypeOK'
    BY <1>2 DEF scheduleWithFixedDelay, NewTask, WallClockTypeOK, Ids
  <2>3. ControlTypeOK'
    BY SMTT(20), <1>2 DEF scheduleWithFixedDelay, NewTask, ControlTypeOK, TaskTypeOK, Ids
  <2>4. ClockTypeOK'
    BY SMTT(20), <1>2 DEF scheduleWithFixedDelay, NewTask, ClockTypeOK, TaskTypeOK, Ids
  <2>5. FlagTypeOK'
    BY <1>2 DEF scheduleWithFixedDelay, NewTask, FlagTypeOK
  <2> QED
    BY <2>1, <2>2, <2>3, <2>4, <2>5
<1>3. ASSUME NEW first \in Delays, NEW d \in Delays, scheduleUncancelable(first, d)
      PROVE  TypeOK'
  <2>1. TaskTypeOK'
    BY SMTT(20), <1>3 DEF scheduleUncancelable, NewTask, TaskTypeOK, ClockTypeOK, Ids, AllKinds
  <2>2. WallClockTypeOK'
    BY <1>3 DEF scheduleUncancelable, NewTask, WallClockTypeOK, Ids
  <2>3. ControlTypeOK'
    BY SMTT(20), <1>3 DEF scheduleUncancelable, NewTask, ControlTypeOK, TaskTypeOK, Ids
  <2>4. ClockTypeOK'
    BY SMTT(20), <1>3 DEF scheduleUncancelable, NewTask, ClockTypeOK, TaskTypeOK, Ids
  <2>5. FlagTypeOK'
    BY <1>3 DEF scheduleUncancelable, NewTask, FlagTypeOK
  <2> QED
    BY <2>1, <2>2, <2>3, <2>4, <2>5
<1>4. CASE scheduleWhenClockSynced
  <2>1. TaskTypeOK'
    <3>1. PICK k \in {"once", "sync"} :
                NewTask(last_task_id + 1, k, 0, IF k = "once" THEN 0 ELSE 1, NoThread)
      BY <1>4 DEF scheduleWhenClockSynced
    <3> QED
      BY <1>4, <3>1 DEF scheduleWhenClockSynced, NewTask, TaskTypeOK, ClockTypeOK, Ids, AllKinds
  <2>2. WallClockTypeOK'
    BY <1>4 DEF scheduleWhenClockSynced, NewTask, WallClockTypeOK, Ids
  <2>3. ControlTypeOK'
    BY SMTT(20), <1>4 DEF scheduleWhenClockSynced, NewTask, ControlTypeOK, TaskTypeOK, Ids
  <2>4. ClockTypeOK'
    BY SMTT(20), <1>4 DEF scheduleWhenClockSynced, NewTask, ClockTypeOK, TaskTypeOK, Ids
  <2>5. FlagTypeOK'
    BY <1>4 DEF scheduleWhenClockSynced, NewTask, FlagTypeOK
  <2> QED
    BY <2>1, <2>2, <2>3, <2>4, <2>5
<1>5. ASSUME NEW i \in Intervals, NEW d \in Delays, NEW b \in BOOLEAN, scheduleWallClock(i, d, b)
      PROVE  TypeOK'
  <2>1. TaskTypeOK'
    <3>1. kind' \in [Ids -> AllKinds] /\ delay' \in [Ids -> Nat]
      BY <1>5 DEF scheduleWallClock, TaskTypeOK, AllKinds
    <3>2. next_deadline' \in [Ids -> Int]
      BY <1>5 DEF scheduleWallClock, TaskTypeOK, ClockTypeOK
    <3>3. awaited_by' \in [Ids -> Threads \cup {NoThread}]
      BY <1>5 DEF scheduleWallClock, TaskTypeOK
    <3>4. last_task_id' \in 0..MaxTaskId /\ tasks' \subseteq Ids
      BY <1>5 DEF scheduleWallClock, TaskTypeOK, Ids
    <3> QED
      BY <1>5, <3>1, <3>2, <3>3, <3>4 DEF scheduleWallClock, TaskTypeOK
  <2>2. WallClockTypeOK'
    BY <1>5 DEF scheduleWallClock, WallClockTypeOK, Ids
  <2>3. ControlTypeOK'
    BY <1>5 DEF scheduleWallClock, ControlTypeOK, Ids
  <2>4. ClockTypeOK'
    BY <1>5 DEF scheduleWallClock, ClockTypeOK, TaskTypeOK, Ids
  <2>5. FlagTypeOK'
    BY <1>5 DEF scheduleWallClock, FlagTypeOK
  <2> QED
    BY <2>1, <2>2, <2>3, <2>4, <2>5
<1>6. ASSUME NEW id \in Ids, PopTask(id)
      PROVE  TypeOK'
  <2>1. TaskTypeOK'
    BY <1>6 DEF PopTask, IsTop, TaskTypeOK, ClockTypeOK, Ids, AllKinds
  <2>2. WallClockTypeOK'
    BY <1>6 DEF PopTask, IsTop, WallClockTypeOK, Ids
  <2>3. ControlTypeOK'
    BY <1>6 DEF PopTask, IsTop, ControlTypeOK, Ids
  <2>4. ClockTypeOK'
    BY <1>6 DEF PopTask, IsTop, ClockTypeOK, TaskTypeOK, Ids
  <2>5. FlagTypeOK'
    BY <1>6 DEF PopTask, IsTop, FlagTypeOK
  <2> QED
    BY <2>1, <2>2, <2>3, <2>4, <2>5
<1>7. CASE CheckRebooting
  <2>1. TaskTypeOK'
    BY <1>7 DEF CheckRebooting, TaskTypeOK, ClockTypeOK, Ids, AllKinds
  <2>2. WallClockTypeOK'
    BY <1>7 DEF CheckRebooting, WallClockTypeOK, Ids
  <2>3. ControlTypeOK'
    BY <1>7 DEF CheckRebooting, ControlTypeOK, Ids
  <2>4. ClockTypeOK'
    BY <1>7 DEF CheckRebooting, ClockTypeOK, TaskTypeOK, Ids
  <2>5. FlagTypeOK'
    BY <1>7 DEF CheckRebooting, FlagTypeOK
  <2> QED
    BY <2>1, <2>2, <2>3, <2>4, <2>5
<1>8. CASE RunPlainFn
  <2>1. TaskTypeOK'
    BY <1>8 DEF RunPlainFn, CountRun, Lesser, TaskTypeOK, ClockTypeOK, Ids, AllKinds
  <2>2. WallClockTypeOK'
    BY <1>8 DEF RunPlainFn, CountRun, Lesser, WallClockTypeOK, Ids
  <2>3. ControlTypeOK'
    BY <1>8 DEF RunPlainFn, CountRun, Lesser, ControlTypeOK, Ids
  <2>4. ClockTypeOK'
    BY <1>8, CountRunType DEF RunPlainFn, ClockTypeOK
  <2>5. FlagTypeOK'
    BY <1>8 DEF RunPlainFn, CountRun, Lesser, FlagTypeOK
  <2> QED
    BY <2>1, <2>2, <2>3, <2>4, <2>5
<1>9. CASE RunWhenClockSynced
  <2>1. TaskTypeOK'
    <3>1. CASE synced
      BY <1>9, <3>1 DEF RunWhenClockSynced, TaskTypeOK, ControlInv
    <3>2. CASE ~synced
      BY <1>9, <3>2 DEF RunWhenClockSynced, TaskTypeOK, ControlInv
    <3> QED
      BY <3>1, <3>2
  <2>2. WallClockTypeOK'
    BY <1>9 DEF RunWhenClockSynced, CountRun, Lesser, WallClockTypeOK, Ids
  <2>3. ControlTypeOK'
    BY <1>9 DEF RunWhenClockSynced, CountRun, Lesser, ControlTypeOK, Ids
  <2>4. ClockTypeOK'
    <3>1. CASE synced
      BY <1>9, <3>1, CountRunType DEF RunWhenClockSynced, ClockTypeOK, TaskTypeOK, ControlInv
    <3>2. CASE ~synced
      BY <1>9, <3>2 DEF RunWhenClockSynced, ClockTypeOK
    <3> QED
      BY <3>1, <3>2
  <2>5. FlagTypeOK'
    BY <1>9 DEF RunWhenClockSynced, CountRun, Lesser, FlagTypeOK
  <2> QED
    BY <2>1, <2>2, <2>3, <2>4, <2>5
<1>10. CASE wall_clock_worker
  <2>1. TaskTypeOK'
    <3>1. /\ UNCHANGED <<kind, awaited_by, cancelled, immediate_reschedule, last_task_id, currentTask>>
          /\ now \in Nat
          /\ ToNextMinute \in Nat
          /\ StartedRunners \subseteq Ids
      BY <1>10, MinuteArithmetic DEF wall_clock_worker, StartedRunners, RunnersLeft, ClockTypeOK, WallClockTypeOK
    <3>2. CASE ~synced
      BY <1>10, <3>1, <3>2 DEF wall_clock_worker, TaskTypeOK
    <3>3. CASE synced /\ tm_min = wall_clock_last_minute
      BY <1>10, <3>1, <3>3 DEF wall_clock_worker, TaskTypeOK
    <3>4. CASE synced /\ tm_min # wall_clock_last_minute
      <4>1. /\ delay' = [delay EXCEPT ![currentTask] = ToNextMinute]
            /\ next_deadline' = [id \in Ids |-> IF id \in StartedRunners THEN now + delay[id]
                                                ELSE next_deadline[id]]
            /\ tasks' = tasks \cup StartedRunners
        BY <1>10, <3>4 DEF wall_clock_worker
      <4>2. \A id \in Ids : now + delay[id] \in Int
        BY <3>1 DEF TaskTypeOK
      <4>3. next_deadline' \in [Ids -> Int]
        BY <4>1, <4>2 DEF TaskTypeOK
      <4> QED
        BY <3>1, <4>1, <4>3 DEF TaskTypeOK
    <3> QED
      BY <3>2, <3>3, <3>4
  <2>2. WallClockTypeOK'
    <3>1. CASE ~synced \/ tm_min = wall_clock_last_minute
      BY <1>10, <3>1 DEF wall_clock_worker, WallClockTypeOK
    <3>2. CASE synced /\ tm_min # wall_clock_last_minute
      BY <1>10, <3>2, MinuteArithmetic DEF wall_clock_worker, RunnersLeft, WallClockTypeOK
    <3> QED
      BY <3>1, <3>2
  <2>3. ControlTypeOK'
    BY <1>10 DEF wall_clock_worker, StartedRunners, RunnersLeft, CountRun, Lesser,
       ControlTypeOK, Ids
  <2>4. ClockTypeOK'
    BY <1>10, CountRunType DEF wall_clock_worker, ClockTypeOK
  <2>5. FlagTypeOK'
    BY <1>10 DEF wall_clock_worker, StartedRunners, RunnersLeft, CountRun, Lesser,
       FlagTypeOK
  <2> QED
    BY <2>1, <2>2, <2>3, <2>4, <2>5
<1>11. CASE RunRestart
  <2>1. TaskTypeOK'
    BY <1>11 DEF RunRestart, CountRun, Lesser, TaskTypeOK, ClockTypeOK, Ids, AllKinds
  <2>2. WallClockTypeOK'
    BY <1>11 DEF RunRestart, CountRun, Lesser, WallClockTypeOK, Ids
  <2>3. ControlTypeOK'
    BY <1>11 DEF RunRestart, CountRun, Lesser, ControlTypeOK, Ids
  <2>4. ClockTypeOK'
    BY <1>11, CountRunType DEF RunRestart, ClockTypeOK
  <2>5. FlagTypeOK'
    BY <1>11 DEF RunRestart, CountRun, Lesser, FlagTypeOK
  <2> QED
    BY <2>1, <2>2, <2>3, <2>4, <2>5
<1>12. CASE RunPreRebootHelper
  <2>1. TaskTypeOK'
    BY <1>12 DEF RunPreRebootHelper, CountRun, Lesser, TaskTypeOK, ClockTypeOK, Ids,
       AllKinds
  <2>2. WallClockTypeOK'
    BY <1>12 DEF RunPreRebootHelper, CountRun, Lesser, WallClockTypeOK, Ids
  <2>3. ControlTypeOK'
    BY <1>12 DEF RunPreRebootHelper, CountRun, Lesser, ControlTypeOK, Ids
  <2>4. ClockTypeOK'
    BY <1>12, CountRunType DEF RunPreRebootHelper, ClockTypeOK
  <2>5. FlagTypeOK'
    BY <1>12 DEF RunPreRebootHelper, CountRun, Lesser, FlagTypeOK
  <2> QED
    BY <2>1, <2>2, <2>3, <2>4, <2>5
<1>13. ASSUME halt = "no", FinishTask
       PROVE  TypeOK'
  <2>1. TaskTypeOK'
    <3>1. \A i \in Ids : RequeueDeadline(i) \in Int
      BY DEF RequeueDeadline, TaskTypeOK, ClockTypeOK
    <3>2. Requeued(currentTask) \subseteq Ids
      BY <1>13 DEF FinishTask, Requeued, TaskTypeOK, ControlInv
    <3> QED
      BY <1>13, <3>1, <3>2 DEF FinishTask, TaskTypeOK
  <2>2. WallClockTypeOK'
    BY <1>13 DEF FinishTask, NotifyGive, ReturnedRunner, Requeued, RequeueDeadline,
       OnceKinds, WallClockTypeOK, TaskTypeOK, ControlInv
  <2>3. ControlTypeOK'
    BY <1>13 DEF FinishTask, NotifyGive, ReturnedRunner, Requeued, RequeueDeadline,
       OnceKinds, ControlTypeOK, Ids
  <2>4. ClockTypeOK'
    BY <1>13 DEF FinishTask, NotifyGive, ReturnedRunner, Requeued, RequeueDeadline,
       OnceKinds, ClockTypeOK, TaskTypeOK, Ids
  <2>5. FlagTypeOK'
    BY <1>13 DEF FinishTask, NotifyGive, ReturnedRunner, Requeued, RequeueDeadline,
       OnceKinds, FlagTypeOK
  <2> QED
    BY <2>1, <2>2, <2>3, <2>4, <2>5
<1>14. ASSUME NEW id \in Ids, cancel(id)
       PROVE  TypeOK'
  <2>1. TaskTypeOK'
    BY <1>14 DEF cancel, CancelTask, CancelResult, IsHandedOut, HandedOutKinds, TaskTypeOK,
       ClockTypeOK, Ids, AllKinds
  <2>2. WallClockTypeOK'
    BY <1>14 DEF cancel, CancelTask, CancelResult, IsHandedOut, HandedOutKinds,
       WallClockTypeOK, Ids
  <2>3. ControlTypeOK'
    BY <1>14 DEF cancel, CancelTask, CancelResult, IsHandedOut, HandedOutKinds,
       ControlTypeOK, Ids
  <2>4. ClockTypeOK'
    BY <1>14 DEF cancel, CancelTask, CancelResult, IsHandedOut, HandedOutKinds, ClockTypeOK,
       TaskTypeOK, Ids
  <2>5. FlagTypeOK'
    BY <1>14 DEF cancel, CancelTask, CancelResult, IsHandedOut, HandedOutKinds, FlagTypeOK
  <2> QED
    BY <2>1, <2>2, <2>3, <2>4, <2>5
<1>15. ASSUME NEW id \in Ids, cancelWallClock(id)
       PROVE  TypeOK'
  <2>1. TaskTypeOK'
    BY <1>15 DEF cancelWallClock, CancelTask, TaskTypeOK, ClockTypeOK, Ids, AllKinds
  <2>2. WallClockTypeOK'
    BY <1>15 DEF cancelWallClock, CancelTask, WallClockTypeOK, Ids
  <2>3. ControlTypeOK'
    BY <1>15 DEF cancelWallClock, CancelTask, ControlTypeOK, Ids
  <2>4. ClockTypeOK'
    BY <1>15 DEF cancelWallClock, CancelTask, ClockTypeOK, TaskTypeOK, Ids
  <2>5. FlagTypeOK'
    BY <1>15 DEF cancelWallClock, CancelTask, FlagTypeOK
  <2> QED
    BY <2>1, <2>2, <2>3, <2>4, <2>5
<1>16. ASSUME NEW id \in Ids, Misuse(id)
       PROVE  TypeOK'
  <2>1. TaskTypeOK'
    BY <1>16 DEF Misuse, TaskTypeOK, ClockTypeOK, Ids, AllKinds
  <2>2. WallClockTypeOK'
    BY <1>16 DEF Misuse, WallClockTypeOK, Ids
  <2>3. ControlTypeOK'
    BY <1>16 DEF Misuse, ControlTypeOK, Ids
  <2>4. ClockTypeOK'
    BY <1>16 DEF Misuse, ClockTypeOK, TaskTypeOK, Ids
  <2>5. FlagTypeOK'
    BY <1>16 DEF Misuse, FlagTypeOK
  <2> QED
    BY <2>1, <2>2, <2>3, <2>4, <2>5
<1>17. ASSUME NEW id \in Ids, rescheduleNow(id)
       PROVE  TypeOK'
  <2>1. TaskTypeOK'
    <3>1. \A top \in tasks : EarliestDeadline(top) \in Int
      BY DEF EarliestDeadline, Lesser, TaskTypeOK, ClockTypeOK
    <3> QED
      BY <1>17, <3>1 DEF rescheduleNow, TaskTypeOK
  <2>2. WallClockTypeOK'
    BY <1>17 DEF rescheduleNow, EarliestDeadline, Lesser, IsTop, WallClockTypeOK, Ids
  <2>3. ControlTypeOK'
    BY <1>17 DEF rescheduleNow, EarliestDeadline, Lesser, IsTop, ControlTypeOK, Ids
  <2>4. ClockTypeOK'
    BY <1>17 DEF rescheduleNow, ClockTypeOK
  <2>5. FlagTypeOK'
    BY <1>17 DEF rescheduleNow, EarliestDeadline, Lesser, IsTop, FlagTypeOK
  <2> QED
    BY <2>1, <2>2, <2>3, <2>4, <2>5
<1>18. ASSUME NEW id \in Ids, NEW d \in Delays, updateDelay(id, d)
       PROVE  TypeOK'
  <2>1. TaskTypeOK'
    <3>1. next_deadline[id] - delay[id] + d \in Int
      BY DEF TaskTypeOK
    <3> QED
      BY <1>18, <3>1 DEF updateDelay, TaskTypeOK
  <2>2. WallClockTypeOK'
    BY <1>18 DEF updateDelay, WallClockTypeOK, Ids
  <2>3. ControlTypeOK'
    BY <1>18 DEF updateDelay, ControlTypeOK, Ids
  <2>4. ClockTypeOK'
    BY <1>18 DEF updateDelay, ClockTypeOK, TaskTypeOK, Ids
  <2>5. FlagTypeOK'
    BY <1>18 DEF updateDelay, FlagTypeOK
  <2> QED
    BY <2>1, <2>2, <2>3, <2>4, <2>5
<1>19. ASSUME NEW d \in Delays, updateCurrentTaskDelay(d)
       PROVE  TypeOK'
  <2>1. TaskTypeOK'
    BY <1>19 DEF updateCurrentTaskDelay, TaskTypeOK, ClockTypeOK, Ids, AllKinds
  <2>2. WallClockTypeOK'
    BY <1>19 DEF updateCurrentTaskDelay, WallClockTypeOK, Ids
  <2>3. ControlTypeOK'
    BY <1>19 DEF updateCurrentTaskDelay, ControlTypeOK, Ids
  <2>4. ClockTypeOK'
    BY <1>19 DEF updateCurrentTaskDelay, ClockTypeOK, TaskTypeOK, Ids
  <2>5. FlagTypeOK'
    BY <1>19 DEF updateCurrentTaskDelay, FlagTypeOK
  <2> QED
    BY <2>1, <2>2, <2>3, <2>4, <2>5
<1>20. ASSUME NEW t \in Threads, AwaitRefused(t)
       PROVE  TypeOK'
  <2>1. TaskTypeOK'
    BY <1>20 DEF AwaitRefused, TaskTypeOK, ClockTypeOK, Ids, AllKinds
  <2>2. WallClockTypeOK'
    BY <1>20 DEF AwaitRefused, WallClockTypeOK, Ids
  <2>3. ControlTypeOK'
    BY <1>20 DEF AwaitRefused, ControlTypeOK, Ids
  <2>4. ClockTypeOK'
    BY <1>20 DEF AwaitRefused, ClockTypeOK, TaskTypeOK, Ids
  <2>5. FlagTypeOK'
    BY <1>20 DEF AwaitRefused, FlagTypeOK
  <2> QED
    BY <2>1, <2>2, <2>3, <2>4, <2>5
<1>21. ASSUME NEW t \in Threads, NEW k \in {"await", "pre_reboot"}, AwaitSchedule(t, k)
       PROVE  TypeOK'
  <2>1. TaskTypeOK'
    BY SMTT(20), <1>21 DEF AwaitSchedule, NewTask, TaskTypeOK, ClockTypeOK, Ids, AllKinds
  <2>2. WallClockTypeOK'
    BY <1>21 DEF AwaitSchedule, NewTask, WallClockTypeOK, Ids
  <2>3. ControlTypeOK'
    BY SMTT(20), <1>21 DEF AwaitSchedule, NewTask, ControlTypeOK, TaskTypeOK, Ids
  <2>4. ClockTypeOK'
    BY SMTT(20), <1>21 DEF AwaitSchedule, NewTask, ClockTypeOK, TaskTypeOK, Ids
  <2>5. FlagTypeOK'
    BY <1>21 DEF AwaitSchedule, NewTask, FlagTypeOK
  <2> QED
    BY <2>1, <2>2, <2>3, <2>4, <2>5
<1>22. ASSUME NEW t \in Threads, halt = "no", AwaitTake(t)
       PROVE  TypeOK'
  <2>1. TaskTypeOK'
    BY <1>22 DEF AwaitTake, AwaitReturn, NotRebooting, TaskTypeOK, ClockTypeOK, Ids,
       AllKinds
  <2>2. WallClockTypeOK'
    BY <1>22 DEF AwaitTake, AwaitReturn, NotRebooting, WallClockTypeOK, Ids
  <2>3. ControlTypeOK'
    BY <1>22 DEF AwaitTake, AwaitReturn, NotRebooting, ControlTypeOK, Ids
  <2>4. ClockTypeOK'
    BY <1>22 DEF AwaitTake, AwaitReturn, NotRebooting, ClockTypeOK, TaskTypeOK, Ids
  <2>5. FlagTypeOK'
    BY <1>22 DEF AwaitTake, AwaitReturn, NotRebooting, FlagTypeOK
  <2> QED
    BY <2>1, <2>2, <2>3, <2>4, <2>5
<1>23. ASSUME NEW t \in Threads, AwaitTimeout(t)
       PROVE  TypeOK'
  <2>1. TaskTypeOK'
    BY <1>23 DEF AwaitTimeout, TaskTypeOK, ClockTypeOK, Ids, AllKinds
  <2>2. WallClockTypeOK'
    BY <1>23 DEF AwaitTimeout, WallClockTypeOK, Ids
  <2>3. ControlTypeOK'
    BY <1>23 DEF AwaitTimeout, ControlTypeOK, Ids
  <2>4. ClockTypeOK'
    BY <1>23 DEF AwaitTimeout, ClockTypeOK, TaskTypeOK, Ids
  <2>5. FlagTypeOK'
    BY <1>23 DEF AwaitTimeout, FlagTypeOK
  <2> QED
    BY <2>1, <2>2, <2>3, <2>4, <2>5
<1>24. ASSUME NEW t \in Threads, halt = "no", AwaitCancel(t)
       PROVE  TypeOK'
  <2>1. TaskTypeOK'
    BY <1>24 DEF AwaitCancel, CancelTask, TaskTypeOK, ControlTypeOK, ControlInv
  <2>2. WallClockTypeOK'
    BY <1>24 DEF AwaitCancel, CancelTask, CancelResult, AwaitReturn, NotRebooting,
       WallClockTypeOK, Ids
  <2>3. ControlTypeOK'
    BY <1>24 DEF AwaitCancel, CancelTask, CancelResult, AwaitReturn, NotRebooting,
       ControlTypeOK, Ids
  <2>4. ClockTypeOK'
    BY <1>24 DEF AwaitCancel, CancelTask, CancelResult, AwaitReturn, NotRebooting,
       ClockTypeOK, TaskTypeOK, Ids
  <2>5. FlagTypeOK'
    BY <1>24 DEF AwaitCancel, CancelTask, CancelResult, AwaitReturn, NotRebooting,
       FlagTypeOK
  <2> QED
    BY <2>1, <2>2, <2>3, <2>4, <2>5
<1>25. CASE Tick
  <2>1. TaskTypeOK'
    BY <1>25 DEF Tick, TaskTypeOK, ClockTypeOK, Ids, AllKinds
  <2>2. WallClockTypeOK'
    BY <1>25 DEF Tick, WallClockTypeOK, Ids
  <2>3. ControlTypeOK'
    BY <1>25 DEF Tick, ControlTypeOK, Ids
  <2>4. ClockTypeOK'
    BY <1>25 DEF Tick, ClockTypeOK, TaskTypeOK, Ids
  <2>5. FlagTypeOK'
    BY <1>25 DEF Tick, FlagTypeOK
  <2> QED
    BY <2>1, <2>2, <2>3, <2>4, <2>5
<1>26. ASSUME NEW o \in Offsets, SyncClock(o)
       PROVE  TypeOK'
  <2>1. TaskTypeOK'
    BY <1>26 DEF SyncClock, TaskTypeOK, ClockTypeOK, Ids, AllKinds
  <2>2. WallClockTypeOK'
    BY <1>26 DEF SyncClock, WallClockTypeOK, Ids
  <2>3. ControlTypeOK'
    BY <1>26 DEF SyncClock, ControlTypeOK, Ids
  <2>4. ClockTypeOK'
    BY <1>26 DEF SyncClock, ClockTypeOK, TaskTypeOK, Ids
  <2>5. FlagTypeOK'
    BY <1>26 DEF SyncClock, FlagTypeOK
  <2> QED
    BY <2>1, <2>2, <2>3, <2>4, <2>5
<1>27. CASE UNCHANGED vars
  <2>1. TaskTypeOK'
    BY <1>27 DEF vars, TaskTypeOK, ClockTypeOK, Ids, AllKinds
  <2>2. WallClockTypeOK'
    BY <1>27 DEF vars, WallClockTypeOK, Ids
  <2>3. ControlTypeOK'
    BY <1>27 DEF vars, ControlTypeOK, Ids
  <2>4. ClockTypeOK'
    BY <1>27 DEF vars, ClockTypeOK, TaskTypeOK, Ids
  <2>5. FlagTypeOK'
    BY <1>27 DEF vars, FlagTypeOK
  <2> QED
    BY <2>1, <2>2, <2>3, <2>4, <2>5
<1> QED
  BY <1>1, <1>2, <1>3, <1>4, <1>5, <1>6, <1>7, <1>8, <1>9, <1>10, <1>11, <1>12, <1>13,
     <1>14, <1>15, <1>16, <1>17, <1>18, <1>19, <1>20, <1>21, <1>22, <1>23, <1>24, <1>25,
     <1>26, <1>27 DEF Next, Schedule, Owner, Operate, Await

LEMMA ControlInit == Init => ControlInv
  BY DEF Init, ControlInv

LEMMA ControlStep == TypeOK /\ ControlInv /\ [Next]_vars => ControlInv'
<1> SUFFICES ASSUME TypeOK, ControlInv, [Next]_vars PROVE ControlInv'
  OBVIOUS
<1>1. ASSUME NEW k \in {"once", "restart"}, NEW first \in Delays, scheduleOnce(k, first)
      PROVE  ControlInv'
  BY <1>1 DEF scheduleOnce, ControlInv, TypeOK, TaskTypeOK, ControlTypeOK, Ids, taskVars,
     threadVars
<1>2. ASSUME NEW first \in Delays, NEW d \in Delays, scheduleWithFixedDelay(first, d)
      PROVE  ControlInv'
  BY <1>2 DEF scheduleWithFixedDelay, ControlInv, TypeOK, TaskTypeOK, ControlTypeOK, Ids,
     taskVars, threadVars
<1>3. ASSUME NEW first \in Delays, NEW d \in Delays, scheduleUncancelable(first, d)
      PROVE  ControlInv'
  BY <1>3 DEF scheduleUncancelable, ControlInv, TypeOK, TaskTypeOK, ControlTypeOK, Ids,
     taskVars, threadVars
<1>4. CASE scheduleWhenClockSynced
  BY <1>4 DEF scheduleWhenClockSynced, ControlInv, TypeOK, TaskTypeOK, ControlTypeOK, Ids,
     taskVars, threadVars
<1>5. ASSUME NEW i \in Intervals, NEW d \in Delays, NEW b \in BOOLEAN, scheduleWallClock(i, d, b)
      PROVE  ControlInv'
  BY <1>5 DEF scheduleWallClock, ControlInv, TypeOK, TaskTypeOK, ControlTypeOK, Ids,
     taskVars, threadVars
<1>6. ASSUME NEW id \in Ids, PopTask(id)
      PROVE  ControlInv'
  BY <1>6 DEF PopTask, IsTop, ControlInv, TypeOK, TaskTypeOK, ControlTypeOK, Ids, taskVars,
     threadVars
<1>7. CASE CheckRebooting
  BY <1>7 DEF CheckRebooting, ControlInv, TypeOK, TaskTypeOK, ControlTypeOK, Ids, taskVars,
     threadVars
<1>8. CASE RunPlainFn
  BY <1>8 DEF RunPlainFn, ControlInv, TypeOK, TaskTypeOK, ControlTypeOK, Ids, taskVars,
     threadVars
<1>9. CASE RunWhenClockSynced
  BY <1>9 DEF RunWhenClockSynced, ControlInv, TypeOK, TaskTypeOK, ControlTypeOK, Ids,
     taskVars, threadVars
<1>10. CASE wall_clock_worker
  BY <1>10 DEF wall_clock_worker, ControlInv, TypeOK, TaskTypeOK, ControlTypeOK, Ids,
     taskVars, threadVars
<1>11. CASE RunRestart
  BY <1>11 DEF RunRestart, ControlInv, TypeOK, TaskTypeOK, ControlTypeOK, Ids, taskVars,
     threadVars
<1>12. CASE RunPreRebootHelper
  BY <1>12 DEF RunPreRebootHelper, ControlInv, TypeOK, TaskTypeOK, ControlTypeOK, Ids,
     taskVars, threadVars
<1>13. ASSUME halt = "no", FinishTask
       PROVE  ControlInv'
  BY <1>13 DEF FinishTask, ControlInv, TypeOK, TaskTypeOK, ControlTypeOK, Ids, taskVars,
     threadVars
<1>14. ASSUME NEW id \in Ids, cancel(id)
       PROVE  ControlInv'
  BY <1>14 DEF cancel, ControlInv, TypeOK, TaskTypeOK, ControlTypeOK, Ids, taskVars,
     threadVars
<1>15. ASSUME NEW id \in Ids, cancelWallClock(id)
       PROVE  ControlInv'
  BY <1>15 DEF cancelWallClock, ControlInv, TypeOK, TaskTypeOK, ControlTypeOK, Ids,
     taskVars, threadVars
<1>16. ASSUME NEW id \in Ids, Misuse(id)
       PROVE  ControlInv'
  BY <1>16 DEF Misuse, ControlInv, TypeOK, TaskTypeOK, ControlTypeOK, Ids, taskVars,
     threadVars
<1>17. ASSUME NEW id \in Ids, rescheduleNow(id)
       PROVE  ControlInv'
  BY <1>17 DEF rescheduleNow, ControlInv, TypeOK, TaskTypeOK, ControlTypeOK, Ids, taskVars,
     threadVars
<1>18. ASSUME NEW id \in Ids, NEW d \in Delays, updateDelay(id, d)
       PROVE  ControlInv'
  BY <1>18 DEF updateDelay, ControlInv, TypeOK, TaskTypeOK, ControlTypeOK, Ids, taskVars,
     threadVars
<1>19. ASSUME NEW d \in Delays, updateCurrentTaskDelay(d)
       PROVE  ControlInv'
  BY <1>19 DEF updateCurrentTaskDelay, ControlInv, TypeOK, TaskTypeOK, ControlTypeOK, Ids,
     taskVars, threadVars
<1>20. ASSUME NEW t \in Threads, AwaitRefused(t)
       PROVE  ControlInv'
  BY <1>20 DEF AwaitRefused, ControlInv, TypeOK, TaskTypeOK, ControlTypeOK, Ids, taskVars,
     threadVars
<1>21. ASSUME NEW t \in Threads, NEW k \in {"await", "pre_reboot"}, AwaitSchedule(t, k)
       PROVE  ControlInv'
  BY <1>21 DEF AwaitSchedule, NewTask, ControlInv, TypeOK, TaskTypeOK, ControlTypeOK, Ids,
     taskVars, threadVars
<1>22. ASSUME NEW t \in Threads, halt = "no", AwaitTake(t)
       PROVE  ControlInv'
  BY <1>22 DEF AwaitTake, AwaitReturn, ControlInv, TypeOK, TaskTypeOK, ControlTypeOK, Ids,
     taskVars, threadVars
<1>23. ASSUME NEW t \in Threads, AwaitTimeout(t)
       PROVE  ControlInv'
  BY <1>23 DEF AwaitTimeout, ControlInv, TypeOK, TaskTypeOK, ControlTypeOK, Ids, taskVars,
     threadVars
<1>24. ASSUME NEW t \in Threads, halt = "no", AwaitCancel(t)
       PROVE  ControlInv'
  BY <1>24 DEF AwaitCancel, CancelResult, AwaitReturn, ControlInv, TypeOK, TaskTypeOK,
     ControlTypeOK, Ids, taskVars, threadVars
<1>25. CASE Tick
  BY <1>25 DEF Tick, ControlInv, TypeOK, TaskTypeOK, ControlTypeOK, Ids, taskVars,
     threadVars
<1>26. ASSUME NEW o \in Offsets, SyncClock(o)
       PROVE  ControlInv'
  BY <1>26 DEF SyncClock, ControlInv, TypeOK, TaskTypeOK, ControlTypeOK, Ids, taskVars,
     threadVars
<1>27. CASE UNCHANGED vars
  BY <1>27 DEF vars, ControlInv, TypeOK, TaskTypeOK, ControlTypeOK, Ids, taskVars,
     threadVars, clockVars, wallVars, historyVars
<1> QED
  BY <1>1, <1>2, <1>3, <1>4, <1>5, <1>6, <1>7, <1>8, <1>9, <1>10, <1>11, <1>12, <1>13,
     <1>14, <1>15, <1>16, <1>17, <1>18, <1>19, <1>20, <1>21, <1>22, <1>23, <1>24, <1>25,
     <1>26, <1>27 DEF Next, Schedule, Owner, Operate, Await

\* Every reachable state of the scheduler is well typed, for any number of
\* threads, tasks and clock settings; custom_loop and await keep task ids only
\* where the code has a task.
THEOREM TypeCorrect == Spec => []TypeOK
<1>1. Init => TypeOK /\ ControlInv
  BY TypeInit, ControlInit
<1>2. TypeOK /\ ControlInv /\ [Next]_vars => (TypeOK /\ ControlInv)'
  BY TypeStep, ControlStep
<1> QED
  BY <1>1, <1>2, PTL DEF Spec

-----------------------------------------------------------------------------
(* Ownership of tasks and cancellation.                                    *)

\* Only ids that were handed out are in use.
NumberInv ==
    /\ tasks \cup runner_task \cup wall_clock_tasks \subseteq 1..last_task_id
    /\ cancelled \cup retired \subseteq 1..last_task_id
    /\ currentTask <= last_task_id
    /\ \A t \in Threads : awaited[t] <= last_task_id

AwaitKinds == {"await", "pre_reboot"}

\* The marker bits of the ids tell wall clock and awaited tasks apart.
KindInv ==
    /\ \A id \in wall_clock_tasks : kind[id] = "wall"
    /\ \A t \in Threads : awaited[t] # 0 => kind[awaited[t]] \in AwaitKinds

\* A task object is in one place; a runner at home belongs to a registered
\* wall clock task, and the runner of a registered one is somewhere.
OwnerInv ==
    /\ OneOwner
    /\ runner_task \subseteq wall_clock_tasks
    /\ wall_clock_tasks \subseteq tasks \cup runner_task \cup {currentTask}

\* Cancelled tasks can only be running any more.
CancelInv ==
    /\ cancelled \cap (tasks \cup wall_clock_tasks) = {}
    /\ retired \cap (tasks \cup wall_clock_tasks) = {}
    /\ currentTask \in retired => currentTask \in cancelled

LEMMA NumberStep == TypeOK /\ ControlInv /\ NumberInv /\ [Next]_vars => NumberInv'
<1> SUFFICES ASSUME TypeOK, ControlInv, NumberInv, [Next]_vars PROVE NumberInv'
  OBVIOUS
<1>0. /\ last_task_id \in Nat
      /\ currentTask \in Nat
      /\ kind \in [Ids -> AllKinds]
      /\ awaited \in [Threads -> Nat]
  BY DEF TypeOK, TaskTypeOK, ControlTypeOK, Ids
<1>1. ASSUME NEW k \in {"once", "restart"}, NEW first \in Delays, scheduleOnce(k, first)
      PROVE  NumberInv'
  BY <1>1, <1>0 DEF scheduleOnce, NewTask, wallVars, threadVars, historyVars, NumberInv,
     ControlInv, Ids
<1>2. ASSUME NEW first \in Delays, NEW d \in Delays, scheduleWithFixedDelay(first, d)
      PROVE  NumberInv'
  BY <1>2, <1>0 DEF scheduleWithFixedDelay, NewTask, wallVars, threadVars, historyVars,
     NumberInv, ControlInv, Ids
<1>3. ASSUME NEW first \in Delays, NEW d \in Delays, scheduleUncancelable(first, d)
      PROVE  NumberInv'
  BY <1>3, <1>0 DEF scheduleUncancelable, NewTask, wallVars, threadVars, historyVars,
     NumberInv, ControlInv, Ids
<1>4. CASE scheduleWhenClockSynced
  BY <1>4, <1>0 DEF scheduleWhenClockSynced, NewTask, wallVars, threadVars, historyVars,
     NumberInv, ControlInv, Ids
<1>5. ASSUME NEW i \in Intervals, NEW d \in Delays, NEW b \in BOOLEAN, scheduleWallClock(i, d, b)
      PROVE  NumberInv'
  BY <1>5, <1>0 DEF scheduleWallClock, threadVars, historyVars, NumberInv, ControlInv, Ids
<1>6. ASSUME NEW id \in Ids, PopTask(id)
      PROVE  NumberInv'
  BY <1>6, <1>0 DEF PopTask, IsTop, taskVars, wallVars, threadVars, NumberInv, ControlInv,
     Ids
<1>7. CASE CheckRebooting
  BY <1>7, <1>0 DEF CheckRebooting, taskVars, wallVars, threadVars, historyVars, NumberInv,
     ControlInv, Ids
<1>8. CASE RunPlainFn
  BY <1>8, <1>0 DEF RunPlainFn, taskVars, wallVars, threadVars, NumberInv, ControlInv, Ids
<1>9. CASE RunWhenClockSynced
  BY <1>9, <1>0 DEF RunWhenClockSynced, wallVars, threadVars, NumberInv, ControlInv, Ids
<1>10. CASE wall_clock_worker
  BY <1>10, <1>0 DEF wall_clock_worker, StartedRunners, RunnersLeft, threadVars, NumberInv,
     ControlInv, Ids
<1>11. CASE RunRestart
  BY <1>11, <1>0 DEF RunRestart, taskVars, wallVars, threadVars, NumberInv, ControlInv, Ids
<1>12. CASE RunPreRebootHelper
  BY <1>12, <1>0 DEF RunPreRebootHelper, taskVars, wallVars, threadVars, NumberInv,
     ControlInv, Ids
<1>13. ASSUME halt = "no", FinishTask
       PROVE  NumberInv'
  BY <1>13, <1>0 DEF FinishTask, ReturnedRunner, Requeued, threadVars, historyVars,
     NumberInv, ControlInv, Ids
<1>14. ASSUME NEW id \in Ids, cancel(id)
       PROVE  NumberInv'
  BY <1>14, <1>0 DEF cancel, CancelTask, CancelResult, IsHandedOut, HandedOutKinds,
     wallVars, threadVars, NumberInv, ControlInv, Ids
<1>15. ASSUME NEW id \in Ids, cancelWallClock(id)
       PROVE  NumberInv'
  BY <1>15, <1>0 DEF cancelWallClock, CancelTask, IsHandedOut, threadVars, NumberInv,
     ControlInv, Ids
<1>16. ASSUME NEW id \in Ids, Misuse(id)
       PROVE  NumberInv'
  BY <1>16, <1>0 DEF Misuse, taskVars, wallVars, threadVars, historyVars, NumberInv,
     ControlInv, Ids
<1>17. ASSUME NEW id \in Ids, rescheduleNow(id)
       PROVE  NumberInv'
  BY <1>17, <1>0 DEF rescheduleNow, wallVars, threadVars, NumberInv, ControlInv, Ids
<1>18. ASSUME NEW id \in Ids, NEW d \in Delays, updateDelay(id, d)
       PROVE  NumberInv'
  BY <1>18, <1>0 DEF updateDelay, wallVars, threadVars, NumberInv, ControlInv, Ids
<1>19. ASSUME NEW d \in Delays, updateCurrentTaskDelay(d)
       PROVE  NumberInv'
  BY <1>19, <1>0 DEF updateCurrentTaskDelay, wallVars, threadVars, historyVars, NumberInv,
     ControlInv, Ids
<1>20. ASSUME NEW t \in Threads, AwaitRefused(t)
       PROVE  NumberInv'
  BY <1>20, <1>0 DEF AwaitRefused, taskVars, wallVars, historyVars, NumberInv, ControlInv,
     Ids
<1>21. ASSUME NEW t \in Threads, NEW k \in {"await", "pre_reboot"}, AwaitSchedule(t, k)
       PROVE  NumberInv'
  BY <1>21, <1>0 DEF AwaitSchedule, NewTask, wallVars, historyVars, NumberInv, ControlInv,
     Ids
<1>22. ASSUME NEW t \in Threads, halt = "no", AwaitTake(t)
       PROVE  NumberInv'
  BY <1>22, <1>0 DEF AwaitTake, AwaitReturn, taskVars, wallVars, historyVars, NumberInv,
     ControlInv, Ids
<1>23. ASSUME NEW t \in Threads, AwaitTimeout(t)
       PROVE  NumberInv'
  BY <1>23, <1>0 DEF AwaitTimeout, taskVars, wallVars, historyVars, NumberInv, ControlInv,
     Ids
<1>24. ASSUME NEW t \in Threads, halt = "no", AwaitCancel(t)
       PROVE  NumberInv'
  BY <1>24, <1>0 DEF AwaitCancel, CancelTask, CancelResult, AwaitReturn, wallVars,
     historyVars, NumberInv, ControlInv, Ids
<1>25. CASE Tick
  BY <1>25, <1>0 DEF Tick, taskVars, wallVars, threadVars, historyVars, NumberInv,
     ControlInv, Ids
<1>26. ASSUME NEW o \in Offsets, SyncClock(o)
       PROVE  NumberInv'
  BY <1>26, <1>0 DEF SyncClock, taskVars, wallVars, threadVars, historyVars, NumberInv,
     ControlInv, Ids
<1>27. CASE UNCHANGED vars
  BY <1>27, <1>0 DEF vars, taskVars, wallVars, threadVars, historyVars, clockVars,
     NumberInv, ControlInv, Ids
<1> QED
  BY <1>1, <1>2, <1>3, <1>4, <1>5, <1>6, <1>7, <1>8, <1>9, <1>10, <1>11, <1>12, <1>13,
     <1>14, <1>15, <1>16, <1>17, <1>18, <1>19, <1>20, <1>21, <1>22, <1>23, <1>24, <1>25,
     <1>26, <1>27 DEF Next, Schedule, Owner, Operate, Await

LEMMA KindStep == TypeOK /\ ControlInv /\ NumberInv /\ KindInv /\ [Next]_vars => KindInv'
<1> SUFFICES ASSUME TypeOK, ControlInv, NumberInv, KindInv, [Next]_vars PROVE KindInv'
  OBVIOUS
<1>0. /\ last_task_id \in Nat
      /\ currentTask \in Nat
      /\ kind \in [Ids -> AllKinds]
      /\ awaited \in [Threads -> Nat]
  BY DEF TypeOK, TaskTypeOK, ControlTypeOK, Ids
<1>1. ASSUME NEW k \in {"once", "restart"}, NEW first \in Delays, scheduleOnce(k, first)
      PROVE  KindInv'
  BY <1>1, <1>0 DEF scheduleOnce, NewTask, wallVars, threadVars, historyVars, KindInv,
     NumberInv, AwaitKinds, Ids
<1>2. ASSUME NEW first \in Delays, NEW d \in Delays, scheduleWithFixedDelay(first, d)
      PROVE  KindInv'
  BY <1>2, <1>0 DEF scheduleWithFixedDelay, NewTask, wallVars, threadVars, historyVars,
     KindInv, NumberInv, AwaitKinds, Ids
<1>3. ASSUME NEW first \in Delays, NEW d \in Delays, scheduleUncancelable(first, d)
      PROVE  KindInv'
  BY <1>3, <1>0 DEF scheduleUncancelable, NewTask, wallVars, threadVars, historyVars,
     KindInv, NumberInv, AwaitKinds, Ids
<1>4. CASE scheduleWhenClockSynced
  BY <1>4, <1>0 DEF scheduleWhenClockSynced, NewTask, wallVars, threadVars, historyVars,
     KindInv, NumberInv, AwaitKinds, Ids
<1>5. ASSUME NEW i \in Intervals, NEW d \in Delays, NEW b \in BOOLEAN, scheduleWallClock(i, d, b)
      PROVE  KindInv'
  BY <1>5, <1>0 DEF scheduleWallClock, threadVars, historyVars, KindInv, NumberInv,
     AwaitKinds, Ids
<1>6. ASSUME NEW id \in Ids, PopTask(id)
      PROVE  KindInv'
  BY <1>6, <1>0 DEF PopTask, IsTop, taskVars, wallVars, threadVars, KindInv, NumberInv,
     AwaitKinds, Ids
<1>7. CASE CheckRebooting
  BY <1>7, <1>0 DEF CheckRebooting, taskVars, wallVars, threadVars, historyVars, KindInv,
     NumberInv, AwaitKinds, Ids
<1>8. CASE RunPlainFn
  BY <1>8, <1>0 DEF RunPlainFn, taskVars, wallVars, threadVars, KindInv, NumberInv,
     AwaitKinds, Ids
<1>9. CASE RunWhenClockSynced
  BY <1>9, <1>0 DEF RunWhenClockSynced, wallVars, threadVars, KindInv, NumberInv,
     AwaitKinds, Ids
<1>10. CASE wall_clock_worker
  BY <1>10, <1>0 DEF wall_clock_worker, StartedRunners, RunnersLeft, threadVars, KindInv,
     NumberInv, AwaitKinds, Ids
<1>11. CASE RunRestart
  BY <1>11, <1>0 DEF RunRestart, taskVars, wallVars, threadVars, KindInv, NumberInv,
     AwaitKinds, Ids
<1>12. CASE RunPreRebootHelper
  BY <1>12, <1>0 DEF RunPreRebootHelper, taskVars, wallVars, threadVars, KindInv, NumberInv,
     AwaitKinds, Ids
<1>13. ASSUME halt = "no", FinishTask
       PROVE  KindInv'
  BY <1>13, <1>0 DEF FinishTask, ReturnedRunner, Requeued, threadVars, historyVars, KindInv,
     NumberInv, AwaitKinds, Ids
<1>14. ASSUME NEW id \in Ids, cancel(id)
       PROVE  KindInv'
  BY <1>14, <1>0 DEF cancel, CancelTask, CancelResult, IsHandedOut, HandedOutKinds,
     wallVars, threadVars, KindInv, NumberInv, AwaitKinds, Ids
<1>15. ASSUME NEW id \in Ids, cancelWallClock(id)
       PROVE  KindInv'
  BY <1>15, <1>0 DEF cancelWallClock, CancelTask, IsHandedOut, threadVars, KindInv,
     NumberInv, AwaitKinds, Ids
<1>16. ASSUME NEW id \in Ids, Misuse(id)
       PROVE  KindInv'
  BY <1>16, <1>0 DEF Misuse, taskVars, wallVars, threadVars, historyVars, KindInv,
     NumberInv, AwaitKinds, Ids
<1>17. ASSUME NEW id \in Ids, rescheduleNow(id)
       PROVE  KindInv'
  BY <1>17, <1>0 DEF rescheduleNow, wallVars, threadVars, KindInv, NumberInv, AwaitKinds,
     Ids
<1>18. ASSUME NEW id \in Ids, NEW d \in Delays, updateDelay(id, d)
       PROVE  KindInv'
  BY <1>18, <1>0 DEF updateDelay, wallVars, threadVars, KindInv, NumberInv, AwaitKinds, Ids
<1>19. ASSUME NEW d \in Delays, updateCurrentTaskDelay(d)
       PROVE  KindInv'
  BY <1>19, <1>0 DEF updateCurrentTaskDelay, wallVars, threadVars, historyVars, KindInv,
     NumberInv, AwaitKinds, Ids
<1>20. ASSUME NEW t \in Threads, AwaitRefused(t)
       PROVE  KindInv'
  BY <1>20, <1>0 DEF AwaitRefused, taskVars, wallVars, historyVars, KindInv, NumberInv,
     AwaitKinds, Ids
<1>21. ASSUME NEW t \in Threads, NEW k \in {"await", "pre_reboot"}, AwaitSchedule(t, k)
       PROVE  KindInv'
  BY <1>21, <1>0 DEF AwaitSchedule, NewTask, wallVars, historyVars, KindInv, NumberInv,
     AwaitKinds, Ids
<1>22. ASSUME NEW t \in Threads, halt = "no", AwaitTake(t)
       PROVE  KindInv'
  BY <1>22, <1>0 DEF AwaitTake, AwaitReturn, taskVars, wallVars, historyVars, KindInv,
     NumberInv, AwaitKinds, Ids
<1>23. ASSUME NEW t \in Threads, AwaitTimeout(t)
       PROVE  KindInv'
  BY <1>23, <1>0 DEF AwaitTimeout, taskVars, wallVars, historyVars, KindInv, NumberInv,
     AwaitKinds, Ids
<1>24. ASSUME NEW t \in Threads, halt = "no", AwaitCancel(t)
       PROVE  KindInv'
  BY <1>24, <1>0 DEF AwaitCancel, CancelTask, CancelResult, AwaitReturn, wallVars,
     historyVars, KindInv, NumberInv, AwaitKinds, Ids
<1>25. CASE Tick
  BY <1>25, <1>0 DEF Tick, taskVars, wallVars, threadVars, historyVars, KindInv, NumberInv,
     AwaitKinds, Ids
<1>26. ASSUME NEW o \in Offsets, SyncClock(o)
       PROVE  KindInv'
  BY <1>26, <1>0 DEF SyncClock, taskVars, wallVars, threadVars, historyVars, KindInv,
     NumberInv, AwaitKinds, Ids
<1>27. CASE UNCHANGED vars
  BY <1>27, <1>0 DEF vars, taskVars, wallVars, threadVars, historyVars, clockVars, KindInv,
     NumberInv, AwaitKinds, Ids
<1> QED
  BY <1>1, <1>2, <1>3, <1>4, <1>5, <1>6, <1>7, <1>8, <1>9, <1>10, <1>11, <1>12, <1>13,
     <1>14, <1>15, <1>16, <1>17, <1>18, <1>19, <1>20, <1>21, <1>22, <1>23, <1>24, <1>25,
     <1>26, <1>27 DEF Next, Schedule, Owner, Operate, Await

LEMMA OwnerStep == TypeOK /\ ControlInv /\ NumberInv /\ KindInv /\ OwnerInv /\ [Next]_vars => OwnerInv'
<1> SUFFICES ASSUME TypeOK, ControlInv, NumberInv, KindInv, OwnerInv, [Next]_vars PROVE OwnerInv'
  OBVIOUS
<1>0. /\ last_task_id \in Nat
      /\ currentTask \in Nat
      /\ kind \in [Ids -> AllKinds]
      /\ awaited \in [Threads -> Nat]
  BY DEF TypeOK, TaskTypeOK, ControlTypeOK, Ids
<1>1. ASSUME NEW k \in {"once", "restart"}, NEW first \in Delays, scheduleOnce(k, first)
      PROVE  OwnerInv'
  BY <1>1, <1>0 DEF scheduleOnce, NewTask, wallVars, threadVars, historyVars, OwnerInv,
     OneOwner, ControlInv, KindInv, NumberInv, AwaitKinds, Ids
<1>2. ASSUME NEW first \in Delays, NEW d \in Delays, scheduleWithFixedDelay(first, d)
      PROVE  OwnerInv'
  BY <1>2, <1>0 DEF scheduleWithFixedDelay, NewTask, wallVars, threadVars, historyVars,
     OwnerInv, OneOwner, ControlInv, KindInv, NumberInv, AwaitKinds, Ids
<1>3. ASSUME NEW first \in Delays, NEW d \in Delays, scheduleUncancelable(first, d)
      PROVE  OwnerInv'
  BY <1>3, <1>0 DEF scheduleUncancelable, NewTask, wallVars, threadVars, historyVars,
     OwnerInv, OneOwner, ControlInv, KindInv, NumberInv, AwaitKinds, Ids
<1>4. CASE scheduleWhenClockSynced
  BY <1>4, <1>0 DEF scheduleWhenClockSynced, NewTask, wallVars, threadVars, historyVars,
     OwnerInv, OneOwner, ControlInv, KindInv, NumberInv, AwaitKinds, Ids
<1>5. ASSUME NEW i \in Intervals, NEW d \in Delays, NEW b \in BOOLEAN, scheduleWallClock(i, d, b)
      PROVE  OwnerInv'
  BY <1>5, <1>0 DEF scheduleWallClock, threadVars, historyVars, OwnerInv, OneOwner,
     ControlInv, KindInv, NumberInv, AwaitKinds, Ids
<1>6. ASSUME NEW id \in Ids, PopTask(id)
      PROVE  OwnerInv'
  BY <1>6, <1>0 DEF PopTask, IsTop, taskVars, wallVars, threadVars, OwnerInv, OneOwner,
     ControlInv, KindInv, NumberInv, AwaitKinds, Ids
<1>7. CASE CheckRebooting
  BY <1>7, <1>0 DEF CheckRebooting, taskVars, wallVars, threadVars, historyVars, OwnerInv,
     OneOwner, ControlInv, KindInv, NumberInv, AwaitKinds, Ids
<1>8. CASE RunPlainFn
  BY <1>8, <1>0 DEF RunPlainFn, taskVars, wallVars, threadVars, OwnerInv, OneOwner,
     ControlInv, KindInv, NumberInv, AwaitKinds, Ids
<1>9. CASE RunWhenClockSynced
  BY <1>9, <1>0 DEF RunWhenClockSynced, wallVars, threadVars, OwnerInv, OneOwner,
     ControlInv, KindInv, NumberInv, AwaitKinds, Ids
<1>10. CASE wall_clock_worker
  BY <1>10, <1>0 DEF wall_clock_worker, StartedRunners, RunnersLeft, threadVars, OwnerInv,
     OneOwner, ControlInv, KindInv, NumberInv, AwaitKinds, Ids
<1>11. CASE RunRestart
  BY <1>11, <1>0 DEF RunRestart, taskVars, wallVars, threadVars, OwnerInv, OneOwner,
     ControlInv, KindInv, NumberInv, AwaitKinds, Ids
<1>12. CASE RunPreRebootHelper
  BY <1>12, <1>0 DEF RunPreRebootHelper, taskVars, wallVars, threadVars, OwnerInv, OneOwner,
     ControlInv, KindInv, NumberInv, AwaitKinds, Ids
<1>13. ASSUME halt = "no", FinishTask
       PROVE  OwnerInv'
  <2>1. /\ ReturnedRunner(currentTask) \subseteq {currentTask} \cap wall_clock_tasks
        /\ Requeued(currentTask) \subseteq {currentTask}
        /\ ReturnedRunner(currentTask) = {} \/ Requeued(currentTask) = {}
    BY DEF ReturnedRunner, Requeued, OnceKinds
  <2>2. currentTask \in wall_clock_tasks => currentTask \in ReturnedRunner(currentTask)
    BY DEF ReturnedRunner, KindInv
  <2>3. currentTask # 0
    BY <1>13 DEF FinishTask, ControlInv
  <2>4. /\ tasks' = tasks \cup Requeued(currentTask)
        /\ runner_task' = runner_task \cup ReturnedRunner(currentTask)
        /\ currentTask' = 0
        /\ wall_clock_tasks' = wall_clock_tasks
    BY <1>13 DEF FinishTask
  <2>5. 0 \notin tasks /\ 0 \notin wall_clock_tasks
    BY <1>0 DEF NumberInv
  <2> QED
    BY <2>1, <2>2, <2>3, <2>4, <2>5 DEF OwnerInv, OneOwner
<1>14. ASSUME NEW id \in Ids, cancel(id)
       PROVE  OwnerInv'
  BY <1>14, <1>0 DEF cancel, CancelTask, CancelResult, IsHandedOut, HandedOutKinds,
     wallVars, threadVars, OwnerInv, OneOwner, ControlInv, KindInv, NumberInv, AwaitKinds,
     Ids
<1>15. ASSUME NEW id \in Ids, cancelWallClock(id)
       PROVE  OwnerInv'
  BY <1>15, <1>0 DEF cancelWallClock, CancelTask, IsHandedOut, threadVars, OwnerInv,
     OneOwner, ControlInv, KindInv, NumberInv, AwaitKinds, Ids
<1>16. ASSUME NEW id \in Ids, Misuse(id)
       PROVE  OwnerInv'
  BY <1>16, <1>0 DEF Misuse, taskVars, wallVars, threadVars, historyVars, OwnerInv,
     OneOwner, ControlInv, KindInv, NumberInv, AwaitKinds, Ids
<1>17. ASSUME NEW id \in Ids, rescheduleNow(id)
       PROVE  OwnerInv'
  BY <1>17, <1>0 DEF rescheduleNow, wallVars, threadVars, OwnerInv, OneOwner, ControlInv,
     KindInv, NumberInv, AwaitKinds, Ids
<1>18. ASSUME NEW id \in Ids, NEW d \in Delays, updateDelay(id, d)
       PROVE  OwnerInv'
  BY <1>18, <1>0 DEF updateDelay, wallVars, threadVars, OwnerInv, OneOwner, ControlInv,
     KindInv, NumberInv, AwaitKinds, Ids
<1>19. ASSUME NEW d \in Delays, updateCurrentTaskDelay(d)
       PROVE  OwnerInv'
  BY <1>19, <1>0 DEF updateCurrentTaskDelay, wallVars, threadVars, historyVars, OwnerInv,
     OneOwner, ControlInv, KindInv, NumberInv, AwaitKinds, Ids
<1>20. ASSUME NEW t \in Threads, AwaitRefused(t)
       PROVE  OwnerInv'
  BY <1>20, <1>0 DEF AwaitRefused, taskVars, wallVars, historyVars, OwnerInv, OneOwner,
     ControlInv, KindInv, NumberInv, AwaitKinds, Ids
<1>21. ASSUME NEW t \in Threads, NEW k \in {"await", "pre_reboot"}, AwaitSchedule(t, k)
       PROVE  OwnerInv'
  BY <1>21, <1>0 DEF AwaitSchedule, NewTask, wallVars, historyVars, OwnerInv, OneOwner,
     ControlInv, KindInv, NumberInv, AwaitKinds, Ids
<1>22. ASSUME NEW t \in Threads, halt = "no", AwaitTake(t)
       PROVE  OwnerInv'
  BY <1>22, <1>0 DEF AwaitTake, AwaitReturn, taskVars, wallVars, historyVars, OwnerInv,
     OneOwner, ControlInv, KindInv, NumberInv, AwaitKinds, Ids
<1>23. ASSUME NEW t \in Threads, AwaitTimeout(t)
       PROVE  OwnerInv'
  BY <1>23, <1>0 DEF AwaitTimeout, taskVars, wallVars, historyVars, OwnerInv, OneOwner,
     ControlInv, KindInv, NumberInv, AwaitKinds, Ids
<1>24. ASSUME NEW t \in Threads, halt = "no", AwaitCancel(t)
       PROVE  OwnerInv'
  BY <1>24, <1>0 DEF AwaitCancel, CancelTask, CancelResult, AwaitReturn, wallVars,
     historyVars, OwnerInv, OneOwner, ControlInv, KindInv, NumberInv, AwaitKinds, Ids
<1>25. CASE Tick
  BY <1>25, <1>0 DEF Tick, taskVars, wallVars, threadVars, historyVars, OwnerInv, OneOwner,
     ControlInv, KindInv, NumberInv, AwaitKinds, Ids
<1>26. ASSUME NEW o \in Offsets, SyncClock(o)
       PROVE  OwnerInv'
  BY <1>26, <1>0 DEF SyncClock, taskVars, wallVars, threadVars, historyVars, OwnerInv,
     OneOwner, ControlInv, KindInv, NumberInv, AwaitKinds, Ids
<1>27. CASE UNCHANGED vars
  BY <1>27, <1>0 DEF vars, taskVars, wallVars, threadVars, historyVars, clockVars, OwnerInv,
     OneOwner, ControlInv, KindInv, NumberInv, AwaitKinds, Ids
<1> QED
  BY <1>1, <1>2, <1>3, <1>4, <1>5, <1>6, <1>7, <1>8, <1>9, <1>10, <1>11, <1>12, <1>13,
     <1>14, <1>15, <1>16, <1>17, <1>18, <1>19, <1>20, <1>21, <1>22, <1>23, <1>24, <1>25,
     <1>26, <1>27 DEF Next, Schedule, Owner, Operate, Await

LEMMA CancelStep == TypeOK /\ ControlInv /\ NumberInv /\ KindInv /\ OwnerInv /\ CancelInv /\ [Next]_vars => CancelInv'
<1> SUFFICES ASSUME TypeOK, ControlInv, NumberInv, KindInv, OwnerInv, CancelInv, [Next]_vars PROVE CancelInv'
  OBVIOUS
<1>0. /\ last_task_id \in Nat
      /\ currentTask \in Nat
      /\ kind \in [Ids -> AllKinds]
      /\ awaited \in [Threads -> Nat]
  BY DEF TypeOK, TaskTypeOK, ControlTypeOK, Ids
<1>1. ASSUME NEW k \in {"once", "restart"}, NEW first \in Delays, scheduleOnce(k, first)
      PROVE  CancelInv'
  BY <1>1, <1>0 DEF scheduleOnce, NewTask, wallVars, threadVars, historyVars, CancelInv,
     OwnerInv, OneOwner, ControlInv, KindInv, NumberInv, AwaitKinds, Ids
<1>2. ASSUME NEW first \in Delays, NEW d \in Delays, scheduleWithFixedDelay(first, d)
      PROVE  CancelInv'
  BY <1>2, <1>0 DEF scheduleWithFixedDelay, NewTask, wallVars, threadVars, historyVars,
     CancelInv, OwnerInv, OneOwner, ControlInv, KindInv, NumberInv, AwaitKinds, Ids
<1>3. ASSUME NEW first \in Delays, NEW d \in Delays, scheduleUncancelable(first, d)
      PROVE  CancelInv'
  BY <1>3, <1>0 DEF scheduleUncancelable, NewTask, wallVars, threadVars, historyVars,
     CancelInv, OwnerInv, OneOwner, ControlInv, KindInv, NumberInv, AwaitKinds, Ids
<1>4. CASE scheduleWhenClockSynced
  BY <1>4, <1>0 DEF scheduleWhenClockSynced, NewTask, wallVars, threadVars, historyVars,
     CancelInv, OwnerInv, OneOwner, ControlInv, KindInv, NumberInv, AwaitKinds, Ids
<1>5. ASSUME NEW i \in Intervals, NEW d \in Delays, NEW b \in BOOLEAN, scheduleWallClock(i, d, b)
      PROVE  CancelInv'
  BY <1>5, <1>0 DEF scheduleWallClock, threadVars, historyVars, CancelInv, OwnerInv,
     OneOwner, ControlInv, KindInv, NumberInv, AwaitKinds, Ids
<1>6. ASSUME NEW id \in Ids, PopTask(id)
      PROVE  CancelInv'
  BY <1>6, <1>0 DEF PopTask, IsTop, taskVars, wallVars, threadVars, CancelInv, OwnerInv,
     OneOwner, ControlInv, KindInv, NumberInv, AwaitKinds, Ids
<1>7. CASE CheckRebooting
  BY <1>7, <1>0 DEF CheckRebooting, taskVars, wallVars, threadVars, historyVars, CancelInv,
     OwnerInv, OneOwner, ControlInv, KindInv, NumberInv, AwaitKinds, Ids
<1>8. CASE RunPlainFn
  BY <1>8, <1>0 DEF RunPlainFn, taskVars, wallVars, threadVars, CancelInv, OwnerInv,
     OneOwner, ControlInv, KindInv, NumberInv, AwaitKinds, Ids
<1>9. CASE RunWhenClockSynced
  BY <1>9, <1>0 DEF RunWhenClockSynced, wallVars, threadVars, CancelInv, OwnerInv, OneOwner,
     ControlInv, KindInv, NumberInv, AwaitKinds, Ids
<1>10. CASE wall_clock_worker
  BY <1>10, <1>0 DEF wall_clock_worker, StartedRunners, RunnersLeft, threadVars, CancelInv,
     OwnerInv, OneOwner, ControlInv, KindInv, NumberInv, AwaitKinds, Ids
<1>11. CASE RunRestart
  BY <1>11, <1>0 DEF RunRestart, taskVars, wallVars, threadVars, CancelInv, OwnerInv,
     OneOwner, ControlInv, KindInv, NumberInv, AwaitKinds, Ids
<1>12. CASE RunPreRebootHelper
  BY <1>12, <1>0 DEF RunPreRebootHelper, taskVars, wallVars, threadVars, CancelInv,
     OwnerInv, OneOwner, ControlInv, KindInv, NumberInv, AwaitKinds, Ids
<1>13. ASSUME halt = "no", FinishTask
       PROVE  CancelInv'
  BY <1>13, <1>0 DEF FinishTask, ReturnedRunner, Requeued, threadVars, historyVars,
     CancelInv, OwnerInv, OneOwner, ControlInv, KindInv, NumberInv, AwaitKinds, Ids
<1>14. ASSUME NEW id \in Ids, cancel(id)
       PROVE  CancelInv'
  BY <1>14, <1>0 DEF cancel, CancelTask, CancelResult, IsHandedOut, HandedOutKinds,
     wallVars, threadVars, CancelInv, OwnerInv, OneOwner, ControlInv, KindInv, NumberInv,
     AwaitKinds, Ids
<1>15. ASSUME NEW id \in Ids, cancelWallClock(id)
       PROVE  CancelInv'
  BY <1>15, <1>0 DEF cancelWallClock, CancelTask, IsHandedOut, threadVars, CancelInv,
     OwnerInv, OneOwner, ControlInv, KindInv, NumberInv, AwaitKinds, Ids
<1>16. ASSUME NEW id \in Ids, Misuse(id)
       PROVE  CancelInv'
  BY <1>16, <1>0 DEF Misuse, taskVars, wallVars, threadVars, historyVars, CancelInv,
     OwnerInv, OneOwner, ControlInv, KindInv, NumberInv, AwaitKinds, Ids
<1>17. ASSUME NEW id \in Ids, rescheduleNow(id)
       PROVE  CancelInv'
  BY <1>17, <1>0 DEF rescheduleNow, wallVars, threadVars, CancelInv, OwnerInv, OneOwner,
     ControlInv, KindInv, NumberInv, AwaitKinds, Ids
<1>18. ASSUME NEW id \in Ids, NEW d \in Delays, updateDelay(id, d)
       PROVE  CancelInv'
  BY <1>18, <1>0 DEF updateDelay, wallVars, threadVars, CancelInv, OwnerInv, OneOwner,
     ControlInv, KindInv, NumberInv, AwaitKinds, Ids
<1>19. ASSUME NEW d \in Delays, updateCurrentTaskDelay(d)
       PROVE  CancelInv'
  BY <1>19, <1>0 DEF updateCurrentTaskDelay, wallVars, threadVars, historyVars, CancelInv,
     OwnerInv, OneOwner, ControlInv, KindInv, NumberInv, AwaitKinds, Ids
<1>20. ASSUME NEW t \in Threads, AwaitRefused(t)
       PROVE  CancelInv'
  BY <1>20, <1>0 DEF AwaitRefused, taskVars, wallVars, historyVars, CancelInv, OwnerInv,
     OneOwner, ControlInv, KindInv, NumberInv, AwaitKinds, Ids
<1>21. ASSUME NEW t \in Threads, NEW k \in {"await", "pre_reboot"}, AwaitSchedule(t, k)
       PROVE  CancelInv'
  BY <1>21, <1>0 DEF AwaitSchedule, NewTask, wallVars, historyVars, CancelInv, OwnerInv,
     OneOwner, ControlInv, KindInv, NumberInv, AwaitKinds, Ids
<1>22. ASSUME NEW t \in Threads, halt = "no", AwaitTake(t)
       PROVE  CancelInv'
  BY <1>22, <1>0 DEF AwaitTake, AwaitReturn, taskVars, wallVars, historyVars, CancelInv,
     OwnerInv, OneOwner, ControlInv, KindInv, NumberInv, AwaitKinds, Ids
<1>23. ASSUME NEW t \in Threads, AwaitTimeout(t)
       PROVE  CancelInv'
  BY <1>23, <1>0 DEF AwaitTimeout, taskVars, wallVars, historyVars, CancelInv, OwnerInv,
     OneOwner, ControlInv, KindInv, NumberInv, AwaitKinds, Ids
<1>24. ASSUME NEW t \in Threads, halt = "no", AwaitCancel(t)
       PROVE  CancelInv'
  BY <1>24, <1>0 DEF AwaitCancel, CancelTask, CancelResult, AwaitReturn, wallVars,
     historyVars, CancelInv, OwnerInv, OneOwner, ControlInv, KindInv, NumberInv, AwaitKinds,
     Ids
<1>25. CASE Tick
  BY <1>25, <1>0 DEF Tick, taskVars, wallVars, threadVars, historyVars, CancelInv, OwnerInv,
     OneOwner, ControlInv, KindInv, NumberInv, AwaitKinds, Ids
<1>26. ASSUME NEW o \in Offsets, SyncClock(o)
       PROVE  CancelInv'
  BY <1>26, <1>0 DEF SyncClock, taskVars, wallVars, threadVars, historyVars, CancelInv,
     OwnerInv, OneOwner, ControlInv, KindInv, NumberInv, AwaitKinds, Ids
<1>27. CASE UNCHANGED vars
  BY <1>27, <1>0 DEF vars, taskVars, wallVars, threadVars, historyVars, clockVars,
     CancelInv, OwnerInv, OneOwner, ControlInv, KindInv, NumberInv, AwaitKinds, Ids
<1> QED
  BY <1>1, <1>2, <1>3, <1>4, <1>5, <1>6, <1>7, <1>8, <1>9, <1>10, <1>11, <1>12, <1>13,
     <1>14, <1>15, <1>16, <1>17, <1>18, <1>19, <1>20, <1>21, <1>22, <1>23, <1>24, <1>25,
     <1>26, <1>27 DEF Next, Schedule, Owner, Operate, Await

-----------------------------------------------------------------------------
(* Threads in await.                                                       *)

\* awaited_by of a queued or running task and awaited of the thread point at
\* each other; a thread that entered await without a pending notification has
\* none before its task is finished.
PlainInv ==
    \A id \in Ids : kind[id] \notin AwaitKinds => awaited_by[id] = NoThread

PointerInv ==
    halt = "no" => \A id \in tasks \cup {currentTask} :
        id # 0 /\ awaited_by[id] # NoThread
            => awaited[awaited_by[id]] = id /\ tpc[awaited_by[id]] # "idle"

BackInv ==
    \A t \in Threads :
        tpc[t] # "idle" /\ awaited[t] \in tasks \cup {currentTask} => awaited_by[awaited[t]] = t

CleanInv ==
    \A t \in Threads \ entered_pending :
        tpc[t] # "idle" /\ awaited[t] \in tasks \cup {currentTask} => notify[t] = 0

LeftInv ==
    \A t \in Threads \ entered_pending :
        tpc[t] = "idle" => \A id \in tasks \cup {currentTask} : id # 0 => awaited_by[id] # t

AwaitInv == PlainInv /\ PointerInv /\ BackInv /\ CleanInv /\ NoLostWakeup /\ LeftInv

LEMMA AwaitStep == TypeOK /\ ControlInv /\ NumberInv /\ KindInv /\ OwnerInv /\ AwaitInv /\ [Next]_vars => AwaitInv'
<1> SUFFICES ASSUME TypeOK, ControlInv, NumberInv, KindInv, OwnerInv, AwaitInv, [Next]_vars PROVE AwaitInv'
  OBVIOUS
<1>0. /\ last_task_id \in Nat
      /\ currentTask \in Nat
      /\ kind \in [Ids -> AllKinds]
      /\ awaited \in [Threads -> Nat]
      /\ awaited_by \in [Ids -> Threads \cup {NoThread}]
      /\ notify \in [Threads -> Nat]
      /\ tpc \in [Threads -> {"idle", "wait", "timed_out"}]
      /\ tasks \subseteq Ids
      /\ currentTask \in Ids \cup {0}
      /\ wall_clock_tasks \subseteq Ids
  BY DEF TypeOK, WallClockTypeOK, TaskTypeOK, ControlTypeOK, Ids
<1>1. ASSUME NEW k \in {"once", "restart"}, NEW first \in Delays, scheduleOnce(k, first)
      PROVE  AwaitInv'
  <2>1. PlainInv'
    BY <1>1, <1>0 DEF scheduleOnce, NewTask, wallVars, threadVars, historyVars, AwaitInv,
       PlainInv, ControlInv, KindInv, NumberInv, AwaitKinds, Ids
  <2>2. PointerInv'
    BY <1>1, <1>0 DEF scheduleOnce, NewTask, wallVars, threadVars, historyVars, AwaitInv,
       PointerInv, ControlInv, KindInv, NumberInv, AwaitKinds, Ids
  <2>3. BackInv'
    BY <1>1, <1>0 DEF scheduleOnce, NewTask, wallVars, threadVars, historyVars, AwaitInv,
       BackInv, ControlInv, KindInv, NumberInv, AwaitKinds, Ids
  <2>4. CleanInv'
    BY <1>1, <1>0 DEF scheduleOnce, NewTask, wallVars, threadVars, historyVars, AwaitInv,
       CleanInv, ControlInv, KindInv, NumberInv, AwaitKinds, Ids
  <2>5. NoLostWakeup'
    BY <1>1, <1>0 DEF scheduleOnce, NewTask, wallVars, threadVars, historyVars, AwaitInv,
       NoLostWakeup, ControlInv, KindInv, NumberInv, AwaitKinds, Ids
  <2>6. LeftInv'
    BY <1>1, <1>0 DEF scheduleOnce, NewTask, wallVars, threadVars, historyVars, AwaitInv,
       LeftInv, ControlInv, KindInv, NumberInv, AwaitKinds, Ids
  <2> QED
    BY <2>1, <2>2, <2>3, <2>4, <2>5, <2>6 DEF AwaitInv
<1>2. ASSUME NEW first \in Delays, NEW d \in Delays, scheduleWithFixedDelay(first, d)
      PROVE  AwaitInv'
  <2>1. PlainInv'
    BY <1>2, <1>0 DEF scheduleWithFixedDelay, NewTask, wallVars, threadVars, historyVars,
       AwaitInv, PlainInv, ControlInv, KindInv, NumberInv, AwaitKinds, Ids
  <2>2. PointerInv'
    BY <1>2, <1>0 DEF scheduleWithFixedDelay, NewTask, wallVars, threadVars, historyVars,
       AwaitInv, PointerInv, ControlInv, KindInv, NumberInv, AwaitKinds, Ids
  <2>3. BackInv'
    BY <1>2, <1>0 DEF scheduleWithFixedDelay, NewTask, wallVars, threadVars, historyVars,
       AwaitInv, BackInv, ControlInv, KindInv, NumberInv, AwaitKinds, Ids
  <2>4. CleanInv'
    BY <1>2, <1>0 DEF scheduleWithFixedDelay, NewTask, wallVars, threadVars, historyVars,
       AwaitInv, CleanInv, ControlInv, KindInv, NumberInv, AwaitKinds, Ids
  <2>5. NoLostWakeup'
    BY <1>2, <1>0 DEF scheduleWithFixedDelay, NewTask, wallVars, threadVars, historyVars,
       AwaitInv, NoLostWakeup, ControlInv, KindInv, NumberInv, AwaitKinds, Ids
  <2>6. LeftInv'
    BY <1>2, <1>0 DEF scheduleWithFixedDelay, NewTask, wallVars, threadVars, historyVars,
       AwaitInv, LeftInv, ControlInv, KindInv, NumberInv, AwaitKinds, Ids
  <2> QED
    BY <2>1, <2>2, <2>3, <2>4, <2>5, <2>6 DEF AwaitInv
<1>3. ASSUME NEW first \in Delays, NEW d \in Delays, scheduleUncancelable(first, d)
      PROVE  AwaitInv'
  <2>1. PlainInv'
    BY <1>3, <1>0 DEF scheduleUncancelable, NewTask, wallVars, threadVars, historyVars,
       AwaitInv, PlainInv, ControlInv, KindInv, NumberInv, AwaitKinds, Ids
  <2>2. PointerInv'
    BY <1>3, <1>0 DEF scheduleUncancelable, NewTask, wallVars, threadVars, historyVars,
       AwaitInv, PointerInv, ControlInv, KindInv, NumberInv, AwaitKinds, Ids
  <2>3. BackInv'
    BY <1>3, <1>0 DEF scheduleUncancelable, NewTask, wallVars, threadVars, historyVars,
       AwaitInv, BackInv, ControlInv, KindInv, NumberInv, AwaitKinds, Ids
  <2>4. CleanInv'
    BY <1>3, <1>0 DEF scheduleUncancelable, NewTask, wallVars, threadVars, historyVars,
       AwaitInv, CleanInv, ControlInv, KindInv, NumberInv, AwaitKinds, Ids
  <2>5. NoLostWakeup'
    BY <1>3, <1>0 DEF scheduleUncancelable, NewTask, wallVars, threadVars, historyVars,
       AwaitInv, NoLostWakeup, ControlInv, KindInv, NumberInv, AwaitKinds, Ids
  <2>6. LeftInv'
    BY <1>3, <1>0 DEF scheduleUncancelable, NewTask, wallVars, threadVars, historyVars,
       AwaitInv, LeftInv, ControlInv, KindInv, NumberInv, AwaitKinds, Ids
  <2> QED
    BY <2>1, <2>2, <2>3, <2>4, <2>5, <2>6 DEF AwaitInv
<1>4. CASE scheduleWhenClockSynced
  <2>1. PlainInv'
    BY <1>4, <1>0 DEF scheduleWhenClockSynced, NewTask, wallVars, threadVars, historyVars,
       AwaitInv, PlainInv, ControlInv, KindInv, NumberInv, AwaitKinds, Ids
  <2>2. PointerInv'
    BY <1>4, <1>0 DEF scheduleWhenClockSynced, NewTask, wallVars, threadVars, historyVars,
       AwaitInv, PointerInv, ControlInv, KindInv, NumberInv, AwaitKinds, Ids
  <2>3. BackInv'
    BY <1>4, <1>0 DEF scheduleWhenClockSynced, NewTask, wallVars, threadVars, historyVars,
       AwaitInv, BackInv, ControlInv, KindInv, NumberInv, AwaitKinds, Ids
  <2>4. CleanInv'
    BY <1>4, <1>0 DEF scheduleWhenClockSynced, NewTask, wallVars, threadVars, historyVars,
       AwaitInv, CleanInv, ControlInv, KindInv, NumberInv, AwaitKinds, Ids
  <2>5. NoLostWakeup'
    BY <1>4, <1>0 DEF scheduleWhenClockSynced, NewTask, wallVars, threadVars, historyVars,
       AwaitInv, NoLostWakeup, ControlInv, KindInv, NumberInv, AwaitKinds, Ids
  <2>6. LeftInv'
    BY <1>4, <1>0 DEF scheduleWhenClockSynced, NewTask, wallVars, threadVars, historyVars,
       AwaitInv, LeftInv, ControlInv, KindInv, NumberInv, AwaitKinds, Ids
  <2> QED
    BY <2>1, <2>2, <2>3, <2>4, <2>5, <2>6 DEF AwaitInv
<1>5. ASSUME NEW i \in Intervals, NEW d \in Delays, NEW b \in BOOLEAN, scheduleWallClock(i, d, b)
      PROVE  AwaitInv'
  <2>1. PlainInv'
    BY <1>5, <1>0 DEF scheduleWallClock, threadVars, historyVars, AwaitInv, PlainInv,
       ControlInv, KindInv, NumberInv, AwaitKinds, Ids
  <2>2. PointerInv'
    BY <1>5, <1>0 DEF scheduleWallClock, threadVars, historyVars, AwaitInv, PointerInv,
       ControlInv, KindInv, NumberInv, AwaitKinds, Ids
  <2>3. BackInv'
    BY <1>5, <1>0 DEF scheduleWallClock, threadVars, historyVars, AwaitInv, BackInv,
       ControlInv, KindInv, NumberInv, AwaitKinds, Ids
  <2>4. CleanInv'
    BY <1>5, <1>0 DEF scheduleWallClock, threadVars, historyVars, AwaitInv, CleanInv,
       ControlInv, KindInv, NumberInv, AwaitKinds, Ids
  <2>5. NoLostWakeup'
    BY <1>5, <1>0 DEF scheduleWallClock, threadVars, historyVars, AwaitInv, NoLostWakeup,
       ControlInv, KindInv, NumberInv, AwaitKinds, Ids
  <2>6. LeftInv'
    BY <1>5, <1>0 DEF scheduleWallClock, threadVars, historyVars, AwaitInv, LeftInv,
       ControlInv, KindInv, NumberInv, AwaitKinds, Ids
  <2> QED
    BY <2>1, <2>2, <2>3, <2>4, <2>5, <2>6 DEF AwaitInv
<1>6. ASSUME NEW id \in Ids, PopTask(id)
      PROVE  AwaitInv'
  BY <1>6, <1>0 DEF PopTask, IsTop, taskVars, wallVars, threadVars, AwaitInv, PlainInv,
     PointerInv, BackInv, CleanInv, NoLostWakeup, LeftInv, ControlInv, KindInv, NumberInv,
     AwaitKinds, Ids
<1>7. CASE CheckRebooting
  BY <1>7, <1>0 DEF CheckRebooting, taskVars, wallVars, threadVars, historyVars, AwaitInv,
     PlainInv, PointerInv, BackInv, CleanInv, NoLostWakeup, LeftInv, ControlInv, KindInv,
     NumberInv, AwaitKinds, Ids
<1>8. CASE RunPlainFn
  BY <1>8, <1>0 DEF RunPlainFn, taskVars, wallVars, threadVars, AwaitInv, PlainInv,
     PointerInv, BackInv, CleanInv, NoLostWakeup, LeftInv, ControlInv, KindInv, NumberInv,
     AwaitKinds, Ids
<1>9. CASE RunWhenClockSynced
  BY <1>9, <1>0 DEF RunWhenClockSynced, wallVars, threadVars, AwaitInv, PlainInv,
     PointerInv, BackInv, CleanInv, NoLostWakeup, LeftInv, ControlInv, KindInv, NumberInv,
     AwaitKinds, Ids
<1>10. CASE wall_clock_worker
  <2>10. /\ tasks \subseteq tasks'
         /\ tasks' \subseteq tasks \cup wall_clock_tasks
         /\ UNCHANGED <<kind, awaited_by, currentTask, tpc, awaited, notify, entered_pending, halt>>
    BY <1>10 DEF wall_clock_worker, StartedRunners, RunnersLeft, threadVars
  <2>11. \A id \in wall_clock_tasks : awaited_by[id] = NoThread
    BY <1>0 DEF AwaitInv, PlainInv, KindInv, AwaitKinds, NumberInv, Ids
  <2>1. PlainInv'
    BY <2>10 DEF AwaitInv, PlainInv
  <2>2. PointerInv'
    BY <1>0, <2>10, <2>11 DEF AwaitInv, KindInv, AwaitKinds, ControlInv, PointerInv
  <2>3. BackInv'
    BY <1>0, <2>10, <2>11 DEF AwaitInv, KindInv, AwaitKinds, ControlInv, BackInv
  <2>4. CleanInv'
    BY <1>0, <2>10, <2>11 DEF AwaitInv, KindInv, AwaitKinds, ControlInv, CleanInv
  <2>5. NoLostWakeup'
    BY <1>0, <2>10, <2>11 DEF AwaitInv, KindInv, AwaitKinds, ControlInv, NoLostWakeup
  <2>6. LeftInv'
    BY <1>0, <2>10, <2>11 DEF AwaitInv, KindInv, AwaitKinds, ControlInv, LeftInv
  <2> QED
    BY <2>1, <2>2, <2>3, <2>4, <2>5, <2>6 DEF AwaitInv
<1>11. CASE RunRestart
  BY <1>11, <1>0 DEF RunRestart, taskVars, wallVars, threadVars, AwaitInv, PlainInv,
     PointerInv, BackInv, CleanInv, NoLostWakeup, LeftInv, ControlInv, KindInv, NumberInv,
     AwaitKinds, Ids
<1>12. CASE RunPreRebootHelper
  BY <1>12, <1>0 DEF RunPreRebootHelper, taskVars, wallVars, threadVars, AwaitInv, PlainInv,
     PointerInv, BackInv, CleanInv, NoLostWakeup, LeftInv, ControlInv, KindInv, NumberInv,
     AwaitKinds, Ids
<1>13. ASSUME halt = "no", FinishTask
       PROVE  AwaitInv'
  <2>10. /\ Requeued(currentTask) \subseteq {currentTask}
         /\ kind[currentTask] \in AwaitKinds => Requeued(currentTask) = {}
    BY DEF Requeued, OnceKinds, AwaitKinds
  <2>11. /\ currentTask \in Ids \ tasks
         /\ currentTask' = 0
         /\ tasks' = tasks \cup Requeued(currentTask)
         /\ awaited_by' = [awaited_by EXCEPT ![currentTask] = NoThread]
         /\ notify' = [t \in Threads |-> IF t = awaited_by[currentTask] THEN notify[t] + 1
                                         ELSE notify[t]]
         /\ UNCHANGED <<kind, tpc, awaited, entered_pending, halt>>
    BY <1>13, <1>0 DEF FinishTask, NotifyGive, ControlInv, OwnerInv, OneOwner, threadVars
  <2>12. \A t \in Threads : tpc[t] # "idle" => awaited[t] # 0 /\ awaited[t] \notin Requeued(currentTask)
    BY <2>10, <1>0 DEF KindInv, ControlInv
  <2>1. PlainInv'
    BY <1>13, <1>0, <2>10, <2>11, <2>12 DEF AwaitInv, PlainInv
  <2>2. PointerInv'
    BY <1>13, <1>0, <2>10, <2>11, <2>12 DEF AwaitInv, PointerInv
  <2>3. BackInv'
    BY <1>13, <1>0, <2>10, <2>11, <2>12 DEF AwaitInv, BackInv
  <2>4. CleanInv'
    <3> SUFFICES ASSUME NEW t \in Threads \ entered_pending, tpc[t] # "idle",
                        awaited[t] \in tasks' \cup {0}
                 PROVE  notify'[t] = 0
      BY <2>11 DEF CleanInv
    <3>1. awaited[t] \in tasks
      BY <2>11, <2>12
    <3>2. notify[t] = 0
      BY <3>1 DEF AwaitInv, CleanInv
    <3>3. awaited_by[currentTask] # t
      BY <1>13, <1>0, <2>11, <3>1 DEF AwaitInv, PointerInv, Ids
    <3> QED
      BY <2>11, <3>2, <3>3
  <2>5. NoLostWakeup'
    BY <1>13, <1>0, <2>10, <2>11, <2>12 DEF AwaitInv, NoLostWakeup, BackInv
  <2>6. LeftInv'
    BY <1>13, <1>0, <2>10, <2>11, <2>12 DEF AwaitInv, LeftInv
  <2> QED
    BY <2>1, <2>2, <2>3, <2>4, <2>5, <2>6 DEF AwaitInv
<1>14. ASSUME NEW id \in Ids, cancel(id)
       PROVE  AwaitInv'
  <2>1. PlainInv'
    BY <1>14, <1>0 DEF cancel, CancelTask, CancelResult, IsHandedOut, HandedOutKinds,
       wallVars, threadVars, AwaitInv, PlainInv, ControlInv, KindInv, NumberInv, AwaitKinds,
       Ids
  <2>2. PointerInv'
    BY <1>14, <1>0 DEF cancel, CancelTask, CancelResult, IsHandedOut, HandedOutKinds,
       wallVars, threadVars, AwaitInv, PointerInv, ControlInv, KindInv, NumberInv,
       AwaitKinds, Ids
  <2>3. BackInv'
    BY <1>14, <1>0 DEF cancel, CancelTask, CancelResult, IsHandedOut, HandedOutKinds,
       wallVars, threadVars, AwaitInv, BackInv, ControlInv, KindInv, NumberInv, AwaitKinds,
       Ids
  <2>4. CleanInv'
    BY <1>14, <1>0 DEF cancel, CancelTask, CancelResult, IsHandedOut, HandedOutKinds,
       wallVars, threadVars, AwaitInv, CleanInv, ControlInv, KindInv, NumberInv, AwaitKinds,
       Ids
  <2>5. NoLostWakeup'
    BY <1>14, <1>0 DEF cancel, CancelTask, CancelResult, IsHandedOut, HandedOutKinds,
       wallVars, threadVars, AwaitInv, NoLostWakeup, ControlInv, KindInv, NumberInv,
       AwaitKinds, Ids
  <2>6. LeftInv'
    BY <1>14, <1>0 DEF cancel, CancelTask, CancelResult, IsHandedOut, HandedOutKinds,
       wallVars, threadVars, AwaitInv, LeftInv, ControlInv, KindInv, NumberInv, AwaitKinds,
       Ids
  <2> QED
    BY <2>1, <2>2, <2>3, <2>4, <2>5, <2>6 DEF AwaitInv
<1>15. ASSUME NEW id \in Ids, cancelWallClock(id)
       PROVE  AwaitInv'
  <2>1. PlainInv'
    BY <1>15, <1>0 DEF cancelWallClock, CancelTask, IsHandedOut, threadVars, AwaitInv,
       PlainInv, ControlInv, KindInv, NumberInv, AwaitKinds, Ids
  <2>2. PointerInv'
    BY <1>15, <1>0 DEF cancelWallClock, CancelTask, IsHandedOut, threadVars, AwaitInv,
       PointerInv, ControlInv, KindInv, NumberInv, AwaitKinds, Ids
  <2>3. BackInv'
    BY <1>15, <1>0 DEF cancelWallClock, CancelTask, IsHandedOut, threadVars, AwaitInv,
       BackInv, ControlInv, KindInv, NumberInv, AwaitKinds, Ids
  <2>4. CleanInv'
    BY <1>15, <1>0 DEF cancelWallClock, CancelTask, IsHandedOut, threadVars, AwaitInv,
       CleanInv, ControlInv, KindInv, NumberInv, AwaitKinds, Ids
  <2>5. NoLostWakeup'
    BY <1>15, <1>0 DEF cancelWallClock, CancelTask, IsHandedOut, threadVars, AwaitInv,
       NoLostWakeup, ControlInv, KindInv, NumberInv, AwaitKinds, Ids
  <2>6. LeftInv'
    BY <1>15, <1>0 DEF cancelWallClock, CancelTask, IsHandedOut, threadVars, AwaitInv,
       LeftInv, ControlInv, KindInv, NumberInv, AwaitKinds, Ids
  <2> QED
    BY <2>1, <2>2, <2>3, <2>4, <2>5, <2>6 DEF AwaitInv
<1>16. ASSUME NEW id \in Ids, Misuse(id)
       PROVE  AwaitInv'
  BY <1>16, <1>0 DEF Misuse, taskVars, wallVars, threadVars, historyVars, AwaitInv,
     PlainInv, PointerInv, BackInv, CleanInv, NoLostWakeup, LeftInv, ControlInv, KindInv,
     NumberInv, AwaitKinds, Ids
<1>17. ASSUME NEW id \in Ids, rescheduleNow(id)
       PROVE  AwaitInv'
  <2>1. PlainInv'
    BY <1>17, <1>0 DEF rescheduleNow, wallVars, threadVars, AwaitInv, PlainInv, ControlInv,
       KindInv, NumberInv, AwaitKinds, Ids
  <2>2. PointerInv'
    BY <1>17, <1>0 DEF rescheduleNow, wallVars, threadVars, AwaitInv, PointerInv,
       ControlInv, KindInv, NumberInv, AwaitKinds, Ids
  <2>3. BackInv'
    BY <1>17, <1>0 DEF rescheduleNow, wallVars, threadVars, AwaitInv, BackInv, ControlInv,
       KindInv, NumberInv, AwaitKinds, Ids
  <2>4. CleanInv'
    BY <1>17, <1>0 DEF rescheduleNow, wallVars, threadVars, AwaitInv, CleanInv, ControlInv,
       KindInv, NumberInv, AwaitKinds, Ids
  <2>5. NoLostWakeup'
    BY <1>17, <1>0 DEF rescheduleNow, wallVars, threadVars, AwaitInv, NoLostWakeup,
       ControlInv, KindInv, NumberInv, AwaitKinds, Ids
  <2>6. LeftInv'
    BY <1>17, <1>0 DEF rescheduleNow, wallVars, threadVars, AwaitInv, LeftInv, ControlInv,
       KindInv, NumberInv, AwaitKinds, Ids
  <2> QED
    BY <2>1, <2>2, <2>3, <2>4, <2>5, <2>6 DEF AwaitInv
<1>18. ASSUME NEW id \in Ids, NEW d \in Delays, updateDelay(id, d)
       PROVE  AwaitInv'
  <2>1. PlainInv'
    BY <1>18, <1>0 DEF updateDelay, wallVars, threadVars, AwaitInv, PlainInv, ControlInv,
       KindInv, NumberInv, AwaitKinds, Ids
  <2>2. PointerInv'
    BY <1>18, <1>0 DEF updateDelay, wallVars, threadVars, AwaitInv, PointerInv, ControlInv,
       KindInv, NumberInv, AwaitKinds, Ids
  <2>3. BackInv'
    BY <1>18, <1>0 DEF updateDelay, wallVars, threadVars, AwaitInv, BackInv, ControlInv,
       KindInv, NumberInv, AwaitKinds, Ids
  <2>4. CleanInv'
    BY <1>18, <1>0 DEF updateDelay, wallVars, threadVars, AwaitInv, CleanInv, ControlInv,
       KindInv, NumberInv, AwaitKinds, Ids
  <2>5. NoLostWakeup'
    BY <1>18, <1>0 DEF updateDelay, wallVars, threadVars, AwaitInv, NoLostWakeup,
       ControlInv, KindInv, NumberInv, AwaitKinds, Ids
  <2>6. LeftInv'
    BY <1>18, <1>0 DEF updateDelay, wallVars, threadVars, AwaitInv, LeftInv, ControlInv,
       KindInv, NumberInv, AwaitKinds, Ids
  <2> QED
    BY <2>1, <2>2, <2>3, <2>4, <2>5, <2>6 DEF AwaitInv
<1>19. ASSUME NEW d \in Delays, updateCurrentTaskDelay(d)
       PROVE  AwaitInv'
  BY <1>19, <1>0 DEF updateCurrentTaskDelay, wallVars, threadVars, historyVars, AwaitInv,
     PlainInv, PointerInv, BackInv, CleanInv, NoLostWakeup, LeftInv, ControlInv, KindInv,
     NumberInv, AwaitKinds, Ids
<1>20. ASSUME NEW t \in Threads, AwaitRefused(t)
       PROVE  AwaitInv'
  <2>1. PlainInv'
    BY <1>20, <1>0 DEF AwaitRefused, taskVars, wallVars, historyVars, AwaitInv, PlainInv,
       ControlInv, KindInv, NumberInv, AwaitKinds, Ids
  <2>2. PointerInv'
    BY <1>20, <1>0 DEF AwaitRefused, taskVars, wallVars, historyVars, AwaitInv, PointerInv,
       ControlInv, KindInv, NumberInv, AwaitKinds, Ids
  <2>3. BackInv'
    BY <1>20, <1>0 DEF AwaitRefused, taskVars, wallVars, historyVars, AwaitInv, BackInv,
       ControlInv, KindInv, NumberInv, AwaitKinds, Ids
  <2>4. CleanInv'
    BY <1>20, <1>0 DEF AwaitRefused, taskVars, wallVars, historyVars, AwaitInv, CleanInv,
       ControlInv, KindInv, NumberInv, AwaitKinds, Ids
  <2>5. NoLostWakeup'
    BY <1>20, <1>0 DEF AwaitRefused, taskVars, wallVars, historyVars, AwaitInv,
       NoLostWakeup, ControlInv, KindInv, NumberInv, AwaitKinds, Ids
  <2>6. LeftInv'
    BY <1>20, <1>0 DEF AwaitRefused, taskVars, wallVars, historyVars, AwaitInv, LeftInv,
       ControlInv, KindInv, NumberInv, AwaitKinds, Ids
  <2> QED
    BY <2>1, <2>2, <2>3, <2>4, <2>5, <2>6 DEF AwaitInv
<1>21. ASSUME NEW t \in Threads, NEW k \in {"await", "pre_reboot"}, AwaitSchedule(t, k)
       PROVE  AwaitInv'
  <2>1. PlainInv'
    BY <1>21, <1>0 DEF AwaitSchedule, NewTask, wallVars, historyVars, AwaitInv, PlainInv,
       ControlInv, KindInv, NumberInv, AwaitKinds, Ids
  <2>2. PointerInv'
    BY <1>21, <1>0 DEF AwaitSchedule, NewTask, wallVars, historyVars, AwaitInv, PointerInv,
       ControlInv, KindInv, NumberInv, AwaitKinds, Ids
  <2>3. BackInv'
    BY <1>21, <1>0 DEF AwaitSchedule, NewTask, wallVars, historyVars, AwaitInv, BackInv,
       ControlInv, KindInv, NumberInv, AwaitKinds, Ids
  <2>4. CleanInv'
    BY <1>21, <1>0 DEF AwaitSchedule, NewTask, wallVars, historyVars, AwaitInv, CleanInv,
       ControlInv, KindInv, NumberInv, AwaitKinds, Ids
  <2>5. NoLostWakeup'
    BY <1>21, <1>0 DEF AwaitSchedule, NewTask, wallVars, historyVars, AwaitInv,
       NoLostWakeup, ControlInv, KindInv, NumberInv, AwaitKinds, Ids
  <2>6. LeftInv'
    BY <1>21, <1>0 DEF AwaitSchedule, NewTask, wallVars, historyVars, AwaitInv, LeftInv,
       PointerInv, ControlInv, KindInv, NumberInv, AwaitKinds, Ids
  <2> QED
    BY <2>1, <2>2, <2>3, <2>4, <2>5, <2>6 DEF AwaitInv
<1>22. ASSUME NEW t \in Threads, halt = "no", AwaitTake(t)
       PROVE  AwaitInv'
  <2>1. PlainInv'
    BY <1>22, <1>0 DEF AwaitTake, AwaitReturn, taskVars, wallVars, historyVars, AwaitInv,
       PlainInv, ControlInv, KindInv, NumberInv, AwaitKinds, Ids
  <2>2. PointerInv'
    BY <1>22, <1>0 DEF AwaitTake, AwaitReturn, taskVars, wallVars, historyVars, AwaitInv,
       PointerInv, CleanInv, BackInv, ControlInv, KindInv, NumberInv, AwaitKinds, Ids
  <2>3. BackInv'
    BY <1>22, <1>0 DEF AwaitTake, AwaitReturn, taskVars, wallVars, historyVars, AwaitInv,
       BackInv, ControlInv, KindInv, NumberInv, AwaitKinds, Ids
  <2>4. CleanInv'
    BY <1>22, <1>0 DEF AwaitTake, AwaitReturn, taskVars, wallVars, historyVars, AwaitInv,
       CleanInv, ControlInv, KindInv, NumberInv, AwaitKinds, Ids
  <2>5. NoLostWakeup'
    BY <1>22, <1>0 DEF AwaitTake, AwaitReturn, taskVars, wallVars, historyVars, AwaitInv,
       NoLostWakeup, ControlInv, KindInv, NumberInv, AwaitKinds, Ids
  <2>6. LeftInv'
    BY <1>22, <1>0 DEF AwaitTake, AwaitReturn, taskVars, wallVars, historyVars, AwaitInv,
       LeftInv, CleanInv, PointerInv, ControlInv, KindInv, NumberInv, AwaitKinds, Ids
  <2> QED
    BY <2>1, <2>2, <2>3, <2>4, <2>5, <2>6 DEF AwaitInv
<1>23. ASSUME NEW t \in Threads, AwaitTimeout(t)
       PROVE  AwaitInv'
  <2>1. PlainInv'
    BY <1>23, <1>0 DEF AwaitTimeout, taskVars, wallVars, historyVars, AwaitInv, PlainInv,
       ControlInv, KindInv, NumberInv, AwaitKinds, Ids
  <2>2. PointerInv'
    BY <1>23, <1>0 DEF AwaitTimeout, taskVars, wallVars, historyVars, AwaitInv, PointerInv,
       ControlInv, KindInv, NumberInv, AwaitKinds, Ids
  <2>3. BackInv'
    BY <1>23, <1>0 DEF AwaitTimeout, taskVars, wallVars, historyVars, AwaitInv, BackInv,
       ControlInv, KindInv, NumberInv, AwaitKinds, Ids
  <2>4. CleanInv'
    BY <1>23, <1>0 DEF AwaitTimeout, taskVars, wallVars, historyVars, AwaitInv, CleanInv,
       ControlInv, KindInv, NumberInv, AwaitKinds, Ids
  <2>5. NoLostWakeup'
    BY <1>23, <1>0 DEF AwaitTimeout, taskVars, wallVars, historyVars, AwaitInv,
       NoLostWakeup, ControlInv, KindInv, NumberInv, AwaitKinds, Ids
  <2>6. LeftInv'
    BY <1>23, <1>0 DEF AwaitTimeout, taskVars, wallVars, historyVars, AwaitInv, LeftInv,
       ControlInv, KindInv, NumberInv, AwaitKinds, Ids
  <2> QED
    BY <2>1, <2>2, <2>3, <2>4, <2>5, <2>6 DEF AwaitInv
<1>24. ASSUME NEW t \in Threads, halt = "no", AwaitCancel(t)
       PROVE  AwaitInv'
  <2>1. CASE awaited[t] = currentTask
    <3>1. /\ UNCHANGED <<kind, awaited_by, tasks, currentTask, tpc, awaited, notify, entered_pending>>
          /\ halt' = "abort"
      BY <1>24, <2>1 DEF AwaitCancel, CancelTask, CancelResult
    <3> QED
      BY <3>1 DEF AwaitInv, PlainInv, PointerInv, BackInv, CleanInv, NoLostWakeup, LeftInv
  <2>2. CASE awaited[t] # currentTask
    <3>1. /\ tasks' = tasks \ {awaited[t]}
          /\ tpc' = [tpc EXCEPT ![t] = "idle"]
          /\ UNCHANGED <<kind, awaited_by, currentTask, awaited, notify, entered_pending>>
      BY <1>24, <2>2 DEF AwaitCancel, CancelTask, CancelResult, AwaitReturn
    <3>2. tpc[t] = "timed_out"
      BY <1>24 DEF AwaitCancel
    <3>3. \A u \in Threads : u # t /\ tpc[u] # "idle" /\ awaited[u] \in tasks => awaited[u] # awaited[t]
      BY <3>2 DEF AwaitInv, BackInv
    <3>4. PlainInv'
      BY <3>1 DEF AwaitInv, PlainInv
    <3>5. PointerInv'
      BY <1>24, <1>0, <2>2, <3>1 DEF AwaitInv, PointerInv
    <3>6. BackInv' /\ CleanInv'
      BY <1>0, <3>1 DEF AwaitInv, BackInv, CleanInv
    <3>7. NoLostWakeup'
      BY <1>0, <3>1, <3>3 DEF AwaitInv, NoLostWakeup
    <3>8. LeftInv'
      BY <1>24, <1>0, <2>2, <3>1 DEF AwaitInv, LeftInv, PointerInv
    <3> QED
      BY <3>4, <3>5, <3>6, <3>7, <3>8 DEF AwaitInv
  <2> QED
    BY <2>1, <2>2
<1>25. CASE Tick
  BY <1>25, <1>0 DEF Tick, taskVars, wallVars, threadVars, historyVars, AwaitInv, PlainInv,
     PointerInv, BackInv, CleanInv, NoLostWakeup, LeftInv, ControlInv, KindInv, NumberInv,
     AwaitKinds, Ids
<1>26. ASSUME NEW o \in Offsets, SyncClock(o)
       PROVE  AwaitInv'
  BY <1>26, <1>0 DEF SyncClock, taskVars, wallVars, threadVars, historyVars, AwaitInv,
     PlainInv, PointerInv, BackInv, CleanInv, NoLostWakeup, LeftInv, ControlInv, KindInv,
     NumberInv, AwaitKinds, Ids
<1>27. CASE UNCHANGED vars
  BY <1>27, <1>0 DEF vars, taskVars, wallVars, threadVars, historyVars, clockVars, AwaitInv,
     PlainInv, PointerInv, BackInv, CleanInv, NoLostWakeup, LeftInv, ControlInv, KindInv,
     NumberInv, AwaitKinds, Ids
<1> QED
  BY <1>1, <1>2, <1>3, <1>4, <1>5, <1>6, <1>7, <1>8, <1>9, <1>10, <1>11, <1>12, <1>13,
     <1>14, <1>15, <1>16, <1>17, <1>18, <1>19, <1>20, <1>21, <1>22, <1>23, <1>24, <1>25,
     <1>26, <1>27 DEF Next, Schedule, Owner, Operate, Await

-----------------------------------------------------------------------------
\* The kinds of task that run once; awaited tasks are among them.
SingleKinds == {"once", "restart", "sync"} \cup AwaitKinds

\* A task that runs once has not run before custom_loop calls it; the function of
\* scheduleWhenClockSynced has cancelled its task before it is counted.
RunsInv ==
    /\ \A id \in Ids : last_task_id < id => runs[id] = 0
    /\ \A id \in Ids : kind[id] \in SingleKinds =>
          /\ runs[id] <= 1
          /\ id \in tasks => runs[id] = 0
          /\ id = currentTask /\ pc \in {"popped", "run"} => runs[id] = 0
          /\ id = currentTask /\ kind[id] = "sync" /\ runs[id] # 0 => id \in cancelled

\* No step lets such a task run again.
LEMMA RunsStep == TypeOK /\ ControlInv /\ NumberInv /\ KindInv /\ OwnerInv /\ CancelInv /\ RunsInv /\ [Next]_vars => RunsInv'
<1> SUFFICES ASSUME TypeOK, ControlInv, NumberInv, KindInv, OwnerInv, CancelInv, RunsInv, [Next]_vars PROVE RunsInv'
  OBVIOUS
<1>0. /\ last_task_id \in Nat
      /\ currentTask \in Nat
      /\ kind \in [Ids -> AllKinds]
      /\ runs \in [Ids -> 0..2]
      /\ tasks \subseteq Ids
      /\ tasks \subseteq 1..last_task_id
      /\ currentTask \in Ids \cup {0}
      /\ currentTask <= last_task_id
  BY DEF TypeOK, TaskTypeOK, ClockTypeOK, NumberInv, Ids
<1>1. ASSUME NEW k \in {"once", "restart"}, NEW first \in Delays, scheduleOnce(k, first)
      PROVE  RunsInv'
  BY <1>1, <1>0 DEF scheduleOnce, NewTask, wallVars, threadVars, historyVars, RunsInv,
     SingleKinds, AwaitKinds, OnceKinds, Ids, ControlInv
<1>2. ASSUME NEW first \in Delays, NEW d \in Delays, scheduleWithFixedDelay(first, d)
      PROVE  RunsInv'
  BY <1>2, <1>0 DEF scheduleWithFixedDelay, NewTask, wallVars, threadVars, historyVars,
     RunsInv, SingleKinds, AwaitKinds, OnceKinds, Ids, ControlInv
<1>3. ASSUME NEW first \in Delays, NEW d \in Delays, scheduleUncancelable(first, d)
      PROVE  RunsInv'
  BY <1>3, <1>0 DEF scheduleUncancelable, NewTask, wallVars, threadVars, historyVars,
     RunsInv, SingleKinds, AwaitKinds, OnceKinds, Ids, ControlInv
<1>4. CASE scheduleWhenClockSynced
  BY <1>4, <1>0 DEF scheduleWhenClockSynced, NewTask, wallVars, threadVars, historyVars,
     RunsInv, SingleKinds, AwaitKinds, OnceKinds, Ids, ControlInv
<1>5. ASSUME NEW i \in Intervals, NEW d \in Delays, NEW b \in BOOLEAN, scheduleWallClock(i, d, b)
      PROVE  RunsInv'
  BY <1>5, <1>0 DEF scheduleWallClock, threadVars, historyVars, RunsInv, SingleKinds,
     AwaitKinds, OnceKinds, Ids, ControlInv
<1>6. ASSUME NEW id \in Ids, PopTask(id)
      PROVE  RunsInv'
  BY <1>6, <1>0 DEF PopTask, IsTop, taskVars, wallVars, threadVars, RunsInv, SingleKinds,
     AwaitKinds, OnceKinds, Ids, ControlInv
<1>7. CASE CheckRebooting
  BY <1>7, <1>0 DEF CheckRebooting, taskVars, wallVars, threadVars, historyVars, RunsInv,
     SingleKinds, AwaitKinds, OnceKinds, Ids, ControlInv
<1>8. CASE RunPlainFn
  <2>1. /\ pc = "run" /\ pc' \notin {"popped", "run"} /\ currentTask' = currentTask /\ kind' = kind
        /\ cancelled' = cancelled /\ last_task_id' = last_task_id /\ CountRun(currentTask)
    BY <1>8 DEF RunPlainFn, taskVars
  <2>2. currentTask \in Ids /\ currentTask \notin tasks
    BY <1>0, <2>1 DEF ControlInv, OwnerInv, OneOwner
  <2>3. \A i \in Ids : /\ i # currentTask => runs'[i] = runs[i]
                       /\ i = currentTask => runs'[i] \in 0..2 /\ (runs[i] = 0 => runs'[i] = 1)
    BY <1>0, <2>1 DEF CountRun, Lesser
  <2>4. \A i \in Ids : kind[i] \in SingleKinds => (i \in tasks' => i \in tasks)
    BY <1>8, <1>0 DEF RunPlainFn
  <2>5. ASSUME kind[currentTask] # "sync", NEW id \in Ids, kind[id] \in SingleKinds
        PROVE  /\ runs'[id] <= 1
               /\ id \in tasks' => runs'[id] = 0
               /\ ~(id = currentTask /\ kind[id] = "sync")
    <3>1. /\ runs[id] <= 1 /\ (id \in tasks => runs[id] = 0) /\ runs[id] \in 0..2
          /\ id = currentTask => runs[id] = 0
      BY <1>0, <2>1, <2>5 DEF RunsInv
    <3>2. CASE id = currentTask
      BY <2>2, <2>3, <2>4, <2>5, <3>1, <3>2
    <3>3. CASE id # currentTask
      BY <2>3, <2>4, <2>5, <3>1, <3>3
    <3> QED
      BY <3>2, <3>3
  <2>6. \A id \in Ids : last_task_id < id => runs'[id] = 0
    BY <1>0, <2>2, <2>3 DEF RunsInv, Ids
  <2>7. kind[currentTask] # "sync"
    BY <1>8 DEF RunPlainFn
  <2> QED
    BY <2>1, <2>5, <2>6, <2>7 DEF RunsInv
<1>9. CASE RunWhenClockSynced
  <2>1. CASE synced
    <3>1. /\ pc = "run" /\ pc' = "done" /\ currentTask' = currentTask /\ kind' = kind /\ tasks' = tasks
          /\ cancelled' = cancelled \cup {currentTask} /\ last_task_id' = last_task_id
          /\ CountRun(currentTask)
      BY <1>9, <2>1 DEF RunWhenClockSynced
    <3>2. currentTask \in Ids /\ currentTask \notin tasks
      BY <1>0, <3>1 DEF ControlInv, OwnerInv, OneOwner
    <3>3. \A i \in Ids : /\ i # currentTask => runs'[i] = runs[i]
                         /\ i = currentTask => runs'[i] \in 0..2 /\ (runs[i] = 0 => runs'[i] = 1)
      BY <1>0, <3>1 DEF CountRun, Lesser
    <3>4. ASSUME NEW id \in Ids, kind[id] \in SingleKinds
          PROVE  runs'[id] <= 1 /\ (id \in tasks => runs'[id] = 0)
      <4>1. /\ runs[id] <= 1 /\ (id \in tasks => runs[id] = 0) /\ runs[id] \in 0..2
            /\ id = currentTask => runs[id] = 0
        BY <1>0, <3>1, <3>4 DEF RunsInv
      <4>2. CASE id = currentTask
        BY <3>2, <3>3, <4>1, <4>2
      <4>3. CASE id # currentTask
        BY <3>3, <4>1, <4>3
      <4> QED
        BY <4>2, <4>3
    <3>5. \A id \in Ids : last_task_id < id => runs'[id] = 0
      BY <1>0, <3>2, <3>3 DEF RunsInv, Ids
    <3> QED
      BY <3>1, <3>4, <3>5 DEF RunsInv
  <2>2. CASE ~synced
    BY <1>9, <1>0, <2>2 DEF RunWhenClockSynced, RunsInv
  <2> QED
    BY <2>1, <2>2
<1>10. CASE wall_clock_worker
  <2>1. /\ pc = "run" /\ pc' \notin {"popped", "run"} /\ currentTask' = currentTask /\ kind' = kind
        /\ cancelled' = cancelled /\ last_task_id' = last_task_id /\ CountRun(currentTask)
    BY <1>10 DEF wall_clock_worker, taskVars
  <2>2. currentTask \in Ids /\ currentTask \notin tasks
    BY <1>0, <2>1 DEF ControlInv, OwnerInv, OneOwner
  <2>3. \A i \in Ids : /\ i # currentTask => runs'[i] = runs[i]
                       /\ i = currentTask => runs'[i] \in 0..2 /\ (runs[i] = 0 => runs'[i] = 1)
    BY <1>0, <2>1 DEF CountRun, Lesser
  <2>4. \A i \in Ids : kind[i] \in SingleKinds => (i \in tasks' => i \in tasks)
    BY <1>10, <1>0 DEF wall_clock_worker, StartedRunners, SingleKinds, AwaitKinds, OwnerInv, KindInv
  <2>5. ASSUME kind[currentTask] # "sync", NEW id \in Ids, kind[id] \in SingleKinds
        PROVE  /\ runs'[id] <= 1
               /\ id \in tasks' => runs'[id] = 0
               /\ ~(id = currentTask /\ kind[id] = "sync")
    <3>1. /\ runs[id] <= 1 /\ (id \in tasks => runs[id] = 0) /\ runs[id] \in 0..2
          /\ id = currentTask => runs[id] = 0
      BY <1>0, <2>1, <2>5 DEF RunsInv
    <3>2. CASE id = currentTask
      BY <2>2, <2>3, <2>4, <2>5, <3>1, <3>2
    <3>3. CASE id # currentTask
      BY <2>3, <2>4, <2>5, <3>1, <3>3
    <3> QED
      BY <3>2, <3>3
  <2>6. \A id \in Ids : last_task_id < id => runs'[id] = 0
    BY <1>0, <2>2, <2>3 DEF RunsInv, Ids
  <2>7. kind[currentTask] # "sync"
    BY <1>10 DEF wall_clock_worker
  <2> QED
    BY <2>1, <2>5, <2>6, <2>7 DEF RunsInv
<1>11. CASE RunRestart
  <2>1. /\ pc = "run" /\ pc' \notin {"popped", "run"} /\ currentTask' = currentTask /\ kind' = kind
        /\ cancelled' = cancelled /\ last_task_id' = last_task_id /\ CountRun(currentTask)
    BY <1>11 DEF RunRestart, taskVars
  <2>2. currentTask \in Ids /\ currentTask \notin tasks
    BY <1>0, <2>1 DEF ControlInv, OwnerInv, OneOwner
  <2>3. \A i \in Ids : /\ i # currentTask => runs'[i] = runs[i]
                       /\ i = currentTask => runs'[i] \in 0..2 /\ (runs[i] = 0 => runs'[i] = 1)
    BY <1>0, <2>1 DEF CountRun, Lesser
  <2>4. \A i \in Ids : kind[i] \in SingleKinds => (i \in tasks' => i \in tasks)
    BY <1>11, <1>0 DEF RunRestart
  <2>5. ASSUME kind[currentTask] # "sync", NEW id \in Ids, kind[id] \in SingleKinds
        PROVE  /\ runs'[id] <= 1
               /\ id \in tasks' => runs'[id] = 0
               /\ ~(id = currentTask /\ kind[id] = "sync")
    <3>1. /\ runs[id] <= 1 /\ (id \in tasks => runs[id] = 0) /\ runs[id] \in 0..2
          /\ id = currentTask => runs[id] = 0
      BY <1>0, <2>1, <2>5 DEF RunsInv
    <3>2. CASE id = currentTask
      BY <2>2, <2>3, <2>4, <2>5, <3>1, <3>2
    <3>3. CASE id # currentTask
      BY <2>3, <2>4, <2>5, <3>1, <3>3
    <3> QED
      BY <3>2, <3>3
  <2>6. \A id \in Ids : last_task_id < id => runs'[id] = 0
    BY <1>0, <2>2, <2>3 DEF RunsInv, Ids
  <2>7. kind[currentTask] # "sync"
    BY <1>11 DEF RunRestart
  <2> QED
    BY <2>1, <2>5, <2>6, <2>7 DEF RunsInv
<1>12. CASE RunPreRebootHelper
  <2>1. /\ pc = "run" /\ pc' \notin {"popped", "run"} /\ currentTask' = currentTask /\ kind' = kind
        /\ cancelled' = cancelled /\ last_task_id' = last_task_id /\ CountRun(currentTask)
    BY <1>12 DEF RunPreRebootHelper, taskVars
  <2>2. currentTask \in Ids /\ currentTask \notin tasks
    BY <1>0, <2>1 DEF ControlInv, OwnerInv, OneOwner
  <2>3. \A i \in Ids : /\ i # currentTask => runs'[i] = runs[i]
                       /\ i = currentTask => runs'[i] \in 0..2 /\ (runs[i] = 0 => runs'[i] = 1)
    BY <1>0, <2>1 DEF CountRun, Lesser
  <2>4. \A i \in Ids : kind[i] \in SingleKinds => (i \in tasks' => i \in tasks)
    BY <1>12, <1>0 DEF RunPreRebootHelper
  <2>5. ASSUME kind[currentTask] # "sync", NEW id \in Ids, kind[id] \in SingleKinds
        PROVE  /\ runs'[id] <= 1
               /\ id \in tasks' => runs'[id] = 0
               /\ ~(id = currentTask /\ kind[id] = "sync")
    <3>1. /\ runs[id] <= 1 /\ (id \in tasks => runs[id] = 0) /\ runs[id] \in 0..2
          /\ id = currentTask => runs[id] = 0
      BY <1>0, <2>1, <2>5 DEF RunsInv
    <3>2. CASE id = currentTask
      BY <2>2, <2>3, <2>4, <2>5, <3>1, <3>2
    <3>3. CASE id # currentTask
      BY <2>3, <2>4, <2>5, <3>1, <3>3
    <3> QED
      BY <3>2, <3>3
  <2>6. \A id \in Ids : last_task_id < id => runs'[id] = 0
    BY <1>0, <2>2, <2>3 DEF RunsInv, Ids
  <2>7. kind[currentTask] # "sync"
    BY <1>12 DEF RunPreRebootHelper
  <2> QED
    BY <2>1, <2>5, <2>6, <2>7 DEF RunsInv
<1>13. ASSUME halt = "no", FinishTask
       PROVE  RunsInv'
  BY <1>13, <1>0 DEF FinishTask, ReturnedRunner, Requeued, threadVars, historyVars, RunsInv,
     SingleKinds, AwaitKinds, OnceKinds, Ids, ControlInv
<1>14. ASSUME NEW id \in Ids, cancel(id)
       PROVE  RunsInv'
  BY <1>14, <1>0 DEF cancel, CancelTask, CancelResult, IsHandedOut, HandedOutKinds,
     wallVars, threadVars, RunsInv, SingleKinds, AwaitKinds, OnceKinds, Ids, ControlInv
<1>15. ASSUME NEW id \in Ids, cancelWallClock(id)
       PROVE  RunsInv'
  BY <1>15, <1>0 DEF cancelWallClock, CancelTask, IsHandedOut, threadVars, RunsInv,
     SingleKinds, AwaitKinds, OnceKinds, Ids, ControlInv
<1>16. ASSUME NEW id \in Ids, Misuse(id)
       PROVE  RunsInv'
  BY <1>16, <1>0 DEF Misuse, taskVars, wallVars, threadVars, historyVars, RunsInv,
     SingleKinds, AwaitKinds, OnceKinds, Ids, ControlInv
<1>17. ASSUME NEW id \in Ids, rescheduleNow(id)
       PROVE  RunsInv'
  BY <1>17, <1>0 DEF rescheduleNow, wallVars, threadVars, RunsInv, SingleKinds, AwaitKinds,
     OnceKinds, Ids, ControlInv
<1>18. ASSUME NEW id \in Ids, NEW d \in Delays, updateDelay(id, d)
       PROVE  RunsInv'
  BY <1>18, <1>0 DEF updateDelay, wallVars, threadVars, RunsInv, SingleKinds, AwaitKinds,
     OnceKinds, Ids, ControlInv
<1>19. ASSUME NEW d \in Delays, updateCurrentTaskDelay(d)
       PROVE  RunsInv'
  BY <1>19, <1>0 DEF updateCurrentTaskDelay, wallVars, threadVars, historyVars, RunsInv,
     SingleKinds, AwaitKinds, OnceKinds, Ids, ControlInv
<1>20. ASSUME NEW t \in Threads, AwaitRefused(t)
       PROVE  RunsInv'
  BY <1>20, <1>0 DEF AwaitRefused, taskVars, wallVars, historyVars, RunsInv, SingleKinds,
     AwaitKinds, OnceKinds, Ids, ControlInv
<1>21. ASSUME NEW t \in Threads, NEW k \in {"await", "pre_reboot"}, AwaitSchedule(t, k)
       PROVE  RunsInv'
  BY <1>21, <1>0 DEF AwaitSchedule, NewTask, wallVars, historyVars, RunsInv, SingleKinds,
     AwaitKinds, OnceKinds, Ids, ControlInv
<1>22. ASSUME NEW t \in Threads, halt = "no", AwaitTake(t)
       PROVE  RunsInv'
  BY <1>22, <1>0 DEF AwaitTake, AwaitReturn, taskVars, wallVars, historyVars, RunsInv,
     SingleKinds, AwaitKinds, OnceKinds, Ids, ControlInv
<1>23. ASSUME NEW t \in Threads, AwaitTimeout(t)
       PROVE  RunsInv'
  BY <1>23, <1>0 DEF AwaitTimeout, taskVars, wallVars, historyVars, RunsInv, SingleKinds,
     AwaitKinds, OnceKinds, Ids, ControlInv
<1>24. ASSUME NEW t \in Threads, halt = "no", AwaitCancel(t)
       PROVE  RunsInv'
  BY <1>24, <1>0 DEF AwaitCancel, CancelTask, CancelResult, AwaitReturn, wallVars,
     historyVars, RunsInv, SingleKinds, AwaitKinds, OnceKinds, Ids, ControlInv
<1>25. CASE Tick
  BY <1>25, <1>0 DEF Tick, taskVars, wallVars, threadVars, historyVars, RunsInv,
     SingleKinds, AwaitKinds, OnceKinds, Ids, ControlInv
<1>26. ASSUME NEW o \in Offsets, SyncClock(o)
       PROVE  RunsInv'
  BY <1>26, <1>0 DEF SyncClock, taskVars, wallVars, threadVars, historyVars, RunsInv,
     SingleKinds, AwaitKinds, OnceKinds, Ids, ControlInv
<1>27. CASE UNCHANGED vars
  BY <1>27, <1>0 DEF vars, taskVars, wallVars, threadVars, historyVars, clockVars, RunsInv,
     SingleKinds, AwaitKinds, OnceKinds, Ids, ControlInv
<1> QED
  BY <1>1, <1>2, <1>3, <1>4, <1>5, <1>6, <1>7, <1>8, <1>9, <1>10, <1>11, <1>12, <1>13,
     <1>14, <1>15, <1>16, <1>17, <1>18, <1>19, <1>20, <1>21, <1>22, <1>23, <1>24, <1>25,
     <1>26, <1>27 DEF Next, Schedule, Owner, Operate, Await

\* Tasks that rescheduleNow has moved: the rank of a task is given to it in the queue and
\* taken from it when it leaves.
RankInv ==
    /\ \A id \in Ids : rank[id] <= reschedules
    /\ \A id \in Ids : last_task_id < id => rank[id] = 0
    /\ currentTask # 0 => rank[currentTask] = 0
    /\ \A id \in Ids : kind[id] = "wall" => rank[id] = 0
    /\ ReverseExecution

\* Every rescheduleNow puts its task before those that were moved earlier.
LEMMA RankStep == TypeOK /\ ControlInv /\ NumberInv /\ KindInv /\ OwnerInv /\ RankInv /\ [Next]_vars => RankInv'
<1> SUFFICES ASSUME TypeOK, ControlInv, NumberInv, KindInv, OwnerInv, RankInv, [Next]_vars PROVE RankInv'
  OBVIOUS
<1>0. /\ last_task_id \in Nat
      /\ currentTask \in Nat
      /\ kind \in [Ids -> AllKinds]
      /\ next_deadline \in [Ids -> Int]
      /\ rank \in [Ids -> Nat]
      /\ reschedules \in Nat
      /\ now \in Nat
      /\ tasks \subseteq Ids
      /\ tasks \subseteq 1..last_task_id
      /\ currentTask \in Ids \cup {0}
      /\ currentTask <= last_task_id
  BY SMTT(20) DEF TypeOK, TaskTypeOK, ClockTypeOK, NumberInv, Ids
<1>1. ASSUME NEW k \in {"once", "restart"}, NEW first \in Delays, scheduleOnce(k, first)
      PROVE  RankInv'
  <2>1. /\ last_task_id' = last_task_id + 1 /\ last_task_id + 1 \in Ids /\ currentTask' = currentTask
        /\ rank' = rank /\ reschedules' = reschedules /\ tasks' = tasks \cup {last_task_id + 1}
        /\ \A i \in Ids : i # last_task_id + 1 =>
              kind'[i] = kind[i] /\ next_deadline'[i] = next_deadline[i]
    BY <1>1, <1>0 DEF scheduleOnce, NewTask, historyVars
  <2>2. rank[last_task_id + 1] = 0
    BY <1>0, <2>1 DEF RankInv
  <2>3. ReverseExecution'
    BY <1>0, <2>1, <2>2 DEF RankInv, ReverseExecution
  <2>4. \A i \in Ids : (last_task_id + 1 < i => rank[i] = 0) /\ (kind'[i] = "wall" => rank[i] = 0)
    BY <1>0, <2>1, <2>2 DEF RankInv, Ids
  <2> QED
    BY <2>1, <2>3, <2>4 DEF RankInv
<1>2. ASSUME NEW first \in Delays, NEW d \in Delays, scheduleWithFixedDelay(first, d)
      PROVE  RankInv'
  <2>1. /\ last_task_id' = last_task_id + 1 /\ last_task_id + 1 \in Ids /\ currentTask' = currentTask
        /\ rank' = rank /\ reschedules' = reschedules /\ tasks' = tasks \cup {last_task_id + 1}
        /\ \A i \in Ids : i # last_task_id + 1 =>
              kind'[i] = kind[i] /\ next_deadline'[i] = next_deadline[i]
    BY <1>2, <1>0 DEF scheduleWithFixedDelay, NewTask, historyVars
  <2>2. rank[last_task_id + 1] = 0
    BY <1>0, <2>1 DEF RankInv
  <2>3. ReverseExecution'
    BY <1>0, <2>1, <2>2 DEF RankInv, ReverseExecution
  <2>4. \A i \in Ids : (last_task_id + 1 < i => rank[i] = 0) /\ (kind'[i] = "wall" => rank[i] = 0)
    BY <1>0, <2>1, <2>2 DEF RankInv, Ids
  <2> QED
    BY <2>1, <2>3, <2>4 DEF RankInv
<1>3. ASSUME NEW first \in Delays, NEW d \in Delays, scheduleUncancelable(first, d)
      PROVE  RankInv'
  <2>1. /\ last_task_id' = last_task_id + 1 /\ last_task_id + 1 \in Ids /\ currentTask' = currentTask
        /\ rank' = rank /\ reschedules' = reschedules /\ tasks' = tasks \cup {last_task_id + 1}
        /\ \A i \in Ids : i # last_task_id + 1 =>
              kind'[i] = kind[i] /\ next_deadline'[i] = next_deadline[i]
    BY <1>3, <1>0 DEF scheduleUncancelable, NewTask, historyVars
  <2>2. rank[last_task_id + 1] = 0
    BY <1>0, <2>1 DEF RankInv
  <2>3. ReverseExecution'
    BY <1>0, <2>1, <2>2 DEF RankInv, ReverseExecution
  <2>4. \A i \in Ids : (last_task_id + 1 < i => rank[i] = 0) /\ (kind'[i] = "wall" => rank[i] = 0)
    BY <1>0, <2>1, <2>2 DEF RankInv, Ids
  <2> QED
    BY <2>1, <2>3, <2>4 DEF RankInv
<1>4. CASE scheduleWhenClockSynced
  <2>1. /\ last_task_id' = last_task_id + 1 /\ last_task_id + 1 \in Ids /\ currentTask' = currentTask
        /\ rank' = rank /\ reschedules' = reschedules /\ tasks' = tasks \cup {last_task_id + 1}
        /\ \A i \in Ids : i # last_task_id + 1 =>
              kind'[i] = kind[i] /\ next_deadline'[i] = next_deadline[i]
    BY <1>4, <1>0 DEF scheduleWhenClockSynced, NewTask, historyVars
  <2>2. rank[last_task_id + 1] = 0
    BY <1>0, <2>1 DEF RankInv
  <2>3. ReverseExecution'
    BY <1>0, <2>1, <2>2 DEF RankInv, ReverseExecution
  <2>4. \A i \in Ids : (last_task_id + 1 < i => rank[i] = 0) /\ (kind'[i] = "wall" => rank[i] = 0)
    BY <1>0, <2>1, <2>2 DEF RankInv, Ids
  <2> QED
    BY <2>1, <2>3, <2>4 DEF RankInv
<1>5. ASSUME NEW i \in Intervals, NEW d \in Delays, NEW b \in BOOLEAN, scheduleWallClock(i, d, b)
      PROVE  RankInv'
  <2> DEFINE new == IF wall_clock_worker_started THEN {last_task_id + 1}
                                                  ELSE {last_task_id + 1, last_task_id + 2}
  <2>1. /\ new \subseteq Ids /\ tasks' \subseteq tasks \cup new
        /\ last_task_id' >= last_task_id /\ last_task_id' \in Nat
        /\ \A j \in Ids \ new : kind'[j] = kind[j]
        /\ \A j \in Ids \ new : next_deadline'[j] = next_deadline[j]
        /\ \A j \in new : last_task_id < j
    <3>1. CASE wall_clock_worker_started
      BY <1>0, <1>5, <3>1 DEF scheduleWallClock
    <3>2. CASE ~wall_clock_worker_started
      BY <1>0, <1>5, <3>2 DEF scheduleWallClock
    <3> QED
      BY <3>1, <3>2
  <2> HIDE DEF new
  <2>2. rank' = rank /\ reschedules' = reschedules /\ currentTask' = currentTask
    BY <1>5 DEF scheduleWallClock, historyVars
  <2>3. \A j \in new : rank[j] = 0 /\ j \notin tasks
    BY <1>0, <2>1 DEF RankInv, Ids
  <2>4. ReverseExecution'
    BY <1>0, <2>1, <2>2, <2>3 DEF RankInv, ReverseExecution
  <2>5. \A j \in Ids : (last_task_id' < j => rank[j] = 0) /\ (kind'[j] = "wall" => rank[j] = 0)
    BY <1>0, <2>1, <2>3 DEF RankInv, Ids
  <2> QED
    BY <2>2, <2>4, <2>5 DEF RankInv
<1>6. ASSUME NEW id \in Ids, PopTask(id)
      PROVE  RankInv'
  <2>1. /\ kind' = kind /\ last_task_id' = last_task_id /\ reschedules' = reschedules
        /\ next_deadline' = next_deadline /\ tasks' = tasks \ {id} /\ currentTask' = id
        /\ rank' = [rank EXCEPT ![id] = 0]
    BY <1>6 DEF PopTask, taskVars, wallVars, threadVars
  <2>2. \A i \in Ids : rank'[i] = IF i = id THEN 0 ELSE rank[i]
    BY <1>0, <2>1
  <2>3. ReverseExecution'
    BY <1>0, <2>1, <2>2 DEF RankInv, ReverseExecution
  <2> QED
    BY <1>0, <2>1, <2>2, <2>3 DEF RankInv
<1>7. CASE CheckRebooting
  BY <1>7, <1>0 DEF CheckRebooting, taskVars, wallVars, threadVars, historyVars, RankInv,
     ReverseExecution
<1>8. CASE RunPlainFn
  BY <1>8, <1>0 DEF RunPlainFn, taskVars, wallVars, threadVars, RankInv, ReverseExecution
<1>9. CASE RunWhenClockSynced
  BY <1>9, <1>0 DEF RunWhenClockSynced, wallVars, threadVars, RankInv, ReverseExecution
<1>10. CASE wall_clock_worker
  <2>1. /\ rank' = rank /\ kind' = kind /\ last_task_id' = last_task_id /\ reschedules' = reschedules
        /\ currentTask' = currentTask /\ tasks' \subseteq tasks \cup StartedRunners
    BY <1>10 DEF wall_clock_worker
  <2>2. /\ \A i \in StartedRunners : i \in Ids /\ rank[i] = 0 /\ i \notin tasks
        /\ \A i \in Ids \ StartedRunners : next_deadline'[i] = next_deadline[i]
    <3>1. ASSUME NEW i \in StartedRunners
          PROVE  i \in Ids /\ rank[i] = 0 /\ i \notin tasks
      BY DEF StartedRunners, RankInv, OwnerInv, OneOwner, KindInv, TypeOK, WallClockTypeOK
    <3>2. \A i \in Ids \ StartedRunners : next_deadline'[i] = next_deadline[i]
      BY <1>10, <1>0 DEF wall_clock_worker
    <3> QED
      BY <3>1, <3>2
  <2>3. ReverseExecution'
    BY <1>0, <2>1, <2>2 DEF RankInv, ReverseExecution
  <2> QED
    BY <2>1, <2>3 DEF RankInv
<1>11. CASE RunRestart
  BY <1>11, <1>0 DEF RunRestart, taskVars, wallVars, threadVars, RankInv, ReverseExecution
<1>12. CASE RunPreRebootHelper
  BY <1>12, <1>0 DEF RunPreRebootHelper, taskVars, wallVars, threadVars, RankInv,
     ReverseExecution
<1>13. ASSUME halt = "no", FinishTask
       PROVE  RankInv'
  <2>1. /\ currentTask \in Ids /\ rank[currentTask] = 0 /\ rank' = rank /\ kind' = kind
        /\ last_task_id' = last_task_id /\ reschedules' = reschedules /\ currentTask' = 0
        /\ tasks' \subseteq tasks \cup {currentTask}
        /\ \A i \in Ids : i # currentTask => next_deadline'[i] = next_deadline[i]
    BY <1>13, <1>0 DEF FinishTask, Requeued, historyVars, RankInv, ControlInv
  <2>2. ReverseExecution'
    BY <1>0, <2>1 DEF RankInv, ReverseExecution
  <2> QED
    BY <2>1, <2>2 DEF RankInv
<1>14. ASSUME NEW id \in Ids, cancel(id)
       PROVE  RankInv'
  BY <1>14, <1>0 DEF cancel, CancelTask, CancelResult, IsHandedOut, HandedOutKinds,
     wallVars, threadVars, RankInv, ReverseExecution
<1>15. ASSUME NEW id \in Ids, cancelWallClock(id)
       PROVE  RankInv'
  BY <1>15, <1>0 DEF cancelWallClock, CancelTask, IsHandedOut, threadVars, RankInv,
     ReverseExecution
<1>16. ASSUME NEW id \in Ids, Misuse(id)
       PROVE  RankInv'
  BY <1>16, <1>0 DEF Misuse, taskVars, wallVars, threadVars, historyVars, RankInv,
     ReverseExecution
<1>17. ASSUME NEW id \in Ids, rescheduleNow(id)
       PROVE  RankInv'
  <2>1. id \in Ids /\ kind[id] # "wall" /\ reschedules' = reschedules + 1 /\ id <= last_task_id
    BY <1>17 DEF rescheduleNow, IsHandedOut
  <2>2. /\ kind' = kind /\ last_task_id' = last_task_id /\ currentTask' = currentTask /\ tasks' = tasks
    BY <1>17 DEF rescheduleNow, wallVars, threadVars
  <2>3. CASE next_deadline' = next_deadline /\ rank' = rank
    <3>1. ReverseExecution'
      BY <2>2, <2>3 DEF RankInv, ReverseExecution
    <3> QED
      BY <1>0, <2>1, <2>2, <2>3, <3>1 DEF RankInv
  <2>4. CASE /\ id \in tasks
             /\ \E top \in tasks :
                   /\ IsTop(top)
                   /\ next_deadline' = [next_deadline EXCEPT ![id] = EarliestDeadline(top)]
             /\ rank' = [rank EXCEPT ![id] = reschedules + 1]
    <3>1. PICK top \in tasks : /\ \A i \in tasks : next_deadline[top] <= next_deadline[i]
                              /\ next_deadline' = [next_deadline EXCEPT ![id] = EarliestDeadline(top)]
      BY <2>4 DEF IsTop
    <3>2. EarliestDeadline(top) \in Int /\ EarliestDeadline(top) < next_deadline[top]
      BY <1>0 DEF EarliestDeadline, Lesser
    <3>3. \A i \in tasks : next_deadline'[id] < next_deadline[i] /\ (i # id => next_deadline'[i] = next_deadline[i])
      BY <1>0, <2>1, <3>1, <3>2
    <3>4. \A i \in Ids : rank'[i] = IF i = id THEN reschedules + 1 ELSE rank[i]
      BY <1>0, <2>4
    <3>5. ASSUME NEW i \in tasks, NEW j \in tasks, rank'[i] > rank'[j], rank'[j] > 0
          PROVE  next_deadline'[i] < next_deadline'[j]
      <4>1. CASE i = id
        BY <1>0, <3>3, <3>4, <3>5, <4>1
      <4>2. CASE j = id /\ i # id
        <5>1. rank[i] <= reschedules
          BY <1>0 DEF RankInv
        <5> QED
          BY <1>0, <3>4, <3>5, <4>2, <5>1
      <4>3. CASE i # id /\ j # id
        <5>1. rank[i] > rank[j] /\ rank[j] > 0
          BY <1>0, <3>4, <3>5, <4>3
        <5>2. next_deadline[i] < next_deadline[j]
          BY <5>1 DEF RankInv, ReverseExecution
        <5> QED
          BY <3>3, <4>3, <5>2
      <4> QED
        BY <4>1, <4>2, <4>3
    <3>6. ReverseExecution'
      BY <2>2, <3>5 DEF ReverseExecution
    <3>7. \A i \in Ids : rank'[i] <= reschedules'
      BY <1>0, <2>1, <3>4 DEF RankInv
    <3>8. id # currentTask
      BY <2>4 DEF OwnerInv, OneOwner
    <3>9. \A i \in Ids : (last_task_id < i => rank'[i] = 0) /\ (kind[i] = "wall" => rank'[i] = 0)
      BY SMTT(20), <1>0, <2>1, <3>4 DEF RankInv, Ids
    <3>10. currentTask # 0 => rank'[currentTask] = 0
      BY <1>0, <3>4, <3>8 DEF RankInv
    <3> QED
      BY <2>2, <3>6, <3>7, <3>9, <3>10 DEF RankInv
  <2> QED
    BY <1>17, <2>3, <2>4 DEF rescheduleNow
<1>18. ASSUME NEW id \in Ids, NEW d \in Delays, updateDelay(id, d)
       PROVE  RankInv'
  <2>1. /\ kind' = kind /\ last_task_id' = last_task_id /\ currentTask' = currentTask /\ tasks' = tasks
        /\ reschedules' = reschedules /\ rank' = [rank EXCEPT ![id] = 0]
        /\ \A i \in Ids : i # id => next_deadline'[i] = next_deadline[i]
    BY <1>18, <1>0 DEF updateDelay, wallVars
  <2>2. \A i \in Ids : rank'[i] = IF i = id THEN 0 ELSE rank[i]
    BY <1>0, <2>1
  <2>3. ReverseExecution'
    BY <1>0, <2>1, <2>2 DEF RankInv, ReverseExecution
  <2> QED
    BY <1>0, <2>1, <2>2, <2>3 DEF RankInv
<1>19. ASSUME NEW d \in Delays, updateCurrentTaskDelay(d)
       PROVE  RankInv'
  BY <1>19, <1>0 DEF updateCurrentTaskDelay, wallVars, threadVars, historyVars, RankInv,
     ReverseExecution
<1>20. ASSUME NEW t \in Threads, AwaitRefused(t)
       PROVE  RankInv'
  BY <1>20, <1>0 DEF AwaitRefused, taskVars, wallVars, historyVars, RankInv,
     ReverseExecution
<1>21. ASSUME NEW t \in Threads, NEW k \in {"await", "pre_reboot"}, AwaitSchedule(t, k)
       PROVE  RankInv'
  <2>1. /\ last_task_id' = last_task_id + 1 /\ last_task_id + 1 \in Ids /\ currentTask' = currentTask
        /\ rank' = rank /\ reschedules' = reschedules /\ tasks' = tasks \cup {last_task_id + 1}
        /\ \A i \in Ids : i # last_task_id + 1 =>
              kind'[i] = kind[i] /\ next_deadline'[i] = next_deadline[i]
    BY <1>21, <1>0 DEF AwaitSchedule, NewTask, historyVars
  <2>2. rank[last_task_id + 1] = 0
    BY <1>0, <2>1 DEF RankInv
  <2>3. ReverseExecution'
    BY <1>0, <2>1, <2>2 DEF RankInv, ReverseExecution
  <2>4. \A i \in Ids : (last_task_id + 1 < i => rank[i] = 0) /\ (kind'[i] = "wall" => rank[i] = 0)
    BY <1>0, <2>1, <2>2 DEF RankInv, Ids
  <2> QED
    BY <2>1, <2>3, <2>4 DEF RankInv
<1>22. ASSUME NEW t \in Threads, halt = "no", AwaitTake(t)
       PROVE  RankInv'
  BY <1>22, <1>0 DEF AwaitTake, AwaitReturn, taskVars, wallVars, historyVars, RankInv,
     ReverseExecution
<1>23. ASSUME NEW t \in Threads, AwaitTimeout(t)
       PROVE  RankInv'
  BY <1>23, <1>0 DEF AwaitTimeout, taskVars, wallVars, historyVars, RankInv,
     ReverseExecution
<1>24. ASSUME NEW t \in Threads, halt = "no", AwaitCancel(t)
       PROVE  RankInv'
  BY <1>24, <1>0 DEF AwaitCancel, CancelTask, CancelResult, AwaitReturn, wallVars,
     historyVars, RankInv, ReverseExecution
<1>25. CASE Tick
  BY <1>25, <1>0 DEF Tick, taskVars, wallVars, threadVars, historyVars, RankInv,
     ReverseExecution
<1>26. ASSUME NEW o \in Offsets, SyncClock(o)
       PROVE  RankInv'
  BY <1>26, <1>0 DEF SyncClock, taskVars, wallVars, threadVars, historyVars, RankInv,
     ReverseExecution
<1>27. CASE UNCHANGED vars
  BY <1>27, <1>0 DEF vars, taskVars, wallVars, threadVars, historyVars, clockVars, RankInv,
     ReverseExecution
<1> QED
  BY <1>1, <1>2, <1>3, <1>4, <1>5, <1>6, <1>7, <1>8, <1>9, <1>10, <1>11, <1>12, <1>13,
     <1>14, <1>15, <1>16, <1>17, <1>18, <1>19, <1>20, <1>21, <1>22, <1>23, <1>24, <1>25,
     <1>26, <1>27 DEF Next, Schedule, Owner, Operate, Await

\* A task is awaited by one thread, and knows it until it is finished; a thread inside await
\* whose task is finished has had its function run, unless a reboot was requested.
AwaiterInv == \A s, t \in Threads : awaited[s] = awaited[t] /\ awaited[s] # 0 => s = t

KnownInv ==
    \A t \in Threads :
        awaited[t] # 0 /\ awaited[t] \in tasks \cup {currentTask} => awaited_by[awaited[t]] = t

DoneInv ==
    \A t \in Threads :
        tpc[t] # "idle" /\ awaited[t] \notin tasks \cup {currentTask} =>
            rebooting \/ runs[awaited[t]] # 0

RanInv == pc = "done" /\ kind[currentTask] \in AwaitKinds => rebooting \/ runs[currentTask] # 0

CallInv == AwaiterInv /\ KnownInv /\ DoneInv /\ RanInv

\* await and custom_loop agree on whose task it is and whether it has run.
LEMMA CallInvStep == TypeOK /\ ControlInv /\ NumberInv /\ KindInv /\ OwnerInv /\ CallInv /\ [Next]_vars => CallInv'
<1> SUFFICES ASSUME TypeOK, ControlInv, NumberInv, KindInv, OwnerInv, CallInv, [Next]_vars PROVE CallInv'
  OBVIOUS
<1>0. /\ last_task_id \in Nat
      /\ kind \in [Ids -> AllKinds]
      /\ awaited \in [Threads -> Ids \cup {0}]
      /\ awaited_by \in [Ids -> Threads \cup {NoThread}]
      /\ tpc \in [Threads -> {"idle", "wait", "timed_out"}]
      /\ runs \in [Ids -> 0..2]
      /\ tasks \subseteq Ids
      /\ tasks \subseteq 1..last_task_id
      /\ currentTask \in Ids \cup {0}
      /\ currentTask <= last_task_id
      /\ \A t \in Threads : awaited[t] <= last_task_id
      /\ 0 \notin Ids
  BY DEF TypeOK, TaskTypeOK, ClockTypeOK, ControlTypeOK, NumberInv, Ids
<1>1. ASSUME NEW k \in {"once", "restart"}, NEW first \in Delays, scheduleOnce(k, first)
      PROVE  CallInv'
  <2>1. AwaiterInv'
    BY <1>1, <1>0 DEF scheduleOnce, NewTask, wallVars, threadVars, historyVars, CallInv,
       AwaiterInv, KindInv, AwaitKinds, ControlInv, OwnerInv, OneOwner
  <2>2. KnownInv'
    BY <1>1, <1>0 DEF scheduleOnce, NewTask, wallVars, threadVars, historyVars, CallInv,
       KnownInv, KindInv, AwaitKinds, ControlInv, OwnerInv, OneOwner
  <2>3. DoneInv'
    BY <1>1, <1>0 DEF scheduleOnce, NewTask, wallVars, threadVars, historyVars, CallInv,
       DoneInv, KindInv, AwaitKinds, ControlInv, OwnerInv, OneOwner
  <2>4. RanInv'
    BY <1>1, <1>0 DEF scheduleOnce, NewTask, wallVars, threadVars, historyVars, CallInv,
       RanInv, KindInv, AwaitKinds, ControlInv, OwnerInv, OneOwner
  <2> QED
    BY <2>1, <2>2, <2>3, <2>4 DEF CallInv
<1>2. ASSUME NEW first \in Delays, NEW d \in Delays, scheduleWithFixedDelay(first, d)
      PROVE  CallInv'
  <2>1. AwaiterInv'
    BY <1>2, <1>0 DEF scheduleWithFixedDelay, NewTask, wallVars, threadVars, historyVars,
       CallInv, AwaiterInv, KindInv, AwaitKinds, ControlInv, OwnerInv, OneOwner
  <2>2. KnownInv'
    BY <1>2, <1>0 DEF scheduleWithFixedDelay, NewTask, wallVars, threadVars, historyVars,
       CallInv, KnownInv, KindInv, AwaitKinds, ControlInv, OwnerInv, OneOwner
  <2>3. DoneInv'
    BY <1>2, <1>0 DEF scheduleWithFixedDelay, NewTask, wallVars, threadVars, historyVars,
       CallInv, DoneInv, KindInv, AwaitKinds, ControlInv, OwnerInv, OneOwner
  <2>4. RanInv'
    BY <1>2, <1>0 DEF scheduleWithFixedDelay, NewTask, wallVars, threadVars, historyVars,
       CallInv, RanInv, KindInv, AwaitKinds, ControlInv, OwnerInv, OneOwner
  <2> QED
    BY <2>1, <2>2, <2>3, <2>4 DEF CallInv
<1>3. ASSUME NEW first \in Delays, NEW d \in Delays, scheduleUncancelable(first, d)
      PROVE  CallInv'
  <2>1. AwaiterInv'
    BY <1>3, <1>0 DEF scheduleUncancelable, NewTask, wallVars, threadVars, historyVars,
       CallInv, AwaiterInv, KindInv, AwaitKinds, ControlInv, OwnerInv, OneOwner
  <2>2. KnownInv'
    BY <1>3, <1>0 DEF scheduleUncancelable, NewTask, wallVars, threadVars, historyVars,
       CallInv, KnownInv, KindInv, AwaitKinds, ControlInv, OwnerInv, OneOwner
  <2>3. DoneInv'
    BY <1>3, <1>0 DEF scheduleUncancelable, NewTask, wallVars, threadVars, historyVars,
       CallInv, DoneInv, KindInv, AwaitKinds, ControlInv, OwnerInv, OneOwner
  <2>4. RanInv'
    BY <1>3, <1>0 DEF scheduleUncancelable, NewTask, wallVars, threadVars, historyVars,
       CallInv, RanInv, KindInv, AwaitKinds, ControlInv, OwnerInv, OneOwner
  <2> QED
    BY <2>1, <2>2, <2>3, <2>4 DEF CallInv
<1>4. CASE scheduleWhenClockSynced
  <2>1. AwaiterInv'
    BY <1>4, <1>0 DEF scheduleWhenClockSynced, NewTask, wallVars, threadVars, historyVars,
       CallInv, AwaiterInv, KindInv, AwaitKinds, ControlInv, OwnerInv, OneOwner
  <2>2. KnownInv'
    BY <1>4, <1>0 DEF scheduleWhenClockSynced, NewTask, wallVars, threadVars, historyVars,
       CallInv, KnownInv, KindInv, AwaitKinds, ControlInv, OwnerInv, OneOwner
  <2>3. DoneInv'
    BY <1>4, <1>0 DEF scheduleWhenClockSynced, NewTask, wallVars, threadVars, historyVars,
       CallInv, DoneInv, KindInv, AwaitKinds, ControlInv, OwnerInv, OneOwner
  <2>4. RanInv'
    BY <1>4, <1>0 DEF scheduleWhenClockSynced, NewTask, wallVars, threadVars, historyVars,
       CallInv, RanInv, KindInv, AwaitKinds, ControlInv, OwnerInv, OneOwner
  <2> QED
    BY <2>1, <2>2, <2>3, <2>4 DEF CallInv
<1>5. ASSUME NEW i \in Intervals, NEW d \in Delays, NEW b \in BOOLEAN, scheduleWallClock(i, d, b)
      PROVE  CallInv'
  <2>1. AwaiterInv'
    BY <1>5, <1>0 DEF scheduleWallClock, threadVars, historyVars, CallInv, AwaiterInv,
       KindInv, AwaitKinds, ControlInv, OwnerInv, OneOwner
  <2>2. KnownInv'
    BY <1>5, <1>0 DEF scheduleWallClock, threadVars, historyVars, CallInv, KnownInv,
       KindInv, AwaitKinds, ControlInv, OwnerInv, OneOwner
  <2>3. DoneInv'
    BY <1>5, <1>0 DEF scheduleWallClock, threadVars, historyVars, CallInv, DoneInv, KindInv,
       AwaitKinds, ControlInv, OwnerInv, OneOwner
  <2>4. RanInv'
    BY <1>5, <1>0 DEF scheduleWallClock, threadVars, historyVars, CallInv, RanInv, KindInv,
       AwaitKinds, ControlInv, OwnerInv, OneOwner
  <2> QED
    BY <2>1, <2>2, <2>3, <2>4 DEF CallInv
<1>6. ASSUME NEW id \in Ids, PopTask(id)
      PROVE  CallInv'
  <2>1. AwaiterInv'
    BY <1>6, <1>0 DEF PopTask, IsTop, taskVars, wallVars, threadVars, CallInv, AwaiterInv,
       KindInv, AwaitKinds, ControlInv, OwnerInv, OneOwner
  <2>2. KnownInv'
    BY <1>6, <1>0 DEF PopTask, IsTop, taskVars, wallVars, threadVars, CallInv, KnownInv,
       KindInv, AwaitKinds, ControlInv, OwnerInv, OneOwner
  <2>3. DoneInv'
    BY <1>6, <1>0 DEF PopTask, IsTop, taskVars, wallVars, threadVars, CallInv, DoneInv,
       KindInv, AwaitKinds, ControlInv, OwnerInv, OneOwner
  <2>4. RanInv'
    BY <1>6, <1>0 DEF PopTask, IsTop, taskVars, wallVars, threadVars, CallInv, RanInv,
       KindInv, AwaitKinds, ControlInv, OwnerInv, OneOwner
  <2> QED
    BY <2>1, <2>2, <2>3, <2>4 DEF CallInv
<1>7. CASE CheckRebooting
  <2>1. AwaiterInv'
    BY <1>7, <1>0 DEF CheckRebooting, taskVars, wallVars, threadVars, historyVars, CallInv,
       AwaiterInv, KindInv, AwaitKinds, ControlInv, OwnerInv, OneOwner
  <2>2. KnownInv'
    BY <1>7, <1>0 DEF CheckRebooting, taskVars, wallVars, threadVars, historyVars, CallInv,
       KnownInv, KindInv, AwaitKinds, ControlInv, OwnerInv, OneOwner
  <2>3. DoneInv'
    BY <1>7, <1>0 DEF CheckRebooting, taskVars, wallVars, threadVars, historyVars, CallInv,
       DoneInv, KindInv, AwaitKinds, ControlInv, OwnerInv, OneOwner
  <2>4. RanInv'
    BY <1>7, <1>0 DEF CheckRebooting, taskVars, wallVars, threadVars, historyVars, CallInv,
       RanInv, KindInv, AwaitKinds, ControlInv, OwnerInv, OneOwner
  <2> QED
    BY <2>1, <2>2, <2>3, <2>4 DEF CallInv
<1>8. CASE RunPlainFn
  <2>0. /\ UNCHANGED <<tpc, awaited, currentTask, rebooting, kind>> /\ pc = "run" /\ tasks \subseteq tasks'
        /\ \A i \in Ids : runs[i] # 0 => runs'[i] # 0
        /\ runs'[currentTask] # 0
    <3>1. /\ UNCHANGED <<tpc, awaited, currentTask, rebooting, kind>> /\ pc = "run" /\ tasks \subseteq tasks'
          /\ CountRun(currentTask) /\ currentTask \in Ids
      BY <1>8, <1>0 DEF RunPlainFn, taskVars, wallVars, threadVars, ControlInv
    <3>2. \A x \in 0..2 : Lesser(x + 1, 2) # 0
      BY DEF Lesser
    <3>3. \A i \in Ids : runs'[i] = IF i = currentTask THEN Lesser(runs[i] + 1, 2) ELSE runs[i]
      BY <1>0, <3>1 DEF CountRun
    <3> QED
      BY <1>0, <3>1, <3>2, <3>3
  <2>1. AwaiterInv'
    BY <1>8, <1>0, <2>0 DEF RunPlainFn, taskVars, wallVars, threadVars, CallInv, AwaiterInv,
       KindInv, AwaitKinds, ControlInv, OwnerInv, OneOwner
  <2>2. KnownInv'
    BY <1>8, <1>0, <2>0 DEF RunPlainFn, taskVars, wallVars, threadVars, CallInv, KnownInv,
       KindInv, AwaitKinds, ControlInv, OwnerInv, OneOwner
  <2>3. DoneInv'
    <3> SUFFICES ASSUME NEW t \in Threads, tpc'[t] # "idle", awaited'[t] \notin tasks' \cup {currentTask'}
                 PROVE  rebooting' \/ runs'[awaited'[t]] # 0
      BY DEF DoneInv
    <3>1. tpc[t] # "idle" /\ awaited[t] \in Ids /\ awaited[t] \notin tasks \cup {currentTask}
      BY <1>0, <2>0 DEF ControlInv
    <3> QED
      BY <2>0, <3>1 DEF CallInv, DoneInv
  <2>4. RanInv'
    BY <2>0 DEF RanInv
  <2> QED
    BY <2>1, <2>2, <2>3, <2>4 DEF CallInv
<1>9. CASE RunWhenClockSynced
  <2>1. AwaiterInv'
    BY <1>9, <1>0 DEF RunWhenClockSynced, wallVars, threadVars, CallInv, AwaiterInv,
       KindInv, AwaitKinds, ControlInv, OwnerInv, OneOwner
  <2>2. KnownInv'
    BY <1>9, <1>0 DEF RunWhenClockSynced, wallVars, threadVars, CallInv, KnownInv, KindInv,
       AwaitKinds, ControlInv, OwnerInv, OneOwner
  <2>3. DoneInv'
    <3>1. CASE synced
      <4>1. UNCHANGED <<tpc, awaited, currentTask, tasks, rebooting>> /\ CountRun(currentTask)
        BY <1>9, <3>1 DEF RunWhenClockSynced, threadVars
      <4>2. \A x \in 0..2 : Lesser(x + 1, 2) # 0
        BY DEF Lesser
      <4>3. \A i \in Ids : runs'[i] = IF i = currentTask THEN Lesser(runs[i] + 1, 2) ELSE runs[i]
        BY <1>0, <4>1 DEF CountRun
      <4>4. \A i \in Ids : runs[i] # 0 => runs'[i] # 0
        BY <1>0, <4>2, <4>3
      <4> QED
        BY <1>0, <4>1, <4>4 DEF CallInv, DoneInv, ControlInv
    <3>2. CASE ~synced
      BY <1>9, <3>2 DEF RunWhenClockSynced, threadVars, CallInv, DoneInv
    <3> QED
      BY <3>1, <3>2
  <2>4. RanInv'
    BY <1>9, <1>0 DEF RunWhenClockSynced, wallVars, threadVars, CallInv, RanInv, KindInv,
       AwaitKinds, ControlInv, OwnerInv, OneOwner
  <2> QED
    BY <2>1, <2>2, <2>3, <2>4 DEF CallInv
<1>10. CASE wall_clock_worker
  <2>0. /\ UNCHANGED <<tpc, awaited, currentTask, rebooting, kind>> /\ pc = "run" /\ tasks \subseteq tasks'
        /\ \A i \in Ids : runs[i] # 0 => runs'[i] # 0
        /\ runs'[currentTask] # 0
    <3>1. /\ UNCHANGED <<tpc, awaited, currentTask, rebooting, kind>> /\ pc = "run" /\ tasks \subseteq tasks'
          /\ CountRun(currentTask) /\ currentTask \in Ids
      BY <1>10, <1>0 DEF wall_clock_worker, StartedRunners, RunnersLeft, threadVars,
         ControlInv
    <3>2. \A x \in 0..2 : Lesser(x + 1, 2) # 0
      BY DEF Lesser
    <3>3. \A i \in Ids : runs'[i] = IF i = currentTask THEN Lesser(runs[i] + 1, 2) ELSE runs[i]
      BY <1>0, <3>1 DEF CountRun
    <3> QED
      BY <1>0, <3>1, <3>2, <3>3
  <2>1. AwaiterInv'
    BY <1>10, <1>0, <2>0 DEF wall_clock_worker, StartedRunners, RunnersLeft, threadVars,
       CallInv, AwaiterInv, KindInv, AwaitKinds, ControlInv, OwnerInv, OneOwner
  <2>2. KnownInv'
    <3>1. UNCHANGED <<awaited, awaited_by, currentTask>> /\ tasks' \subseteq tasks \cup wall_clock_tasks
      BY <1>10 DEF wall_clock_worker, StartedRunners, threadVars
    <3> QED
      BY <3>1 DEF CallInv, KnownInv, KindInv, AwaitKinds
  <2>3. DoneInv'
    <3> SUFFICES ASSUME NEW t \in Threads, tpc'[t] # "idle", awaited'[t] \notin tasks' \cup {currentTask'}
                 PROVE  rebooting' \/ runs'[awaited'[t]] # 0
      BY DEF DoneInv
    <3>1. tpc[t] # "idle" /\ awaited[t] \in Ids /\ awaited[t] \notin tasks \cup {currentTask}
      BY <1>0, <2>0 DEF ControlInv
    <3> QED
      BY <2>0, <3>1 DEF CallInv, DoneInv
  <2>4. RanInv'
    BY <2>0 DEF RanInv
  <2> QED
    BY <2>1, <2>2, <2>3, <2>4 DEF CallInv
<1>11. CASE RunRestart
  <2>1. AwaiterInv'
    BY <1>11, <1>0 DEF RunRestart, taskVars, wallVars, threadVars, CallInv, AwaiterInv,
       KindInv, AwaitKinds, ControlInv, OwnerInv, OneOwner
  <2>2. KnownInv'
    BY <1>11, <1>0 DEF RunRestart, taskVars, wallVars, threadVars, CallInv, KnownInv,
       KindInv, AwaitKinds, ControlInv, OwnerInv, OneOwner
  <2>3. DoneInv'
    BY <1>11, <1>0 DEF RunRestart, taskVars, wallVars, threadVars, CallInv, DoneInv,
       KindInv, AwaitKinds, ControlInv, OwnerInv, OneOwner
  <2>4. RanInv'
    BY <1>11, <1>0 DEF RunRestart, taskVars, wallVars, threadVars, CallInv, RanInv, KindInv,
       AwaitKinds, ControlInv, OwnerInv, OneOwner
  <2> QED
    BY <2>1, <2>2, <2>3, <2>4 DEF CallInv
<1>12. CASE RunPreRebootHelper
  <2>1. AwaiterInv'
    BY <1>12, <1>0 DEF RunPreRebootHelper, taskVars, wallVars, threadVars, CallInv,
       AwaiterInv, KindInv, AwaitKinds, ControlInv, OwnerInv, OneOwner
  <2>2. KnownInv'
    BY <1>12, <1>0 DEF RunPreRebootHelper, taskVars, wallVars, threadVars, CallInv,
       KnownInv, KindInv, AwaitKinds, ControlInv, OwnerInv, OneOwner
  <2>3. DoneInv'
    BY <1>12, <1>0 DEF RunPreRebootHelper, taskVars, wallVars, threadVars, CallInv, DoneInv,
       KindInv, AwaitKinds, ControlInv, OwnerInv, OneOwner
  <2>4. RanInv'
    BY <1>12, <1>0 DEF RunPreRebootHelper, taskVars, wallVars, threadVars, CallInv, RanInv,
       KindInv, AwaitKinds, ControlInv, OwnerInv, OneOwner
  <2> QED
    BY <2>1, <2>2, <2>3, <2>4 DEF CallInv
<1>13. ASSUME halt = "no", FinishTask
       PROVE  CallInv'
  <2>0. /\ UNCHANGED <<tpc, awaited, rebooting, kind, runs>> /\ currentTask' = 0 /\ pc = "done"
        /\ \A t \in Threads : awaited[t] # 0 => kind[awaited[t]] \in OnceKinds
        /\ currentTask \in Ids /\ currentTask \notin tasks
        /\ tasks' = tasks \cup Requeued(currentTask)
        /\ awaited_by' = [awaited_by EXCEPT ![currentTask] = NoThread]
    BY <1>13, <1>0 DEF FinishTask, threadVars, historyVars, KindInv, AwaitKinds, OnceKinds, ControlInv, OwnerInv, OneOwner
  <2>1. AwaiterInv'
    BY <1>13, <1>0, <2>0 DEF FinishTask, ReturnedRunner, Requeued, threadVars, historyVars,
       CallInv, AwaiterInv, KindInv, AwaitKinds, ControlInv, OwnerInv, OneOwner
  <2>2. KnownInv'
    <3> SUFFICES ASSUME NEW t \in Threads, awaited'[t] # 0, awaited'[t] \in tasks' \cup {currentTask'}
                 PROVE  awaited_by'[awaited'[t]] = t
      BY DEF KnownInv
    <3>1. awaited[t] \in tasks /\ awaited[t] # currentTask
      BY <2>0 DEF Requeued
    <3> QED
      BY <1>0, <2>0, <3>1 DEF CallInv, KnownInv
  <2>3. DoneInv'
    <3> SUFFICES ASSUME NEW t \in Threads, tpc'[t] # "idle", awaited'[t] \notin tasks' \cup {currentTask'}
                 PROVE  rebooting' \/ runs'[awaited'[t]] # 0
      BY DEF DoneInv
    <3>1. CASE awaited[t] = currentTask
      BY <1>0, <2>0, <3>1 DEF CallInv, RanInv, KindInv
    <3>2. CASE awaited[t] # currentTask
      BY <1>0, <2>0, <3>2 DEF CallInv, DoneInv
    <3> QED
      BY <3>1, <3>2
  <2>4. RanInv'
    BY <1>13, <1>0, <2>0 DEF FinishTask, ReturnedRunner, Requeued, threadVars, historyVars,
       CallInv, RanInv, KindInv, AwaitKinds, ControlInv, OwnerInv, OneOwner
  <2> QED
    BY <2>1, <2>2, <2>3, <2>4 DEF CallInv
<1>14. ASSUME NEW id \in Ids, cancel(id)
       PROVE  CallInv'
  <2>1. AwaiterInv'
    BY <1>14, <1>0 DEF cancel, CancelTask, CancelResult, IsHandedOut, HandedOutKinds,
       wallVars, threadVars, CallInv, AwaiterInv, KindInv, AwaitKinds, ControlInv, OwnerInv,
       OneOwner
  <2>2. KnownInv'
    BY <1>14, <1>0 DEF cancel, CancelTask, CancelResult, IsHandedOut, HandedOutKinds,
       wallVars, threadVars, CallInv, KnownInv, KindInv, AwaitKinds, ControlInv, OwnerInv,
       OneOwner
  <2>3. DoneInv'
    BY <1>14, <1>0 DEF cancel, CancelTask, CancelResult, IsHandedOut, HandedOutKinds,
       wallVars, threadVars, CallInv, DoneInv, KindInv, AwaitKinds, ControlInv, OwnerInv,
       OneOwner
  <2>4. RanInv'
    BY <1>14, <1>0 DEF cancel, CancelTask, CancelResult, IsHandedOut, HandedOutKinds,
       wallVars, threadVars, CallInv, RanInv, KindInv, AwaitKinds, ControlInv, OwnerInv,
       OneOwner
  <2> QED
    BY <2>1, <2>2, <2>3, <2>4 DEF CallInv
<1>15. ASSUME NEW id \in Ids, cancelWallClock(id)
       PROVE  CallInv'
  <2>1. AwaiterInv'
    BY <1>15, <1>0 DEF cancelWallClock, CancelTask, IsHandedOut, threadVars, CallInv,
       AwaiterInv, KindInv, AwaitKinds, ControlInv, OwnerInv, OneOwner
  <2>2. KnownInv'
    BY <1>15, <1>0 DEF cancelWallClock, CancelTask, IsHandedOut, threadVars, CallInv,
       KnownInv, KindInv, AwaitKinds, ControlInv, OwnerInv, OneOwner
  <2>3. DoneInv'
    BY <1>15, <1>0 DEF cancelWallClock, CancelTask, IsHandedOut, threadVars, CallInv,
       DoneInv, KindInv, AwaitKinds, ControlInv, OwnerInv, OneOwner
  <2>4. RanInv'
    BY <1>15, <1>0 DEF cancelWallClock, CancelTask, IsHandedOut, threadVars, CallInv,
       RanInv, KindInv, AwaitKinds, ControlInv, OwnerInv, OneOwner
  <2> QED
    BY <2>1, <2>2, <2>3, <2>4 DEF CallInv
<1>16. ASSUME NEW id \in Ids, Misuse(id)
       PROVE  CallInv'
  <2>1. AwaiterInv'
    BY <1>16, <1>0 DEF Misuse, taskVars, wallVars, threadVars, historyVars, CallInv,
       AwaiterInv, KindInv, AwaitKinds, ControlInv, OwnerInv, OneOwner
  <2>2. KnownInv'
    BY <1>16, <1>0 DEF Misuse, taskVars, wallVars, threadVars, historyVars, CallInv,
       KnownInv, KindInv, AwaitKinds, ControlInv, OwnerInv, OneOwner
  <2>3. DoneInv'
    BY <1>16, <1>0 DEF Misuse, taskVars, wallVars, threadVars, historyVars, CallInv,
       DoneInv, KindInv, AwaitKinds, ControlInv, OwnerInv, OneOwner
  <2>4. RanInv'
    BY <1>16, <1>0 DEF Misuse, taskVars, wallVars, threadVars, historyVars, CallInv, RanInv,
       KindInv, AwaitKinds, ControlInv, OwnerInv, OneOwner
  <2> QED
    BY <2>1, <2>2, <2>3, <2>4 DEF CallInv
<1>17. ASSUME NEW id \in Ids, rescheduleNow(id)
       PROVE  CallInv'
  <2>1. AwaiterInv'
    BY <1>17, <1>0 DEF rescheduleNow, wallVars, threadVars, CallInv, AwaiterInv, KindInv,
       AwaitKinds, ControlInv, OwnerInv, OneOwner
  <2>2. KnownInv'
    BY <1>17, <1>0 DEF rescheduleNow, wallVars, threadVars, CallInv, KnownInv, KindInv,
       AwaitKinds, ControlInv, OwnerInv, OneOwner
  <2>3. DoneInv'
    BY <1>17, <1>0 DEF rescheduleNow, wallVars, threadVars, CallInv, DoneInv, KindInv,
       AwaitKinds, ControlInv, OwnerInv, OneOwner
  <2>4. RanInv'
    BY <1>17, <1>0 DEF rescheduleNow, wallVars, threadVars, CallInv, RanInv, KindInv,
       AwaitKinds, ControlInv, OwnerInv, OneOwner
  <2> QED
    BY <2>1, <2>2, <2>3, <2>4 DEF CallInv
<1>18. ASSUME NEW id \in Ids, NEW d \in Delays, updateDelay(id, d)
       PROVE  CallInv'
  <2>1. AwaiterInv'
    BY <1>18, <1>0 DEF updateDelay, wallVars, threadVars, CallInv, AwaiterInv, KindInv,
       AwaitKinds, ControlInv, OwnerInv, OneOwner
  <2>2. KnownInv'
    BY <1>18, <1>0 DEF updateDelay, wallVars, threadVars, CallInv, KnownInv, KindInv,
       AwaitKinds, ControlInv, OwnerInv, OneOwner
  <2>3. DoneInv'
    BY <1>18, <1>0 DEF updateDelay, wallVars, threadVars, CallInv, DoneInv, KindInv,
       AwaitKinds, ControlInv, OwnerInv, OneOwner
  <2>4. RanInv'
    BY <1>18, <1>0 DEF updateDelay, wallVars, threadVars, CallInv, RanInv, KindInv,
       AwaitKinds, ControlInv, OwnerInv, OneOwner
  <2> QED
    BY <2>1, <2>2, <2>3, <2>4 DEF CallInv
<1>19. ASSUME NEW d \in Delays, updateCurrentTaskDelay(d)
       PROVE  CallInv'
  <2>1. AwaiterInv'
    BY <1>19, <1>0 DEF updateCurrentTaskDelay, wallVars, threadVars, historyVars, CallInv,
       AwaiterInv, KindInv, AwaitKinds, ControlInv, OwnerInv, OneOwner
  <2>2. KnownInv'
    BY <1>19, <1>0 DEF updateCurrentTaskDelay, wallVars, threadVars, historyVars, CallInv,
       KnownInv, KindInv, AwaitKinds, ControlInv, OwnerInv, OneOwner
  <2>3. DoneInv'
    BY <1>19, <1>0 DEF updateCurrentTaskDelay, wallVars, threadVars, historyVars, CallInv,
       DoneInv, KindInv, AwaitKinds, ControlInv, OwnerInv, OneOwner
  <2>4. RanInv'
    BY <1>19, <1>0 DEF updateCurrentTaskDelay, wallVars, threadVars, historyVars, CallInv,
       RanInv, KindInv, AwaitKinds, ControlInv, OwnerInv, OneOwner
  <2> QED
    BY <2>1, <2>2, <2>3, <2>4 DEF CallInv
<1>20. ASSUME NEW t \in Threads, AwaitRefused(t)
       PROVE  CallInv'
  <2>1. AwaiterInv'
    BY <1>20, <1>0 DEF AwaitRefused, taskVars, wallVars, historyVars, CallInv, AwaiterInv,
       KindInv, AwaitKinds, ControlInv, OwnerInv, OneOwner
  <2>2. KnownInv'
    BY <1>20, <1>0 DEF AwaitRefused, taskVars, wallVars, historyVars, CallInv, KnownInv,
       KindInv, AwaitKinds, ControlInv, OwnerInv, OneOwner
  <2>3. DoneInv'
    BY <1>20, <1>0 DEF AwaitRefused, taskVars, wallVars, historyVars, CallInv, DoneInv,
       KindInv, AwaitKinds, ControlInv, OwnerInv, OneOwner
  <2>4. RanInv'
    BY <1>20, <1>0 DEF AwaitRefused, taskVars, wallVars, historyVars, CallInv, RanInv,
       KindInv, AwaitKinds, ControlInv, OwnerInv, OneOwner
  <2> QED
    BY <2>1, <2>2, <2>3, <2>4 DEF CallInv
<1>21. ASSUME NEW t \in Threads, NEW k \in {"await", "pre_reboot"}, AwaitSchedule(t, k)
       PROVE  CallInv'
  <2>1. AwaiterInv'
    BY <1>21, <1>0 DEF AwaitSchedule, NewTask, wallVars, historyVars, CallInv, AwaiterInv,
       KindInv, AwaitKinds, ControlInv, OwnerInv, OneOwner
  <2>2. KnownInv'
    BY <1>21, <1>0 DEF AwaitSchedule, NewTask, wallVars, historyVars, CallInv, KnownInv,
       KindInv, AwaitKinds, ControlInv, OwnerInv, OneOwner
  <2>3. DoneInv'
    BY <1>21, <1>0 DEF AwaitSchedule, NewTask, wallVars, historyVars, CallInv, DoneInv,
       KindInv, AwaitKinds, ControlInv, OwnerInv, OneOwner
  <2>4. RanInv'
    BY <1>21, <1>0 DEF AwaitSchedule, NewTask, wallVars, historyVars, CallInv, RanInv,
       KindInv, AwaitKinds, ControlInv, OwnerInv, OneOwner
  <2> QED
    BY <2>1, <2>2, <2>3, <2>4 DEF CallInv
<1>22. ASSUME NEW t \in Threads, halt = "no", AwaitTake(t)
       PROVE  CallInv'
  <2>1. AwaiterInv'
    BY <1>22, <1>0 DEF AwaitTake, AwaitReturn, taskVars, wallVars, historyVars, CallInv,
       AwaiterInv, KindInv, AwaitKinds, ControlInv, OwnerInv, OneOwner
  <2>2. KnownInv'
    BY <1>22, <1>0 DEF AwaitTake, AwaitReturn, taskVars, wallVars, historyVars, CallInv,
       KnownInv, KindInv, AwaitKinds, ControlInv, OwnerInv, OneOwner
  <2>3. DoneInv'
    BY <1>22, <1>0 DEF AwaitTake, AwaitReturn, taskVars, wallVars, historyVars, CallInv,
       DoneInv, KindInv, AwaitKinds, ControlInv, OwnerInv, OneOwner
  <2>4. RanInv'
    BY <1>22, <1>0 DEF AwaitTake, AwaitReturn, taskVars, wallVars, historyVars, CallInv,
       RanInv, KindInv, AwaitKinds, ControlInv, OwnerInv, OneOwner
  <2> QED
    BY <2>1, <2>2, <2>3, <2>4 DEF CallInv
<1>23. ASSUME NEW t \in Threads, AwaitTimeout(t)
       PROVE  CallInv'
  <2>1. AwaiterInv'
    BY <1>23, <1>0 DEF AwaitTimeout, taskVars, wallVars, historyVars, CallInv, AwaiterInv,
       KindInv, AwaitKinds, ControlInv, OwnerInv, OneOwner
  <2>2. KnownInv'
    BY <1>23, <1>0 DEF AwaitTimeout, taskVars, wallVars, historyVars, CallInv, KnownInv,
       KindInv, AwaitKinds, ControlInv, OwnerInv, OneOwner
  <2>3. DoneInv'
    BY <1>23, <1>0 DEF AwaitTimeout, taskVars, wallVars, historyVars, CallInv, DoneInv,
       KindInv, AwaitKinds, ControlInv, OwnerInv, OneOwner
  <2>4. RanInv'
    BY <1>23, <1>0 DEF AwaitTimeout, taskVars, wallVars, historyVars, CallInv, RanInv,
       KindInv, AwaitKinds, ControlInv, OwnerInv, OneOwner
  <2> QED
    BY <2>1, <2>2, <2>3, <2>4 DEF CallInv
<1>24. ASSUME NEW t \in Threads, halt = "no", AwaitCancel(t)
       PROVE  CallInv'
  <2>1. AwaiterInv'
    BY <1>24, <1>0 DEF AwaitCancel, CancelTask, CancelResult, AwaitReturn, wallVars,
       historyVars, CallInv, AwaiterInv, KindInv, AwaitKinds, ControlInv, OwnerInv, OneOwner
  <2>2. KnownInv'
    BY <1>24, <1>0 DEF AwaitCancel, CancelTask, CancelResult, AwaitReturn, wallVars,
       historyVars, CallInv, KnownInv, KindInv, AwaitKinds, ControlInv, OwnerInv, OneOwner
  <2>3. DoneInv'
    <3>1. /\ UNCHANGED <<awaited, currentTask, rebooting, runs>> /\ tpc[t] = "timed_out"
          /\ tasks' = IF awaited[t] = currentTask THEN tasks ELSE tasks \ {awaited[t]}
          /\ tpc' = IF awaited[t] = currentTask THEN tpc ELSE [tpc EXCEPT ![t] = "idle"]
      BY <1>24 DEF AwaitCancel, CancelTask, CancelResult, AwaitReturn, historyVars
    <3> SUFFICES ASSUME NEW u \in Threads, tpc'[u] # "idle", awaited'[u] \notin tasks' \cup {currentTask'}
                 PROVE  rebooting' \/ runs'[awaited'[u]] # 0
      BY DEF DoneInv
    <3>2. tpc[u] # "idle" /\ (u = t => awaited[t] = currentTask)
      BY <1>0, <3>1
    <3>3. awaited[u] \notin tasks \cup {currentTask}
      BY <1>0, <3>1, <3>2 DEF CallInv, AwaiterInv, ControlInv
    <3> QED
      BY <3>1, <3>2, <3>3 DEF CallInv, DoneInv
  <2>4. RanInv'
    BY <1>24, <1>0 DEF AwaitCancel, CancelTask, CancelResult, AwaitReturn, wallVars,
       historyVars, CallInv, RanInv, KindInv, AwaitKinds, ControlInv, OwnerInv, OneOwner
  <2> QED
    BY <2>1, <2>2, <2>3, <2>4 DEF CallInv
<1>25. CASE Tick
  <2>1. AwaiterInv'
    BY <1>25, <1>0 DEF Tick, taskVars, wallVars, threadVars, historyVars, CallInv,
       AwaiterInv, KindInv, AwaitKinds, ControlInv, OwnerInv, OneOwner
  <2>2. KnownInv'
    BY <1>25, <1>0 DEF Tick, taskVars, wallVars, threadVars, historyVars, CallInv, KnownInv,
       KindInv, AwaitKinds, ControlInv, OwnerInv, OneOwner
  <2>3. DoneInv'
    BY <1>25, <1>0 DEF Tick, taskVars, wallVars, threadVars, historyVars, CallInv, DoneInv,
       KindInv, AwaitKinds, ControlInv, OwnerInv, OneOwner
  <2>4. RanInv'
    BY <1>25, <1>0 DEF Tick, taskVars, wallVars, threadVars, historyVars, CallInv, RanInv,
       KindInv, AwaitKinds, ControlInv, OwnerInv, OneOwner
  <2> QED
    BY <2>1, <2>2, <2>3, <2>4 DEF CallInv
<1>26. ASSUME NEW o \in Offsets, SyncClock(o)
       PROVE  CallInv'
  <2>1. AwaiterInv'
    BY <1>26, <1>0 DEF SyncClock, taskVars, wallVars, threadVars, historyVars, CallInv,
       AwaiterInv, KindInv, AwaitKinds, ControlInv, OwnerInv, OneOwner
  <2>2. KnownInv'
    BY <1>26, <1>0 DEF SyncClock, taskVars, wallVars, threadVars, historyVars, CallInv,
       KnownInv, KindInv, AwaitKinds, ControlInv, OwnerInv, OneOwner
  <2>3. DoneInv'
    BY <1>26, <1>0 DEF SyncClock, taskVars, wallVars, threadVars, historyVars, CallInv,
       DoneInv, KindInv, AwaitKinds, ControlInv, OwnerInv, OneOwner
  <2>4. RanInv'
    BY <1>26, <1>0 DEF SyncClock, taskVars, wallVars, threadVars, historyVars, CallInv,
       RanInv, KindInv, AwaitKinds, ControlInv, OwnerInv, OneOwner
  <2> QED
    BY <2>1, <2>2, <2>3, <2>4 DEF CallInv
<1>27. CASE UNCHANGED vars
  <2>1. AwaiterInv'
    BY <1>27, <1>0 DEF vars, taskVars, wallVars, threadVars, historyVars, clockVars,
       CallInv, AwaiterInv, KindInv, AwaitKinds, ControlInv, OwnerInv, OneOwner
  <2>2. KnownInv'
    BY <1>27, <1>0 DEF vars, taskVars, wallVars, threadVars, historyVars, clockVars,
       CallInv, KnownInv, KindInv, AwaitKinds, ControlInv, OwnerInv, OneOwner
  <2>3. DoneInv'
    BY <1>27, <1>0 DEF vars, taskVars, wallVars, threadVars, historyVars, clockVars,
       CallInv, DoneInv, KindInv, AwaitKinds, ControlInv, OwnerInv, OneOwner
  <2>4. RanInv'
    BY <1>27, <1>0 DEF vars, taskVars, wallVars, threadVars, historyVars, clockVars,
       CallInv, RanInv, KindInv, AwaitKinds, ControlInv, OwnerInv, OneOwner
  <2> QED
    BY <2>1, <2>2, <2>3, <2>4 DEF CallInv
<1> QED
  BY <1>1, <1>2, <1>3, <1>4, <1>5, <1>6, <1>7, <1>8, <1>9, <1>10, <1>11, <1>12, <1>13,
     <1>14, <1>15, <1>16, <1>17, <1>18, <1>19, <1>20, <1>21, <1>22, <1>23, <1>24, <1>25,
     <1>26, <1>27 DEF Next, Schedule, Owner, Operate, Await

IInv ==
    /\ TypeOK /\ ControlInv /\ NumberInv /\ KindInv /\ OwnerInv /\ CancelInv
    /\ AwaitInv /\ RunsInv /\ RankInv /\ CallInv

LEMMA InitIInv == Init => IInv
<1> SUFFICES ASSUME Init PROVE IInv
  OBVIOUS
<1>1. TypeOK /\ ControlInv
  BY TypeInit, ControlInit
<1>2. NumberInv
  BY DEF Init, NumberInv
<1>3. KindInv /\ OwnerInv /\ CancelInv
  BY DEF Init, KindInv, OwnerInv, OneOwner, CancelInv
<1>4. AwaitInv
  BY DEF Init, AwaitInv, PlainInv, PointerInv, BackInv, CleanInv, NoLostWakeup, LeftInv, Ids
<1>5. RunsInv /\ CallInv
  BY DEF Init, RunsInv, CallInv, AwaiterInv, KnownInv, DoneInv, RanInv
<1>6. RankInv
  BY DEF Init, RankInv, ReverseExecution
<1> QED
  BY <1>1, <1>2, <1>3, <1>4, <1>5, <1>6 DEF IInv

LEMMA NextIInv == IInv /\ [Next]_vars => IInv'
  BY TypeStep, ControlStep, NumberStep, KindStep, OwnerStep, CancelStep, AwaitStep, RunsStep, RankStep,
     CallInvStep DEF IInv

LEMMA AlwaysIInv == Spec => []IInv
  BY InitIInv, NextIInv, PTL DEF Spec

\* The queue, currentTask and the wall clock entries never share a task, no
\* registered wall clock task loses its runner, and no cancelled task is in the
\* queue: the branch of custom_loop for one can never be taken.
THEOREM TasksAreOwned == Spec => []TasksOwned
<1>1. IInv => TasksOwned
  <2> SUFFICES ASSUME IInv PROVE TasksOwned
    OBVIOUS
  <2>1. OneOwner
    BY DEF IInv, OwnerInv
  <2>2. WallClockTaskKept
    <3>1. 0 \notin wall_clock_tasks
      BY DEF IInv, TypeOK, WallClockTypeOK, Ids
    <3> QED
      BY <3>1 DEF IInv, OwnerInv, WallClockTaskKept, Live
  <2>3. NoCancelledQueued
    BY DEF IInv, OwnerInv, CancelInv, NoCancelledQueued
  <2> QED
    BY <2>1, <2>2, <2>3 DEF TasksOwned
<1> QED
  BY <1>1, AlwaysIInv, PTL

\* custom_loop never takes a task again after cancel has reported its
\* cancellation, whoever cancelled it and whenever.
THEOREM CancelIsFinal == Spec => RetiredNeverRuns
<1>1. IInv /\ [Next]_vars =>
        [currentTask' # 0 /\ currentTask' # currentTask => currentTask' \notin retired]_vars
  <2> SUFFICES ASSUME IInv, [Next]_vars, currentTask' # 0, currentTask' # currentTask
               PROVE  currentTask' \notin retired
    OBVIOUS
  <2>1. currentTask' \in tasks
    <3>1. ASSUME NEW k \in {"once", "restart"}, NEW first \in Delays, scheduleOnce(k, first)
          PROVE  currentTask' \in tasks
      BY <3>1 DEF scheduleOnce
    <3>2. ASSUME NEW first \in Delays, NEW d \in Delays, scheduleWithFixedDelay(first, d)
          PROVE  currentTask' \in tasks
      BY <3>2 DEF scheduleWithFixedDelay
    <3>3. ASSUME NEW first \in Delays, NEW d \in Delays, scheduleUncancelable(first, d)
          PROVE  currentTask' \in tasks
      BY <3>3 DEF scheduleUncancelable
    <3>4. CASE scheduleWhenClockSynced
      BY <3>4 DEF scheduleWhenClockSynced
    <3>5. ASSUME NEW i \in Intervals, NEW d \in Delays, NEW b \in BOOLEAN, scheduleWallClock(i, d, b)
          PROVE  currentTask' \in tasks
      BY <3>5 DEF scheduleWallClock
    <3>6. ASSUME NEW id \in Ids, PopTask(id)
          PROVE  currentTask' \in tasks
      BY <3>6 DEF PopTask, IsTop
    <3>7. CASE CheckRebooting
      BY <3>7 DEF CheckRebooting
    <3>8. CASE RunPlainFn
      BY <3>8 DEF RunPlainFn
    <3>9. CASE RunWhenClockSynced
      BY <3>9 DEF RunWhenClockSynced
    <3>10. CASE wall_clock_worker
      BY <3>10 DEF wall_clock_worker
    <3>11. CASE RunRestart
      BY <3>11 DEF RunRestart
    <3>12. CASE RunPreRebootHelper
      BY <3>12 DEF RunPreRebootHelper
    <3>13. ASSUME halt = "no", FinishTask
           PROVE  currentTask' \in tasks
      BY <3>13 DEF FinishTask
    <3>14. ASSUME NEW id \in Ids, cancel(id)
           PROVE  currentTask' \in tasks
      BY <3>14 DEF cancel
    <3>15. ASSUME NEW id \in Ids, cancelWallClock(id)
           PROVE  currentTask' \in tasks
      BY <3>15 DEF cancelWallClock
    <3>16. ASSUME NEW id \in Ids, Misuse(id)
           PROVE  currentTask' \in tasks
      BY <3>16 DEF Misuse
    <3>17. ASSUME NEW id \in Ids, rescheduleNow(id)
           PROVE  currentTask' \in tasks
      BY <3>17 DEF rescheduleNow
    <3>18. ASSUME NEW id \in Ids, NEW d \in Delays, updateDelay(id, d)
           PROVE  currentTask' \in tasks
      BY <3>18 DEF updateDelay
    <3>19. ASSUME NEW d \in Delays, updateCurrentTaskDelay(d)
           PROVE  currentTask' \in tasks
      BY <3>19 DEF updateCurrentTaskDelay
    <3>20. ASSUME NEW t \in Threads, AwaitRefused(t)
           PROVE  currentTask' \in tasks
      BY <3>20 DEF AwaitRefused
    <3>21. ASSUME NEW t \in Threads, NEW k \in {"await", "pre_reboot"}, AwaitSchedule(t, k)
           PROVE  currentTask' \in tasks
      BY <3>21 DEF AwaitSchedule
    <3>22. ASSUME NEW t \in Threads, halt = "no", AwaitTake(t)
           PROVE  currentTask' \in tasks
      BY <3>22 DEF AwaitTake
    <3>23. ASSUME NEW t \in Threads, AwaitTimeout(t)
           PROVE  currentTask' \in tasks
      BY <3>23 DEF AwaitTimeout
    <3>24. ASSUME NEW t \in Threads, halt = "no", AwaitCancel(t)
           PROVE  currentTask' \in tasks
      BY <3>24 DEF AwaitCancel
    <3>25. CASE Tick
      BY <3>25 DEF Tick
    <3>26. ASSUME NEW o \in Offsets, SyncClock(o)
           PROVE  currentTask' \in tasks
      BY <3>26 DEF SyncClock
    <3>27. CASE UNCHANGED vars
      BY <3>27 DEF vars
    <3> QED
      BY <3>1, <3>2, <3>3, <3>4, <3>5, <3>6, <3>7, <3>8, <3>9, <3>10, <3>11, <3>12, <3>13,
         <3>14, <3>15, <3>16, <3>17, <3>18, <3>19, <3>20, <3>21, <3>22, <3>23, <3>24, <3>25,
         <3>26, <3>27 DEF Next, Schedule, Owner, Operate, Await
  <2> QED
    BY <2>1 DEF IInv, CancelInv
<1> QED
  BY <1>1, AlwaysIInv, PTL DEF Spec, RetiredNeverRuns

\* A thread blocked in await is always either notified or has its task queued
\* or running, and a thread that entered await without a pending notification
\* leaves no task on its stack to the scheduler when await returns.
THEOREM AwaitIsSafe == Spec => []AwaitSafe
<1>1. IInv => AwaitSafe
  <2> SUFFICES ASSUME IInv PROVE AwaitSafe
    OBVIOUS
  <2>1. \A id \in runner_task : awaited_by[id] = NoThread
    BY DEF IInv, OwnerInv, KindInv, AwaitInv, PlainInv, AwaitKinds, TypeOK, WallClockTypeOK
  <2>2. LeftInv /\ currentTask \in Ids \cup {0} /\ 0 \notin Ids /\ tasks \subseteq Ids
    BY DEF IInv, AwaitInv, TypeOK, TaskTypeOK, Ids
  <2>3. AwaitIsSynchronous
    BY <2>1, <2>2 DEF LeftInv, AwaitIsSynchronous, Live
  <2> QED
    BY <2>3 DEF IInv, AwaitInv, AwaitSafe
<1> QED
  BY <1>1, AlwaysIInv, PTL

\* A one-shot task runs at most once, whatever is called on it and whoever calls
\* it; so does the function of scheduleWhenClockSynced, whose task is repeated.
THEOREM RunsOnce == Spec => []AtMostOnce
<1>1. IInv => AtMostOnce
  BY DEF IInv, RunsInv, AtMostOnce, SingleKinds, AwaitKinds
<1> QED
  BY <1>1, AlwaysIInv, PTL

\* Of two queued tasks that rescheduleNow has moved, the one moved last runs first.
THEOREM LastMovedFirst == Spec => []ReverseExecution
<1>1. IInv => ReverseExecution
  BY DEF IInv, RankInv
<1> QED
  BY <1>1, AlwaysIInv, PTL

-----------------------------------------------------------------------------
(* await is a remote call.                                                 *)

\* The steps of the scheduler that a thread in await does not see.
LEMMA HiddenStep ==
  ASSUME TypeOK, UNCHANGED <<awaited, result, entered_pending, runs, rebooting>>,
         \A t \in Threads : tpc'[t] = "idle" <=> tpc[t] = "idle"
  PROVE  UNCHANGED Call!vars
<1>1. {t \in Threads \ entered_pending : tpc[t] # "idle"}' = {t \in Threads \ entered_pending : tpc[t] # "idle"}
  OBVIOUS
<1> QED
  BY <1>1 DEF Call!vars

\* A refused await, and one that enters with a notification left behind.
LEMMA RefuseStep ==
  ASSUME IInv, NEW t \in Threads, tpc[t] = "idle", UNCHANGED <<runs, rebooting>>,
         \/ AwaitRefused(t)
         \/ notify[t] # 0 /\ \E k \in {"await", "pre_reboot"} : AwaitSchedule(t, k)
  PROVE  [Call!Next]_(Call!vars)
<1> DEFINE calling == {u \in Threads \ entered_pending : tpc[u] # "idle"}
<1> DEFINE served == {u \in Threads \ entered_pending : awaited[u] # 0 /\ runs[awaited[u]] # 0}
<1> DEFINE answer == [u \in Threads |-> IF u \in entered_pending THEN "false" ELSE result[u]]
<1>1. /\ \A u \in Threads \ {t} : /\ tpc'[u] = tpc[u] /\ awaited'[u] = awaited[u] /\ result'[u] = result[u]
                                  /\ u \in entered_pending' <=> u \in entered_pending
      /\ t \in entered_pending' \/ (tpc'[t] = "idle" /\ awaited'[t] = 0 /\ result'[t] = "false")
  BY DEF IInv, TypeOK, ControlTypeOK, AwaitRefused, AwaitSchedule
<1>2. t \notin calling /\ calling' = calling
  BY <1>1
<1>3. served' = served \ {t}
  BY <1>1
<1>4. answer' = [answer EXCEPT ![t] = "false"]
  BY <1>1
<1>5. Call!Refuse(t)
  BY <1>2, <1>3, <1>4 DEF Call!Refuse
<1> QED
  BY <1>5 DEF Call!Next

\* Any other await becomes a call; its task is new and has not run.
LEMMA StartStep ==
  ASSUME IInv, NEW t \in Threads, NEW k \in {"await", "pre_reboot"}, AwaitSchedule(t, k), notify[t] = 0
  PROVE  [Call!Next]_(Call!vars)
<1> DEFINE calling == {u \in Threads \ entered_pending : tpc[u] # "idle"}
<1> DEFINE served == {u \in Threads \ entered_pending : awaited[u] # 0 /\ runs[awaited[u]] # 0}
<1> DEFINE answer == [u \in Threads |-> IF u \in entered_pending THEN "false" ELSE result[u]]
<1>1. /\ tpc[t] = "idle" /\ runs' = runs /\ rebooting' = rebooting
      /\ \A u \in Threads \ {t} : /\ tpc'[u] = tpc[u] /\ awaited'[u] = awaited[u] /\ result'[u] = result[u]
                                  /\ u \in entered_pending' <=> u \in entered_pending
      /\ tpc'[t] = "wait" /\ awaited'[t] = last_task_id + 1 /\ result'[t] = "none" /\ t \notin entered_pending'
  BY DEF IInv, TypeOK, ControlTypeOK, AwaitSchedule, historyVars
<1>2. runs[last_task_id + 1] = 0
  BY DEF IInv, TypeOK, TaskTypeOK, RunsInv, AwaitSchedule, NewTask
<1>3. t \notin calling /\ calling' = calling \cup {t}
  BY <1>1
<1>4. served' = served \ {t}
  BY <1>1, <1>2
<1>5. answer' = [answer EXCEPT ![t] = "none"]
  BY <1>1
<1>6. Call!Call(t)
  BY <1>1, <1>3, <1>4, <1>5 DEF Call!Call
<1> QED
  BY <1>6 DEF Call!Next

\* The owner calls fn of currentTask: it serves the one thread that awaits this
\* task and has not been served before, if there is one.
LEMMA RunStep ==
  ASSUME IInv, pc = "run", CountRun(currentTask), UNCHANGED threadVars, rebooting' \in {rebooting, TRUE}
  PROVE  [Call!Next]_(Call!vars)
<1> DEFINE calling == {u \in Threads \ entered_pending : tpc[u] # "idle"}
<1> DEFINE served == {u \in Threads \ entered_pending : awaited[u] # 0 /\ runs[awaited[u]] # 0}
<1> DEFINE answer == [u \in Threads |-> IF u \in entered_pending THEN "false" ELSE result[u]]
<1>1. /\ UNCHANGED <<tpc, awaited, result, entered_pending>>
      /\ runs \in [Ids -> 0..2] /\ awaited \in [Threads -> Ids \cup {0}] /\ 0 \notin Ids
      /\ currentTask \in Ids
  BY DEF threadVars, IInv, TypeOK, ClockTypeOK, ControlTypeOK, TaskTypeOK, ControlInv, Ids
<1>2. \A i \in Ids : runs'[i] = IF i = currentTask THEN Lesser(runs[i] + 1, 2) ELSE runs[i]
  BY <1>1 DEF CountRun
<1>3. runs'[currentTask] # 0 /\ \A i \in Ids \ {currentTask} : runs'[i] = runs[i]
  BY <1>1, <1>2 DEF Lesser
<1>4. calling' = calling /\ answer' = answer
  BY <1>1
<1>5. ASSUME NEW t \in Threads \ entered_pending, awaited[t] = currentTask
      PROVE  [Call!Next]_(Call!vars)
  <2>1. tpc[t] # "idle"
    BY <1>1, <1>5 DEF IInv, CallInv, KnownInv, AwaitInv, LeftInv
  <2>2. runs[currentTask] = 0
    BY <1>1, <1>5 DEF IInv, KindInv, RunsInv, SingleKinds
  <2>3. t \in calling \ served
    BY <1>5, <2>1, <2>2
  <2>4. \A u \in Threads : awaited[u] = currentTask => u = t
    BY <1>1, <1>5 DEF IInv, CallInv, AwaiterInv
  <2>5. served' = served \cup {t}
    BY <1>1, <1>3, <1>5, <2>4
  <2>6. Call!Serve(t)
    BY <1>4, <2>3, <2>5 DEF Call!Serve
  <2> QED
    BY <2>6 DEF Call!Next
<1>6. CASE \A t \in Threads \ entered_pending : awaited[t] # currentTask
  <2>1. served' = served
    BY <1>1, <1>3, <1>6
  <2>2. CASE rebooting' = rebooting
    BY <1>4, <2>1, <2>2 DEF Call!vars
  <2>3. CASE rebooting' = TRUE
    <3>1. Call!ShutDown
      BY <1>4, <2>1, <2>3 DEF Call!ShutDown
    <3> QED
      BY <3>1 DEF Call!Next
  <2> QED
    BY <2>2, <2>3
<1> QED
  BY <1>5, <1>6

\* await returns to a thread that entered it without a pending notification
\* only after its task is finished or was removed from the queue.
LEMMA AnswerStep ==
  ASSUME IInv, NEW t \in Threads, NEW r \in {"true", "false"}, tpc[t] # "idle", AwaitReturn(t, r),
         UNCHANGED <<awaited, entered_pending, runs, rebooting>>,
         t \notin entered_pending =>
            /\ r = "true" => runs[awaited[t]] # 0
            /\ r = "false" => runs[awaited[t]] = 0 \/ rebooting
  PROVE  [Call!Next]_(Call!vars)
<1> DEFINE calling == {u \in Threads \ entered_pending : tpc[u] # "idle"}
<1> DEFINE served == {u \in Threads \ entered_pending : awaited[u] # 0 /\ runs[awaited[u]] # 0}
<1> DEFINE answer == [u \in Threads |-> IF u \in entered_pending THEN "false" ELSE result[u]]
<1>1. /\ \A u \in Threads : /\ tpc'[u] = IF u = t THEN "idle" ELSE tpc[u]
                            /\ result'[u] = IF u = t THEN r ELSE result[u]
      /\ awaited[t] # 0
  BY DEF IInv, TypeOK, ControlTypeOK, ControlInv, AwaitReturn
<1>2. served' = served
  OBVIOUS
<1>3. CASE t \in entered_pending
  <2>1. calling' = calling /\ answer' = answer
    BY <1>1, <1>3
  <2> QED
    BY <1>2, <2>1 DEF Call!vars
<1>4. CASE t \notin entered_pending
  <2>1. t \in calling /\ calling' = calling \ {t}
    BY <1>1, <1>4
  <2>2. answer' = [answer EXCEPT ![t] = r]
    BY <1>1, <1>4
  <2>3. Call!Answer(t, r)
    BY <1>1, <1>2, <1>4, <2>1, <2>2 DEF Call!Answer
  <2> QED
    BY <2>3 DEF Call!Next
<1> QED
  BY <1>3, <1>4

\* A notified thread finds its task finished.
LEMMA TakeStep == ASSUME IInv, NEW t \in Threads, AwaitTake(t) PROVE [Call!Next]_(Call!vars)
<1>1. /\ tpc[t] # "idle" /\ notify[t] # 0 /\ AwaitReturn(t, NotRebooting)
      /\ UNCHANGED <<awaited, entered_pending, runs, rebooting>>
  BY DEF AwaitTake, historyVars
<1>2. t \notin entered_pending => awaited[t] \notin tasks \cup {currentTask}
  BY <1>1 DEF IInv, AwaitInv, CleanInv
<1>3. t \notin entered_pending => rebooting \/ runs[awaited[t]] # 0
  BY <1>1, <1>2 DEF IInv, CallInv, DoneInv
<1> QED
  BY <1>1, <1>3, AnswerStep DEF NotRebooting

\* After a timeout cancel tells whether the function may have run.
LEMMA CancelAwaitStep == ASSUME IInv, NEW t \in Threads, AwaitCancel(t) PROVE [Call!Next]_(Call!vars)
<1>1. tpc[t] # "idle" /\ UNCHANGED <<awaited, entered_pending, runs, rebooting>> /\ awaited[t] # 0
  BY DEF AwaitCancel, historyVars, IInv, ControlInv
<1>2. CASE awaited[t] = currentTask
  <2>1. UNCHANGED <<tpc, result>>
    BY <1>2 DEF AwaitCancel, CancelResult
  <2> QED
    BY <1>1, <2>1, HiddenStep DEF IInv
<1>3. CASE awaited[t] # currentTask /\ awaited[t] \in tasks
  <2>1. AwaitReturn(t, "false")
    BY <1>3 DEF AwaitCancel, CancelResult
  <2>2. runs[awaited[t]] = 0
    BY <1>1, <1>3 DEF IInv, KindInv, RunsInv, SingleKinds, TypeOK, TaskTypeOK
  <2> QED
    BY <1>1, <2>1, <2>2, AnswerStep
<1>4. CASE awaited[t] # currentTask /\ awaited[t] \notin tasks
  <2>1. AwaitReturn(t, NotRebooting)
    BY <1>4 DEF AwaitCancel, CancelResult
  <2>2. rebooting \/ runs[awaited[t]] # 0
    BY <1>1, <1>4 DEF IInv, CallInv, DoneInv
  <2> QED
    BY <1>1, <2>1, <2>2, AnswerStep DEF NotRebooting
<1> QED
  BY <1>2, <1>3, <1>4

\* Every step of the task scheduler is a step of a remote call or hidden.
LEMMA CallStep == IInv /\ [Next]_vars => [Call!Next]_(Call!vars)
<1> SUFFICES ASSUME IInv, [Next]_vars PROVE [Call!Next]_(Call!vars)
  OBVIOUS
<1>0. TypeOK
  BY DEF IInv
<1>1. ASSUME NEW k \in {"once", "restart"}, NEW first \in Delays, scheduleOnce(k, first)
      PROVE  [Call!Next]_(Call!vars)
  BY <1>1, <1>0, HiddenStep DEF scheduleOnce, threadVars, historyVars
<1>2. ASSUME NEW first \in Delays, NEW d \in Delays, scheduleWithFixedDelay(first, d)
      PROVE  [Call!Next]_(Call!vars)
  BY <1>2, <1>0, HiddenStep DEF scheduleWithFixedDelay, threadVars, historyVars
<1>3. ASSUME NEW first \in Delays, NEW d \in Delays, scheduleUncancelable(first, d)
      PROVE  [Call!Next]_(Call!vars)
  BY <1>3, <1>0, HiddenStep DEF scheduleUncancelable, threadVars, historyVars
<1>4. CASE scheduleWhenClockSynced
  BY <1>4, <1>0, HiddenStep DEF scheduleWhenClockSynced, threadVars, historyVars
<1>5. ASSUME NEW i \in Intervals, NEW d \in Delays, NEW b \in BOOLEAN, scheduleWallClock(i, d, b)
      PROVE  [Call!Next]_(Call!vars)
  BY <1>5, <1>0, HiddenStep DEF scheduleWallClock, threadVars, historyVars
<1>6. ASSUME NEW id \in Ids, PopTask(id)
      PROVE  [Call!Next]_(Call!vars)
  BY <1>6, <1>0, HiddenStep DEF PopTask, threadVars, historyVars
<1>7. CASE CheckRebooting
  BY <1>7, <1>0, HiddenStep DEF CheckRebooting, threadVars, historyVars
<1>8. CASE RunPlainFn
  BY <1>8, RunStep DEF RunPlainFn
<1>9. CASE RunWhenClockSynced
  <2>1. CASE synced
    BY <1>9, <2>1, RunStep DEF RunWhenClockSynced
  <2>2. CASE ~synced
    BY <1>0, <1>9, <2>2, HiddenStep DEF RunWhenClockSynced, threadVars
  <2> QED
    BY <2>1, <2>2
<1>10. CASE wall_clock_worker
  BY <1>10, RunStep DEF wall_clock_worker
<1>11. CASE RunRestart
  BY <1>11, RunStep DEF RunRestart
<1>12. CASE RunPreRebootHelper
  BY <1>12, RunStep DEF RunPreRebootHelper
<1>13. ASSUME halt = "no", FinishTask
       PROVE  [Call!Next]_(Call!vars)
  BY <1>13, <1>0, HiddenStep DEF FinishTask, threadVars, historyVars
<1>14. ASSUME NEW id \in Ids, cancel(id)
       PROVE  [Call!Next]_(Call!vars)
  BY <1>14, <1>0, HiddenStep DEF cancel, threadVars, historyVars
<1>15. ASSUME NEW id \in Ids, cancelWallClock(id)
       PROVE  [Call!Next]_(Call!vars)
  BY <1>15, <1>0, HiddenStep DEF cancelWallClock, threadVars, historyVars
<1>16. ASSUME NEW id \in Ids, Misuse(id)
       PROVE  [Call!Next]_(Call!vars)
  BY <1>16, <1>0, HiddenStep DEF Misuse, threadVars, historyVars
<1>17. ASSUME NEW id \in Ids, rescheduleNow(id)
       PROVE  [Call!Next]_(Call!vars)
  BY <1>17, <1>0, HiddenStep DEF rescheduleNow, threadVars, historyVars
<1>18. ASSUME NEW id \in Ids, NEW d \in Delays, updateDelay(id, d)
       PROVE  [Call!Next]_(Call!vars)
  BY <1>18, <1>0, HiddenStep DEF updateDelay, threadVars, historyVars
<1>19. ASSUME NEW d \in Delays, updateCurrentTaskDelay(d)
       PROVE  [Call!Next]_(Call!vars)
  BY <1>19, <1>0, HiddenStep DEF updateCurrentTaskDelay, threadVars, historyVars
<1>20. ASSUME NEW t \in Threads, AwaitRefused(t)
       PROVE  [Call!Next]_(Call!vars)
  BY <1>20, RefuseStep DEF AwaitRefused, historyVars
<1>21. ASSUME NEW t \in Threads, NEW k \in {"await", "pre_reboot"}, AwaitSchedule(t, k)
       PROVE  [Call!Next]_(Call!vars)
  <2>1. CASE notify[t] # 0
    BY <1>21, <2>1, RefuseStep DEF AwaitSchedule, historyVars
  <2>2. CASE notify[t] = 0
    BY <1>21, <2>2, StartStep
  <2> QED
    BY <2>1, <2>2
<1>22. ASSUME NEW t \in Threads, halt = "no", AwaitTake(t)
       PROVE  [Call!Next]_(Call!vars)
  BY <1>22, TakeStep
<1>23. ASSUME NEW t \in Threads, AwaitTimeout(t)
       PROVE  [Call!Next]_(Call!vars)
  BY <1>23, <1>0, HiddenStep DEF AwaitTimeout, historyVars, TypeOK, ControlTypeOK
<1>24. ASSUME NEW t \in Threads, halt = "no", AwaitCancel(t)
       PROVE  [Call!Next]_(Call!vars)
  BY <1>24, CancelAwaitStep
<1>25. CASE Tick
  BY <1>25, <1>0, HiddenStep DEF Tick, threadVars, historyVars
<1>26. ASSUME NEW o \in Offsets, SyncClock(o)
       PROVE  [Call!Next]_(Call!vars)
  BY <1>26, <1>0, HiddenStep DEF SyncClock, threadVars, historyVars
<1>27. CASE UNCHANGED vars
  BY <1>27, <1>0, HiddenStep DEF vars, taskVars, wallVars, threadVars, historyVars,
     clockVars
<1> QED
  BY <1>1, <1>2, <1>3, <1>4, <1>5, <1>6, <1>7, <1>8, <1>9, <1>10, <1>11, <1>12, <1>13,
     <1>14, <1>15, <1>16, <1>17, <1>18, <1>19, <1>20, <1>21, <1>22, <1>23, <1>24, <1>25,
     <1>26, <1>27 DEF Next, Schedule, Owner, Operate, Await

\* task_scheduler.h: "Returns true if the passed function was executed in the main
\* thread.  Returns false if not, or when a reboot was requested while awaiting."
\* For any number of threads and tasks await, custom_loop and cancel implement a
\* remote call, whatever times out and whoever reboots; an await that begins with
\* a notification left behind counts as refused.
THEOREM AwaitImplementsCall == Spec => AwaitIsRemoteCall
<1>1. Init => Call!Init
  <2> SUFFICES ASSUME Init PROVE Call!Init
    OBVIOUS
  <2>1. [t \in Threads |-> IF t \in entered_pending THEN "false" ELSE result[t]] = [t \in Threads |-> "none"]
    BY DEF Init
  <2> QED
    BY <2>1 DEF Init, Call!Init
<1> QED
  BY AlwaysIInv, <1>1, CallStep, PTL DEF Spec, AwaitIsRemoteCall, Call!Spec

=============================================================================
