--------------------------- MODULE TaskScheduler ---------------------------
(***************************************************************************)
(* The task scheduler of the firmware                                      *)
(* (software/src/modules/task_scheduler): one thread, the owner, takes     *)
(* tasks out of a priority queue ordered by deadline and runs them; every  *)
(* thread may schedule, cancel and reschedule tasks; threads other than    *)
(* the owner may await a function that the owner runs for them.            *)
(*                                                                         *)
(* Each section that holds task_mutex is one action.  The owner's loop     *)
(* (custom_loop) has two of them with the unlocked call of fn in between;  *)
(* await has one, then blocks on the FreeRTOS notification of the calling  *)
(* thread, and has a second one (cancel) when that times out.              *)
(***************************************************************************)
EXTENDS Integers, FiniteSets

CONSTANTS
    Threads,        \* threads other than the owner of the scheduler
    NoThread,       \* awaited_by of a task nobody awaits (nullptr)
    Kinds,          \* the kinds of task that are scheduled
    Calls,          \* the operations on task ids that are called
    Delays,         \* delays passed to the schedule functions
    Intervals,      \* intervals of wall clock tasks in minutes
    Offsets,        \* wall clock minus uptime, as set by a clock sync
    UnitsPerMinute, \* uptime units in a wall clock minute
    MaxTaskId,      \* bound: number of tasks ever scheduled
    MaxTime,        \* bound: uptime
    MaxReschedules  \* bound: number of rescheduleNow calls

AllKinds == {"once", "restart", "repeat", "uncancelable", "worker", "sync",
             "wall", "await", "pre_reboot"}

AllCalls == {"cancel", "reschedule", "update"}

ASSUME ThreadsAssumption == NoThread \notin Threads
ASSUME KindsAssumption == Kinds \subseteq AllKinds /\ Calls \subseteq AllCalls
ASSUME TimeAssumption ==
    /\ Delays \subseteq Nat
    /\ Offsets \subseteq Nat
    /\ Intervals \subseteq Nat \ {0}
    /\ UnitsPerMinute \in Nat \ {0}
ASSUME BoundsAssumption ==
    /\ MaxTaskId \in Nat
    /\ MaxTime \in Nat
    /\ MaxReschedules \in Nat

VARIABLES
    \* struct Task, by task id
    kind,                   \* what fn is, and the marker bits 62/63 of the id
    next_deadline, delay, awaited_by, cancelled, immediate_reschedule,
    \* class TaskScheduler
    last_task_id, tasks, currentTask, wall_clock_tasks, runner_task,
    interval_minutes, run_on_first_sync,
    wall_clock_worker_started, wall_clock_last_minute, rebooting,
    pc,                     \* where the owner is in custom_loop
    \* threads inside TaskScheduler::await
    tpc, awaited, result,
    notify,                 \* ulNotifiedValue of each thread (FreeRTOS)
    \* clocks
    now, synced, offset,
    \* the program has stopped: "no", "abort" or "undefined"
    halt,
    \* history: what callers were told and what really happened
    runs,                   \* executions of the caller's function, up to 2
    retired,                \* ids for which cancel reported a cancellation
    rank,                   \* number of the rescheduleNow call that moved a queued task
    reschedules,            \* rescheduleNow calls so far
    entered_pending         \* threads whose last await began with a pending notification

taskVars == <<kind, next_deadline, delay, awaited_by, cancelled, immediate_reschedule>>
wallVars == <<wall_clock_tasks, runner_task, interval_minutes, run_on_first_sync,
              wall_clock_worker_started, wall_clock_last_minute>>
threadVars == <<tpc, awaited, result, entered_pending>>
clockVars == <<now, synced, offset>>
historyVars == <<runs, retired, rank, reschedules>>

vars == <<taskVars, last_task_id, tasks, currentTask, wallVars, rebooting, pc,
          threadVars, notify, clockVars, halt, historyVars>>

Ids == 1..MaxTaskId

\* Fault: scheduleOnce creates its task with once = false.
FaultOnceKinds == {"restart", "wall", "await", "pre_reboot"}

\* `once' of struct Task.
OnceKinds == {"once", "restart", "wall", "await", "pre_reboot"}

\* Ids with marker bit 62 set (IS_UNCANCELABLE_TASK_ID).
UncancelableKinds == {"uncancelable", "worker"}

\* The kinds whose id a caller gets to keep.  An awaited task's id stays inside
\* await, the worker's and a restart's are thrown away.
HandedOutKinds == {"once", "repeat", "uncancelable", "sync", "wall"}

\* Tasks the scheduler still has a pointer to.
Live == tasks \cup runner_task \cup (IF currentTask = 0 THEN {} ELSE {currentTask})

Lesser(a, b) == IF a <= b THEN a ELSE b

-----------------------------------------------------------------------------
(* Wall clock.                                                             *)

WallClock == now + offset
Minute == WallClock \div UnitsPerMinute
tm_min == Minute % 60

\* Fault: the seconds of the time of day are not reduced modulo a minute.
FaultToNextMinute == UnitsPerMinute - WallClock

\* Until the next full minute.  It is a whole number of units above zero: the code's
\* lower bound of 524 ms is less than a unit.
ToNextMinute == UnitsPerMinute - (WallClock % UnitsPerMinute)

-----------------------------------------------------------------------------
Init ==
    /\ kind = [id \in Ids |-> "once"]
    /\ next_deadline = [id \in Ids |-> 0]
    /\ delay = [id \in Ids |-> 0]
    /\ awaited_by = [id \in Ids |-> NoThread]
    /\ cancelled = {}
    /\ immediate_reschedule = {}
    /\ last_task_id = 0
    /\ tasks = {}
    /\ currentTask = 0
    /\ wall_clock_tasks = {}
    /\ runner_task = {}
    /\ interval_minutes = [id \in Ids |-> 1]
    /\ run_on_first_sync = {}
    /\ wall_clock_worker_started = FALSE
    /\ wall_clock_last_minute = -1
    /\ rebooting = FALSE
    /\ pc = "loop"
    /\ tpc = [t \in Threads |-> "idle"]
    /\ awaited = [t \in Threads |-> 0]
    /\ result = [t \in Threads |-> "none"]
    /\ notify = [t \in Threads |-> 0]
    /\ now = 0
    /\ synced = FALSE
    /\ offset = 0
    /\ halt = "no"
    /\ runs = [id \in Ids |-> 0]
    /\ retired = {}
    /\ rank = [id \in Ids |-> 0]
    /\ reschedules = 0
    /\ entered_pending = {}

-----------------------------------------------------------------------------
(* Task creation.                                                          *)

\* The constructor of Task; the object starts out with all flags cleared.
NewTask(id, k, first_delay, d, thread) ==
    /\ id \in Ids
    /\ last_task_id' = id
    /\ kind' = [kind EXCEPT ![id] = k]
    /\ next_deadline' = [next_deadline EXCEPT ![id] = now + first_delay]
    /\ delay' = [delay EXCEPT ![id] = d]
    /\ awaited_by' = [awaited_by EXCEPT ![id] = thread]

scheduleOnce(k, first_delay) ==
    /\ k \in {"once", "restart"} \cap Kinds
    /\ NewTask(last_task_id + 1, k, first_delay, 0, NoThread)
    /\ tasks' = tasks \cup {last_task_id + 1}
    /\ UNCHANGED <<cancelled, immediate_reschedule, currentTask, wallVars, rebooting, pc,
                   threadVars, notify, clockVars, halt, historyVars>>

scheduleWithFixedDelay(first_delay, d) ==
    /\ "repeat" \in Kinds
    /\ NewTask(last_task_id + 1, "repeat", first_delay, d, NoThread)
    /\ tasks' = tasks \cup {last_task_id + 1}
    /\ UNCHANGED <<cancelled, immediate_reschedule, currentTask, wallVars, rebooting, pc,
                   threadVars, notify, clockVars, halt, historyVars>>

scheduleUncancelable(first_delay, d) ==
    /\ "uncancelable" \in Kinds
    /\ NewTask(last_task_id + 1, "uncancelable", first_delay, d, NoThread)
    /\ tasks' = tasks \cup {last_task_id + 1}
    /\ UNCHANGED <<cancelled, immediate_reschedule, currentTask, wallVars, rebooting, pc,
                   threadVars, notify, clockVars, halt, historyVars>>

\* With a synced clock this is a one-shot task, else a task that polls the
\* clock once per second (one uptime unit).
scheduleWhenClockSynced ==
    /\ "sync" \in Kinds
    /\ \E k \in {"once", "sync"} :
          /\ k = "once" <=> synced
          /\ NewTask(last_task_id + 1, k, 0, IF k = "once" THEN 0 ELSE 1, NoThread)
    /\ tasks' = tasks \cup {last_task_id + 1}
    /\ UNCHANGED <<cancelled, immediate_reschedule, currentTask, wallVars, rebooting, pc,
                   threadVars, notify, clockVars, halt, historyVars>>

\* The runner task does not enter the queue, it stays with its wall clock
\* entry.  The first call also schedules the uncancelable worker.
scheduleWallClock(interval, execution_delay, on_first_sync) ==
    LET id == last_task_id + 1
        worker == last_task_id + 2
        start == ~wall_clock_worker_started
    IN  /\ "wall" \in Kinds
        /\ id \in Ids
        /\ start => worker \in Ids
        /\ last_task_id' = IF start THEN worker ELSE id
        /\ kind' = [i \in Ids |-> IF i = id THEN "wall"
                                  ELSE IF start /\ i = worker THEN "worker" ELSE kind[i]]
        /\ next_deadline' = [i \in Ids |-> IF i = id \/ (start /\ i = worker)
                                           THEN now ELSE next_deadline[i]]
        /\ delay' = [i \in Ids |-> IF i = id THEN execution_delay
                                   ELSE IF start /\ i = worker THEN 1 ELSE delay[i]]
        /\ awaited_by' = [i \in Ids |-> IF i = id \/ (start /\ i = worker)
                                        THEN NoThread ELSE awaited_by[i]]
        /\ wall_clock_tasks' = wall_clock_tasks \cup {id}
        /\ runner_task' = runner_task \cup {id}
        /\ interval_minutes' = [interval_minutes EXCEPT ![id] = interval]
        /\ run_on_first_sync' = IF on_first_sync THEN run_on_first_sync \cup {id}
                                                 ELSE run_on_first_sync
        /\ wall_clock_worker_started' = TRUE
        /\ tasks' = IF start THEN tasks \cup {worker} ELSE tasks
        /\ UNCHANGED <<cancelled, immediate_reschedule, currentTask,
                       wall_clock_last_minute, rebooting, pc, threadVars, notify,
                       clockVars, halt, historyVars>>

-----------------------------------------------------------------------------
(* custom_loop: the owner of the scheduler.                                *)

\* A task on top of the heap.  Tasks with equal deadlines come out in any
\* order: compare is not a strict ordering.
IsTop(id) == id \in tasks /\ \A other \in tasks : next_deadline[id] <= next_deadline[other]

\* First locked section: take the next task if its deadline has elapsed.  The
\* code also looks for a cancelled task here; NoCancelledQueued below says that
\* it never finds one.
PopTask(id) ==
    /\ pc = "loop"
    /\ IsTop(id)
    /\ next_deadline[id] <= now
    /\ currentTask' = id
    /\ tasks' = tasks \ {id}
    /\ rank' = [rank EXCEPT ![id] = 0]
    /\ pc' = "popped"
    /\ UNCHANGED <<taskVars, last_task_id, wallVars, rebooting, threadVars, notify, clockVars,
                   halt, runs, retired, reschedules>>

\* fn is not called any more once a reboot is under way.
CheckRebooting ==
    /\ pc = "popped"
    /\ pc' = IF rebooting THEN "done" ELSE "run"
    /\ UNCHANGED <<taskVars, last_task_id, tasks, currentTask, wallVars, rebooting, threadVars,
                   notify, clockVars, halt, historyVars>>

CountRun(id) == runs' = [runs EXCEPT ![id] = Lesser(@ + 1, 2)]

\* A function that does not touch the scheduler itself; what it calls on the
\* scheduler are the actions of the other sections.
RunPlainFn ==
    /\ pc = "run"
    /\ kind[currentTask] \in {"once", "repeat", "uncancelable", "wall", "await"}
    /\ CountRun(currentTask)
    /\ pc' = "done"
    /\ UNCHANGED <<taskVars, last_task_id, tasks, currentTask, wallVars, rebooting, threadVars,
                   notify, clockVars, halt, retired, rank, reschedules>>

\* The task of scheduleWhenClockSynced: once the clock is synced it cancels
\* itself and calls the caller's function.
RunWhenClockSynced ==
    /\ pc = "run"
    /\ kind[currentTask] = "sync"
    /\ pc' = "done"
    /\ IF synced
       THEN /\ cancelled' = cancelled \cup {currentTask}
            /\ retired' = retired \cup {currentTask}
            /\ CountRun(currentTask)
       ELSE UNCHANGED <<cancelled, retired, runs>>
    /\ UNCHANGED <<kind, next_deadline, delay, awaited_by, immediate_reschedule, last_task_id,
                   tasks, currentTask, wallVars, rebooting, threadVars, notify, clockVars,
                   halt, rank, reschedules>>

\* The wall clock entries that the worker has to start in this minute.
IsDue(id) ==
    IF wall_clock_last_minute = -1 THEN id \in run_on_first_sync
                                   ELSE Minute % interval_minutes[id] = 0

\* Entries whose runner is still queued or running are left out.
StartedRunners == {id \in wall_clock_tasks : IsDue(id)} \cap runner_task

\* Fault: the queue gets the pointer, but the entry keeps it.
FaultRunnersLeft == runner_task

\* A started runner is moved from its entry into the queue.
RunnersLeft == runner_task \ StartedRunners

wall_clock_worker ==
    /\ pc = "run"
    /\ kind[currentTask] = "worker"
    /\ pc' = "done"
    /\ CountRun(currentTask)
    /\ IF ~synced
       THEN UNCHANGED <<delay, next_deadline, tasks, runner_task, wall_clock_last_minute>>
       ELSE IF tm_min = wall_clock_last_minute
       THEN /\ delay' = [delay EXCEPT ![currentTask] = 1]
            /\ UNCHANGED <<next_deadline, tasks, runner_task, wall_clock_last_minute>>
       ELSE /\ delay' = [delay EXCEPT ![currentTask] = ToNextMinute]
            /\ next_deadline' = [id \in Ids |-> IF id \in StartedRunners THEN now + delay[id]
                                                ELSE next_deadline[id]]
            /\ tasks' = tasks \cup StartedRunners
            /\ runner_task' = RunnersLeft
            /\ wall_clock_last_minute' = tm_min
    /\ UNCHANGED <<kind, awaited_by, cancelled, immediate_reschedule, last_task_id, currentTask,
                   wall_clock_tasks, interval_minutes, run_on_first_sync,
                   wall_clock_worker_started, rebooting, threadVars, notify, clockVars, halt,
                   retired, rank, reschedules>>

\* esp_restart on the owner: the shutdown handler runs every pre_reboot hook,
\* this scheduler's among them, and does not come back.
RunRestart ==
    /\ pc = "run"
    /\ kind[currentTask] = "restart"
    /\ rebooting' = TRUE
    /\ pc' = "restarting"
    /\ CountRun(currentTask)
    /\ UNCHANGED <<taskVars, last_task_id, tasks, currentTask, wallVars, threadVars, notify,
                   clockVars, halt, retired, rank, reschedules>>

\* The same hooks, run by the owner for another thread that called esp_restart.
RunPreRebootHelper ==
    /\ pc = "run"
    /\ kind[currentTask] = "pre_reboot"
    /\ rebooting' = TRUE
    /\ pc' = "done"
    /\ CountRun(currentTask)
    /\ UNCHANGED <<taskVars, last_task_id, tasks, currentTask, wallVars, threadVars, notify,
                   clockVars, halt, retired, rank, reschedules>>

\* Fault: awaited_by is cleared before it is copied.
FaultNotifyGive(thread) == notify' = notify

\* xTaskNotifyGive for the thread that awaits the finished task, if any.
NotifyGive(thread) ==
    notify' = [t \in Threads |-> IF t = thread THEN notify[t] + 1 ELSE notify[t]]

\* Fault: the runner is freed like any other one-shot task.
FaultReturnedRunner(id) == {}

\* The runner of a wall clock task goes back to its entry if that still exists.
ReturnedRunner(id) == IF kind[id] = "wall" THEN {id} \cap wall_clock_tasks ELSE {}

\* Fault: the check for a cancellation during fn is missing.
FaultRequeued(id) == IF kind[id] \in OnceKinds THEN {} ELSE {id}

\* A repeated task goes back into the queue unless it was cancelled meanwhile.
Requeued(id) == IF kind[id] \in OnceKinds THEN {} ELSE {id} \ cancelled

\* Fault: immediate_reschedule is never reset.
FaultRequeueDeadline(id) == 0

\* The deadline 0 of an immediate reschedule is before that of any task that
\* was not itself rescheduled.
RequeueDeadline(id) == IF id \in immediate_reschedule THEN 0 ELSE now + delay[id]

\* Second locked section.  The flags of a task that is freed here go with it.
FinishTask ==
    LET id == currentTask IN
    /\ pc = "done"
    /\ pc' = "loop"
    /\ currentTask' = 0
    /\ awaited_by' = [awaited_by EXCEPT ![id] = NoThread]
    /\ NotifyGive(awaited_by[id])
    /\ runner_task' = runner_task \cup ReturnedRunner(id)
    /\ tasks' = tasks \cup Requeued(id)
    /\ next_deadline' = [i \in Ids |-> IF i \in Requeued(id) THEN RequeueDeadline(i)
                                       ELSE next_deadline[i]]
    /\ immediate_reschedule' = immediate_reschedule \ {id}
    /\ UNCHANGED <<kind, delay, cancelled, last_task_id, wall_clock_tasks, interval_minutes,
                   run_on_first_sync, wall_clock_worker_started, wall_clock_last_minute,
                   rebooting, threadVars, clockVars, halt, historyVars>>

-----------------------------------------------------------------------------
(* cancel, rescheduleNow, updateDelay, updateCurrentTaskDelay.             *)

CancelResult(id) ==
    IF id = currentTask THEN "WillBeCancelled"
    ELSE IF id \in tasks THEN "Cancelled" ELSE "NotFound"

\* Fault: cancel only flags tasks, also queued ones.
FaultCancelOnlyFlags(id) ==
    /\ tasks' = tasks
    /\ cancelled' = cancelled \cup {id}

\* Fault: cancel only looks into the queue.
FaultCancelOnlyQueued(id) ==
    /\ tasks' = tasks \ {id}
    /\ cancelled' = cancelled

\* The tail of cancel: a running task is only flagged, a queued one removed.
CancelTask(id) ==
    /\ tasks' = IF id = currentTask THEN tasks ELSE tasks \ {id}
    /\ cancelled' = IF id = currentTask THEN cancelled \cup {id} ELSE cancelled

IsHandedOut(id) == id <= last_task_id /\ kind[id] \in HandedOutKinds

cancel(id) ==
    /\ "cancel" \in Calls
    /\ IsHandedOut(id)
    /\ kind[id] \notin UncancelableKinds \cup {"wall"}
    /\ CancelTask(id)
    /\ retired' = IF CancelResult(id) = "NotFound" THEN retired ELSE retired \cup {id}
    /\ UNCHANGED <<kind, next_deadline, delay, awaited_by, immediate_reschedule, last_task_id,
                   currentTask, wallVars, rebooting, pc, threadVars, notify, clockVars, halt,
                   runs, rank, reschedules>>

\* The entry goes away in any case, and with it a runner that is at home.
cancelWallClock(id) ==
    /\ "cancel" \in Calls
    /\ IsHandedOut(id)
    /\ kind[id] = "wall"
    /\ id \in wall_clock_tasks
    /\ wall_clock_tasks' = wall_clock_tasks \ {id}
    /\ runner_task' = runner_task \ {id}
    /\ IF id \in runner_task THEN UNCHANGED <<tasks, cancelled>> ELSE CancelTask(id)
    /\ retired' = retired \cup {id}
    /\ UNCHANGED <<kind, next_deadline, delay, awaited_by, immediate_reschedule, last_task_id,
                   currentTask, interval_minutes, run_on_first_sync, wall_clock_worker_started,
                   wall_clock_last_minute, rebooting, pc, threadVars, notify, clockVars, halt,
                   runs, rank, reschedules>>

\* Calls that the code answers with an abort, or (a wall clock id without an
\* entry) with erasing past the end of the vector.
Misuse(id) ==
    /\ IsHandedOut(id)
    /\ \/ /\ "cancel" \in Calls
          /\ kind[id] \in UncancelableKinds
          /\ halt' = "abort"
       \/ /\ "cancel" \in Calls
          /\ kind[id] = "wall"
          /\ id \notin wall_clock_tasks
          /\ halt' = "undefined"
       \/ /\ Calls \cap {"reschedule", "update"} # {}
          /\ kind[id] = "wall"
          /\ halt' = "abort"
    /\ UNCHANGED <<taskVars, last_task_id, tasks, currentTask, wallVars, rebooting, pc,
                   threadVars, notify, clockVars, historyVars>>

\* Fault: the deadline ties with that of the top of the heap.
FaultEarliestDeadline(top) == Lesser(now, next_deadline[top])

\* The new deadline is due and one microsecond ahead of the top of the heap.
EarliestDeadline(top) == Lesser(now, next_deadline[top] - 1)

rescheduleNow(id) ==
    /\ "reschedule" \in Calls
    /\ IsHandedOut(id)
    /\ kind[id] # "wall"
    /\ reschedules < MaxReschedules
    /\ reschedules' = reschedules + 1
    /\ \/ /\ id = currentTask
          /\ immediate_reschedule' = immediate_reschedule \cup {id}
          /\ UNCHANGED <<next_deadline, rank>>
       \/ /\ id \in tasks
          /\ \E top \in tasks :
                /\ IsTop(top)
                /\ next_deadline' = [next_deadline EXCEPT ![id] = EarliestDeadline(top)]
          /\ rank' = [rank EXCEPT ![id] = reschedules + 1]
          /\ UNCHANGED immediate_reschedule
    /\ UNCHANGED <<kind, delay, awaited_by, cancelled, last_task_id, tasks, currentTask,
                   wallVars, rebooting, pc, threadVars, notify, clockVars, halt, runs, retired>>

\* A queued task moves by the difference of the delays.
updateDelay(id, new_delay) ==
    /\ "update" \in Calls
    /\ IsHandedOut(id)
    /\ kind[id] # "wall"
    /\ id \in tasks \cup {currentTask}
    /\ delay' = [delay EXCEPT ![id] = new_delay]
    /\ next_deadline' = IF id = currentTask THEN next_deadline
                        ELSE [next_deadline EXCEPT ![id] = @ - delay[id] + new_delay]
    /\ rank' = [rank EXCEPT ![id] = 0]
    /\ UNCHANGED <<kind, awaited_by, cancelled, immediate_reschedule, last_task_id, tasks,
                   currentTask, wallVars, rebooting, pc, threadVars, notify, clockVars, halt,
                   runs, retired, reschedules>>

\* Only code running on the owner inside a task may call this.
updateCurrentTaskDelay(new_delay) ==
    /\ "update" \in Calls
    /\ pc = "run"
    /\ delay' = [delay EXCEPT ![currentTask] = new_delay]
    /\ UNCHANGED <<kind, next_deadline, awaited_by, cancelled, immediate_reschedule,
                   last_task_id, tasks, currentTask, wallVars, rebooting, pc, threadVars,
                   notify, clockVars, halt, historyVars>>

-----------------------------------------------------------------------------
(* await: a thread other than the owner.                                   *)

\* Refused once a reboot is under way.
AwaitRefused(t) ==
    /\ {"await", "pre_reboot"} \cap Kinds # {}
    /\ tpc[t] = "idle"
    /\ rebooting
    /\ awaited' = [awaited EXCEPT ![t] = 0]
    /\ result' = [result EXCEPT ![t] = "false"]
    /\ UNCHANGED <<taskVars, last_task_id, tasks, currentTask, wallVars, rebooting, pc, tpc,
                   entered_pending, notify, clockVars, halt, historyVars>>

\* Locked section: the task lies on the caller's stack.  xTaskNotifyStateClear
\* resets the notification state but not the notification value, which is
\* all that ulTaskNotifyTake looks at.
AwaitSchedule(t, k) ==
    /\ k \in {"await", "pre_reboot"} \cap Kinds
    /\ tpc[t] = "idle"
    /\ ~rebooting
    /\ NewTask(last_task_id + 1, k, 0, 0, t)
    /\ tasks' = tasks \cup {last_task_id + 1}
    /\ tpc' = [tpc EXCEPT ![t] = "wait"]
    /\ awaited' = [awaited EXCEPT ![t] = last_task_id + 1]
    /\ result' = [result EXCEPT ![t] = "none"]
    /\ entered_pending' = IF notify[t] # 0 THEN entered_pending \cup {t}
                                           ELSE entered_pending \ {t}
    /\ UNCHANGED <<cancelled, immediate_reschedule, currentTask, wallVars, rebooting, pc,
                   notify, clockVars, halt, historyVars>>

\* await returns r; the shutdown handler aborts when its await returns false.
\* What follows is undefined if the scheduler keeps a pointer to the task in
\* the stack frame that is given up here.
AwaitReturn(t, r) ==
    /\ tpc' = [tpc EXCEPT ![t] = "idle"]
    /\ result' = [result EXCEPT ![t] = r]
    /\ halt' = IF awaited[t] \in tasks' \cup {currentTask} THEN "undefined"
               ELSE IF kind[awaited[t]] = "pre_reboot" /\ r = "false" THEN "abort"
               ELSE halt

\* Fault: await does not look at rebooting after it was woken.
FaultNotRebooting == "true"

NotRebooting == IF rebooting THEN "false" ELSE "true"

\* ulTaskNotifyTake(true, ...) returns a value and clears it.
AwaitTake(t) ==
    /\ tpc[t] = "wait"
    /\ notify[t] # 0
    /\ notify' = [notify EXCEPT ![t] = 0]
    /\ UNCHANGED <<taskVars, last_task_id, tasks, currentTask, wallVars, rebooting, pc,
                   awaited, entered_pending, clockVars, historyVars>>
    /\ AwaitReturn(t, NotRebooting)

\* ulTaskNotifyTake returns 0: the timeout has elapsed without a notification.
AwaitTimeout(t) ==
    /\ tpc[t] = "wait"
    /\ notify[t] = 0
    /\ tpc' = [tpc EXCEPT ![t] = "timed_out"]
    /\ UNCHANGED <<taskVars, last_task_id, tasks, currentTask, wallVars, rebooting, pc,
                   awaited, result, entered_pending, notify, clockVars, halt, historyVars>>

\* The cancel call after a timeout, and what await makes of its result.
AwaitCancel(t) ==
    /\ tpc[t] = "timed_out"
    /\ CancelTask(awaited[t])
    /\ CASE CancelResult(awaited[t]) = "WillBeCancelled" ->
                halt' = "abort" /\ UNCHANGED <<tpc, result>>
         [] CancelResult(awaited[t]) = "Cancelled" -> AwaitReturn(t, "false")
         [] CancelResult(awaited[t]) = "NotFound" -> AwaitReturn(t, NotRebooting)
    /\ UNCHANGED <<kind, next_deadline, delay, awaited_by, immediate_reschedule, last_task_id,
                   currentTask, wallVars, rebooting, pc, awaited, entered_pending, notify,
                   clockVars, historyVars>>

-----------------------------------------------------------------------------
(* Clocks.                                                                 *)

Tick ==
    /\ now < MaxTime
    /\ now' = now + 1
    /\ UNCHANGED <<taskVars, last_task_id, tasks, currentTask, wallVars, rebooting, pc,
                   threadVars, notify, synced, offset, halt, historyVars>>

\* The system clock is set (RTC, NTP or browser), also when it already was.
SyncClock(o) ==
    /\ {"sync", "wall"} \cap Kinds # {}
    /\ ~(synced /\ offset = o)
    /\ synced' = TRUE
    /\ offset' = o
    /\ UNCHANGED <<taskVars, last_task_id, tasks, currentTask, wallVars, rebooting, pc,
                   threadVars, notify, now, halt, historyVars>>

-----------------------------------------------------------------------------
Schedule ==
    \/ \E k \in {"once", "restart"}, first \in Delays : scheduleOnce(k, first)
    \/ \E first \in Delays, d \in Delays : scheduleWithFixedDelay(first, d)
    \/ \E first \in Delays, d \in Delays : scheduleUncancelable(first, d)
    \/ scheduleWhenClockSynced
    \/ \E i \in Intervals, d \in Delays, b \in BOOLEAN : scheduleWallClock(i, d, b)

Owner ==
    \/ \E id \in Ids : PopTask(id)
    \/ CheckRebooting
    \/ RunPlainFn
    \/ RunWhenClockSynced
    \/ wall_clock_worker
    \/ RunRestart
    \/ RunPreRebootHelper
    \/ FinishTask

Operate(id) ==
    \/ cancel(id)
    \/ cancelWallClock(id)
    \/ Misuse(id)
    \/ rescheduleNow(id)
    \/ \E d \in Delays : updateDelay(id, d)

Await(t) ==
    \/ AwaitRefused(t)
    \/ \E k \in {"await", "pre_reboot"} : AwaitSchedule(t, k)
    \/ AwaitTake(t)
    \/ AwaitTimeout(t)
    \/ AwaitCancel(t)

Next ==
    /\ halt = "no"
    /\ \/ Schedule
       \/ Owner
       \/ \E id \in Ids : Operate(id)
       \/ \E d \in Delays : updateCurrentTaskDelay(d)
       \/ \E t \in Threads : Await(t)
       \/ Tick
       \/ \E o \in Offsets : SyncClock(o)

Spec == Init /\ [][Next]_vars

\* The owner's loop never stops, and a thread that is notified or timed out
\* gets to run.
Running(A) == halt = "no" /\ A

FairSpec ==
    /\ Spec
    /\ WF_vars(Running(Owner))
    /\ \A t \in Threads : WF_vars(Running(AwaitTake(t) \/ AwaitCancel(t)))

-----------------------------------------------------------------------------
TaskTypeOK ==
    /\ kind \in [Ids -> AllKinds]
    /\ next_deadline \in [Ids -> Int]
    /\ delay \in [Ids -> Nat]
    /\ awaited_by \in [Ids -> Threads \cup {NoThread}]
    /\ cancelled \subseteq Ids
    /\ immediate_reschedule \subseteq Ids
    /\ last_task_id \in 0..MaxTaskId
    /\ tasks \subseteq Ids
    /\ currentTask \in Ids \cup {0}

WallClockTypeOK ==
    /\ wall_clock_tasks \subseteq Ids
    /\ runner_task \subseteq Ids
    /\ interval_minutes \in [Ids -> Nat \ {0}]
    /\ run_on_first_sync \subseteq Ids
    /\ wall_clock_last_minute \in -1..59

ControlTypeOK ==
    /\ pc \in {"loop", "popped", "run", "done", "restarting"}
    /\ tpc \in [Threads -> {"idle", "wait", "timed_out"}]
    /\ awaited \in [Threads -> Ids \cup {0}]
    /\ result \in [Threads -> {"none", "true", "false"}]
    /\ notify \in [Threads -> Nat]
    /\ entered_pending \subseteq Threads
    /\ halt \in {"no", "abort", "undefined"}

ClockTypeOK ==
    /\ now \in Nat
    /\ offset \in Nat
    /\ runs \in [Ids -> 0..2]
    /\ retired \subseteq Ids
    /\ rank \in [Ids -> Nat]
    /\ reschedules \in Nat

FlagTypeOK ==
    /\ wall_clock_worker_started \in BOOLEAN
    /\ rebooting \in BOOLEAN
    /\ synced \in BOOLEAN

\* Every variable has its type; in particular the delay that wall_clock_worker
\* computes for itself from the time of day never becomes negative.
TypeOK == TaskTypeOK /\ WallClockTypeOK /\ ControlTypeOK /\ ClockTypeOK /\ FlagTypeOK

-----------------------------------------------------------------------------
(* Safety.                                                                 *)

\* A task object has one owner: it is in the queue, or it is currentTask, or
\* its wall clock entry holds it.  The unique_ptr moves in custom_loop and
\* wall_clock_worker happen in different locked sections.
OneOwner ==
    /\ currentTask \notin tasks
    /\ runner_task \cap (tasks \cup {currentTask}) = {}

\* The runner of a registered wall clock task is never lost: after any
\* interleaving of the worker, custom_loop and cancel it is at home, queued or
\* running, so the worker can start it again.
WallClockTaskKept ==
    \A id \in wall_clock_tasks : id \in Live

\* No cancelled task is in the queue or waits for its next wall clock start:
\* the branch of custom_loop for a cancelled task on top of the queue is dead.
NoCancelledQueued == cancelled \cap (tasks \cup runner_task) = {}

\* The task objects are where custom_loop, wall_clock_worker and cancel expect
\* them, although each of the three moves them in a locked section of its own.
TasksOwned == OneOwner /\ WallClockTaskKept /\ NoCancelledQueued

\* A thread blocked in await without a pending notification can still be woken:
\* its task is queued or running.
NoLostWakeup ==
    \A t \in Threads :
        tpc[t] = "wait" /\ notify[t] = 0 => awaited[t] \in tasks \cup {currentTask}

\* The scheduler has no pointer into the stack of a thread that has left await,
\* if that await began without a pending notification.
AwaitIsSynchronous ==
    \A t \in Threads \ entered_pending :
        tpc[t] = "idle" => \A id \in Live : awaited_by[id] # t

\* await neither forgets a thread nor leaves a task on its stack, whatever the
\* order of the timeout, the end of the task and the cancel.
AwaitSafe == NoLostWakeup /\ AwaitIsSynchronous

\* await as its callers see it.  An await that begins with a notification left
\* behind by an earlier one is not covered and counts as refused.
Call == INSTANCE RemoteCall WITH
    Callers <- Threads,
    calling <- {t \in Threads \ entered_pending : tpc[t] # "idle"},
    served <- {t \in Threads \ entered_pending : awaited[t] # 0 /\ runs[awaited[t]] # 0},
    result <- [t \in Threads |-> IF t \in entered_pending THEN "false" ELSE result[t]],
    down <- rebooting

\* await and custom_loop implement a remote call: fn runs at most once, only
\* while its caller is blocked, and await tells whether it ran, unless a reboot
\* was requested.
AwaitIsRemoteCall == Call!Spec

\* A one-shot task runs at most once, whatever is called on it; so does the
\* function of scheduleWhenClockSynced, whose task polls the clock repeatedly.
AtMostOnce ==
    \A id \in Ids : kind[id] \in {"once", "restart", "await", "pre_reboot", "sync"} => runs[id] <= 1

\* rescheduleNow calls take effect in reverse order: of two queued tasks moved
\* by rescheduleNow the one moved last has the earlier deadline.
ReverseExecution ==
    \A i \in tasks : \A j \in tasks :
        rank[i] > rank[j] /\ rank[j] > 0 => next_deadline[i] < next_deadline[j]

\* Once cancel has reported a cancellation the task is never taken out of the
\* queue again, so its resources can be released by a task scheduled later.
RetiredNeverRuns ==
    [][currentTask' # 0 /\ currentTask' # currentTask => currentTask' \notin retired]_vars

-----------------------------------------------------------------------------
(* Liveness, under FairSpec.                                               *)

Stopped == halt # "no" \/ pc = "restarting"

\* A thread that blocks in await comes back, even without its timeout, unless
\* the program stops: custom_loop reaches its task and notifies it.
AwaitReturns ==
    \A t \in Threads : tpc[t] # "idle" ~> (tpc[t] = "idle" \/ Stopped)

\* A due task is not passed over forever.
DueTaskRuns ==
    \A id \in Ids :
        (id \in tasks /\ next_deadline[id] <= now) ~> (id \notin tasks \/ Stopped)

-----------------------------------------------------------------------------
(* What the code says about itself and does not do.                          *)

\* Not kept by the code, see section 6 of the README:
\* task_scheduler.h: "It is guaranteed that fn will not continue to be executed
\* once await returns."
AwaitGuarantee ==
    \A t \in Threads : tpc[t] = "idle" => \A id \in Live : awaited_by[id] # t

\* Not kept by the code, see section 6 of the README:
\* main.cpp: the shutdown handler aborts with "Pre-reboot stage lasted longer
\* than five minutes" only if the stage was not finished in time.
PreRebootAbortsOnTimeout ==
    \A t \in Threads :
        (awaited[t] # 0 /\ kind[awaited[t]] = "pre_reboot" /\ result[t] = "false")
            => runs[awaited[t]] = 0
=============================================================================
