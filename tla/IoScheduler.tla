---------------------------- MODULE IoScheduler ----------------------------
(***************************************************************************)
(* The IO scheduler (software/src/modules/io_scheduler): the IO task runs  *)
(* everything that talks to Bricklets.                                     *)
(*                                                                         *)
(*  - A driven round is started by the main task (before_io), executed by  *)
(*    the IO task (during_io) and finished by the main task (after_io).    *)
(*    The Task objects of the last two steps live in two buffers of the    *)
(*    round that are used again for every round.                           *)
(*  - await hands one request at a time to the IO task through the slot    *)
(*    pending_await; the request lies on the stack of the caller.          *)
(*                                                                         *)
(* The main task and the IO task are pinned to the same core.              *)
(***************************************************************************)
EXTENDS Naturals

CONSTANTS
    Rounds,           \* driven rounds
    Main,             \* the main task
    Threads,          \* other threads that call await
    None,             \* nullptr
    LateNotification, \* TaskScheduler::await may leave a notification behind
    MaxAwaits         \* bound: number of await calls

Callers == Threads \cup {Main}

ASSUME CallersAssumption == Main \notin Threads /\ None \notin Callers \cup Rounds
ASSUME LateAssumption == LateNotification \in BOOLEAN
ASSUME AwaitsAssumption == MaxAwaits \in Nat

VARIABLES
    in_flight,     \* rounds with in_flight set; only the main task uses it
    during_io,     \* what during_io_task_buf of a round holds
    after_io,      \* what after_io_task_buf of a round holds
    pending_await, \* the slot: a caller's request or None
    rebooting,
    main,          \* where the main task is: "idle", "after", "after_end" or "restarting"
    main_round,    \* the round whose after_io task is the main scheduler's currentTask
    io,            \* where the IO task is: "loop", "invoke", "give", "job" or "post"
    io_request,    \* the request the IO task works on
    io_round,      \* the round whose during_io task is the IO scheduler's currentTask
    cpc,           \* where a caller is in await_impl
    executed,      \* `executed' of a caller's request
    notify,        \* ulNotifiedValue of each caller (FreeRTOS)
    halt,          \* the program has stopped: "no", "abort" or "undefined"
    awaits,        \* await calls so far
    ran,           \* history: callers whose current request was invoked
    result,        \* history: what the last await of a caller returned
    entered_pending \* history: callers whose last await began with a pending notification

roundVars == <<in_flight, during_io, after_io>>
mainVars == <<main, main_round>>
ioVars == <<io, io_request, io_round>>
callVars == <<cpc, result, entered_pending>>
vars == <<roundVars, pending_await, rebooting, mainVars, ioVars, callVars, executed, notify,
          halt, awaits, ran>>

Init ==
    /\ in_flight = {}
    /\ during_io = [r \in Rounds |-> "free"]
    /\ after_io = [r \in Rounds |-> "free"]
    /\ pending_await = None
    /\ rebooting = FALSE
    /\ main = "idle"
    /\ main_round = None
    /\ io = "loop"
    /\ io_request = None
    /\ io_round = None
    /\ cpc = [c \in Callers |-> "idle"]
    /\ executed = {}
    /\ notify = [c \in Callers |-> 0]
    /\ halt = "no"
    /\ awaits = 0
    /\ ran = {}
    /\ result = [c \in Callers |-> "none"]
    /\ entered_pending = {}

\* Fault: the IO task keeps the priority of the main task during jobs.
FaultMainHasCore == TRUE

\* The main task (priority 1) only gets the core while the IO task sleeps in
\* its loop or waits for a Bricklet inside a job.  Behind the job, with nothing
\* left to wait for, the IO task (priority 8) finishes first.
MainHasCore == io \notin {"give", "post"}

CanRun(c) == c = Main => MainHasCore

-----------------------------------------------------------------------------
(* Driven rounds.                                                          *)

MainIsFree == main = "idle" /\ cpc[Main] = "idle" /\ MainHasCore

\* Fault: the round is not checked for being in flight.
FaultMayDrive(r) == TRUE

\* A round is only started when the previous one is finished.
MayDrive(r) == r \notin in_flight

\* drive on the main task; before_io may call the round off.  The placement new
\* is undefined if the buffer still holds a Task object.
drive(r) ==
    /\ MainIsFree
    /\ ~rebooting
    /\ MayDrive(r)
    /\ in_flight' = in_flight \cup {r}
    /\ during_io' = [during_io EXCEPT ![r] = "queued"]
    /\ halt' = IF during_io[r] = "free" THEN halt ELSE "undefined"
    /\ UNCHANGED <<after_io, pending_await, rebooting, mainVars, ioVars, callVars, executed,
                   notify, awaits, ran>>

\* The IO task's custom_loop takes the due during_io task of round r.
IoPop(r) ==
    /\ io = "loop"
    /\ pending_await = None
    /\ during_io[r] = "queued"
    /\ during_io' = [during_io EXCEPT ![r] = "current"]
    /\ io_round' = r
    /\ io' = IF rebooting THEN "post" ELSE "job"
    /\ UNCHANGED <<in_flight, after_io, pending_await, rebooting, mainVars, io_request, callVars,
                   executed, notify, halt, awaits, ran>>

\* Fault: during_io only reports back while no other after_io task is queued.
FaultReportsBack(r) == \A other \in Rounds : after_io[other] = "free"

\* Every executed during_io schedules the after_io task.
ReportsBack(r) == TRUE

\* during_io has run and the after_io task is scheduled on the main scheduler.
IoRunJob ==
    /\ io = "job"
    /\ io' = "post"
    /\ after_io' = [after_io EXCEPT ![io_round] = IF ReportsBack(io_round) THEN "queued" ELSE @]
    /\ halt' = IF after_io[io_round] = "free" THEN halt ELSE "undefined"
    /\ UNCHANGED <<in_flight, during_io, pending_await, rebooting, mainVars, io_request, io_round,
                   callVars, executed, notify, awaits, ran>>

\* The rest of the IO task's custom_loop destroys the Task object.
IoPost ==
    /\ io = "post"
    /\ io' = "loop"
    /\ io_round' = None
    /\ during_io' = [during_io EXCEPT ![io_round] = "free"]
    /\ UNCHANGED <<in_flight, after_io, pending_await, rebooting, mainVars, io_request, callVars,
                   executed, notify, halt, awaits, ran>>

\* The main task takes the after_io task, runs it and destroys it.
MainPopAfterIo(r) ==
    /\ MainIsFree
    /\ after_io[r] = "queued"
    /\ after_io' = [after_io EXCEPT ![r] = "current"]
    /\ main_round' = r
    /\ main' = "after"
    /\ UNCHANGED <<in_flight, during_io, pending_await, rebooting, ioVars, callVars, executed,
                   notify, halt, awaits, ran>>

MainRunAfterIo ==
    /\ main = "after"
    /\ cpc[Main] = "idle"
    /\ MainHasCore
    /\ main' = "after_end"
    /\ in_flight' = in_flight \ {main_round}
    /\ UNCHANGED <<during_io, after_io, pending_await, rebooting, main_round, ioVars, callVars,
                   executed, notify, halt, awaits, ran>>

MainEndAfterIo ==
    /\ main = "after_end"
    /\ MainHasCore
    /\ main' = "idle"
    /\ main_round' = None
    /\ after_io' = [after_io EXCEPT ![main_round] = "free"]
    /\ UNCHANGED <<in_flight, during_io, pending_await, rebooting, ioVars, callVars, executed,
                   notify, halt, awaits, ran>>

\* pre_reboot, called on the main task by esp_restart, which does not return.
pre_reboot ==
    /\ MainIsFree
    /\ rebooting' = TRUE
    /\ main' = "restarting"
    /\ UNCHANGED <<roundVars, pending_await, main_round, ioVars, callVars, executed, notify,
                   halt, awaits, ran>>

-----------------------------------------------------------------------------
(* await.                                                                  *)

Return(c, r) ==
    /\ cpc' = [cpc EXCEPT ![c] = "idle"]
    /\ result' = [result EXCEPT ![c] = r]

\* A caller enters await_impl.  The main task calls it between or inside tasks.
AwaitStart(c) ==
    /\ awaits < MaxAwaits
    /\ cpc[c] = "idle"
    /\ CanRun(c)
    /\ c = Main => main \in {"idle", "after"}
    /\ awaits' = awaits + 1
    /\ ran' = ran \ {c}
    /\ IF rebooting
       THEN /\ Return(c, "false")
            /\ UNCHANGED <<executed, entered_pending>>
       ELSE /\ cpc' = [cpc EXCEPT ![c] = "post"]
            /\ result' = [result EXCEPT ![c] = "none"]
            /\ executed' = executed \ {c}
            /\ entered_pending' = IF notify[c] # 0 THEN entered_pending \cup {c}
                                                   ELSE entered_pending \ {c}
    /\ UNCHANGED <<roundVars, pending_await, rebooting, mainVars, ioVars, notify, halt>>

\* The compare-and-swap that posts the request.
AwaitPost(c) ==
    /\ cpc[c] = "post"
    /\ CanRun(c)
    /\ pending_await = None
    /\ pending_await' = c
    /\ cpc' = [cpc EXCEPT ![c] = "wait"]
    /\ UNCHANGED <<roundVars, rebooting, mainVars, ioVars, result, entered_pending, executed,
                   notify, halt, awaits, ran>>

\* The slot is taken and no tick is left to retry.
AwaitGiveUp(c) ==
    /\ cpc[c] = "post"
    /\ CanRun(c)
    /\ pending_await # None
    /\ Return(c, "false")
    /\ UNCHANGED <<roundVars, pending_await, rebooting, mainVars, ioVars, entered_pending,
                   executed, notify, halt, awaits, ran>>

\* ulTaskNotifyTake returns a value; what follows is undefined if the IO task
\* can still reach the request on the stack that is given up here.
AwaitTake(c) ==
    /\ cpc[c] = "wait"
    /\ CanRun(c)
    /\ notify[c] # 0
    /\ notify' = [notify EXCEPT ![c] = 0]
    /\ Return(c, IF c \in executed THEN "true" ELSE "false")
    /\ halt' = IF c \in {pending_await, io_request} THEN "undefined" ELSE halt
    /\ UNCHANGED <<roundVars, pending_await, rebooting, mainVars, ioVars, entered_pending,
                   executed, awaits, ran>>

AwaitTimeout(c) ==
    /\ cpc[c] = "wait"
    /\ CanRun(c)
    /\ notify[c] = 0
    /\ cpc' = [cpc EXCEPT ![c] = "timed_out"]
    /\ UNCHANGED <<roundVars, pending_await, rebooting, mainVars, ioVars, result,
                   entered_pending, executed, notify, halt, awaits, ran>>

\* Fault: a request that the IO task already has is treated like a revoked one.
FaultAwaitTooLate(c) == Return(c, "false") /\ UNCHANGED halt

\* The IO task has the request but did not signal completion: abort.
AwaitTooLate(c) == halt' = "abort" /\ UNCHANGED <<cpc, result>>

\* The compare-and-swap that takes the request out of the slot again.
AwaitRevoke(c) ==
    /\ cpc[c] = "timed_out"
    /\ CanRun(c)
    /\ \/ /\ pending_await = c
          /\ pending_await' = None
          /\ Return(c, "false")
          /\ UNCHANGED halt
       \/ /\ pending_await # c
          /\ AwaitTooLate(c)
          /\ UNCHANGED pending_await
    /\ UNCHANGED <<roundVars, rebooting, mainVars, ioVars, entered_pending, executed, notify,
                   awaits, ran>>

HasRequest == pending_await # None

\* task_loop takes a request out of the slot; requests go before jobs.
IoTakeRequest ==
    /\ io = "loop"
    /\ HasRequest
    /\ io_request' = pending_await
    /\ pending_await' = None
    /\ io' = "invoke"
    /\ UNCHANGED <<roundVars, rebooting, mainVars, io_round, callVars, executed, notify, halt,
                   awaits, ran>>

\* Fault: executed is also set when the function was skipped.
FaultMarksExecuted == TRUE

\* executed is set behind the call, which is skipped during a reboot.
MarksExecuted == ~rebooting

IoInvoke ==
    /\ io = "invoke"
    /\ io' = "give"
    /\ ran' = IF rebooting THEN ran ELSE ran \cup {io_request}
    /\ executed' = IF MarksExecuted THEN executed \cup {io_request} ELSE executed
    /\ UNCHANGED <<roundVars, pending_await, rebooting, mainVars, io_request, io_round, callVars,
                   notify, halt, awaits>>

\* Fault: the caller is looked up in the slot, which is empty by now.
FaultIoNotifies(c) == c = pending_await

\* The caller of the request is notified.
IoNotifies(c) == c = io_request

IoGive ==
    /\ io = "give"
    /\ io' = "loop"
    /\ io_request' = None
    /\ notify' = [c \in Callers |-> IF IoNotifies(c) THEN notify[c] + 1 ELSE notify[c]]
    /\ UNCHANGED <<roundVars, pending_await, rebooting, mainVars, io_round, callVars, executed,
                   halt, awaits, ran>>

\* The same thread used TaskScheduler::await, which can return with its
\* notification value at 1 (see TaskScheduler).
TaskSchedulerAwait(c) ==
    /\ LateNotification
    /\ c \in Threads
    /\ cpc[c] = "idle"
    /\ notify[c] = 0
    /\ notify' = [notify EXCEPT ![c] = 1]
    /\ UNCHANGED <<roundVars, pending_await, rebooting, mainVars, ioVars, callVars, executed,
                   halt, awaits, ran>>

-----------------------------------------------------------------------------
MainSteps ==
    \/ \E r \in Rounds : MainPopAfterIo(r)
    \/ MainRunAfterIo
    \/ MainEndAfterIo

IoSteps ==
    \/ \E r \in Rounds : IoPop(r)
    \/ IoRunJob
    \/ IoPost
    \/ IoTakeRequest
    \/ IoInvoke
    \/ IoGive

CallerSteps(c) == AwaitPost(c) \/ AwaitGiveUp(c) \/ AwaitTake(c) \/ AwaitRevoke(c)

Next ==
    /\ halt = "no"
    /\ \/ \E r \in Rounds : drive(r)
       \/ MainSteps
       \/ pre_reboot
       \/ IoSteps
       \/ \E c \in Callers : AwaitStart(c) \/ CallerSteps(c) \/ AwaitTimeout(c)
       \/ \E c \in Callers : TaskSchedulerAwait(c)

Spec == Init /\ [][Next]_vars

\* The IO task is never suspended for good, the main task runs when it has the
\* core, a caller's retries and timeouts end, and neither scheduler passes over
\* a due task for ever (DueTaskRuns of TaskScheduler).
FairSpec ==
    /\ Spec
    /\ WF_vars(halt = "no" /\ IoSteps)
    /\ WF_vars(halt = "no" /\ MainSteps)
    /\ \A r \in Rounds :
        /\ SF_vars(halt = "no" /\ IoPop(r))
        /\ SF_vars(halt = "no" /\ MainPopAfterIo(r))
    /\ \A c \in Callers : SF_vars(halt = "no" /\ CallerSteps(c))

-----------------------------------------------------------------------------
TypeOK ==
    /\ in_flight \subseteq Rounds
    /\ during_io \in [Rounds -> {"free", "queued", "current"}]
    /\ after_io \in [Rounds -> {"free", "queued", "current"}]
    /\ pending_await \in Callers \cup {None}
    /\ main \in {"idle", "after", "after_end", "restarting"}
    /\ main_round \in Rounds \cup {None}
    /\ io \in {"loop", "invoke", "give", "job", "post"}
    /\ io_request \in Callers \cup {None}
    /\ io_round \in Rounds \cup {None}
    /\ cpc \in [Callers -> {"idle", "post", "wait", "timed_out"}]
    /\ executed \subseteq Callers
    /\ notify \in [Callers -> Nat]
    /\ halt \in {"no", "abort", "undefined"}
    /\ ran \subseteq Callers
    /\ result \in [Callers -> {"none", "true", "false"}]
    /\ entered_pending \subseteq Callers

\* Whenever the main task may start a round again, both Task buffers of the
\* round are free: the IO scheduler has destroyed the during_io task although
\* after_io, which ends the round, was scheduled from inside that task.
RoundBuffersFree ==
    \A r \in Rounds \ in_flight :
        /\ during_io[r] = "free"
        /\ after_io[r] = "free" \/ main_round = r

\* The steps of a round do not overlap: the IO task and the main task never
\* work on the same round, and never do so on a round that was ended.
RoundSerial ==
    /\ main = "after" => main_round # io_round
    /\ io_round # None => io_round \in in_flight
    /\ \A r \in Rounds : during_io[r] = "queued" => after_io[r] = "free"

\* A round uses its two Task buffers in turn, although nothing but the priority of
\* the IO task keeps the main task from starting the round again too early.
RoundsSafe == RoundBuffersFree /\ RoundSerial

\* The IO task cannot reach the request of a caller that has left await, if the
\* await began without a pending notification.
RequestNotReachable ==
    \A c \in Callers \ entered_pending :
        cpc[c] = "idle" => c \notin {pending_await, io_request}

\* What await returns is what happened to fn.
IoAwaitIsHonest ==
    \A c \in Callers \ entered_pending :
        /\ result[c] = "true" => c \in ran
        /\ result[c] = "false" => c \notin ran

\* A caller blocked without a notification still has its request in the slot or
\* with the IO task.
RequestNotLost ==
    \A c \in Callers :
        cpc[c] = "wait" /\ notify[c] = 0 => c \in {pending_await, io_request}

\* A request lives exactly as long as its caller waits for it, and the caller is told
\* what became of it, whatever the order of the timeout and the IO task.
IoAwaitSafe == RequestNotReachable /\ RequestNotLost /\ IoAwaitIsHonest

\* await as its callers see it.  An await that begins with a notification that
\* TaskScheduler::await left behind is not covered and counts as refused.
Call == INSTANCE RemoteCall WITH
    calling <- {c \in Callers \ entered_pending : cpc[c] # "idle"},
    served <- ran \ entered_pending,
    result <- [c \in Callers |-> IF c \in entered_pending THEN "false" ELSE result[c]],
    down <- FALSE

\* await_impl and task_loop implement a remote call: fn runs at most once, only
\* while its caller is blocked, and await returns true exactly if it ran.
IoAwaitIsRemoteCall == Call!Spec

IoStopped == halt # "no" \/ rebooting

\* A round that was started ends, with any awaits going on (but not endlessly
\* many), and a caller in await comes back: main task, IO task and callers
\* never all wait for each other.
RoundEnds == \A r \in Rounds : r \in in_flight ~> (r \notin in_flight \/ IoStopped)
IoAwaitReturns == \A c \in Callers : cpc[c] # "idle" ~> (cpc[c] = "idle" \/ IoStopped)
=============================================================================
