# Verification of the esp32-firmware

TLA+ models, TLC runs and TLAPS proofs for the core of the Tinkerforge ESP32
firmware (WARP chargers, energy managers, Bricks). The models are written from
the code under `software/src`; `PROJECT.json` maps every definition to the lines
it stands for.

## 1. The system

The firmware is a set of about 120 C++ modules (`software/src/modules`) around a
configuration tree, started by `main.cpp`. Threads:

* the **main thread** (Arduino loop task, core 1, priority 1) runs
  `TaskScheduler::custom_loop` for ever. Nearly all code runs here, as tasks;
* the **IO task** (core 1, priority 2, raised to 8 while it works) talks to
  Bricklets;
* the **HTTP server, MQTT and other network threads** get work done on the main
  thread with `task_scheduler.await` and on the IO task with `io_scheduler.await`;
* the **watchdog task** restarts a system in which a registered part is stuck.

State survives a restart in LittleFS files: the configuration and the charge log.

### Inventory

| Component | State | Operations | Interaction | What is hard | Properties |
|---|---|---|---|---|---|
| Task scheduler | priority queue of tasks, `currentTask`, wall clock tasks | schedule*, cancel, rescheduleNow, updateDelay, await, custom_loop | called by every module, from every thread | unlocked call of `fn`, timeouts against completions, task objects that move between owners | nobody waits for ever, nothing on a stack outlives its frame, cancel is final, one-shot runs once, runners are not lost |
| Restart (`pre_reboot`) | `rebooting` | shutdown handler, pre_reboot hooks | runs on the main thread, or awaits it | the await depends on the flag that the awaited function sets | aborts only on a real timeout |
| IO scheduler | two Task buffers per driven round, request slot | drive, during_io, after_io, await | main thread <-> IO task | ownership rests on priorities, one slot for many callers | buffers free before use, rounds serial, requests not reachable after return, none lost |
| Charge log | numbered files per charger, counters in RAM | startCharge, endCharge, repair_last, removeOldRecords, setup, remove_all_charges | users, EVSE, charge manager | power cuts between commits, files dropped in several directories | log in order after any power cut, nothing lost but the oldest file, counters right, next charge accepted |
| Users | users/config, username file | add, remove, modify, authorization | charge log, EVSE slot | recovery of a missed start or end, recycled ids | a name stays while a record refers to it |
| Charge log upload | generation lock, send state, request, monthly round, TCP task | downloads, manual and monthly uploads, answers of the server | HTTP thread, main thread, TCP task, remote access server | three threads write the same state, answers are late, lost or belong to another upload | one holder of the lock, one sender, a user is marked only for a log that arrived, a round ends |
| API and events | updated bits per config node and backend, registrations | push_state_updates, registerEvent, deregisterEvent, MQTT connect and disconnect | all modules, web and MQTT backends | re-entrant callbacks, deregistration while delivering, connections that are lost unnoticed | nobody misses the last value or is told it twice |
| Watchdog | registrations | add, reset, remove | own task | - | - |
| WebSocket | clients, work queue, pending closes, worker state | upgrade and dump, broadcast, unicast, close, keep-alive, stop and start | HTTP thread, main thread | two threads, reused descriptors, queue limit | no update lost, nothing sent to the wrong connection, the worker can always run again |
| Charge manager, current allocator | charger states, allocation, errors | state packets, allocator, start-up | charge manager networking | timeouts on both sides, restart while charging | a charger draws no more than a command of the last 30 s let it draw; only faulty chargers are blamed |
| Charge manager networking | UDP sockets, sequence numbers | send and receive commands and states | chargers | loss, delay, reordering | no old packet undoes a newer one |
| Power manager, phase switcher | switching state | sequencing | contactors, chargers | timeouts | no switching under load |
| Config tree | values, updated bits | update, write, load | everything | temporary file and rename | old or new, never neither |
| Firmware update, remote access, OCPP, ISO 15118, EEBUS, meters, network, web interface | - | - | - | - | see section 8 |

`PROJECT.json` lists all components with their status and the hazards at their
lines.

## 2. Modules

| Module | Models | State and actions |
|---|---|---|
| `RemoteCall` | what `await` promises its callers, in both schedulers | `calling`, `served`, `result`, `down`; `Call`, `Refuse`, `Serve`, `Answer`, `ShutDown` |
| `TaskScheduler` | `modules/task_scheduler`, the shutdown handler of `main.cpp` | below |
| `TaskSchedulerProofs` | - | theorems about it, and that it implements `RemoteCall` |
| `IoScheduler` | `modules/io_scheduler` | below |
| `IoSchedulerProofs` | - | theorems about it, and that it implements `RemoteCall` |
| `ChargeTracker`, `ChargeTrackerProofs` | `modules/charge_tracker` (files) and the username file of `modules/users` | below |
| `ChargeLogUpload`, `ChargeLogUploadProofs` | `modules/charge_tracker` (upload) | below |
| `StateUpdates`, `StateUpdatesProofs` | `modules/api`, `modules/event`, the backend in `modules/mqtt`, updated bits of `config` | below |
| `WebSockets`, `WebSocketsProofs` | `modules/ws` | below |
| `ChargeManagement`, `ChargeManagementProofs` | `modules/charge_manager`, `modules/cm_networking`, the managed side of `modules/evse_common` | below |
| `MC*` | - | symmetry sets for TLC |

Operators whose name starts with `Fault` are plausible bugs. They are not part of
any specification; `PROJECT.json` says which definition each one replaces to show
that a property can fail.

### TaskScheduler

A task is a number; the fields of `struct Task` are functions and sets of these
numbers. `kind` says what `fn` does and carries the marker bits of the id. Each
section under `task_mutex` is one action:

* `scheduleOnce`, `scheduleWithFixedDelay`, `scheduleUncancelable`,
  `scheduleWhenClockSynced`, `scheduleWallClock` create tasks;
* `PopTask`, then (unlocked) `CheckRebooting` and `RunPlainFn`,
  `RunWhenClockSynced`, `wall_clock_worker`, `RunRestart` or
  `RunPreRebootHelper`, then `FinishTask` are `custom_loop`. Any other action may
  come between two of them;
* `cancel`, `cancelWallClock`, `rescheduleNow`, `updateDelay`,
  `updateCurrentTaskDelay`. `Misuse` stands for the calls the code answers with
  `abort` or undefined behaviour, and ends the behaviour (`halt`);
* `AwaitSchedule`, `AwaitTake`, `AwaitTimeout`, `AwaitCancel` are `await`, with
  the FreeRTOS notification value of each thread (`notify`): only
  `ulTaskNotifyTake` lowers it;
* `Tick` and `SyncClock` move the clocks.

The queue is a set; `IsTop` picks any task with the least deadline, as the heap may
return any of several equal ones. Task ids do not wrap around (62 bits).
`ToNextMinute` leaves out the lower bound of 524 ms (`task_scheduler.cpp:478`),
which no delay in whole units of the model falls below.

### IoScheduler

`during_io` and `after_io` say what the two buffers of a round hold: nothing, a
queued Task, or the current Task of a scheduler. `drive` is the main task's part
(`before_io` and scheduling), `IoPop` to `IoPost` the IO task's part,
`MainPopAfterIo` to `MainEndAfterIo` the end of the round. The two schedulers are
used through what `TaskScheduler` shows about them: a queued task is taken by its
owner, run unlocked and destroyed.

Main task and IO task share a core. `MainHasCore` says when the main task can run:
not while the IO task is between its last blocking call and the end of its loop,
as its priority is higher. Whatever the main task does while a job waits for a
Bricklet is interleaved freely. Threads on the other core are interleaved
everywhere.

With `LateNotification` a caller may enter with the notification that
`TaskScheduler::await` can leave behind (run `TSAwaitGuarantee`); the behaviour
ends (`halt`) where it then gives up a request that the IO task can still reach.

### RemoteCall and the refinement

`RemoteCall` hides queues, notifications, timeouts and priorities: a caller hands
over a function and blocks, the function runs at most once and only while its
caller blocks, and the answer is true only if it ran and false only if it did not,
unless a reboot was requested. `IoScheduler` and `TaskScheduler` instantiate it as
`Call`; a caller is `calling` while it is inside `await`, and `served` when its
function has run. `IoAwaitIsRemoteCall` and `AwaitIsRemoteCall` say that every
behaviour of the schedulers is one of `RemoteCall`. An await that begins with a
stale notification breaks the promise; the mapping counts it as refused, so that
nothing is claimed of it.

### ChargeTracker

A file is a sequence of records (user, start time, ended); a directory is a
function from file numbers to files. LittleFS makes the contents of a file
permanent when it is closed and the creation and removal of a file at once, so
these commits are the steps, and `Crash` may come between any two of them. `pc`
says where `startCharge` or `removeOldRecords` is.

* `startCharge` ends with the first commit; `NothingToRemove`, `RemoveFile` and
  `RemoveName` are `removeOldRecords`; `CreateFile` and `WriteStart` the rest of
  `startCharge`; `endCharge` is one commit;
* `Setup` is `ChargeTracker::setup`, after which `Users::setup` may track one
  missed start or end; `RegisterUrls` starts the clean-up of `register_urls`;
* `AddUser`, `RemoveUser` and `remove_all_charges` are one step each.

Where the code reads memory it has not written, the model makes a choice:

* `repair_last` with an empty last file looks at an uninitialized record and
  writes it to the log if it looks repairable (`RepairedFiles`; `garbage` notes
  that this happened);
* the search for the oldest directory seeks behind the end of the file and
  compares an uninitialized buffer, so any candidate may win. One value is left
  out: if the buffer reads as `UINT32_MAX` for all directories, none is found and
  the code stops searching;
* `oldest_dir` points into a freed file name, so for a managed charger it may
  read as the directory of any managed charger, as the empty name, which is the
  charger's own, or as none (`OldestDir`; `misread` notes that it read as another
  one than the one it was set to).

`setupRecords` and `getChargerChargeRecords` collect file numbers in an array of
`FILE_COUNT + 2`. If there are more files (`FitsArray`), the one refuses the
directory ("Too many charge records found!") and the other stops in the order of
the listing (`Listed`), so that `FirstRecord` and `LastRecord` may be wrong. The
order is the constant `ListedBefore`: any relation in the proofs, that of LittleFS,
sorted by name, in the runs.

`job` is the `startCharge` that is under way (`NoJob` if none is). `setup` adds up
files and charges over all directories; `SumOver` states such a sum as the number
of elements of a set, as the provers cannot unfold a fold.

Left out: meter values and their correction (`repair_logic`, `repair_charges`),
the list `last_charges`, PDF and CSV generation, the file of charger names.

### ChargeLogUpload

`lock` is `generation_lock_state`. Its holders are the HTTP handler (`http`), the
task scheduled to start a manual upload (`starting`), `pending_generation_lock`
(`pending`) and a TCP task that gives the lock back (`Unlocking`). `sm` is
`charge_log_send_ctx.state`, which the main thread (`HandlePacket`, `StartManual`,
`MonthlyPolls`) and the TCP task (`TcpConnect`, `TcpSend`, `TcpSendFails`,
`TcpWait`) both write. `HandlePacket` has one disjunct per state and answer.

`cleanup_and_delete_task` is three steps, as the main thread on the other core may
act between them: `TcpCleanup` looks at the state, `TcpRelease` empties
`pending_generation_lock`, and `TcpUnlock` gives the lock back, for which
the destructor first awaits the main thread.

`configs` is the list of upload configurations as the set of users that have one;
`Position` and `UserAt` convert between a user and the index. `Delete` is a user who
removes any of them, whereupon those behind move up. The code stores an index
(`month`, `index`) and looks up the configuration when the upload has ended
(`Marked`, `AlreadySent`), so it may find another user's. `Abort` is the abort of
`ConfArray::get` if there is none; where the code has written the mark before that,
so has `Abort`.

The server is external: it may take, refuse, already know or lose each request,
open its port late, and give up at any time; no packet says which upload it
answers, and the code does not ask. The file is sent without its length, and after
a failure the socket is closed as after the last byte: the server may take a
cut-off file for the whole one. Answers may be lost or late, a packet to the server
may be lost but arrives at once, and a whole file arrives only while the server
waits for it.

History: `orphaned` (an upload was ended while its task was about to connect),
`crossed` (an upload began while an earlier one was still being answered), `shifted`
(users whose configuration moved to a stored index) and `cut` (logs of which the
server took a part for the whole). Left out: more than one month, adding and editing
configurations (the web interface writes the list with the marks it has read before,
which may undo newer ones), and a torn access of both threads to
`pending_generation_lock` (2198), which is undefined behaviour.

### StateUpdates

A state is a config with a root and members; `updated` has a set of nodes per
backend. `PushStart`, `PushState`, `PushMqtt`, `PushEvent*` and the end of a state
(`Handled`, where `clear_updated` is called) are one run of `push_state_updates`,
cut where a callback is called: in between, callbacks update other states,
register (`Register`) or return `Deregister` (`PushEvent`). `LinkChanges` is the
thread of ESP-MQTT, `HandleLinkEvent` the task it schedules. `push.todo` holds the
backends that the loop has still to visit, in any order. With `OwnUpdates` callbacks
also update the state they are called for.

### WebSockets

A connection is a model value, a descriptor is reused. `Accept`, `Upgrade`,
`DumpChunk`, `KeepAliveAdd`, `ReceivedPong`, `ReceivedClose`, `SessionEnds` and
`WorkStart` to `WorkDone` are the HTTP thread; `UpdateState`, `PushState`,
`SendPing`, `SendToClient`, `CloseAsync`, `TriggerHttpThread` with `QueueWork`,
`Stop` and `Start` are the main thread. `HandshakeFails` is an upgrade that fails
after it has evicted a client, `PokeLocalhost` the early return of the trigger while
a run is due. The call that `Stop` queues may be refused, which the code does not
look at; `unasked` notes this until a run of the worker ends. Values are version
numbers; `seen` is what each client was sent last. `dropped` notes the one case in
which the code loses an update (section 6), so that `NoUpdateLost` can exclude
exactly that.

### ChargeManagement

A tick stands for the 10 s between two runs of the allocator, and the timeouts are
in ticks. In a tick the manager runs, sends a command to each charger and gets a
state back; each packet arrives, is lost, or arrives any time before the end of the
next tick. Late packets carry how many were sent since, from which `Stale` computes
`seq_num_invalid`. `RunAllocator` takes any distribution within the limit to
chargers that are not off (`Allocations`): the properties are about who is shut down
and when, not about the stages. The code sends a command every second; the model
keeps one exchange per tick, and `AdoptAllocations` is the end of the start-up,
where the manager takes what the chargers report for what it has allotted. A late
packet carries whether its sequence number continues those of the packets behind it
(`numbers`); once one from before a restart of the manager meets the numbers of
after it, either may look newer (`TakenForStale`). Sequence numbers do not wrap
around.

`granted`, `calm` and `culprits` are history: for each current how long ago a command
last let the charger draw as much, for how long nothing has happened to a charger,
and for whom the last run of the allocator shut everything down.

Left out: phases, which the code sends and checks along with the currents, but a
charger that charges with no phases allotted is also nonreactive
(`current_allocator.cpp:2351`); the errors that a charger reports of itself (237),
which the shutdown of all at 2302 to 2305 passes over; packets that are invalid or
come from an unmanaged charger (`charge_manager.cpp:711`), which shut down all
chargers there like the errors that are modelled; and a second manager with another
address, whose packets make a charger block itself for a while
(`cm_protocol.cpp:514`).

## 3. Runs

| Run | Shows | Bounds |
|---|---|---|
| `TSAwait` | `AwaitSafe`, `AwaitIsRemoteCall`, `AwaitReturns`, `DueTaskRuns` | 2 threads, 3 tasks: one thread awaits twice, or both compete with a repeated task or a restart; 1 rescheduleNow |
| `TSCancel` | `TypeOK`, `TasksOwned`, `AtMostOnce`, `RetiredNeverRuns` | the worker and two more tasks, cancelled queued, running and by themselves; a minute of 2 units, start delays of 2, a clock that can be set back and forth, uptime 4: a wall clock task can outlast its minute and be started again |
| `TSReschedule` | `ReverseExecution` | 3 tasks, 3 calls: two queued tasks and a running one are the smallest case with three different ranks |
| `IO` | `RoundsSafe`, `IoAwaitSafe`, `IoAwaitIsRemoteCall`, `RoundEnds`, `IoAwaitReturns` | 2 rounds, the main task and a thread, 3 awaits, with late notifications. The safety properties were also checked with a second thread and 4 awaits, and are proved for any number |
| `CT` | `LocalLogInOrder`, `CountersCorrect`, `NextChargeAccepted`, `LogIsKept` | the charger and a managed one, files of 2 records, limit 3, 9 charges, so that a second file is dropped; 1 power cut (1.7 million states). Also checked with 11 charges, with which the arrays overflow (12.8 million) |
| `WSLive` | `NoUpdateLost`, `ClientsCatchUp`, `SilentClientLeaves` | 2 clients on 2 descriptors, a state with 2 versions, a queue of 2 items, one more broadcast: the queue overflows while one client dumps and the other does not answer |
| `WSShip` | `TypeOK`, `ClientListOK`, `UnicastIsPrivate`, `WorkerNotStuck` | 3 connections on 2 descriptors with room for 1 client: descriptors are reused and clients evicted, also by handshakes that then fail; one unicast, one stop and start, with a call that may be refused |
| `SU` | `TypeOK`, `NoEventMissed`, `BrokerIsCurrent`, `NothingTwice`, `EventsArrive`, `BrokerCatchesUp` | 2 states with 2 members, one of them pushed every second time (the code: fourth), 1 update, 2 registrations, 2 link events. Also checked for safety with 1 update, 2 registrations and 3 link events, and with 2, 1 and 3 |
| `CM` | `OverdrawBounded`, `CutOffIsOff`, `InSync`, `HealthyNeverBlamed`, `HungStopsAll` | 2 chargers that share a current of 1, one of them with faults: any packets lost, the car plugged in and out, and one of a late packet, a hung EVSE or a restart of the manager. Also checked with two of them (12.4 million states), with a single charger and four of them (9.2 million), and with a window of 2 |
| `Upload` | `LockHasOneHolder`, `OneSender`, `MonthlyMarksAreTrue`, `MonthlyRoundEnds` | 2 users, 2 uploads, 1 manual one, 1 answer of a kind on its way; configurations deleted anywhere in the list (1.7 million states). Also checked with 2 answers of a kind (2.0 million) |
| `TSAwaitGuarantee`, `CMUnreachable` | violated: section 6 | - |

`AwaitSafe`, `TasksOwned`, `RoundsSafe`, `IoAwaitSafe`, `CountersCorrect` and
`ClientListOK` are conjunctions of named parts; some of them have several mutants,
so that more than one part is seen to fail. `TypeOK` of `IoScheduler`,
`ChargeTracker`, `ChargeLogUpload` and `ChargeManagement` is proved and is not part of
a run. That of `ChargeTracker` leaves the contents of the files open; `OrderInv` in the
proofs describes those of the charger's own log.

Where a cfg says `CHECK_DEADLOCK FALSE`, behaviours end where the program aborts
or restarts, or where the bounds on ids, time, calls, charges or uploads are used
up.

Bounds are guards in the specifications and constants of the runs (`Max*`). The
proofs do not depend on them.

`FilesAssumption` asks for `FILE_COUNT >= 3` and `FILE_RECORDS >= 2`; the builds
have 30 or 128 files of 256 records. With a limit of 2 the file before the last
could be dropped at boot.

With managed chargers a misread `oldest_dir` counts a file as removed that is still
there, or removes one of another directory. `LocalLogInOrder`, `LogIsKept` and the
first part of `CountersCorrect` (`FilesFitArray`) are therefore claimed as long as
that has not happened (`~misread`); section 6 says what comes of it. The second part
(`TrackedChargesCorrect`) and `NextChargeAccepted` are claimed while no managed
charger has a log of its own: charges of managed chargers are not added to
`tracked_charges` before the next boot, and a file before the last one may be
dropped.

## 4. Fairness

* `TaskScheduler`: weak fairness of the owner (`custom_loop` is called for ever by
  the Arduino loop, tasks return) and of a thread that was notified or timed out.
  No fairness for the timeout of `await`: it returns without it. `Tick` is not
  fair either; the properties are about tasks that are due.
* `IoScheduler`: weak fairness of the IO task and of the main task when it has
  the core. A round's task is taken under strong fairness, as `DueTaskRuns` shows
  that neither scheduler passes over a due task for ever. A caller's steps are
  strongly fair: it polls for the slot every tick, and other callers release the
  slot again and again.

* `WebSockets`: weak fairness of a worker that has begun and of a dump; strong
  fairness of the start of the worker, of the trigger (a periodic task of the main
  thread, which dumps interrupt), of a call of `httpd_queue_work` that succeeds
  (the control socket is drained by the HTTP thread) and of a push that succeeds
  (the queue is emptied again and again). Nothing is assumed of clients.
* `StateUpdates`: weak fairness of the push (an uncancelable task) and of the send
  interval, strong fairness of the task that handles a link event, as pushes come
  between. Nothing is assumed of the connection; `BrokerCatchesUp` is about one
  that stays.
* `ChargeLogUpload`: weak fairness of the periodic task during a round (a fixed delay
  task of the main thread) and of the deadline, nothing else: a round ends also if the
  HTTP thread, the TCP tasks, the server and the network do nothing more.

`MaxAwaits` makes the number of awaits finite. That matters for `RoundEnds`: the
IO task serves requests before jobs, so callers that never cease could keep a round
waiting.

## 5. Proofs

Every invariant and action property of the passing runs is proved, and both
refinements of `RemoteCall`. Each proof module has one inductive invariant (`IInv`,
`Inv` in `ChargeTrackerProofs`), of which TLC has also checked the parts on the
bounds of the runs. A step lemma per conjunct has one case per action; the theorems
follow from the invariant. All constants are arbitrary within the named
assumptions of the modules: any number of threads, tasks, clients, chargers, files and
faults, any timeouts that satisfy them.

**TaskSchedulerProofs**, from the assumptions in `TaskScheduler`:

* `TypeCorrect`: `[]TypeOK`. Two parts are not obvious: the delay to the next full
  minute stays positive (`MinuteArithmetic`), and nobody uses a task id 0
  (`ControlInv`);
* `TasksAreOwned`: `TasksOwned`, which is `OneOwner`, `WallClockTaskKept` and
  `NoCancelledQueued`;
* `CancelIsFinal`: the action property `RetiredNeverRuns`;
* `RunsOnce`: `AtMostOnce`; `LastMovedFirst`: `ReverseExecution`;
* `AwaitIsSafe`: `AwaitSafe`, which is `NoLostWakeup` and `AwaitIsSynchronous`;
* `AwaitImplementsCall`: `AwaitIsRemoteCall`.

`NumberInv` keeps ids not yet given out away from all sets, so that a new task is in
none of them. `KindInv` tells registered wall clock tasks and awaited tasks from all
others. `OwnerInv` adds to `OneOwner` that a runner at home belongs to a registered
wall clock task and that every registered one has its runner somewhere. `CancelInv`
says that cancelled and retired tasks are neither queued nor registered, and that a
retired task that is still running is marked as cancelled. `RunsInv`: a task of the
kinds that run once has not run while it is queued, or running and not yet called;
the task of `scheduleWhenClockSynced`, which is queued again and again, has cancelled
itself before it is counted. `RankInv`: ranks are given in the queue, lost when a task
leaves it, and never exceed the number of calls. `AwaitInv` is needed because
`AwaitIsSynchronous` says nothing about threads that are still waiting: a task's
`awaited_by` and the thread's own pointer agree as long as the task is queued or
running, and until it is finished the thread has no notification. `CallInv` adds what
the refinement needs: a task is awaited by one thread (`AwaiterInv`), also after the
thread has left (`KnownInv`), and when it is finished it has run, unless a reboot came
between `PopTask` and `CheckRebooting` (`DoneInv`, `RanInv`).

In the refinement an `AwaitSchedule` is a `Call`, or a `Refuse` if it begins with a
notification (`StartStep`, `RefuseStep`); calling `fn` is the `Serve` of the one thread
that awaits the task, if any, or a `ShutDown` (`RunStep`); `AwaitTake` and `AwaitCancel`
are an `Answer` (`AnswerStep`); all else is hidden.

**IoSchedulerProofs**: `IoTypeCorrect`, `RoundsAreSerial` (`RoundsSafe`:
`RoundBuffersFree`, `RoundSerial`) and `IoAwaitIsSafe` (`IoAwaitSafe`:
`RequestNotReachable`, `RequestNotLost`, `IoAwaitIsHonest`), with or without late
notifications, and `IoAwaitImplementsCall`: the specification implements `RemoteCall`.
`RoundInv` says which buffer is used in which state of a round. Its
core is that `after_io` of a round is queued while the IO task is still inside the
Task that queued it; the main task cannot take it then, because it does not get
the core (`MainHasCore`). Without that the theorem is false, which a mutant of
`RoundsSafe` shows. `RequestInv` says that a reachable request belongs to a
caller that waits for it, and that a caller who was notified has no reachable
request. `ResultInv` ties `executed` to what the IO task really did; it is what makes
an answer honest, `RequestInv` what keeps the IO task from serving a caller that has
left. The lemmas of the refinement are those of `TaskSchedulerProofs`.

**ChargeTrackerProofs**, for directories with any number of files of any length, any
number of managed chargers and power cuts:

* `TrackerTypeCorrect`; among others the number of files does not fall below zero;
* `LogSurvives`: `LocalLogInOrder`, and `ChargesAreKept`: the action property
  `LogIsKept`, both as long as `oldest_dir` has been read as it was set
  (`~misread`). `OrderInv` says that the log is empty or a gapless run of full files and
  a last one. It is inductive because `JobInv` says what a `startCharge` that is under
  way has already found out: it creates the file behind the last one, which is full,
  and writes to one that has room;
* `RepairNeverRefuses` (`NextChargeAccepted`) and `CountersRight` (`CountersCorrect`).
  For `FilesFitArray`, `ArrayInv` counts the files of all directories but one of each,
  as the first one may not be counted in `total_charge_log_files` and the last one is
  not dropped: there are at most `FILE_COUNT` of them. That needs `~misread`;
  `MisreadInv` says that nothing is misread while managed chargers have no charges.
  All else is claimed only then, and so is `CountInv`:
  `total_charge_log_files` is at most one behind (the first file is not counted), and
  `startCharge` makes room before it creates a file (`FileCountInv`); so there are
  always two files when `repair_last` needs the one before the last
  (`PenultimateInv`, for which `FILE_COUNT >= 3` is assumed); the number of charges
  is what the log holds (`EntriesInv`).

**ChargeLogUploadProofs**, for any users, uploads, answers and losses:
`UploadTypeCorrect`, `LockIsExclusive` (`LockHasOneHolder`), `OneTaskSends`
(`OneSender`) and `MarksAreTrue` (`MonthlyMarksAreTrue`). `LockInv`: at most one of
the handler, the scheduled task, `pending_generation_lock` and the TCP tasks in
`Unlocking` holds the lock, and it is taken exactly then. `SenderInv`: unless an
upload was ended behind the back of its task, the one task that is not cleaning up
finds `sm` as it left it, and no other request is stored. `MarkInv` follows a
monthly exchange through the request, the task, the server and the answer on its way
(`Exchange`): with nothing `crossed`, `orphaned` or manual, an answer can only be
for the user whose turn it was when the upload began (`RoundOf`). Whoever has that
user's index when the answer is seen is this user, or is in `shifted`. The theorem
says nothing of users in `shifted` and logs in `cut`; both are cases in which the
code does mark a user wrongly.

**StateUpdatesProofs**, for any states, members, registrations and connections lost
and found: `UpdateTypesCorrect`, `CalledForNews` (the action property `NothingTwice`),
`NoCallbackMisses` (`NoEventMissed`) and `BrokerHasAll` (`BrokerIsCurrent`). `NewsInv`
and `AwareInv` are the two halves of what a bit means: a callback that has not been
called in this push and whose bit is set has not seen everything, and one whose bit is
not set has. `TurnInv` says that at the end of a state's turn, where its bits are
cleared, all callbacks of its chain have seen everything, though chains change in the
middle of the loop. `CurrentInv` and `SentInv` are the same for the broker, and
`LinkInv` says that the last link event tells how the connection is. The last two
theorems have the hypothesis `~OwnUpdates`: no callback writes to the state it is
called for. With such callbacks they are false (section 6); the types and
`NothingTwice` do not need it.

**WebSocketsProofs**, for any connections, descriptors, states, queue limit and number
of clients: `SocketTypeCorrect` (with the limits of both queues), `ClientListIsRight`
(`ClientListOK`), `UnicastsArePrivate` (`UnicastIsPrivate`), `WorkerCanRun`
(`WorkerNotStuck`) and `UpdatesArrive` (`NoUpdateLost`). `UnicastInv`: an item that can
still be sent names a listed descriptor that has the owner the item is for. This is
about items queued while their client was listed (`live`); one queued after the
client's close frame or its end, before the main thread has learnt of it, may reach
whoever has the descriptor next, in the model as in the code. `WorkerNotStuck` excepts
a stop whose call was refused (`unasked`, section 6). `ItemInv`: an
item that carries an old version is followed by the current one, or the state is still
marked as updated. It is what makes sending an old item harmless. `CoverInv` says so of
clients, also of one whose dump is under way, for the states it has been sent
(`Owed`).

**ChargeManagementProofs**, for any number of chargers, timeouts within
`ChargeManagementAssumption` (a charger's timeout is not longer than the manager's),
and any number of losses, late packets, hung EVSEs and restarts:

* `DrawIsBounded` (`OverdrawBounded`): a command on its way is no older than a tick
  (`GrantInv`), and a charger shuts down one tick before it is too old (`DrawInv`);
* `GivenUpIsOff` (`CutOffIsOff`): `UnreachableInv` ties the error to the age of the last
  state, and the two timeouts are compared;
* `ExchangeSynchronises` (`InSync`): `LateInv` says of each late packet how many were sent
  and received behind it, so that `seq_num_invalid` keeps it out; `SyncInv` says how far
  charger and manager agree in the middle of an exchange. The property is limited to
  fewer chargers than the window is wide (section 6);
* `HealthyIsNotBlamed` (`HealthyNeverBlamed`) and `HungChargerStopsAll` (`HungStopsAll`),
  by `ExchangeInv` (a charger to which nothing happened has been heard) and `HungInv`.

**Only model-checked:** all liveness (`AwaitReturns`, `DueTaskRuns`, `RoundEnds`,
`IoAwaitReturns`, `ClientsCatchUp`, `SilentClientLeaves`, `EventsArrive`,
`BrokerCatchesUp`, `MonthlyRoundEnds`), since fairness and ENABLED are beyond the prover.

## 6. Where code and comments disagree

Two runs end in a violation. The quotes are in `PROJECT.json`.

* `TSAwaitGuarantee`: `xTaskNotifyStateClear` does not reset the notification
  value. After an await that timed out at the very moment its task finished, the
  next await of the thread returns before its function has run.
* `CMUnreachable` (`OnlyUnreachableOff`): "Only shut down this charger"
  (`current_allocator.cpp:2321`) is true for one timeout only. Then the charger that
  cannot be reached counts as nonreactive as well, and all are shut down.

Three properties had to be limited before they could be proved, each for a behaviour
of the code that the proof ran into:

* `InSync`: an old command can count as new. The manager numbers the commands to all
  chargers with one counter (`cm_protocol.cpp:396`), and a charger calls a number stale
  only within the last five (162 to 165): with five chargers or more, the command before
  the last one is already outside. The same holds for a command from before a restart of
  the manager, and where the 16 bit number wraps around;
* `MonthlyMarksAreTrue`: no answer says which upload it belongs to, so an answer to
  an earlier attempt that the deadline has ended is taken for one to the next
  (`crossed`), and the server may file a log under the user that was asked for last.
  It is also limited by `shifted` (`MarkedOnlyIfSent` below) and `cut`: a failed
  send closes the connection (2312) just as a complete one does (2325), and if the
  server takes the part for the whole, the next attempt is answered with
  `AlreadySent`;
* `HealthyNeverBlamed` and `HungStopsAll` begin to count when the manager takes over: it
  takes what the chargers report for what it has allotted, and what was reported before
  may be gone by then.

TLC also violates the following properties, which are stated in the modules,
without a run of their own here. Each can be repeated by adding the property to the
cfg named.

* `PreRebootAbortsOnTimeout` (`TSAwait`): the shutdown handler on another thread
  than the main one takes its own successful await for a timeout, as the awaited
  helper sets `rebooting` (`main.cpp:163`).
* `OnlySafeUsersRemoved`, `OldestFileDropped`, `RefusedOnlyIfDamaged` (`CT`): the
  last file of each directory is not searched before user names are removed and
  files of other directories are looked up in the wrong one
  (`charge_tracker.cpp:638`); the directory to drop a file from is picked from
  memory that was never read from the file (558); after the file before the last
  has been dropped, a last file with one charge is taken for damaged and tracking
  stops in that directory (322).
* `FilesAlwaysFit` (`CT` with 11 charges and no power cut): the arrays of file numbers
  have two elements more than files are kept, "to handle power cycles" (703). With
  managed chargers that is not enough: the name of the oldest directory is read after
  it was freed (569, 597), nothing is removed, and the file is counted as removed all
  the same (623). Once there are too many, `setup` refuses the charger's own log if it
  is the one that is too long (733), and `getChargerChargeRecords` may miss the last
  file: `startCharge` then takes an existing file for a new one and opens it with `w`
  (388). If the freed name reads as the empty one, a file of the charger's own log is
  removed in the middle.
* `WorkerStartable` (`WSShip`): `stop` marks the worker as enqueued and does not look
  whether `httpd_queue_work` took the call (`web_sockets.cpp:879`). If it did not, the
  sockets are "NEVER able to start the worker again" after the next `start`, as
  `triggerHttpThread` says of its own call (683), which it does check.
* `MarkedOnlyIfSent` (`Upload`): "Update last_upload_timestamp_min for successfully
  uploaded user" (`charge_tracker.cpp:1988`) writes to the configuration at an index
  stored when the upload began. If one in front of it has been deleted meanwhile, that
  is another user, whose log is not sent this month (also 2631, `AlreadySent`). A
  `Done` of a manual upload that the monthly task takes for its own (1987), answers of
  another upload and a cut-off file lead to it as well.
* `NoEventMissed` with `OwnUpdates` (`SU`): `clear_updated` behind the loop over
  the backends (`api.cpp:158`) also clears what a callback wrote to its own state.
* `CloseIsOwn` (`WSShip`): a close that waits for the HTTP thread hits another
  WebSocket that got the same descriptor meanwhile; the check at
  `web_sockets.cpp:402` only tells WebSockets from plain HTTP.
* `NoUpdateLost` without its last disjunct (`WSLive`): while the only client is
  still in its dump no client is active, so `WS::pushStateUpdate` drops an update
  (`ws.cpp:145`) although the dump may be past that state. An old broadcast that is
  still queued may also follow a newer dump.
* `UnseenHasStopped` (`CM`): "managed chargers set the managed slot to 0 if they
  don't receive a packet for 30 seconds" (`charge_manager.cpp:627`), but a charger
  that hears the restarted manager without being heard gets packets that restart
  its timeout (`evse_common.cpp:532`).
* `LockReleased`, `RequestIsKept`, `OneGeneration`, `NeverAborts` (`Upload`): a
  manual upload whose answer is lost keeps the lock for ever; a monthly attempt that
  is refused destroys the request of the upload that refused it (2417 to 2436),
  whose server then meets the "internal error" of 2708; a download can begin while a
  TCP task whose upload was given up still generates, against "only one charge log
  generation" (`charge_tracker.h:206`); a configuration deleted in the middle of a
  round is read, which aborts the firmware (`conf_array.cpp:54`).

Some more were met while modelling:

* "No stale notification can be pending here" (`io_scheduler.cpp:117`) does not
  hold on threads that also use `TaskScheduler::await`, as `TSAwaitGuarantee`
  implies. `IO` has this case (`LateNotification`).
* A task that is rescheduled while it runs is not always next
  (`task_scheduler.h:48`): a one-shot is freed, and a task rescheduled later may be
  ahead.
* `pending_close_fds` drops a close when it is full.
* `update_from_client_packet` looks at `last_sent_config` of charger 0 for the
  packet of any charger (`current_allocator.cpp:103`).
* A manual upload that succeeds pushes no result (2758 to 2763), only one that was
  already known does.

`AwaitIsSynchronous`, `AwaitIsRemoteCall`, `IoAwaitSafe` and `IoAwaitIsRemoteCall`
exclude exactly the awaits that began with a stale notification
(`entered_pending`), so that they state what does hold.

## 7. Plan

1. Done: all modules of section 2, their runs, and proofs of all their safety
   properties and of the refinements.
2. Next, the parts of the modelled components that are left out: `repair_logic` and
   `last_charges` of the charge log, the removal of a user whose records are in other
   directories, the wrap-around of sequence numbers, the callers of
   `WebSockets` other than the state backend.
3. An abstract specification of the lock of the charge log (one of three holders) and
   of the delivery of states (a subscriber and its last value) that both `StateUpdates`
   and `WebSockets` implement, as `RemoteCall` is for the schedulers.
4. New modules where the code has interleavings or failures of its own: the
   configuration files (temporary file and rename), the sequencing of phase switches,
   the firmware update.

## 8. Not modelled

* Controllers, meters, batteries, prices, forecasts: floating point arithmetic and
  table-driven decoding. The stages of the current allocator belong here: the
  repository has its own tests for them.
* Phase switching: decided on another microcontroller, only observed here.
* Network interfaces, clock sources: glue around vendored drivers.
* Remote access, OCPP, ISO 15118, EEBUS: protocol stacks, partly in submodules
  whose sources are not in the repository.
* The watchdog: registrations are made once per boot, its state hardly changes.
* The web interface, Bricklet bindings, provisioning and build scripts.
* Within the modelled parts: allocation failures, flash errors, corrupted file
  contents other than those the code itself produces, the power cut inside
  `remove_directory` (its order depends on the file system's listing) and the
  task names and source locations kept for diagnosis.

The models cover the concurrent core and a small share of the lines of the
repository. More than half of its 415,000 lines are generated (Bricklet bindings,
SunSpec tables, EEBUS types, the web interface's translations) or vendored; most of
the rest reads values from one place, converts them and writes them to another.
There is no interleaving or failure in that code which a model could show.

## 9. Running

    tlc -config TSAwait.cfg MCTaskScheduler
    tlapm TaskSchedulerProofs.tla

The module of a run is given in `PROJECT.json`. The longest runs, `CM`, `TSAwait`
and `Upload`, take two to three minutes each. The proofs of a module take between one
and ten minutes.
