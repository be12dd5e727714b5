-------------------------- MODULE ChargeLogUpload ---------------------------
(***************************************************************************)
(* Sending the charge log to the remote access server (charge_tracker.cpp, *)
(* 1803 to 2780), and the lock that is to allow one generation of a charge *)
(* log at a time.                                                          *)
(*                                                                         *)
(* Three threads: the HTTP thread serves downloads and takes requests for  *)
(* a manual upload; the main thread runs the monthly task, starts manual   *)
(* uploads and handles the answers of the server; a TCP task, created for  *)
(* one upload, generates and sends the file and writes the state of the    *)
(* upload too.                                                             *)
(*                                                                         *)
(* The server is outside this repository.  It answers a request and the    *)
(* metadata, opens its port, acknowledges the file, and may give up at any *)
(* time; it may take a file that was cut off for a whole one.  Packets are *)
(* lost or overtake each other, none is duplicated (the tunnel drops       *)
(* duplicates), and none says which upload it belongs to.                  *)
(* One month is modelled: last is the set of users whose log went out.     *)
(***************************************************************************)
EXTENDS Integers, FiniteSets

CONSTANTS Users,        \* number of remote_upload_configs
          MaxUploads,   \* bound: uploads that are started
          MaxManual,    \* bound: manual uploads that are requested
          MaxNet        \* bound: answers of a type on their way, more are lost

ASSUME UploadAssumption ==
    Users \in Nat /\ MaxUploads \in Nat /\ MaxManual \in Nat /\ MaxNet \in Nat

VARIABLES
    lock,      \* generation_lock_state
    http,      \* what the HTTP thread does with the lock
    starting,  \* a task that starts a manual upload is scheduled, with the lock
    pending,   \* pending_generation_lock holds the lock
    sm,        \* charge_log_send_ctx.state
    request,   \* remote_upload_request
    index,     \* config_index of the request
    month,     \* monthly_upload_user_idx
    expired,   \* monthly_upload_deadline of the round under way has elapsed
    count,     \* monthly_upload_config_count
    configs,   \* users that have one of the remote_upload_configs, in this order
    last,      \* users whose last_upload_timestamp_min is in this month
    tasks,     \* TCP tasks
    server,    \* the server: stage of its exchange, and the log it was asked for
    known,     \* logs the server takes as sent
    received,  \* logs the server really has
    net,       \* answers on their way, by type
    orphaned,  \* an upload was ended while its task was about to connect
    crossed,   \* an upload was started while the exchange of an earlier one went on
    shifted,   \* users whose config moved to an index that is stored for another one
    cut,       \* logs of which the server took a cut-off file for the whole one
    uploads, manuals

ram == <<lock, http, starting, pending, sm, request, index, month, count, expired, tasks>>
history == <<orphaned, crossed, shifted, cut>>
remote == <<server, known, received, net>>
bounds == <<uploads, manuals>>
vars == <<ram, configs, last, history, remote, bounds>>

None == -1          \* no log
Manual == Users     \* the log of a manual upload, behind those of the users
Users0 == 0 .. Users - 1
Logs == Users0 \cup {Manual}
LockStates == {"Ready", "LocalDownload", "RemoteSend", "ManualRemoteSend"}
SendStates == {"Idle", "RequestSent", "MetadataSent", "OpeningConnection", "SendingData",
               "WaitingForFinalAck", "Done", "Error"}
Answers == {"Ack", "Nack", "AlreadySent"}
Stages == {"idle", "requested", "metadata", "open", "receiving", "file"}

Net == [Answers -> 0 .. MaxNet]
Server == [stage : Stages, log : Logs \cup {None}]

ReadyServer == [stage |-> "idle", log |-> None]

Init ==
    /\ lock = "Ready" /\ http = "no" /\ starting = FALSE /\ pending = FALSE
    /\ sm = "Idle" /\ request = None /\ index = 0 /\ tasks = {}
    /\ month = -1 /\ count = 0 /\ expired = FALSE
    /\ configs = Users0 /\ last = {} /\ orphaned = FALSE /\ crossed = FALSE
    /\ shifted = {} /\ cut = {}
    /\ server = ReadyServer /\ known = {} /\ received = {} /\ net = [a \in Answers |-> 0]
    /\ uploads = 0 /\ manuals = 0

-----------------------------------------------------------------------------
(* The server, as seen from the device. *)

\* An answer is put into the network n.
Answered(n, a) == [n EXCEPT ![a] = IF @ < MaxNet THEN @ + 1 ELSE @]
Taken(a) == [net EXCEPT ![a] = @ - 1]

\* The server takes, refuses or already has the log, or the request gets lost.
ServerGetsRequest(log) ==
    \/ UNCHANGED <<server, net>>
    \/ server.stage # "idle" /\ net' = Answered(net, "Nack") /\ UNCHANGED server
    \/ server.stage = "idle" /\ log \in known /\ net' = Answered(net, "AlreadySent") /\ UNCHANGED server
    \/ server.stage = "idle" /\ log \notin known
       /\ \/ net' = Answered(net, "Ack") /\ server' = [stage |-> "requested", log |-> log]
          \/ net' = Answered(net, "Nack") /\ UNCHANGED server

ServerGetsMetadata(n) ==
    \/ net' = n /\ UNCHANGED server
    \/ server.stage = "requested" /\ net' = Answered(n, "Ack") /\ server' = [server EXCEPT !.stage = "metadata"]
    \/ server.stage = "requested" /\ net' = Answered(n, "Nack") /\ server' = ReadyServer

ServerOpens ==
    /\ server.stage = "metadata"
    /\ server' = [server EXCEPT !.stage = "open"] /\ net' = Answered(net, "Ack")
    /\ UNCHANGED <<ram, configs, last, history, known, received, bounds>>

\* The end of the file was seen.
ServerHasFile ==
    /\ server.stage = "file"
    /\ \/ known' = known \cup {server.log} /\ net' = Answered(net, "Ack")
       \/ net' = Answered(net, "Nack") /\ UNCHANGED known
    /\ server' = ReadyServer
    /\ UNCHANGED <<ram, configs, last, history, received, bounds>>

ServerGivesUp ==
    /\ server.stage # "idle"
    /\ server' = ReadyServer /\ net' = Answered(net, "Nack")
    /\ UNCHANGED <<ram, configs, last, history, known, received, bounds>>

Lose(a) ==
    /\ net[a] > 0 /\ net' = Taken(a)
    /\ UNCHANGED <<ram, configs, last, history, server, known, received, bounds>>

-----------------------------------------------------------------------------
(* The list of configs.  Deleting some of them moves up those behind. *)

\* The index of the config of user u among those of S.
Position(S, u) == Cardinality({v \in S : v < u})

\* The user whose config has index i, nobody beyond the end of the list.
UserAt(S, i) == {u \in S : Position(S, u) = i}

-----------------------------------------------------------------------------
(* The lock, and what the HTTP thread does with it. *)

Unlock == lock' = "Ready"
ReleasePending == pending' = FALSE /\ lock' = IF pending THEN "Ready" ELSE lock

\* try_lock in the handlers of pdf and csv, and of the two manual uploads.
HttpBegin(kind) ==
    /\ http = "no" /\ lock = "Ready"
    /\ kind = "ManualRemoteSend" => manuals < MaxManual
    /\ lock' = kind /\ http' = kind
    /\ manuals' = IF kind = "ManualRemoteSend" THEN manuals + 1 ELSE manuals
    /\ UNCHANGED <<starting, pending, sm, request, index, month, count, expired, tasks,
                   configs, last, history, remote, uploads>>

\* The handler ends, also early because of an error: lock_helper is destroyed.
HttpEnd ==
    /\ http # "no"
    /\ http' = "no" /\ Unlock
    /\ UNCHANGED <<starting, pending, sm, request, index, month, count, expired, tasks,
                   configs, last, history, remote, bounds>>

\* The handler of a manual upload hands its lock to a task of the main thread.
HttpHandOver ==
    /\ http = "ManualRemoteSend"
    /\ http' = "no" /\ starting' = TRUE
    /\ UNCHANGED <<lock, pending, sm, request, index, month, count, expired, tasks,
                   configs, last, history, remote, bounds>>

-----------------------------------------------------------------------------
(* Starting an upload. *)

\* Fault: an upload is given up when another one is started.
FaultFree == sm # "SendingData"

Free == sm \in {"Idle", "Done", "Error"}

\* remote_upload_request.reset.
DropRequest == request' = None /\ index' = 0

\* start_charge_log_send_sm when it sends its request.
StartSend(log) ==
    /\ Free /\ uploads < MaxUploads
    /\ sm' = "RequestSent" /\ request' = log /\ uploads' = uploads + 1
    /\ crossed' = (crossed \/ server.stage # "idle" \/ \E a \in Answers : net[a] > 0)
    /\ ServerGetsRequest(log)

\* start_charge_log_send_sm when it does not: not connected, busy, or the request
\* cannot be sent, which is an error of the upload before.
NotStarted ==
    /\ sm' = sm \/ (Free /\ sm' = "Error")
    /\ UNCHANGED <<uploads, server, net, crossed>>

\* Fault: the lock is kept when no upload was started.
FaultStartManual ==
    /\ starting /\ starting' = FALSE /\ UNCHANGED lock
    /\ (StartSend(Manual) /\ index' = 0 /\ pending' = TRUE) \/ (NotStarted /\ UNCHANGED <<request, index, pending>>)
    /\ UNCHANGED <<http, month, count, expired, tasks, configs, last, orphaned, shifted,
                   cut, known, received, manuals>>

\* start_charge_log_upload_for_user.
StartManual ==
    /\ starting /\ starting' = FALSE
    /\ \/ StartSend(Manual) /\ index' = 0 /\ pending' = TRUE /\ UNCHANGED lock
       \/ NotStarted /\ Unlock /\ UNCHANGED <<request, index, pending>>
    /\ UNCHANGED <<http, month, count, expired, tasks, configs, last, orphaned, shifted,
                   cut, known, received, manuals>>

-----------------------------------------------------------------------------
(* The monthly task. *)

\* The loop over the users: the first from i on whose log was not sent and for
\* whom an upload can be started.
StartsUser(i, sent) ==
    \E u \in configs \ sent :
        /\ Position(configs, u) >= i /\ StartSend(u)
        /\ month' = Position(configs, u) /\ index' = month' /\ expired' = FALSE

\* The loop ends without one.  Each attempt has stored its request in place of the
\* one that was there, and taken it away again.
StartsNobody(i, sent) ==
    \/ NotStarted /\ DropRequest /\ \E u \in configs \ sent : Position(configs, u) >= i
    \/ UNCHANGED <<sm, request, index, uploads, server, net, crossed>>

\* The loop runs up to the number of configs there were at the start of the round,
\* and reads one that was deleted.
ReadsBeyond(i) == i < count /\ Cardinality(configs) < count

\* finish_monthly_upload.
FinishMonthly == month' = -1 /\ count' = 0 /\ ReleasePending /\ expired' = FALSE

\* No round: the lock is taken and the first user looked for.
MonthlyBegins ==
    /\ month = -1 /\ lock = "Ready"
    /\ configs \ last # {}
    /\ \/ /\ StartsUser(0, last)
          /\ lock' = "RemoteSend" /\ pending' = TRUE /\ count' = Cardinality(configs)
       \/ StartsNobody(0, last) /\ UNCHANGED <<month, count, expired, lock, pending>>
    /\ UNCHANGED <<http, starting, tasks, configs, last, orphaned, shifted, cut, known,
                   received, manuals>>

\* Fault: no deadline.
FaultOver == sm \in {"Done", "Error"}

\* What the task takes as the end of a user's upload.
Over == sm \in {"Done", "Error"} \/ expired

\* Fault: a user counts as done also when the upload failed.
FaultMarked == last \cup UserAt(configs, month)

\* The marks when the task has seen the end of a user's upload: the config that now
\* has the index is marked.
Marked == IF sm = "Done" THEN last \cup UserAt(configs, month) ELSE last

\* A round: the next user follows.
MonthlyPolls ==
    /\ month # -1 /\ configs # {} /\ Over
    /\ sm = "Done" => UserAt(configs, month) # {}
    /\ last' = Marked
    /\ \/ StartsUser(month + 1, last') /\ UNCHANGED <<lock, pending, count>>
       \/ ~ReadsBeyond(month + 1) /\ StartsNobody(month + 1, last') /\ FinishMonthly
    /\ UNCHANGED <<http, starting, tasks, configs, orphaned, shifted, cut, known, received,
                   manuals>>

\* All configs were deleted.
MonthlyStops ==
    /\ month # -1 /\ configs = {}
    /\ FinishMonthly
    /\ UNCHANGED <<http, starting, sm, request, index, tasks, configs, last, history, remote, bounds>>

Expire ==
    /\ month # -1 /\ ~expired /\ expired' = TRUE
    /\ UNCHANGED <<lock, http, starting, pending, sm, request, index, month, count, tasks,
                   configs, last, history, remote, bounds>>

-----------------------------------------------------------------------------
(* handle_charge_log_send_packet. *)

Ends(state) == sm' = state /\ DropRequest /\ ReleasePending

\* The upload ends with state, whatever it was waiting for.
Concludes(a, state) ==
    /\ Ends(state) /\ net' = Taken(a)
    /\ UNCHANGED <<server, tasks, last, uploads>>

Nack(a) ==
    /\ a = "Nack" \/ (a = "AlreadySent" /\ sm # "RequestSent")
    /\ sm \in {"RequestSent", "MetadataSent", "OpeningConnection", "WaitingForFinalAck"}
    /\ Concludes(a, "Error")

AlreadySent(a) ==
    /\ a = "AlreadySent" /\ sm = "RequestSent"
    /\ request \in Users0 => UserAt(configs, index) # {}
    /\ last' = IF request \in Users0 THEN last \cup UserAt(configs, index) ELSE last
    /\ Ends("Done") /\ net' = Taken(a)
    /\ UNCHANGED <<server, tasks, uploads>>

\* The request was accepted: send_metadata_from_ctx.
RequestAck(a) ==
    /\ a = "Ack" /\ sm = "RequestSent"
    /\ \/ sm' = "MetadataSent" /\ ServerGetsMetadata(Taken(a)) /\ UNCHANGED <<request, index, pending, lock>>
       \/ Ends("Error") /\ net' = Taken(a) /\ UNCHANGED server
    /\ UNCHANGED <<tasks, last, uploads>>

MetadataAck(a) ==
    /\ a = "Ack" /\ sm = "MetadataSent"
    /\ sm' = "OpeningConnection" /\ net' = Taken(a)
    /\ UNCHANGED <<request, index, pending, lock, server, tasks, last, uploads>>

\* The port is open: the TCP task is created and gets the request.
OpenAck(a) ==
    /\ a = "Ack" /\ sm = "OpeningConnection"
    /\ IF request = None THEN sm' = "Error" /\ UNCHANGED <<request, index, pending, lock, tasks>>
       ELSE \/ /\ tasks' = tasks \cup {[n |-> uploads, log |-> request, pc |-> "connect"]}
               /\ DropRequest /\ UNCHANGED <<sm, pending, lock>>
            \/ Ends("Error") /\ UNCHANGED tasks
    /\ net' = Taken(a)
    /\ UNCHANGED <<server, last, uploads>>

FinalAck(a) ==
    /\ a = "Ack" /\ sm = "WaitingForFinalAck"
    /\ Concludes(a, "Done")

\* In any other state the packet is dropped.
Dropped(a) ==
    /\ sm \in {"Idle", "SendingData", "Done", "Error"}
    /\ net' = Taken(a)
    /\ UNCHANGED <<sm, request, index, pending, lock, server, tasks, last, uploads>>

HandlePacket(a) ==
    /\ net[a] > 0
    /\ \/ Nack(a) \/ AlreadySent(a) \/ RequestAck(a) \/ MetadataAck(a)
       \/ OpenAck(a) \/ FinalAck(a) \/ Dropped(a)
    /\ orphaned' = (orphaned \/ (sm = "OpeningConnection" /\ request = None))
    /\ UNCHANGED <<http, starting, month, count, expired, configs, crossed, shifted, cut,
                   known, received, manuals>>

-----------------------------------------------------------------------------
(* charge_log_send_tcp_task. *)

TaskMoves(t, pc) == tasks' = (tasks \ {t}) \cup {[t EXCEPT !.pc = pc]}

\* socket, bind, connect.
TcpConnect(t) ==
    /\ t.pc = "connect"
    /\ \/ /\ server.stage = "open"
          /\ server' = [server EXCEPT !.stage = "receiving"]
          /\ sm' = "SendingData" /\ TaskMoves(t, "send")
       \/ sm' = "Error" /\ TaskMoves(t, "cleanup") /\ UNCHANGED server
    /\ UNCHANGED <<received, cut>>

\* The file is generated and sent, the socket closed.
TcpSend(t) ==
    /\ t.pc = "send" /\ server.stage = "receiving"
    /\ server' = [server EXCEPT !.stage = "file"] /\ received' = received \cup {t.log}
    /\ TaskMoves(t, "closed") /\ UNCHANGED <<sm, cut>>

\* Generating or sending fails and the socket is closed as well: the server sees
\* that, or takes what it got for the file.
TcpSendFails(t) ==
    /\ t.pc = "send"
    /\ sm' = "Error" /\ TaskMoves(t, "cleanup")
    /\ \/ UNCHANGED <<server, cut>>
       \/ /\ server.stage = "receiving"
          /\ server' = [server EXCEPT !.stage = "file"] /\ cut' = cut \cup {t.log}
    /\ UNCHANGED received

TcpWait(t) ==
    /\ t.pc = "closed"
    /\ sm' = "WaitingForFinalAck" /\ TaskMoves(t, "cleanup")
    /\ UNCHANGED <<server, received, cut>>

TcpTask(t) ==
    /\ TcpConnect(t) \/ TcpSend(t) \/ TcpSendFails(t) \/ TcpWait(t)
    /\ UNCHANGED <<lock, http, starting, pending, request, index, month, count, expired,
                   configs, last, orphaned, crossed, shifted, known, net, bounds>>

\* cleanup_and_delete_task: the state is looked at, then pending_generation_lock is
\* emptied, and the lock itself is given back after the main thread has run a task.
TcpCleanup(t) ==
    /\ t.pc = "cleanup"
    /\ IF sm = "Error" THEN TaskMoves(t, "release") ELSE tasks' = tasks \ {t}
    /\ UNCHANGED <<lock, pending>>

TcpRelease(t) ==
    /\ t.pc = "release"
    /\ pending' = FALSE /\ UNCHANGED lock
    /\ IF pending THEN TaskMoves(t, "unlock") ELSE tasks' = tasks \ {t}

TcpUnlock(t) ==
    /\ t.pc = "unlock"
    /\ Unlock /\ UNCHANGED pending
    /\ tasks' = tasks \ {t}

TcpLeaves(t) ==
    /\ TcpCleanup(t) \/ TcpRelease(t) \/ TcpUnlock(t)
    /\ UNCHANGED <<http, starting, sm, request, index, month, count, expired,
                   configs, last, history, remote, bounds>>

-----------------------------------------------------------------------------
(* The rest of the system. *)

\* The user deletes configs, and those behind take the indices that may be stored.
Delete ==
    /\ \E gone \in SUBSET configs \ {{}} : configs' = configs \ gone
    /\ LET stored == {month} \cup IF request \in Users0 THEN {index} ELSE {}
       IN  shifted' = shifted \cup UNION {UserAt(configs', i) \ UserAt(configs, i) : i \in stored}
    /\ UNCHANGED <<ram, last, orphaned, crossed, cut, remote, bounds>>

Boot ==
    /\ lock' = "Ready" /\ http' = "no" /\ starting' = FALSE /\ pending' = FALSE
    /\ sm' = "Idle" /\ request' = None /\ index' = 0 /\ tasks' = {}
    /\ month' = -1 /\ count' = 0 /\ expired' = FALSE

\* A config is read that was deleted: the firmware aborts and boots again.  When the
\* next user's is, this one has been marked.
Abort ==
    /\ \/ /\ month # -1 /\ configs # {} /\ sm = "Done" /\ UserAt(configs, month) = {}
          /\ last' = last
       \/ /\ month # -1 /\ configs # {} /\ Over /\ ReadsBeyond(month + 1)
          /\ sm = "Done" => UserAt(configs, month) # {}
          /\ last' = Marked
       \/ /\ net["AlreadySent"] > 0 /\ sm = "RequestSent"
          /\ request \in Users0 /\ UserAt(configs, index) = {}
          /\ last' = last
    /\ Boot
    /\ UNCHANGED <<configs, orphaned, crossed, shifted, cut, remote, bounds>>

Main ==
    \/ StartManual \/ MonthlyBegins \/ MonthlyPolls \/ MonthlyStops
    \/ \E a \in Answers : HandlePacket(a)

Next ==
    \/ Main
    \/ \E kind \in {"LocalDownload", "ManualRemoteSend"} : HttpBegin(kind)
    \/ HttpEnd \/ HttpHandOver
    \/ \E t \in tasks : TcpTask(t) \/ TcpLeaves(t)
    \/ ServerOpens \/ ServerHasFile \/ ServerGivesUp \/ \E a \in Answers : Lose(a)
    \/ Expire \/ Delete \/ Abort

Spec == Init /\ [][Next]_vars

\* The task scheduler runs the periodic task of the monthly upload, and deadlines pass.
\* Nothing is assumed of the HTTP thread, the TCP tasks, the network or the server.
Fairness == WF_vars(Expire) /\ WF_vars(MonthlyPolls \/ MonthlyStops \/ Abort)

LiveSpec == Spec /\ Fairness

-----------------------------------------------------------------------------
\* What is left of a task that is done with its socket.
Leaving == {"cleanup", "release", "unlock"}

FlagTypeOK ==
    /\ starting \in BOOLEAN /\ pending \in BOOLEAN /\ expired \in BOOLEAN
    /\ orphaned \in BOOLEAN /\ crossed \in BOOLEAN

ControlTypeOK ==
    /\ lock \in LockStates /\ http \in {"no", "LocalDownload", "ManualRemoteSend"}
    /\ sm \in SendStates /\ request \in Logs \cup {None} /\ index \in Nat

MonthTypeOK ==
    /\ month \in -1 .. Users - 1 /\ count \in 0 .. Users
    /\ configs \subseteq Users0 /\ last \subseteq Users0 /\ shifted \subseteq Users0

TaskTypeOK ==
    /\ tasks \subseteq [n : Nat, log : Logs, pc : {"connect", "send", "closed"} \cup Leaving]
    /\ uploads \in Nat /\ manuals \in Nat

ServerTypeOK ==
    /\ server \in Server /\ net \in Net
    /\ known \subseteq Logs /\ received \subseteq Logs /\ cut \subseteq Logs

\* The types; the logs the server has were all asked for.
TypeOK == FlagTypeOK /\ ControlTypeOK /\ MonthTypeOK /\ TaskTypeOK /\ ServerTypeOK

Holders == {h \in {"http", "starting", "pending"} :
               \/ h = "http" /\ http # "no"
               \/ h = "starting" /\ starting
               \/ h = "pending" /\ pending}
Unlocking == {t \in tasks : t.pc = "unlock"}

\* The lock is taken exactly as long as one of the handler, the scheduled task,
\* pending_generation_lock and a TCP task that gives it back holds it: it is neither
\* lost nor given twice.
LockHasOneHolder ==
    /\ Cardinality(Holders) + Cardinality(Unlocking) <= 1
    /\ lock # "Ready" <=> Holders # {} \/ Unlocking # {}

\* A monthly round comes to its end whatever the server and the network do.
MonthlyRoundEnds == month # -1 ~> month = -1

\* Not kept by the code, see section 6 of the README:
\* Until its task is created an upload has its request: that the context is missing
\* when the server opens its port cannot happen.
RequestIsKept ==
    /\ sm \in {"RequestSent", "MetadataSent"} => request # None
    /\ sm = "OpeningConnection" => request # None \/ \E t \in tasks : t.pc = "connect"

\* Two TCP tasks never send at the same time, unless an answer ended an upload
\* whose task was about to connect.
OneSender == orphaned \/ Cardinality({t \in tasks : t.pc \notin Leaving}) <= 1

\* A user counts as done only when the server has the log, also over aborts, lost
\* answers, rounds that were given up and deleted configs.  The exceptions: the user
\* whose config moved to an index that was stored for another one, and the log of
\* which the server took a cut-off file for the whole one; and all users, once there
\* was a manual upload, an answer ended an upload whose task was about to connect, or
\* an upload began while the server or the network was still busy with an earlier
\* one, whose answers nobody can tell from its own.
MonthlyMarksAreTrue ==
    orphaned \/ crossed \/ manuals > 0 \/ last \subseteq received \cup cut \cup shifted

\* Not kept by the code, see section 6 of the README:
\* A user counts as done only when the server has the log, as the comment at
\* charge_tracker.cpp:1988 says: the config is found again by an index that was
\* stored when the upload began.
MarkedOnlyIfSent == last \subseteq received

\* Not kept by the code, see section 6 of the README:
\* The lock is free again some time after an upload took it, if the handlers, the
\* scheduled tasks and the TCP tasks go on.
LockReleased ==
    WF_vars(HttpEnd \/ HttpHandOver) /\ WF_vars(StartManual)
    /\ WF_vars(\E t \in tasks : TcpTask(t) \/ TcpLeaves(t))
        => (pending ~> ~pending)

\* Not kept by the code, see section 6 of the README:
\* The charge logs are generated one at a time.
OneGeneration == http = "LocalDownload" => \A t \in tasks : t.pc # "send"

\* Not kept by the code, see section 6 of the README:
\* No config is read that was deleted.
NeverAborts == [][~Abort]_vars
=============================================================================
