----------------------------- MODULE WebSockets -----------------------------
(***************************************************************************)
(* The WebSocket endpoints (modules/ws: web_sockets.cpp, ws.cpp) with the  *)
(* part of API::push_state_updates that feeds them.                        *)
(*                                                                         *)
(* Two threads work on one instance.  The main thread updates API states,  *)
(* pushes them into work_queue, sends to and closes single clients (the    *)
(* EEBUS endpoint does) and asks httpd every 100 ms to run the worker.     *)
(* The HTTP thread does one thing at a time: it upgrades a connection,     *)
(* dumps all states to it and enters it into keep_alive_fds, handles a     *)
(* frame, ends a session, or runs the worker.  The dump reads the states   *)
(* in tasks that it awaits, so it alternates with the main thread.         *)
(*                                                                         *)
(* A connection is a model value used once; a file descriptor is used      *)
(* again by later connections.  Values are version numbers, 0 = none.      *)
(* "for", "live", dropped and unasked are history: no guard reads them.     *)
(***************************************************************************)
EXTENDS Integers, Sequences, FiniteSets

CONSTANTS Fds,         \* file descriptors httpd can hand out
          Conns,       \* the connections of a behaviour, each accepted once
          NStates,     \* number of API states
          MaxVersion,  \* bound: versions of a state
          MaxClients,  \* MAX_WEB_SOCKET_CLIENTS
          QueueLimit,  \* MAX_WEB_SOCKET_WORK_ITEMS_IN_QUEUE
          MaxExtra,    \* bound: broadcasts and unicasts that carry no state
          MaxStops,    \* bound: calls of stop
          Unicast,     \* whether the main thread addresses single clients (EEBUS)
          NoConn,      \* no session behind a descriptor
          Cleared,     \* descriptor -1
          Broadcast    \* BROADCAST_FD

ASSUME WebSocketsAssumption ==
    /\ NStates \in Nat \ {0} /\ MaxVersion \in Nat \ {0} /\ MaxClients \in Nat \ {0}
    /\ QueueLimit \in Nat \ {0} /\ MaxExtra \in Nat /\ MaxStops \in Nat
    /\ Unicast \in BOOLEAN /\ NoConn \notin Conns
    /\ Cleared \notin Fds /\ Broadcast \notin Fds \cup {Cleared}

States == 1 .. NStates
Unseen == [s \in States |-> 0]
Idle == [pc |-> "idle", fd |-> Cleared, next |-> 1]

VARIABLES
    version,   \* current version of each API state
    updated,   \* the WS bit of each state's updated flags
    owner,     \* httpd's sessions: the connection behind a descriptor, or none
    kind,      \* ... and whether it was upgraded: "http" or "ws"
    clean,     \* descriptors whose session received a close frame
    keepAlive, \* keep_alive_fds without the free slots
    late,      \* those whose last pong is older than KEEP_ALIVE_TIMEOUT
    queue,     \* work_queue
    pending,   \* pending_close_fds
    worker,    \* worker_active
    calls,     \* calls of work that httpd_queue_work accepted and not yet ran
    http,      \* what the HTTP thread is doing
    main,      \* where the main thread is, between its tasks "idle"
    running,   \* running, and with it the periodic tasks
    seen,      \* the version of each state that each client was sent last
    known,     \* the descriptor the main thread remembers for a connection
    used,      \* connections accepted so far
    extra,     \* number of broadcasts and unicasts that carry no state
    stops,     \* number of calls of stop
    dropped,   \* versions of states that PushState dropped at a bad moment
    unasked    \* httpd refused the call of a stop and no run has ended since

sessVars == <<owner, kind, clean>>
apiVars == <<version, updated>>
boundVars == <<used, extra, stops>>
history == <<dropped, unasked>>
vars == <<version, updated, owner, kind, clean, keepAlive, late, queue,
          pending, worker, calls, http, main, running, seen, known,
          used, extra, stops, dropped, unasked>>

Item == [to : Fds \cup {Broadcast, Cleared}, state : 0 .. NStates,
         version : 0 .. MaxVersion, for : Conns \cup {NoConn}, live : BOOLEAN]

Init ==
    /\ version = [s \in States |-> 1]
    /\ updated = [s \in States |-> TRUE]
    /\ owner = [f \in Fds |-> NoConn]
    /\ kind = [f \in Fds |-> "http"]
    /\ clean = {} /\ keepAlive = {} /\ late = {}
    /\ queue = <<>> /\ pending = <<>>
    /\ worker = "DONE" /\ calls = 0
    /\ http = Idle /\ main = "idle" /\ running = TRUE
    /\ seen = [c \in Conns |-> Unseen]
    /\ known = [c \in Conns |-> Cleared] /\ used = {} /\ extra = 0 /\ stops = 0
    /\ dropped = {} /\ unasked = FALSE

WsFds == {f \in Fds : owner[f] # NoConn /\ kind[f] = "ws"}

-----------------------------------------------------------------------------
(* The work queue.  Callers hold work_queue_mutex. *)

\* cleanUpQueue: drop the leading items whose client is gone.
CleanUpQueue(q) ==
    LET first == CHOOSE n \in 1 .. Len(q) + 1 :
                     /\ n <= Len(q) => q[n].to # Cleared
                     /\ \A k \in 1 .. n - 1 : q[k].to = Cleared
    IN  SubSeq(q, first, Len(q))

\* queueFull: the queue as it leaves it, cleaned up only when it was full.
AfterQueueFull(q) == IF Len(q) < QueueLimit THEN q ELSE CleanUpQueue(q)

\* Fault: the limit is not looked at.
FaultEnqueue(q, item) == Append(AfterQueueFull(q), item)

\* sendToClientOwned, sendToAllOwnedInternal: one more item, unless full.
Enqueue(q, item) ==
    LET r == AfterQueueFull(q)
    IN  IF Len(r) < QueueLimit THEN Append(r, item) ELSE r

\* Fault: a refused item counts as sent.
FaultRefused(q) == FALSE

\* ... and whether the item was refused.
Refused(q) == Len(AfterQueueFull(q)) >= QueueLimit

BroadcastItem(s, v) ==
    [to |-> Broadcast, state |-> s, version |-> v, for |-> NoConn, live |-> FALSE]

\* Fault: the items stay addressed to the descriptor.
FaultUnaddress(q, fs) == q

\* keepAliveRemove, second half: unsent items for fs reach nobody.
Unaddress(q, fs) ==
    [i \in DOMAIN q |-> IF q[i].to \in fs THEN [q[i] EXCEPT !.to = Cleared] ELSE q[i]]

-----------------------------------------------------------------------------
(* Sessions.  Only the HTTP thread opens and ends them. *)

\* httpd_sess_delete on every session of gone, whose close function reports
\* to notify_unclean_close, and keepAliveRemove on every descriptor of fs; k
\* and q are the session kinds and the queue to start from.
EndSessions(gone, fs, k, q) ==
    /\ owner' = [f \in Fds |-> IF f \in gone THEN NoConn ELSE owner[f]]
    /\ kind' = [f \in Fds |-> IF f \in gone THEN "http" ELSE k[f]]
    /\ clean' = clean \ gone
    /\ keepAlive' = keepAlive \ fs
    /\ late' = late \ fs
    /\ queue' = Unaddress(q, fs)

\* A client opens a TCP connection.
Accept(f, c) ==
    /\ http.pc = "idle" /\ owner[f] = NoConn
    /\ c \notin used
    /\ owner' = [owner EXCEPT ![f] = c]
    /\ used' = used \cup {c}
    /\ UNCHANGED <<kind, clean, apiVars, keepAlive, late, queue, pending, worker,
                   calls, http, main, running, seen, known, extra, stops, history>>

\* closeLRUClient_HTTPThread picks a client whose pong is oldest.
Victims == IF keepAlive \cap late # {} THEN keepAlive \cap late ELSE keepAlive

\* Fault: one client too many is let in before another one is closed.
FaultEvicted == IF Cardinality(keepAlive) <= MaxClients THEN {{}} ELSE {{v} : v \in Victims}

\* haveFreeSlot decides whether a client has to leave.
Evicted == IF Cardinality(keepAlive) < MaxClients THEN {{}} ELSE {{v} : v \in Victims}

\* The handler of the URI, up to the client connect callback.
Upgrade(f) ==
    /\ http.pc = "idle" /\ running
    /\ owner[f] # NoConn /\ kind[f] = "http"
    /\ \E gone \in Evicted :
          EndSessions(gone, gone, [kind EXCEPT ![f] = "ws"], queue)
    /\ http' = [Idle EXCEPT !.pc = "dump", !.fd = f]
    /\ UNCHANGED <<apiVars, pending, worker, calls, main, running, seen, known, boundVars, history>>

\* ... when the handshake fails, after the eviction: the client gets an error
\* response or the handler an error, with which httpd ends the session.
HandshakeFails(f) ==
    /\ http.pc = "idle" /\ running
    /\ owner[f] # NoConn /\ kind[f] = "http"
    /\ \E gone \in Evicted, ended \in SUBSET {f} :
          EndSessions(gone \cup ended, gone, kind, queue)
    /\ UNCHANGED <<apiVars, pending, worker, calls, http, main, running, seen, known,
                   boundVars, history>>

\* The loop of the connect callback of ws.cpp: a task that it awaits serialises
\* as many states as the buffer holds, then they are sent directly.  Nobody
\* sees what the client has before the callback ends, so the two are one step.
DumpChunk(last) ==
    /\ http.pc = "dump" /\ main = "idle"
    /\ last \in http.next .. NStates
    /\ seen' = [seen EXCEPT ![owner[http.fd]] =
                   [s \in States |-> IF s \in http.next .. last THEN version[s] ELSE @[s]]]
    /\ http' = [http EXCEPT !.next = last + 1,
                            !.pc = IF last = NStates THEN "add" ELSE "dump"]
    /\ known' = IF last = NStates /\ Unicast
                THEN [known EXCEPT ![owner[http.fd]] = http.fd] ELSE known
    /\ UNCHANGED <<apiVars, sessVars, keepAlive, late, queue, pending, worker,
                   calls, main, running, boundVars, history>>

\* No memory, a state that does not fit, an await that failed or a failed
\* write: the handler returns an error and httpd ends the session.
DumpFail ==
    /\ http.pc = "dump"
    /\ EndSessions({http.fd}, {http.fd}, kind, queue)
    /\ http' = Idle
    /\ UNCHANGED <<apiVars, pending, worker, calls, main, running, seen, known, boundVars, history>>

\* keepAliveAdd, at the end of the handler.
KeepAliveAdd ==
    /\ http.pc = "add"
    /\ IF http.fd \in keepAlive
       THEN keepAlive' = keepAlive
       ELSE keepAlive' = IF Cardinality(keepAlive) < MaxClients
                         THEN keepAlive \cup {http.fd} ELSE keepAlive
    /\ late' = late \ {http.fd}
    /\ http' = Idle
    /\ UNCHANGED <<apiVars, sessVars, queue, pending, worker, calls, main,
                   running, seen, known, boundVars, history>>

\* receivedPong.
ReceivedPong(f) ==
    /\ http.pc = "idle" /\ f \in WsFds \ clean
    /\ f \in late
    /\ late' = late \ {f}
    /\ UNCHANGED <<apiVars, sessVars, keepAlive, queue, pending, worker, calls,
                   http, main, running, seen, known, boundVars, history>>

\* ws_handler on a close frame.  The session lives on until the peer closes it.
ReceivedClose(f) ==
    /\ http.pc = "idle" /\ f \in WsFds \ clean
    /\ keepAlive' = keepAlive \ {f}
    /\ late' = late \ {f}
    /\ queue' = Unaddress(queue, {f})
    /\ clean' = clean \cup {f}
    /\ UNCHANGED <<owner, kind, apiVars, pending, worker, calls, http, main,
                   running, seen, known, boundVars, history>>

\* Fault: the end of a session is never reported.
FaultReported(f) == {}

\* custom_close_fn and notify_unclean_close: which descriptor is taken off the
\* list when the session of f ends.
Reported(f) == IF f \in WsFds \ clean THEN {f} ELSE {}

\* httpd ends a session by itself: closed by the peer, a receive error or its
\* own LRU purge.
SessionEnds(f) ==
    /\ http.pc = "idle" /\ owner[f] # NoConn
    /\ EndSessions({f}, Reported(f), kind, queue)
    /\ UNCHANGED <<apiVars, pending, worker, calls, http, main, running, seen,
                   known, boundVars, history>>

\* KEEP_ALIVE_TIMEOUT passes without a pong.
PongIsLate(f) ==
    /\ f \in keepAlive \ late
    /\ late' = late \cup {f}
    /\ UNCHANGED <<apiVars, sessVars, keepAlive, queue, pending, worker, calls,
                   http, main, running, seen, known, boundVars, history>>

-----------------------------------------------------------------------------
(* The worker, on the HTTP thread. *)

\* Fault: nobody is ever found dead.
FaultDeadClients == {}

\* checkActiveClients: who is closed for want of a pong.
DeadClients == keepAlive \cap late

\* work, up to its loop: processPendingCloses_HTTPThread, checkActiveClients.
\* keepAliveCloseDead_HTTPThread spares a descriptor that is no WebSocket.
WorkStart ==
    /\ http.pc = "idle" /\ calls > 0
    /\ worker' = "RUNNING"
    /\ calls' = calls - 1
    /\ LET asked == {pending[i].fd : i \in DOMAIN pending}
           fs == asked \cup DeadClients
       IN  EndSessions(fs \cap WsFds, fs, kind, queue)
    /\ pending' = <<>>
    /\ http' = [Idle EXCEPT !.pc = "work"]
    /\ UNCHANGED <<apiVars, main, running, seen, known, boundVars, history>>

\* Who send_ws_work_item writes to.
Receivers(item) ==
    IF item.to = Broadcast THEN keepAlive \cap WsFds ELSE {item.to} \cap WsFds

\* haveWork and send_ws_work_item; a failed write ends the session.
WorkItem ==
    /\ http.pc = "work" /\ queue # <<>>
    /\ \E failed \in SUBSET Receivers(Head(queue)) :
          /\ LET reached == {owner[f] : f \in Receivers(Head(queue)) \ failed}
             IN  seen' = IF Head(queue).state = 0 THEN seen
                         ELSE [c \in Conns |->
                                 IF c \in reached
                                 THEN [seen[c] EXCEPT ![Head(queue).state] = Head(queue).version]
                                 ELSE seen[c]]
          /\ EndSessions(failed, failed, kind, Tail(queue))
    /\ UNCHANGED <<apiVars, pending, worker, calls, http, main, running, known, boundVars, history>>

\* Fault: the loop ends with work left.
FaultWorkEmpty ==
    /\ http.pc = "work"
    /\ http' = [http EXCEPT !.pc = "done"]
    /\ UNCHANGED <<apiVars, sessVars, keepAlive, late, queue, pending, worker,
                   calls, main, running, seen, known, boundVars, history>>

\* The loop finds no work.  The main thread may still add some before WorkDone.
WorkEmpty ==
    /\ http.pc = "work" /\ queue = <<>>
    /\ http' = [http EXCEPT !.pc = "done"]
    /\ UNCHANGED <<apiVars, sessVars, keepAlive, late, queue, pending, worker,
                   calls, main, running, seen, known, boundVars, history>>

WorkDone ==
    /\ http.pc = "done"
    /\ worker' = "DONE"
    /\ http' = Idle
    /\ unasked' = FALSE
    /\ UNCHANGED <<apiVars, sessVars, keepAlive, late, queue, pending, calls,
                   main, running, seen, known, boundVars, dropped>>

-----------------------------------------------------------------------------
(* The main thread. *)

httpVars == <<sessVars, keepAlive, late, http, seen>>

\* Some module changes a state: Config sets the updated flags of all backends.
UpdateState(s) ==
    /\ main = "idle" /\ version[s] < MaxVersion
    /\ version' = [version EXCEPT ![s] = @ + 1]
    /\ updated' = [updated EXCEPT ![s] = TRUE]
    /\ UNCHANGED <<httpVars, queue, pending, worker, calls, main, running, known,
                   boundVars, history>>

\* push_state_updates, its turn for state s and this backend: without a client
\* the update counts as sent, with a full queue it is kept for the next round.
\* dropped records the updates that count as sent while a dump is past s or the
\* queue still holds an older version of s.
PushState(s) ==
    /\ main = "idle" /\ updated[s]
    /\ IF keepAlive = {}
       THEN /\ updated' = [updated EXCEPT ![s] = FALSE]
            /\ dropped' = IF \/ http.pc \in {"dump", "add"} /\ s < http.next
                             \/ \E i \in DOMAIN queue : queue[i].state = s
                          THEN dropped \cup {<<s, version[s]>>} ELSE dropped
            /\ queue' = queue
       ELSE /\ queue' = Enqueue(queue, BroadcastItem(s, version[s]))
            /\ updated' = [updated EXCEPT ![s] = Refused(queue)]
            /\ dropped' = dropped
    /\ UNCHANGED <<version, httpVars, pending, worker, calls, main, running,
                   known, boundVars, unasked>>

\* pingActiveClients, and the keep-alive message of ws.cpp.
SendPing ==
    /\ main = "idle" /\ running /\ keepAlive # {} /\ extra < MaxExtra
    /\ queue' = Enqueue(queue, BroadcastItem(0, 0))
    /\ extra' = extra + 1
    /\ UNCHANGED <<apiVars, httpVars, pending, worker, calls, main, running,
                   known, used, stops, history>>

\* send_async: the main thread sends to a client by its descriptor, which it
\* remembers until it learns that the client is gone.
SendToClient(c) ==
    /\ main = "idle" /\ running /\ known[c] # Cleared /\ extra < MaxExtra
    /\ queue' = Enqueue(queue, [to |-> known[c], state |-> 0, version |-> 0, for |-> c,
                                live |-> known[c] \in keepAlive /\ owner[known[c]] = c])
    /\ extra' = extra + 1
    /\ UNCHANGED <<apiVars, httpVars, pending, worker, calls, main, running,
                   known, used, stops, history>>

\* The disconnect callback reached the main thread.
LearnDisconnect(c) ==
    /\ main = "idle" /\ known[c] # Cleared
    /\ owner[known[c]] = c => known[c] \in clean
    /\ known' = [known EXCEPT ![c] = Cleared]
    /\ UNCHANGED <<apiVars, httpVars, queue, pending, worker, calls, main,
                   running, boundVars, history>>

\* keepAliveCloseDead_async on each descriptor of fs, in the order of s.
CloseLater(s) ==
    LET fs == {s[i].fd : i \in DOMAIN s}
        all == pending \o s
    IN  /\ keepAlive' = keepAlive \ fs
        /\ late' = late \ fs
        /\ queue' = Unaddress(queue, fs)
        /\ pending' = SubSeq(all, 1, IF Len(all) < MaxClients THEN Len(all) ELSE MaxClients)

\* close_async on a client.
CloseAsync(c) ==
    /\ main = "idle" /\ running /\ known[c] # Cleared
    /\ CloseLater(<<[fd |-> known[c], for |-> c]>>)
    /\ known' = [known EXCEPT ![c] = Cleared]
    /\ UNCHANGED <<apiVars, sessVars, worker, calls, http, main, running, seen, boundVars, history>>

\* triggerHttpThread, its first half: no worker is under way, and there is work
\* or the last run is five seconds ago.
TriggerHttpThread ==
    /\ main = "idle" /\ running /\ worker = "DONE"
    /\ worker' = "ENQUEUED"
    /\ main' = "trigger"
    /\ UNCHANGED <<apiVars, httpVars, queue, pending, calls, running, known,
                   boundVars, history>>

\* ... its early return while a run is due.
PokeLocalhost ==
    /\ main = "idle" /\ running /\ worker = "ENQUEUED"
    /\ UNCHANGED vars

\* Fault: worker_active is not taken back when httpd_queue_work fails.
FaultQueueWork ==
    /\ main = "trigger"
    /\ calls' \in {calls, calls + 1}
    /\ main' = "idle"
    /\ UNCHANGED <<apiVars, httpVars, worker, queue, pending, running, known,
                   boundVars, history>>

\* ... its second half: httpd_queue_work succeeds or fails.
QueueWork ==
    /\ main = "trigger"
    /\ \/ calls' = calls + 1 /\ worker' = worker
       \/ calls' = calls /\ worker' = "DONE"
    /\ main' = "idle"
    /\ UNCHANGED <<apiVars, httpVars, queue, pending, running, known, boundVars,
                   history>>

\* stop, up to its wait: a close frame for everybody and a run of the worker.
\* Whether httpd_queue_work succeeds is not looked at.
Stop ==
    /\ main = "idle" /\ running /\ stops < MaxStops
    /\ running' = FALSE
    /\ queue' = IF keepAlive = {} THEN queue ELSE Enqueue(queue, BroadcastItem(0, 0))
    /\ worker' = "ENQUEUED"
    /\ \/ calls' = calls + 1 /\ unasked' = unasked
       \/ calls' = calls /\ unasked' = TRUE
    /\ main' = "stop"
    /\ stops' = stops + 1
    /\ UNCHANGED <<apiVars, httpVars, pending, known, used, extra, dropped>>

\* stop after its wait, which ends with the worker or after 200 ms: all clients
\* are taken off the list and left to the worker to close.
StopEnd ==
    /\ main = "stop"
    /\ \E s \in [1 .. Cardinality(keepAlive) -> keepAlive] :
          /\ \A i, j \in DOMAIN s : s[i] = s[j] => i = j
          /\ CloseLater([i \in DOMAIN s |-> [fd |-> s[i], for |-> owner[s[i]]]])
    /\ main' = "idle"
    /\ UNCHANGED <<apiVars, sessVars, worker, calls, http, running, seen, known, boundVars, history>>

\* start: the URI answers again and the tasks run again.
Start ==
    /\ main = "idle" /\ ~running
    /\ running' = TRUE
    /\ UNCHANGED <<apiVars, httpVars, queue, pending, worker, calls, main, known,
                   boundVars, history>>

-----------------------------------------------------------------------------
Worker == WorkStart \/ WorkItem \/ WorkEmpty \/ WorkDone

HttpThread ==
    \/ Worker
    \/ \E last \in States : DumpChunk(last)
    \/ DumpFail \/ KeepAliveAdd
    \/ \E f \in Fds : Upgrade(f) \/ HandshakeFails(f) \/ ReceivedPong(f) \/ ReceivedClose(f) \/ SessionEnds(f)

MainThread ==
    \/ \E s \in States : UpdateState(s) \/ PushState(s)
    \/ SendPing \/ TriggerHttpThread \/ PokeLocalhost \/ QueueWork \/ Stop \/ StopEnd \/ Start
    \/ \E c \in Conns : SendToClient(c) \/ LearnDisconnect(c) \/ CloseAsync(c)

Clients ==
    \/ \E f \in Fds, c \in Conns : Accept(f, c)
    \/ \E f \in Fds : PongIsLate(f)

Next == HttpThread \/ MainThread \/ Clients

Spec == Init /\ [][Next]_vars

\* The HTTP thread goes on with what it does and runs accepted work before it
\* starves; the tasks of the main thread are run again and again, and
\* httpd_queue_work and a push do not fail for ever; time passes.
Fairness ==
    /\ WF_vars(Worker) /\ SF_vars(WorkStart)
    /\ WF_vars(DumpFail \/ KeepAliveAdd \/ \E l \in States : DumpChunk(l))
    /\ SF_vars(TriggerHttpThread)
    /\ SF_vars(QueueWork /\ calls' = calls + 1) /\ WF_vars(QueueWork)
    /\ WF_vars(StopEnd)
    /\ \A s \in States : SF_vars(PushState(s) /\ ~updated'[s])

LiveSpec == Spec /\ Fairness

-----------------------------------------------------------------------------
ApiTypeOK ==
    /\ version \in [States -> 1 .. MaxVersion] /\ updated \in [States -> BOOLEAN]
    /\ dropped \subseteq States \X (1 .. MaxVersion)
    /\ seen \in [Conns -> [States -> 0 .. MaxVersion]]

SessionTypeOK ==
    /\ owner \in [Fds -> Conns \cup {NoConn}] /\ kind \in [Fds -> {"http", "ws"}]
    /\ clean \subseteq Fds /\ keepAlive \subseteq Fds /\ late \subseteq keepAlive
    /\ known \in [Conns -> Fds \cup {Cleared}] /\ used \subseteq Conns

QueueTypeOK == queue \in Seq(Item) /\ Len(queue) <= QueueLimit

PendingTypeOK == pending \in Seq([fd : Fds, for : Conns]) /\ Len(pending) <= MaxClients

ThreadTypeOK ==
    /\ worker \in {"DONE", "ENQUEUED", "RUNNING"} /\ calls \in Nat
    /\ http \in [pc : {"idle", "dump", "add", "work", "done"},
                 fd : Fds \cup {Cleared}, next : 1 .. NStates + 1]
    /\ main \in {"idle", "trigger", "stop"} /\ running \in BOOLEAN
    /\ extra \in 0 .. MaxExtra /\ stops \in 0 .. MaxStops /\ unasked \in BOOLEAN

\* The types.  The queue never grows past its limit, a close is remembered for each
\* slot at most, and the late descriptors are on the list.
TypeOK == ApiTypeOK /\ SessionTypeOK /\ QueueTypeOK /\ PendingTypeOK /\ ThreadTypeOK

\* Every client on the keep alive list has, or will get without another change,
\* the current version of every state: it was sent it, the flag is still set,
\* or the queue holds it.  The one exception is an update that was dropped for
\* want of a client while a new client's dump was past it, or while the queue
\* held an older version of the state for a client that had left.
NoUpdateLost ==
    \A f \in keepAlive, s \in States :
        \/ seen[owner[f]][s] = version[s]
        \/ updated[s]
        \/ \E i \in DOMAIN queue : /\ queue[i].to = Broadcast
                                   /\ queue[i].state = s
                                   /\ queue[i].version = version[s]
        \/ <<s, version[s]>> \in dropped

\* keep_alive_fds only holds descriptors of open WebSocket sessions that have
\* not announced their end: no write of the worker goes to a reused descriptor.
KeepAliveIsLive == keepAlive \subseteq WsFds \ clean

\* The slot that closeLRUClient_HTTPThread freed is still free when the client
\* is entered, so keepAliveAdd never drops it silently.
SlotIsFree ==
    http.pc \in {"dump", "add"} =>
        /\ Cardinality(keepAlive) < MaxClients
        /\ http.fd \notin keepAlive

\* The list of clients is right at all times, although the main thread, closing
\* sessions and new clients change it while frames are sent.
ClientListOK == KeepAliveIsLive /\ SlotIsFree

\* A unicast item that was queued while its client was listed is never sent to
\* another connection that got the same descriptor.  An item queued after the
\* client's close frame or its end, before the main thread learnt of it, may be.
UnicastIsPrivate ==
    \A i \in DOMAIN queue :
        queue[i].live /\ queue[i].to # Cleared => owner[queue[i].to] = queue[i].for

\* worker_active says that a run is due only while one is: otherwise
\* triggerHttpThread could never start the worker again.  The one exception is
\* a stop whose call httpd refused, until a run of the worker ends.
WorkerNotStuck ==
    /\ worker = "ENQUEUED" => calls > 0 \/ main = "trigger" \/ unasked
    /\ worker = "RUNNING" => http.pc \in {"work", "done"}

\* Not kept by the code, see section 6 of the README: while the sockets run,
\* worker_active never says that a run is due when none is left to clear it,
\* which the comment in triggerHttpThread calls "NEVER able to start the worker
\* again".
WorkerStartable ==
    running /\ worker = "ENQUEUED" =>
        calls > 0 \/ main = "trigger" \/ http.pc \in {"work", "done"}

\* Not kept by the code either, see section 6 of the README:
\* a close that the main thread asked for hits the connection it asked for.
CloseIsOwn ==
    \A i \in DOMAIN pending :
        pending[i].fd \in WsFds => owner[pending[i].fd] = pending[i].for

\* A client that stays connected is finally up to date, but for dropped updates.
ClientsCatchUp ==
    \A c \in Conns :
        <>[](\E f \in keepAlive : owner[f] = c)
            => <>[](\A s \in States : seen[c][s] = version[s] \/ <<s, version[s]>> \in dropped)

\* A client that does not answer pings finally leaves the list.
SilentClientLeaves ==
    \A f \in Fds : f \in late ~> (f \notin late \/ ~running)
=============================================================================
