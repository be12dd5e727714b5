--------------------------- MODULE WebSocketsProofs -------------------------
(***************************************************************************)
(* Proofs about WebSockets, for any number of descriptors, connections,    *)
(* states, clients and queue items: the list of clients holds only open    *)
(* WebSockets and always has room for the client that is being entered, no *)
(* unicast reaches another connection, the worker can always run again,    *)
(* and no client misses the last version of a state.                       *)
(***************************************************************************)
EXTENDS WebSockets, FiniteSetTheorems, SequenceTheorems, WellFoundedInduction, TLAPS

-----------------------------------------------------------------------------
(* The work queue. *)

\* A set of natural numbers that is not empty has a least element.
LEMMA LeastNat ==
    ASSUME NEW T \in SUBSET Nat, T # {}
    PROVE  \E x \in T : \A y \in T : x <= y
<1>1. PICK x \in T : \A y \in T : ~(<<y, x>> \in OpToRel(<, Nat))
  BY WFMin, NatLessThanWellFounded
<1>2. \A y \in T : ~(y < x)
  BY <1>1 DEF OpToRel
<1> QED
  BY <1>2

\* cleanUpQueue drops a prefix of items that have no receiver, and nothing else.
LEMMA CleanUpSuffix ==
    ASSUME NEW q \in Seq(Item)
    PROVE  \E k \in 0 .. Len(q) : /\ CleanUpQueue(q) = SubSeq(q, k + 1, Len(q))
                                  /\ \A i \in 1 .. k : q[i].to = Cleared
<1> DEFINE P(n) == /\ n <= Len(q) => q[n].to # Cleared
                   /\ \A k \in 1 .. n - 1 : q[k].to = Cleared
           T == {n \in 1 .. Len(q) + 1 : n <= Len(q) => q[n].to # Cleared}
<1>1. Len(q) \in Nat
  OBVIOUS
<1>2. T \in SUBSET Nat /\ T # {}
  <2>1. Len(q) + 1 \in T
    BY <1>1
  <2> QED
    BY <2>1
<1>3. PICK n \in T : \A m \in T : n <= m
  BY <1>2, LeastNat
<1>4. \E m \in 1 .. Len(q) + 1 : P(m)
  <2>1. \A k \in 1 .. n - 1 : k \notin T
    BY <1>1, <1>3
  <2>2. \A k \in 1 .. n - 1 : q[k].to = Cleared
    BY <1>1, <1>3, <2>1
  <2> QED
    BY <1>3, <2>2
<1> DEFINE first == CHOOSE m \in 1 .. Len(q) + 1 : P(m)
<1>5. first \in 1 .. Len(q) + 1 /\ P(first)
  <2> HIDE DEF P
  <2> QED
    BY <1>4
<1>6. CleanUpQueue(q) = SubSeq(q, first, Len(q))
  BY DEF CleanUpQueue
<1> HIDE DEF first
<1>7. first - 1 \in 0 .. Len(q) /\ (first - 1) + 1 = first
  BY <1>1, <1>5
<1>8. \A i \in 1 .. first - 1 : q[i].to = Cleared
  BY <1>5
<1> QED
  BY <1>6, <1>7, <1>8

\* The queue as queueFull leaves it.
LEMMA AfterQueueFullSuffix ==
    ASSUME NEW q \in Seq(Item)
    PROVE  \E k \in 0 .. Len(q) : /\ AfterQueueFull(q) \in Seq(Item)
                                  /\ Len(AfterQueueFull(q)) = Len(q) - k
                                  /\ \A i \in 1 .. Len(q) - k : AfterQueueFull(q)[i] = q[i + k]
                                  /\ \A i \in 1 .. k : q[i].to = Cleared
<1>1. CASE AfterQueueFull(q) = q
  <2>1. 0 \in 0 .. Len(q) /\ \A i \in 1 .. Len(q) : q[i] = q[i + 0]
    OBVIOUS
  <2> QED
    BY <1>1, <2>1
<1>2. CASE AfterQueueFull(q) = CleanUpQueue(q)
  <2>1. PICK k \in 0 .. Len(q) : /\ CleanUpQueue(q) = SubSeq(q, k + 1, Len(q))
                                 /\ \A i \in 1 .. k : q[i].to = Cleared
    BY CleanUpSuffix
  <2>2. \A i \in k + 1 .. Len(q) : q[i] \in Item
    BY ElementOfSeq
  <2>3. /\ SubSeq(q, k + 1, Len(q)) \in Seq(Item)
        /\ Len(SubSeq(q, k + 1, Len(q))) = IF k + 1 <= Len(q) THEN Len(q) - (k + 1) + 1 ELSE 0
        /\ \A i \in 1 .. Len(q) - (k + 1) + 1 : SubSeq(q, k + 1, Len(q))[i] = q[k + 1 + i - 1]
    BY <2>2, SubSeqProperties
  <2> QED
    BY <1>2, <2>1, <2>3
<1> QED
  BY <1>1, <1>2 DEF AfterQueueFull

\* What Enqueue leaves: the queue without k leading items that had no receiver
\* and, unless it is refused, the new item at the end.
LEMMA EnqueueResult ==
    ASSUME NEW q \in Seq(Item), Len(q) <= QueueLimit, NEW it \in Item
    PROVE  /\ Enqueue(q, it) \in Seq(Item) /\ Len(Enqueue(q, it)) <= QueueLimit
           /\ \E k \in 0 .. Len(q) :
                 /\ \A i \in 1 .. k : q[i].to = Cleared
                 /\ \A i \in 1 .. Len(q) - k : Enqueue(q, it)[i] = q[i + k]
                 /\ Len(Enqueue(q, it)) = IF Refused(q) THEN Len(q) - k ELSE Len(q) - k + 1
                 /\ ~Refused(q) => Enqueue(q, it)[Len(q) - k + 1] = it
<1> USE WebSocketsAssumption
<1> DEFINE r == AfterQueueFull(q)
<1>1. PICK k \in 0 .. Len(q) : /\ r \in Seq(Item)
                               /\ Len(r) = Len(q) - k
                               /\ \A i \in 1 .. Len(q) - k : r[i] = q[i + k]
                               /\ \A i \in 1 .. k : q[i].to = Cleared
  BY AfterQueueFullSuffix
<1>2. Enqueue(q, it) = IF Refused(q) THEN r ELSE Append(r, it)
  BY <1>1 DEF Enqueue, Refused
<1>3. ~Refused(q) => Len(r) < QueueLimit
  BY <1>1 DEF Refused
<1> HIDE DEF r
<1> DEFINE e == Enqueue(q, it)
<1>4. e \in Seq(Item) /\ Len(e) <= QueueLimit
  BY <1>1, <1>2, <1>3, AppendProperties
<1>5. Len(e) = IF Refused(q) THEN Len(q) - k ELSE Len(q) - k + 1
  BY <1>1, <1>2, <1>3, AppendProperties
<1>6. \A i \in 1 .. Len(q) - k : e[i] = q[i + k]
  BY <1>1, <1>2, AppendProperties
<1>7. ~Refused(q) => e[Len(q) - k + 1] = it
  <2>1. Append(r, it)[Len(r) + 1] = it
    BY <1>1, AppendProperties
  <2> QED
    BY <1>1, <1>2, <2>1
<1> HIDE DEF e
<1>8. /\ \A i \in 1 .. k : q[i].to = Cleared
      /\ \A i \in 1 .. Len(q) - k : e[i] = q[i + k]
      /\ Len(e) = IF Refused(q) THEN Len(q) - k ELSE Len(q) - k + 1
      /\ ~Refused(q) => e[Len(q) - k + 1] = it
  BY <1>1, <1>5, <1>6, <1>7
<1> QED
  BY <1>4, <1>8 DEF e


\* Taking receivers away changes nothing else.
LEMMA UnaddressResult ==
    ASSUME NEW q \in Seq(Item), NEW fs
    PROVE  /\ Unaddress(q, fs) \in Seq(Item) /\ Len(Unaddress(q, fs)) = Len(q)
           /\ \A i \in DOMAIN q :
                 /\ Unaddress(q, fs)[i].to = IF q[i].to \in fs THEN Cleared ELSE q[i].to
                 /\ Unaddress(q, fs)[i].state = q[i].state
                 /\ Unaddress(q, fs)[i].version = q[i].version
                 /\ Unaddress(q, fs)[i].for = q[i].for
                 /\ Unaddress(q, fs)[i].live = q[i].live
<1> DEFINE u == Unaddress(q, fs)
<1>1. Len(q) \in Nat /\ DOMAIN q = 1 .. Len(q) /\ \A i \in 1 .. Len(q) : q[i] \in Item
  OBVIOUS
<1>2. u = [i \in 1 .. Len(q) |-> IF q[i].to \in fs THEN [q[i] EXCEPT !.to = Cleared] ELSE q[i]]
  BY <1>1 DEF Unaddress
<1>3. \A i \in 1 .. Len(q) : u[i] \in Item
  BY <1>1, <1>2 DEF Item
<1>4. u \in [1 .. Len(q) -> Item]
  BY <1>2, <1>3
<1>5. u \in Seq(Item) /\ Len(u) = Len(q)
  BY <1>1, <1>4
<1>6. \A i \in 1 .. Len(q) : /\ u[i].to = IF q[i].to \in fs THEN Cleared ELSE q[i].to
                             /\ u[i].state = q[i].state
                             /\ u[i].version = q[i].version
                             /\ u[i].for = q[i].for
                             /\ u[i].live = q[i].live
  BY <1>1, <1>2 DEF Item
<1> QED
  BY <1>1, <1>5, <1>6

\* So does sending the first item.
LEMMA TailResult ==
    ASSUME NEW q \in Seq(Item), q # <<>>
    PROVE  /\ Tail(q) \in Seq(Item) /\ Len(Tail(q)) = Len(q) - 1 /\ Len(q) > 0
           /\ \A i \in 1 .. Len(q) - 1 : Tail(q)[i] = q[i + 1]
           /\ Head(q) = q[1] /\ Head(q) \in Item
  BY HeadTailProperties

\* What the main thread remembers to close has its type.
LEMMA PendingType ==
    ASSUME PendingTypeOK, NEW s \in Seq([fd : Fds, for : Conns]), CloseLater(s)
    PROVE  PendingTypeOK'
<1> USE WebSocketsAssumption
<1> DEFINE P == [fd : Fds, for : Conns]
           all == pending \o s
           n == IF Len(all) < MaxClients THEN Len(all) ELSE MaxClients
<1>1. all \in Seq(P) /\ Len(all) \in Nat
  BY ConcatProperties DEF PendingTypeOK
<1>2. pending' = SubSeq(all, 1, n)
  BY DEF CloseLater
<1> HIDE DEF all, P
<1>3. n \in Nat /\ n <= MaxClients /\ n <= Len(all)
  BY <1>1
<1>4. \A i \in 1 .. n : all[i] \in P
  BY <1>1, <1>3, ElementOfSeq
<1> HIDE DEF n
<1>5. SubSeq(all, 1, n) \in Seq(P) /\ Len(SubSeq(all, 1, n)) = IF 1 <= n THEN n - 1 + 1 ELSE 0
  BY <1>3, <1>4, SubSeqProperties
<1> QED
  BY <1>2, <1>3, <1>5 DEF PendingTypeOK, P

-----------------------------------------------------------------------------
(* The inductive invariant. *)

\* The queue holds the current version of a state.
OnItsWay(s) ==
    \E i \in DOMAIN queue : /\ queue[i].to = Broadcast
                            /\ queue[i].state = s
                            /\ queue[i].version = version[s]

\* A client finds, is about to find or will never find the current version of a
\* state: the four ways in which NoUpdateLost can hold for it.
Covered(c, s) ==
    \/ seen[c][s] = version[s]
    \/ updated[s]
    \/ OnItsWay(s)
    \/ <<s, version[s]>> \in dropped

SessionInv ==
    /\ clean \subseteq WsFds
    /\ \A f \in Fds : owner[f] = NoConn => kind[f] = "http"

\* The list of clients is finite and has its room; a client that is being
\* entered has an open session.
ListInv ==
    /\ KeepAliveIsLive /\ SlotIsFree
    /\ IsFiniteSet(keepAlive) /\ Cardinality(keepAlive) <= MaxClients
    /\ http.pc \in {"dump", "add"} => http.fd \in WsFds \ clean

UnicastInv ==
    \A i \in DOMAIN queue :
        queue[i].live /\ queue[i].to # Cleared =>
            queue[i].to \in keepAlive /\ owner[queue[i].to] = queue[i].for

\* Items that carry a state go to everybody, and one that carries an old
\* version is followed by the current one or will be.
ItemInv ==
    \A i \in DOMAIN queue : queue[i].state # 0 =>
        /\ queue[i].to = Broadcast
        /\ \/ queue[i].version = version[queue[i].state]
           \/ updated[queue[i].state]
           \/ \E j \in DOMAIN queue : /\ j > i
                                      /\ queue[j].state = queue[i].state
                                      /\ queue[j].version = version[queue[i].state]
           \/ <<queue[i].state, version[queue[i].state]>> \in dropped

\* The states that a client must not miss: all once it is on the list, those it
\* was sent while its dump goes on.
Owed(c, s) ==
    \/ \E f \in keepAlive : owner[f] = c
    \/ http.pc \in {"dump", "add"} /\ owner[http.fd] = c /\ s < http.next

CoverInv ==
    /\ http.pc = "add" => http.next = NStates + 1
    /\ \A c \in Conns, s \in States : Owed(c, s) => Covered(c, s)

IInv ==
    /\ TypeOK /\ SessionInv /\ ListInv /\ WorkerNotStuck
    /\ UnicastInv /\ ItemInv /\ CoverInv

-----------------------------------------------------------------------------
(* Types. *)

LEMMA TypeInit == Init => TypeOK
<1> SUFFICES ASSUME Init PROVE TypeOK
  OBVIOUS
<1> USE WebSocketsAssumption DEF Init
<1>1. ApiTypeOK
  BY DEF ApiTypeOK, Unseen, States
<1>2. SessionTypeOK
  BY DEF SessionTypeOK
<1>3. QueueTypeOK
  BY DEF QueueTypeOK
<1>4. PendingTypeOK
  BY DEF PendingTypeOK
<1>5. ThreadTypeOK
  <2>1. unasked \in BOOLEAN /\ running \in BOOLEAN
    OBVIOUS
  <2>2. http \in [pc : {"idle", "dump", "add", "work", "done"},
                 fd : Fds \cup {Cleared}, next : 1 .. NStates + 1]
    BY DEF Idle
  <2> QED
    BY <2>1, <2>2 DEF ThreadTypeOK
<1> QED
  BY <1>1, <1>2, <1>3, <1>4, <1>5 DEF TypeOK

LEMMA ApiTypeStep == TypeOK /\ [Next]_vars => ApiTypeOK'
<1> SUFFICES ASSUME TypeOK, [Next]_vars
             PROVE  ApiTypeOK'
  OBVIOUS
<1> USE WebSocketsAssumption DEF TypeOK, ApiTypeOK, sessVars, apiVars, boundVars, httpVars, history
<1>1. ASSUME NEW f \in Fds, NEW c \in Conns, Accept(f, c)
      PROVE  ApiTypeOK'
  BY <1>1 DEF Accept
<1>2. ASSUME NEW f \in Fds, Upgrade(f)
      PROVE  ApiTypeOK'
  BY <1>2 DEF Upgrade, EndSessions
<1>3. ASSUME NEW last \in States, DumpChunk(last)
      PROVE  ApiTypeOK'
  <2>1. seen' \in [Conns -> [States -> 0 .. MaxVersion]]
    <3> DEFINE o == owner[http.fd]
               new == [s \in States |-> IF s \in http.next .. last THEN version[s] ELSE seen[o][s]]
    <3>1. CASE o \in Conns
      <4>1. new \in [States -> 0 .. MaxVersion]
        BY <3>1
      <4>2. seen' = [seen EXCEPT ![o] = new]
        BY <1>3 DEF DumpChunk
      <4> QED
        BY <4>1, <4>2
    <3>2. CASE o \notin Conns
      BY <1>3, <3>2 DEF DumpChunk
    <3> QED
      BY <3>1, <3>2
  <2> QED
    BY <1>3, <2>1 DEF DumpChunk
<1>4. ASSUME DumpFail
      PROVE  ApiTypeOK'
  BY <1>4 DEF DumpFail, EndSessions
<1>5. ASSUME KeepAliveAdd
      PROVE  ApiTypeOK'
  BY <1>5 DEF KeepAliveAdd
<1>6. ASSUME NEW f \in Fds, ReceivedPong(f)
      PROVE  ApiTypeOK'
  BY <1>6 DEF ReceivedPong
<1>7. ASSUME NEW f \in Fds, ReceivedClose(f)
      PROVE  ApiTypeOK'
  BY <1>7 DEF ReceivedClose
<1>8. ASSUME NEW f \in Fds, SessionEnds(f)
      PROVE  ApiTypeOK'
  BY <1>8 DEF SessionEnds, EndSessions
<1>9. ASSUME NEW f \in Fds, PongIsLate(f)
      PROVE  ApiTypeOK'
  BY <1>9 DEF PongIsLate
<1>10. ASSUME WorkStart
      PROVE  ApiTypeOK'
  BY <1>10 DEF WorkStart, EndSessions
<1>11. ASSUME WorkItem
      PROVE  ApiTypeOK'
  <2>1. queue \in Seq(Item) /\ queue # <<>>
    BY <1>11 DEF WorkItem, QueueTypeOK
  <2>2. Head(queue) \in Item
    BY <2>1, TailResult
  <2>3. Head(queue).state \in 0 .. NStates /\ Head(queue).version \in 0 .. MaxVersion
    BY <2>2 DEF Item
  <2>4. seen' \in [Conns -> [States -> 0 .. MaxVersion]]
    BY <1>11, <2>3 DEF WorkItem, States
  <2> QED
    BY <1>11, <2>4 DEF WorkItem
<1>12. ASSUME WorkEmpty
      PROVE  ApiTypeOK'
  BY <1>12 DEF WorkEmpty
<1>13. ASSUME WorkDone
      PROVE  ApiTypeOK'
  BY <1>13 DEF WorkDone
<1>14. ASSUME NEW s \in States, UpdateState(s)
      PROVE  ApiTypeOK'
  BY <1>14 DEF UpdateState
<1>15. ASSUME NEW s \in States, PushState(s)
      PROVE  ApiTypeOK'
  <2>1. Refused(queue) \in BOOLEAN
    BY DEF Refused
  <2>2. updated' \in [States -> BOOLEAN]
    BY <1>15, <2>1 DEF PushState
  <2>3. <<s, version[s]>> \in States \X (1 .. MaxVersion)
    OBVIOUS
  <2>4. dropped' \subseteq States \X (1 .. MaxVersion)
    BY <1>15, <2>3 DEF PushState
  <2> QED
    BY <1>15, <2>2, <2>4 DEF PushState
<1>16. ASSUME SendPing
      PROVE  ApiTypeOK'
  BY <1>16 DEF SendPing
<1>17. ASSUME NEW c \in Conns, SendToClient(c)
      PROVE  ApiTypeOK'
  BY <1>17 DEF SendToClient
<1>18. ASSUME NEW c \in Conns, LearnDisconnect(c)
      PROVE  ApiTypeOK'
  BY <1>18 DEF LearnDisconnect
<1>19. ASSUME NEW c \in Conns, CloseAsync(c)
      PROVE  ApiTypeOK'
  BY <1>19 DEF CloseAsync, CloseLater
<1>20. ASSUME TriggerHttpThread
      PROVE  ApiTypeOK'
  BY <1>20 DEF TriggerHttpThread
<1>21. ASSUME QueueWork
      PROVE  ApiTypeOK'
  BY <1>21 DEF QueueWork
<1>22. ASSUME Stop
      PROVE  ApiTypeOK'
  BY <1>22 DEF Stop
<1>23. ASSUME StopEnd
      PROVE  ApiTypeOK'
  BY <1>23 DEF StopEnd, CloseLater
<1>24. ASSUME Start
      PROVE  ApiTypeOK'
  BY <1>24 DEF Start
<1>25. CASE UNCHANGED vars
  BY <1>25 DEF vars
<1>26. ASSUME NEW f \in Fds, HandshakeFails(f)
      PROVE  ApiTypeOK'
  BY <1>26 DEF HandshakeFails, EndSessions
<1>27. QED
  BY <1>1, <1>2, <1>3, <1>4, <1>5, <1>6, <1>7, <1>8, <1>9, <1>10, <1>11, <1>12, <1>13, <1>14,
      <1>15, <1>16, <1>17, <1>18, <1>19, <1>20, <1>21, <1>22, <1>23, <1>24, <1>25, <1>26
     DEF Next, HttpThread, MainThread, Clients, Worker, PokeLocalhost

LEMMA SessionTypeStep == TypeOK /\ ListInv /\ [Next]_vars => SessionTypeOK'
<1> SUFFICES ASSUME TypeOK, ListInv, [Next]_vars
             PROVE  SessionTypeOK'
  OBVIOUS
<1> USE WebSocketsAssumption DEF TypeOK, SessionTypeOK, sessVars, apiVars, boundVars, httpVars, history
<1>1. ASSUME NEW f \in Fds, NEW c \in Conns, Accept(f, c)
      PROVE  SessionTypeOK'
  BY <1>1 DEF Accept
<1>2. ASSUME NEW f \in Fds, Upgrade(f)
      PROVE  SessionTypeOK'
  BY <1>2 DEF Upgrade, EndSessions, Evicted, Victims
<1>3. ASSUME NEW last \in States, DumpChunk(last)
      PROVE  SessionTypeOK'
  BY <1>3 DEF DumpChunk, ThreadTypeOK, Idle
<1>4. ASSUME DumpFail
      PROVE  SessionTypeOK'
  BY <1>4 DEF DumpFail, EndSessions, ThreadTypeOK
<1>5. ASSUME KeepAliveAdd
      PROVE  SessionTypeOK'
  BY <1>5 DEF KeepAliveAdd, ListInv, WsFds
<1>6. ASSUME NEW f \in Fds, ReceivedPong(f)
      PROVE  SessionTypeOK'
  BY <1>6 DEF ReceivedPong
<1>7. ASSUME NEW f \in Fds, ReceivedClose(f)
      PROVE  SessionTypeOK'
  BY <1>7 DEF ReceivedClose
<1>8. ASSUME NEW f \in Fds, SessionEnds(f)
      PROVE  SessionTypeOK'
  BY <1>8 DEF SessionEnds, EndSessions
<1>9. ASSUME NEW f \in Fds, PongIsLate(f)
      PROVE  SessionTypeOK'
  BY <1>9 DEF PongIsLate
<1>10. ASSUME WorkStart
      PROVE  SessionTypeOK'
  BY <1>10 DEF WorkStart, EndSessions
<1>11. ASSUME WorkItem
      PROVE  SessionTypeOK'
  BY <1>11 DEF WorkItem, EndSessions
<1>12. ASSUME WorkEmpty
      PROVE  SessionTypeOK'
  BY <1>12 DEF WorkEmpty
<1>13. ASSUME WorkDone
      PROVE  SessionTypeOK'
  BY <1>13 DEF WorkDone
<1>14. ASSUME NEW s \in States, UpdateState(s)
      PROVE  SessionTypeOK'
  BY <1>14 DEF UpdateState
<1>15. ASSUME NEW s \in States, PushState(s)
      PROVE  SessionTypeOK'
  BY <1>15 DEF PushState
<1>16. ASSUME SendPing
      PROVE  SessionTypeOK'
  BY <1>16 DEF SendPing
<1>17. ASSUME NEW c \in Conns, SendToClient(c)
      PROVE  SessionTypeOK'
  BY <1>17 DEF SendToClient
<1>18. ASSUME NEW c \in Conns, LearnDisconnect(c)
      PROVE  SessionTypeOK'
  BY <1>18 DEF LearnDisconnect
<1>19. ASSUME NEW c \in Conns, CloseAsync(c)
      PROVE  SessionTypeOK'
  BY <1>19 DEF CloseAsync, CloseLater
<1>20. ASSUME TriggerHttpThread
      PROVE  SessionTypeOK'
  BY <1>20 DEF TriggerHttpThread
<1>21. ASSUME QueueWork
      PROVE  SessionTypeOK'
  BY <1>21 DEF QueueWork
<1>22. ASSUME Stop
      PROVE  SessionTypeOK'
  BY <1>22 DEF Stop
<1>23. ASSUME StopEnd
      PROVE  SessionTypeOK'
  BY <1>23 DEF StopEnd, CloseLater
<1>24. ASSUME Start
      PROVE  SessionTypeOK'
  BY <1>24 DEF Start
<1>25. CASE UNCHANGED vars
  BY <1>25 DEF vars
<1>26. ASSUME NEW f \in Fds, HandshakeFails(f)
      PROVE  SessionTypeOK'
  BY <1>26 DEF HandshakeFails, EndSessions, Evicted, Victims
<1>27. QED
  BY <1>1, <1>2, <1>3, <1>4, <1>5, <1>6, <1>7, <1>8, <1>9, <1>10, <1>11, <1>12, <1>13, <1>14,
      <1>15, <1>16, <1>17, <1>18, <1>19, <1>20, <1>21, <1>22, <1>23, <1>24, <1>25, <1>26
     DEF Next, HttpThread, MainThread, Clients, Worker, PokeLocalhost

LEMMA QueueTypeStep == TypeOK /\ [Next]_vars => QueueTypeOK'
<1> SUFFICES ASSUME TypeOK, [Next]_vars
             PROVE  QueueTypeOK'
  OBVIOUS
<1> USE WebSocketsAssumption DEF TypeOK, QueueTypeOK, sessVars, apiVars, boundVars, httpVars, history
<1>1. ASSUME NEW f \in Fds, NEW c \in Conns, Accept(f, c)
      PROVE  QueueTypeOK'
  BY <1>1, UnaddressResult DEF Accept
<1>2. ASSUME NEW f \in Fds, Upgrade(f)
      PROVE  QueueTypeOK'
  BY <1>2, UnaddressResult DEF Upgrade, EndSessions
<1>3. ASSUME NEW last \in States, DumpChunk(last)
      PROVE  QueueTypeOK'
  BY <1>3, UnaddressResult DEF DumpChunk
<1>4. ASSUME DumpFail
      PROVE  QueueTypeOK'
  BY <1>4, UnaddressResult DEF DumpFail, EndSessions
<1>5. ASSUME KeepAliveAdd
      PROVE  QueueTypeOK'
  BY <1>5, UnaddressResult DEF KeepAliveAdd
<1>6. ASSUME NEW f \in Fds, ReceivedPong(f)
      PROVE  QueueTypeOK'
  BY <1>6, UnaddressResult DEF ReceivedPong
<1>7. ASSUME NEW f \in Fds, ReceivedClose(f)
      PROVE  QueueTypeOK'
  BY <1>7, UnaddressResult DEF ReceivedClose
<1>8. ASSUME NEW f \in Fds, SessionEnds(f)
      PROVE  QueueTypeOK'
  BY <1>8, UnaddressResult DEF SessionEnds, EndSessions
<1>9. ASSUME NEW f \in Fds, PongIsLate(f)
      PROVE  QueueTypeOK'
  BY <1>9, UnaddressResult DEF PongIsLate
<1>10. ASSUME WorkStart
      PROVE  QueueTypeOK'
  BY <1>10, UnaddressResult DEF WorkStart, EndSessions
<1>11. ASSUME WorkItem
      PROVE  QueueTypeOK'
  <2>1. Tail(queue) \in Seq(Item) /\ Len(Tail(queue)) = Len(queue) - 1 /\ Len(queue) \in Nat
    BY <1>11, TailResult DEF WorkItem
  <2> QED
    <3>1. PICK failed \in SUBSET Receivers(Head(queue)) :
                  EndSessions(failed, failed, kind, Tail(queue))
      BY <1>11 DEF WorkItem
    <3> DEFINE t == Tail(queue)
    <3>2. queue' = Unaddress(t, failed)
      BY <3>1 DEF EndSessions
    <3>3. t \in Seq(Item) /\ Len(t) = Len(queue) - 1
      BY <2>1
    <3> HIDE DEF t
    <3>4. Unaddress(t, failed) \in Seq(Item) /\ Len(Unaddress(t, failed)) = Len(t)
      BY <3>3, UnaddressResult
    <3> QED
      BY <2>1, <3>2, <3>3, <3>4
<1>12. ASSUME WorkEmpty
      PROVE  QueueTypeOK'
  BY <1>12, UnaddressResult DEF WorkEmpty
<1>13. ASSUME WorkDone
      PROVE  QueueTypeOK'
  BY <1>13, UnaddressResult DEF WorkDone
<1>14. ASSUME NEW s \in States, UpdateState(s)
      PROVE  QueueTypeOK'
  BY <1>14, UnaddressResult DEF UpdateState
<1>15. ASSUME NEW s \in States, PushState(s)
      PROVE  QueueTypeOK'
  <2>1. BroadcastItem(s, version[s]) \in Item
    BY DEF BroadcastItem, Item, ApiTypeOK, States
  <2> QED
    BY <1>15, <2>1, EnqueueResult DEF PushState
<1>16. ASSUME SendPing
      PROVE  QueueTypeOK'
  <2>1. BroadcastItem(0, 0) \in Item
    BY DEF BroadcastItem, Item
  <2> QED
    BY <1>16, <2>1, EnqueueResult DEF SendPing
<1>17. ASSUME NEW c \in Conns, SendToClient(c)
      PROVE  QueueTypeOK'
  <2>1. [to |-> known[c], state |-> 0, version |-> 0, for |-> c,
         live |-> known[c] \in keepAlive /\ owner[known[c]] = c] \in Item
    BY DEF Item, SessionTypeOK
  <2> QED
    BY <1>17, <2>1, EnqueueResult DEF SendToClient
<1>18. ASSUME NEW c \in Conns, LearnDisconnect(c)
      PROVE  QueueTypeOK'
  BY <1>18, UnaddressResult DEF LearnDisconnect
<1>19. ASSUME NEW c \in Conns, CloseAsync(c)
      PROVE  QueueTypeOK'
  BY <1>19, UnaddressResult DEF CloseAsync, CloseLater
<1>20. ASSUME TriggerHttpThread
      PROVE  QueueTypeOK'
  BY <1>20, UnaddressResult DEF TriggerHttpThread
<1>21. ASSUME QueueWork
      PROVE  QueueTypeOK'
  BY <1>21, UnaddressResult DEF QueueWork
<1>22. ASSUME Stop
      PROVE  QueueTypeOK'
  <2>1. BroadcastItem(0, 0) \in Item
    BY DEF BroadcastItem, Item
  <2> QED
    BY <1>22, <2>1, EnqueueResult DEF Stop
<1>23. ASSUME StopEnd
      PROVE  QueueTypeOK'
  BY <1>23, UnaddressResult DEF StopEnd, CloseLater
<1>24. ASSUME Start
      PROVE  QueueTypeOK'
  BY <1>24, UnaddressResult DEF Start
<1>25. CASE UNCHANGED vars
  BY <1>25, UnaddressResult DEF vars
<1>26. ASSUME NEW f \in Fds, HandshakeFails(f)
      PROVE  QueueTypeOK'
  BY <1>26, UnaddressResult DEF HandshakeFails, EndSessions
<1>27. QED
  BY <1>1, <1>2, <1>3, <1>4, <1>5, <1>6, <1>7, <1>8, <1>9, <1>10, <1>11, <1>12, <1>13, <1>14,
      <1>15, <1>16, <1>17, <1>18, <1>19, <1>20, <1>21, <1>22, <1>23, <1>24, <1>25, <1>26
     DEF Next, HttpThread, MainThread, Clients, Worker, PokeLocalhost

LEMMA PendingTypeStep == TypeOK /\ ListInv /\ [Next]_vars => PendingTypeOK'
<1> SUFFICES ASSUME TypeOK, ListInv, [Next]_vars
             PROVE  PendingTypeOK'
  OBVIOUS
<1> USE WebSocketsAssumption DEF TypeOK, sessVars, apiVars, boundVars, httpVars, history
<1>1. ASSUME NEW f \in Fds, NEW c \in Conns, Accept(f, c)
      PROVE  PendingTypeOK'
  BY <1>1 DEF Accept, PendingTypeOK
<1>2. ASSUME NEW f \in Fds, Upgrade(f)
      PROVE  PendingTypeOK'
  BY <1>2 DEF Upgrade, EndSessions, PendingTypeOK
<1>3. ASSUME NEW last \in States, DumpChunk(last)
      PROVE  PendingTypeOK'
  BY <1>3 DEF DumpChunk, PendingTypeOK
<1>4. ASSUME DumpFail
      PROVE  PendingTypeOK'
  BY <1>4 DEF DumpFail, EndSessions, PendingTypeOK
<1>5. ASSUME KeepAliveAdd
      PROVE  PendingTypeOK'
  BY <1>5 DEF KeepAliveAdd, PendingTypeOK
<1>6. ASSUME NEW f \in Fds, ReceivedPong(f)
      PROVE  PendingTypeOK'
  BY <1>6 DEF ReceivedPong, PendingTypeOK
<1>7. ASSUME NEW f \in Fds, ReceivedClose(f)
      PROVE  PendingTypeOK'
  BY <1>7 DEF ReceivedClose, PendingTypeOK
<1>8. ASSUME NEW f \in Fds, SessionEnds(f)
      PROVE  PendingTypeOK'
  BY <1>8 DEF SessionEnds, EndSessions, PendingTypeOK
<1>9. ASSUME NEW f \in Fds, PongIsLate(f)
      PROVE  PendingTypeOK'
  BY <1>9 DEF PongIsLate, PendingTypeOK
<1>10. ASSUME WorkStart
      PROVE  PendingTypeOK'
  BY <1>10 DEF WorkStart, EndSessions, PendingTypeOK
<1>11. ASSUME WorkItem
      PROVE  PendingTypeOK'
  BY <1>11 DEF WorkItem, EndSessions, PendingTypeOK
<1>12. ASSUME WorkEmpty
      PROVE  PendingTypeOK'
  BY <1>12 DEF WorkEmpty, PendingTypeOK
<1>13. ASSUME WorkDone
      PROVE  PendingTypeOK'
  BY <1>13 DEF WorkDone, PendingTypeOK
<1>14. ASSUME NEW s \in States, UpdateState(s)
      PROVE  PendingTypeOK'
  BY <1>14 DEF UpdateState, PendingTypeOK
<1>15. ASSUME NEW s \in States, PushState(s)
      PROVE  PendingTypeOK'
  BY <1>15 DEF PushState, PendingTypeOK
<1>16. ASSUME SendPing
      PROVE  PendingTypeOK'
  BY <1>16 DEF SendPing, PendingTypeOK
<1>17. ASSUME NEW c \in Conns, SendToClient(c)
      PROVE  PendingTypeOK'
  BY <1>17 DEF SendToClient, PendingTypeOK
<1>18. ASSUME NEW c \in Conns, LearnDisconnect(c)
      PROVE  PendingTypeOK'
  BY <1>18 DEF LearnDisconnect, PendingTypeOK
<1>19. ASSUME NEW c \in Conns, CloseAsync(c)
      PROVE  PendingTypeOK'
  <2>1. [fd |-> known[c], for |-> c] \in [fd : Fds, for : Conns]
    BY <1>19 DEF CloseAsync, SessionTypeOK
  <2>2. <<[fd |-> known[c], for |-> c]>> \in Seq([fd : Fds, for : Conns])
    BY <2>1
  <2> QED
    BY <1>19, <2>2, PendingType DEF CloseAsync
<1>20. ASSUME TriggerHttpThread
      PROVE  PendingTypeOK'
  BY <1>20 DEF TriggerHttpThread, PendingTypeOK
<1>21. ASSUME QueueWork
      PROVE  PendingTypeOK'
  BY <1>21 DEF QueueWork, PendingTypeOK
<1>22. ASSUME Stop
      PROVE  PendingTypeOK'
  BY <1>22 DEF Stop, PendingTypeOK
<1>23. ASSUME StopEnd
      PROVE  PendingTypeOK'
  <2>1. PICK s \in [1 .. Cardinality(keepAlive) -> keepAlive] :
                CloseLater([i \in DOMAIN s |-> [fd |-> s[i], for |-> owner[s[i]]]])
    BY <1>23 DEF StopEnd
  <2>2. Cardinality(keepAlive) \in Nat
    BY FS_CardinalityType DEF ListInv
  <2>3. \A f \in keepAlive : f \in Fds /\ owner[f] \in Conns
    BY DEF ListInv, KeepAliveIsLive, WsFds, SessionTypeOK
  <2>4. [i \in DOMAIN s |-> [fd |-> s[i], for |-> owner[s[i]]]]
            \in Seq([fd : Fds, for : Conns])
    <3> DEFINE n == Cardinality(keepAlive)
               P == [fd : Fds, for : Conns]
               e == [i \in DOMAIN s |-> [fd |-> s[i], for |-> owner[s[i]]]]
    <3>1. DOMAIN s = 1 .. n /\ \A i \in 1 .. n : s[i] \in keepAlive
      BY <2>1
    <3>2. \A i \in 1 .. n : [fd |-> s[i], for |-> owner[s[i]]] \in P
      BY <2>3, <3>1
    <3>3. e \in [1 .. n -> P]
      BY <3>1, <3>2
    <3> HIDE DEF n, P, e
    <3>4. e \in Seq(P)
      BY <2>2, <3>3 DEF n
    <3> QED
      BY <3>4 DEF e, P
  <2> QED
    BY <2>1, <2>4, PendingType
<1>24. ASSUME Start
      PROVE  PendingTypeOK'
  BY <1>24 DEF Start, PendingTypeOK
<1>25. CASE UNCHANGED vars
  BY <1>25 DEF vars, PendingTypeOK
<1>26. ASSUME NEW f \in Fds, HandshakeFails(f)
      PROVE  PendingTypeOK'
  BY <1>26 DEF HandshakeFails, EndSessions, PendingTypeOK
<1>27. QED
  BY <1>1, <1>2, <1>3, <1>4, <1>5, <1>6, <1>7, <1>8, <1>9, <1>10, <1>11, <1>12, <1>13, <1>14,
      <1>15, <1>16, <1>17, <1>18, <1>19, <1>20, <1>21, <1>22, <1>23, <1>24, <1>25, <1>26
     DEF Next, HttpThread, MainThread, Clients, Worker, PokeLocalhost

LEMMA ThreadTypeStep == TypeOK /\ [Next]_vars => ThreadTypeOK'
<1> SUFFICES ASSUME TypeOK, [Next]_vars
             PROVE  ThreadTypeOK'
  OBVIOUS
<1> USE WebSocketsAssumption DEF TypeOK, ThreadTypeOK, Idle, States, sessVars, apiVars,
    boundVars, httpVars, history
<1>1. ASSUME NEW f \in Fds, NEW c \in Conns, Accept(f, c)
      PROVE  ThreadTypeOK'
  BY <1>1 DEF Accept
<1>2. ASSUME NEW f \in Fds, Upgrade(f)
      PROVE  ThreadTypeOK'
  <2>1. http' = [pc |-> "dump", fd |-> f, next |-> 1]
    BY <1>2 DEF Upgrade
  <2> QED
    BY <1>2, <2>1 DEF Upgrade
<1>3. ASSUME NEW last \in States, DumpChunk(last)
      PROVE  ThreadTypeOK'
  <2>1. http' \in [pc : {"dump", "add"}, fd : Fds \cup {Cleared}, next : 1 .. NStates + 1]
    <3>1. last + 1 \in 1 .. NStates + 1
      OBVIOUS
    <3> QED
      BY <1>3, <3>1 DEF DumpChunk
  <2> QED
    BY <1>3, <2>1 DEF DumpChunk
<1>4. ASSUME DumpFail
      PROVE  ThreadTypeOK'
  BY <1>4 DEF DumpFail, EndSessions
<1>5. ASSUME KeepAliveAdd
      PROVE  ThreadTypeOK'
  BY <1>5 DEF KeepAliveAdd
<1>6. ASSUME NEW f \in Fds, ReceivedPong(f)
      PROVE  ThreadTypeOK'
  BY <1>6 DEF ReceivedPong
<1>7. ASSUME NEW f \in Fds, ReceivedClose(f)
      PROVE  ThreadTypeOK'
  BY <1>7 DEF ReceivedClose
<1>8. ASSUME NEW f \in Fds, SessionEnds(f)
      PROVE  ThreadTypeOK'
  BY <1>8 DEF SessionEnds, EndSessions
<1>9. ASSUME NEW f \in Fds, PongIsLate(f)
      PROVE  ThreadTypeOK'
  BY <1>9 DEF PongIsLate
<1>10. ASSUME WorkStart
      PROVE  ThreadTypeOK'
  BY SMTT(20), <1>10 DEF WorkStart, EndSessions
<1>11. ASSUME WorkItem
      PROVE  ThreadTypeOK'
  BY <1>11 DEF WorkItem, EndSessions
<1>12. ASSUME WorkEmpty
      PROVE  ThreadTypeOK'
  BY <1>12 DEF WorkEmpty
<1>13. ASSUME WorkDone
      PROVE  ThreadTypeOK'
  <2>1. http' \in [pc : {"idle", "dump", "add", "work", "done"},
                  fd : Fds \cup {Cleared}, next : 1 .. NStates + 1]
    BY <1>13 DEF WorkDone
  <2>2. unasked' \in BOOLEAN
    BY <1>13 DEF WorkDone
  <2> QED
    BY <1>13, <2>1, <2>2 DEF WorkDone
<1>14. ASSUME NEW s \in States, UpdateState(s)
      PROVE  ThreadTypeOK'
  BY <1>14 DEF UpdateState
<1>15. ASSUME NEW s \in States, PushState(s)
      PROVE  ThreadTypeOK'
  BY <1>15 DEF PushState
<1>16. ASSUME SendPing
      PROVE  ThreadTypeOK'
  BY <1>16 DEF SendPing
<1>17. ASSUME NEW c \in Conns, SendToClient(c)
      PROVE  ThreadTypeOK'
  BY <1>17 DEF SendToClient
<1>18. ASSUME NEW c \in Conns, LearnDisconnect(c)
      PROVE  ThreadTypeOK'
  BY <1>18 DEF LearnDisconnect
<1>19. ASSUME NEW c \in Conns, CloseAsync(c)
      PROVE  ThreadTypeOK'
  BY <1>19 DEF CloseAsync, CloseLater
<1>20. ASSUME TriggerHttpThread
      PROVE  ThreadTypeOK'
  BY <1>20 DEF TriggerHttpThread
<1>21. ASSUME QueueWork
      PROVE  ThreadTypeOK'
  BY <1>21 DEF QueueWork
<1>22. ASSUME Stop
      PROVE  ThreadTypeOK'
  <2>1. stops' \in 0 .. MaxStops /\ calls' \in Nat
    BY <1>22 DEF Stop
  <2> QED
    BY <1>22, <2>1 DEF Stop
<1>23. ASSUME StopEnd
      PROVE  ThreadTypeOK'
  BY <1>23 DEF StopEnd, CloseLater
<1>24. ASSUME Start
      PROVE  ThreadTypeOK'
  BY <1>24 DEF Start
<1>25. CASE UNCHANGED vars
  BY <1>25 DEF vars
<1>26. ASSUME NEW f \in Fds, HandshakeFails(f)
      PROVE  ThreadTypeOK'
  BY <1>26 DEF HandshakeFails, EndSessions
<1>27. QED
  BY <1>1, <1>2, <1>3, <1>4, <1>5, <1>6, <1>7, <1>8, <1>9, <1>10, <1>11, <1>12, <1>13, <1>14,
      <1>15, <1>16, <1>17, <1>18, <1>19, <1>20, <1>21, <1>22, <1>23, <1>24, <1>25, <1>26
     DEF Next, HttpThread, MainThread, Clients, Worker, PokeLocalhost

LEMMA TypeStep == TypeOK /\ ListInv /\ [Next]_vars => TypeOK'
  BY ApiTypeStep, SessionTypeStep, QueueTypeStep, PendingTypeStep, ThreadTypeStep DEF TypeOK

-----------------------------------------------------------------------------
(* Sessions and the list of clients. *)

\* Subsets of the list are finite and no larger.
LEMMA ListShrinks ==
    ASSUME NEW K, IsFiniteSet(K), NEW L \in SUBSET K
    PROVE  IsFiniteSet(L) /\ Cardinality(L) <= Cardinality(K) /\ Cardinality(L) \in Nat
  BY FS_Subset, FS_CardinalityType

LEMMA SessionStep == TypeOK /\ SessionInv /\ ListInv /\ [Next]_vars => SessionInv'
<1> SUFFICES ASSUME TypeOK, SessionInv, ListInv, [Next]_vars
             PROVE  SessionInv'
  OBVIOUS
<1> USE WebSocketsAssumption DEF TypeOK, SessionTypeOK, SessionInv, WsFds, sessVars, apiVars,
    boundVars, httpVars, history
<1>1. ASSUME NEW f \in Fds, NEW c \in Conns, Accept(f, c)
      PROVE  SessionInv'
  BY <1>1 DEF Accept
<1>2. ASSUME NEW f \in Fds, Upgrade(f)
      PROVE  SessionInv'
  BY <1>2 DEF Upgrade, EndSessions, Evicted, Victims, ListInv, KeepAliveIsLive
<1>3. ASSUME NEW last \in States, DumpChunk(last)
      PROVE  SessionInv'
  BY <1>3 DEF DumpChunk
<1>4. ASSUME DumpFail
      PROVE  SessionInv'
  BY <1>4 DEF DumpFail, EndSessions
<1>5. ASSUME KeepAliveAdd
      PROVE  SessionInv'
  BY <1>5 DEF KeepAliveAdd
<1>6. ASSUME NEW f \in Fds, ReceivedPong(f)
      PROVE  SessionInv'
  BY <1>6 DEF ReceivedPong
<1>7. ASSUME NEW f \in Fds, ReceivedClose(f)
      PROVE  SessionInv'
  BY <1>7 DEF ReceivedClose
<1>8. ASSUME NEW f \in Fds, SessionEnds(f)
      PROVE  SessionInv'
  BY <1>8 DEF SessionEnds, EndSessions
<1>9. ASSUME NEW f \in Fds, PongIsLate(f)
      PROVE  SessionInv'
  BY <1>9 DEF PongIsLate
<1>10. ASSUME WorkStart
      PROVE  SessionInv'
  BY <1>10 DEF WorkStart, EndSessions
<1>11. ASSUME WorkItem
      PROVE  SessionInv'
  BY <1>11 DEF WorkItem, EndSessions
<1>12. ASSUME WorkEmpty
      PROVE  SessionInv'
  BY <1>12 DEF WorkEmpty
<1>13. ASSUME WorkDone
      PROVE  SessionInv'
  BY <1>13 DEF WorkDone
<1>14. ASSUME NEW s \in States, UpdateState(s)
      PROVE  SessionInv'
  BY <1>14 DEF UpdateState
<1>15. ASSUME NEW s \in States, PushState(s)
      PROVE  SessionInv'
  BY <1>15 DEF PushState
<1>16. ASSUME SendPing
      PROVE  SessionInv'
  BY <1>16 DEF SendPing
<1>17. ASSUME NEW c \in Conns, SendToClient(c)
      PROVE  SessionInv'
  BY <1>17 DEF SendToClient
<1>18. ASSUME NEW c \in Conns, LearnDisconnect(c)
      PROVE  SessionInv'
  BY <1>18 DEF LearnDisconnect
<1>19. ASSUME NEW c \in Conns, CloseAsync(c)
      PROVE  SessionInv'
  BY <1>19 DEF CloseAsync, CloseLater
<1>20. ASSUME TriggerHttpThread
      PROVE  SessionInv'
  BY <1>20 DEF TriggerHttpThread
<1>21. ASSUME QueueWork
      PROVE  SessionInv'
  BY <1>21 DEF QueueWork
<1>22. ASSUME Stop
      PROVE  SessionInv'
  BY <1>22 DEF Stop
<1>23. ASSUME StopEnd
      PROVE  SessionInv'
  BY <1>23 DEF StopEnd, CloseLater
<1>24. ASSUME Start
      PROVE  SessionInv'
  BY <1>24 DEF Start
<1>25. CASE UNCHANGED vars
  BY <1>25 DEF vars
<1>26. ASSUME NEW f \in Fds, HandshakeFails(f)
      PROVE  SessionInv'
  BY <1>26 DEF HandshakeFails, EndSessions
<1>27. QED
  BY <1>1, <1>2, <1>3, <1>4, <1>5, <1>6, <1>7, <1>8, <1>9, <1>10, <1>11, <1>12, <1>13, <1>14,
      <1>15, <1>16, <1>17, <1>18, <1>19, <1>20, <1>21, <1>22, <1>23, <1>24, <1>25, <1>26
     DEF Next, HttpThread, MainThread, Clients, Worker, PokeLocalhost

LEMMA LiveStep == TypeOK /\ SessionInv /\ ListInv /\ [Next]_vars => KeepAliveIsLive'
<1> SUFFICES ASSUME TypeOK, SessionInv, ListInv, [Next]_vars
             PROVE  KeepAliveIsLive'
  OBVIOUS
<1> USE WebSocketsAssumption DEF KeepAliveIsLive, ListInv, TypeOK, SessionTypeOK, SessionInv,
    WsFds, sessVars, apiVars, boundVars, httpVars, history
<1>1. ASSUME NEW f \in Fds, NEW c \in Conns, Accept(f, c)
      PROVE  KeepAliveIsLive'
  BY <1>1 DEF Accept
<1>2. ASSUME NEW f \in Fds, Upgrade(f)
      PROVE  KeepAliveIsLive'
  BY <1>2 DEF Upgrade, EndSessions, Evicted, Victims
<1>3. ASSUME NEW last \in States, DumpChunk(last)
      PROVE  KeepAliveIsLive'
  BY <1>3 DEF DumpChunk
<1>4. ASSUME DumpFail
      PROVE  KeepAliveIsLive'
  BY <1>4 DEF DumpFail, EndSessions, ThreadTypeOK
<1>5. ASSUME KeepAliveAdd
      PROVE  KeepAliveIsLive'
  BY <1>5 DEF KeepAliveAdd
<1>6. ASSUME NEW f \in Fds, ReceivedPong(f)
      PROVE  KeepAliveIsLive'
  BY <1>6 DEF ReceivedPong
<1>7. ASSUME NEW f \in Fds, ReceivedClose(f)
      PROVE  KeepAliveIsLive'
  BY <1>7 DEF ReceivedClose
<1>8. ASSUME NEW f \in Fds, SessionEnds(f)
      PROVE  KeepAliveIsLive'
  BY <1>8 DEF SessionEnds, EndSessions, Reported
<1>9. ASSUME NEW f \in Fds, PongIsLate(f)
      PROVE  KeepAliveIsLive'
  BY <1>9 DEF PongIsLate
<1>10. ASSUME WorkStart
      PROVE  KeepAliveIsLive'
  BY <1>10 DEF WorkStart, EndSessions
<1>11. ASSUME WorkItem
      PROVE  KeepAliveIsLive'
  BY <1>11 DEF WorkItem, EndSessions
<1>12. ASSUME WorkEmpty
      PROVE  KeepAliveIsLive'
  BY <1>12 DEF WorkEmpty
<1>13. ASSUME WorkDone
      PROVE  KeepAliveIsLive'
  BY <1>13 DEF WorkDone
<1>14. ASSUME NEW s \in States, UpdateState(s)
      PROVE  KeepAliveIsLive'
  BY <1>14 DEF UpdateState
<1>15. ASSUME NEW s \in States, PushState(s)
      PROVE  KeepAliveIsLive'
  BY <1>15 DEF PushState
<1>16. ASSUME SendPing
      PROVE  KeepAliveIsLive'
  BY <1>16 DEF SendPing
<1>17. ASSUME NEW c \in Conns, SendToClient(c)
      PROVE  KeepAliveIsLive'
  BY <1>17 DEF SendToClient
<1>18. ASSUME NEW c \in Conns, LearnDisconnect(c)
      PROVE  KeepAliveIsLive'
  BY <1>18 DEF LearnDisconnect
<1>19. ASSUME NEW c \in Conns, CloseAsync(c)
      PROVE  KeepAliveIsLive'
  BY <1>19 DEF CloseAsync, CloseLater
<1>20. ASSUME TriggerHttpThread
      PROVE  KeepAliveIsLive'
  BY <1>20 DEF TriggerHttpThread
<1>21. ASSUME QueueWork
      PROVE  KeepAliveIsLive'
  BY <1>21 DEF QueueWork
<1>22. ASSUME Stop
      PROVE  KeepAliveIsLive'
  BY <1>22 DEF Stop
<1>23. ASSUME StopEnd
      PROVE  KeepAliveIsLive'
  BY <1>23 DEF StopEnd, CloseLater
<1>24. ASSUME Start
      PROVE  KeepAliveIsLive'
  BY <1>24 DEF Start
<1>25. CASE UNCHANGED vars
  BY <1>25 DEF vars
<1>26. ASSUME NEW f \in Fds, HandshakeFails(f)
      PROVE  KeepAliveIsLive'
  BY <1>26 DEF HandshakeFails, EndSessions, Evicted, Victims
<1>27. QED
  BY <1>1, <1>2, <1>3, <1>4, <1>5, <1>6, <1>7, <1>8, <1>9, <1>10, <1>11, <1>12, <1>13, <1>14,
      <1>15, <1>16, <1>17, <1>18, <1>19, <1>20, <1>21, <1>22, <1>23, <1>24, <1>25, <1>26
     DEF Next, HttpThread, MainThread, Clients, Worker, PokeLocalhost

\* How the room for clients changes: only KeepAliveAdd takes some.
Room == /\ IsFiniteSet(keepAlive) /\ Cardinality(keepAlive) <= MaxClients
        /\ http.pc \in {"dump", "add"} =>
              /\ Cardinality(keepAlive) < MaxClients
              /\ http.fd \in (WsFds \ clean) \ keepAlive

LEMMA RoomStep == TypeOK /\ SessionInv /\ ListInv /\ [Next]_vars => Room'
<1> SUFFICES ASSUME TypeOK, SessionInv, ListInv, [Next]_vars
             PROVE  Room'
  OBVIOUS
<1> USE WebSocketsAssumption DEF TypeOK, SessionTypeOK, Room, sessVars, apiVars, boundVars,
    httpVars, history
<1> IsFiniteSet(keepAlive) /\ Cardinality(keepAlive) <= MaxClients /\ Cardinality(keepAlive) \in Nat
  BY FS_CardinalityType DEF ListInv
<1> http.pc \in {"dump", "add"} =>
        Cardinality(keepAlive) < MaxClients /\ http.fd \in (WsFds \ clean) \ keepAlive
  BY DEF ListInv, SlotIsFree
<1>1. ASSUME NEW f \in Fds, NEW c \in Conns, Accept(f, c)
      PROVE  Room'
  <2>1. WsFds' = WsFds
    BY <1>1 DEF Accept, WsFds, SessionInv, SessionTypeOK
  <2> QED
    BY <1>1, <2>1 DEF Accept
<1>2. ASSUME NEW f \in Fds, Upgrade(f)
      PROVE  Room'
  <2>1. PICK gone \in Evicted : EndSessions(gone, gone, [kind EXCEPT ![f] = "ws"], queue)
    BY <1>2 DEF Upgrade
  <2>2. Cardinality(keepAlive) \in Nat
    BY FS_CardinalityType
  <2>3. keepAlive' = keepAlive \ gone /\ gone \subseteq keepAlive
    BY <2>1 DEF EndSessions, Evicted, Victims
  <2>4. IsFiniteSet(keepAlive') /\ Cardinality(keepAlive') < MaxClients
    <3>1. CASE Cardinality(keepAlive) < MaxClients
      <4>1. keepAlive' = keepAlive
        BY <2>1, <2>3, <3>1 DEF Evicted
      <4> QED
        BY <3>1, <4>1
    <3>2. CASE ~(Cardinality(keepAlive) < MaxClients)
      <4>1. PICK v \in keepAlive : gone = {v}
        BY <2>1, <3>2 DEF Evicted, Victims
      <4>2. IsFiniteSet(keepAlive \ {v}) /\ Cardinality(keepAlive \ {v}) = Cardinality(keepAlive) - 1
        BY FS_RemoveElement
      <4> QED
        BY <2>2, <2>3, <4>1, <4>2
    <3> QED
      BY <3>1, <3>2
  <2>5. f \notin keepAlive /\ f \notin clean /\ owner[f] # NoConn
    BY <1>2 DEF Upgrade, SessionInv, WsFds, ListInv, KeepAliveIsLive
  <2>6. f \in WsFds' /\ clean' \subseteq clean
    BY <2>1, <2>3, <2>5 DEF EndSessions, WsFds, SessionTypeOK
  <2>7. http'.fd = f
    BY <1>2 DEF Upgrade, Idle
  <2>8. Cardinality(keepAlive') \in Nat
    BY <2>4, FS_CardinalityType
  <2> QED
    BY <2>3, <2>4, <2>5, <2>6, <2>7, <2>8
<1>3. ASSUME NEW last \in States, DumpChunk(last)
      PROVE  Room'
  <2>1. WsFds' = WsFds /\ http.pc = "dump" /\ http'.fd = http.fd
    BY <1>3 DEF DumpChunk, WsFds, ThreadTypeOK
  <2> QED
    BY <1>3, <2>1 DEF DumpChunk
<1>4. ASSUME DumpFail
      PROVE  Room'
  <2>1. keepAlive' \in SUBSET keepAlive
    BY <1>4 DEF DumpFail, EndSessions
  <2>2. IsFiniteSet(keepAlive') /\ Cardinality(keepAlive') <= Cardinality(keepAlive)
           /\ Cardinality(keepAlive') \in Nat
    BY <2>1, ListShrinks
  <2>3. http'.pc \in {"dump", "add"} => FALSE
    BY <1>4 DEF DumpFail, EndSessions, Idle, WsFds
  <2> QED
    BY <2>1, <2>2, <2>3
<1>5. ASSUME KeepAliveAdd
      PROVE  Room'
  <2>1. http.fd \notin keepAlive /\ Cardinality(keepAlive) < MaxClients
    BY <1>5 DEF KeepAliveAdd
  <2>2. keepAlive' = keepAlive \cup {http.fd}
    BY <1>5, <2>1 DEF KeepAliveAdd
  <2>3. IsFiniteSet(keepAlive') /\ Cardinality(keepAlive') = Cardinality(keepAlive) + 1
    BY <2>1, <2>2, FS_AddElement
  <2>4. Cardinality(keepAlive) \in Nat
    BY FS_CardinalityType
  <2>5. http'.pc = "idle"
    BY <1>5 DEF KeepAliveAdd, Idle
  <2> QED
    BY <2>1, <2>3, <2>4, <2>5
<1>6. ASSUME NEW f \in Fds, ReceivedPong(f)
      PROVE  Room'
  BY <1>6 DEF ReceivedPong, WsFds
<1>7. ASSUME NEW f \in Fds, ReceivedClose(f)
      PROVE  Room'
  <2>1. keepAlive' \in SUBSET keepAlive
    BY <1>7 DEF ReceivedClose
  <2>2. IsFiniteSet(keepAlive') /\ Cardinality(keepAlive') <= Cardinality(keepAlive)
           /\ Cardinality(keepAlive') \in Nat
    BY <2>1, ListShrinks
  <2>3. http'.pc \in {"dump", "add"} => FALSE
    BY <1>7 DEF ReceivedClose, Idle, WsFds
  <2> QED
    BY <2>1, <2>2, <2>3
<1>8. ASSUME NEW f \in Fds, SessionEnds(f)
      PROVE  Room'
  <2>1. keepAlive' \in SUBSET keepAlive
    BY <1>8 DEF SessionEnds, EndSessions
  <2>2. IsFiniteSet(keepAlive') /\ Cardinality(keepAlive') <= Cardinality(keepAlive)
           /\ Cardinality(keepAlive') \in Nat
    BY <2>1, ListShrinks
  <2>3. http'.pc \in {"dump", "add"} => FALSE
    BY <1>8 DEF SessionEnds, EndSessions, Idle, WsFds
  <2> QED
    BY <2>1, <2>2, <2>3
<1>9. ASSUME NEW f \in Fds, PongIsLate(f)
      PROVE  Room'
  BY <1>9 DEF PongIsLate, WsFds
<1>10. ASSUME WorkStart
      PROVE  Room'
  <2>1. keepAlive' \in SUBSET keepAlive
    BY <1>10 DEF WorkStart, EndSessions
  <2>2. IsFiniteSet(keepAlive') /\ Cardinality(keepAlive') <= Cardinality(keepAlive)
           /\ Cardinality(keepAlive') \in Nat
    BY <2>1, ListShrinks
  <2>3. http'.pc \in {"dump", "add"} => FALSE
    BY <1>10 DEF WorkStart, EndSessions, Idle, WsFds
  <2> QED
    BY <2>1, <2>2, <2>3
<1>11. ASSUME WorkItem
      PROVE  Room'
  <2>1. keepAlive' \in SUBSET keepAlive
    BY <1>11 DEF WorkItem, EndSessions
  <2>2. IsFiniteSet(keepAlive') /\ Cardinality(keepAlive') <= Cardinality(keepAlive)
           /\ Cardinality(keepAlive') \in Nat
    BY <2>1, ListShrinks
  <2>3. http'.pc \in {"dump", "add"} => FALSE
    BY <1>11 DEF WorkItem, EndSessions, Idle, WsFds
  <2> QED
    BY <2>1, <2>2, <2>3
<1>12. ASSUME WorkEmpty
      PROVE  Room'
  <2>1. http'.pc \notin {"dump", "add"}
    BY <1>12 DEF WorkEmpty, Idle, ThreadTypeOK
  <2> QED
    BY <1>12, <2>1 DEF WorkEmpty
<1>13. ASSUME WorkDone
      PROVE  Room'
  <2>1. http'.pc \notin {"dump", "add"}
    BY <1>13 DEF WorkDone, Idle, ThreadTypeOK
  <2> QED
    BY <1>13, <2>1 DEF WorkDone
<1>14. ASSUME NEW s \in States, UpdateState(s)
      PROVE  Room'
  BY <1>14 DEF UpdateState, WsFds
<1>15. ASSUME NEW s \in States, PushState(s)
      PROVE  Room'
  BY <1>15 DEF PushState, WsFds
<1>16. ASSUME SendPing
      PROVE  Room'
  BY <1>16 DEF SendPing, WsFds
<1>17. ASSUME NEW c \in Conns, SendToClient(c)
      PROVE  Room'
  BY <1>17 DEF SendToClient, WsFds
<1>18. ASSUME NEW c \in Conns, LearnDisconnect(c)
      PROVE  Room'
  BY <1>18 DEF LearnDisconnect, WsFds
<1>19. ASSUME NEW c \in Conns, CloseAsync(c)
      PROVE  Room'
  <2>1. keepAlive' \in SUBSET keepAlive
    BY <1>19 DEF CloseAsync, CloseLater
  <2>2. IsFiniteSet(keepAlive') /\ Cardinality(keepAlive') <= Cardinality(keepAlive)
           /\ Cardinality(keepAlive') \in Nat
    BY <2>1, ListShrinks
  <2>3. http'.pc \in {"dump", "add"} => (http.pc \in {"dump", "add"} /\ http' = http /\ WsFds' = WsFds /\ clean' = clean)
    BY <1>19 DEF CloseAsync, CloseLater, Idle, WsFds
  <2> QED
    BY <2>1, <2>2, <2>3
<1>20. ASSUME TriggerHttpThread
      PROVE  Room'
  BY <1>20 DEF TriggerHttpThread, WsFds
<1>21. ASSUME QueueWork
      PROVE  Room'
  BY <1>21 DEF QueueWork, WsFds
<1>22. ASSUME Stop
      PROVE  Room'
  BY <1>22 DEF Stop, WsFds
<1>23. ASSUME StopEnd
      PROVE  Room'
  <2>1. keepAlive' \in SUBSET keepAlive
    BY <1>23 DEF StopEnd, CloseLater
  <2>2. IsFiniteSet(keepAlive') /\ Cardinality(keepAlive') <= Cardinality(keepAlive)
           /\ Cardinality(keepAlive') \in Nat
    BY <2>1, ListShrinks
  <2>3. http'.pc \in {"dump", "add"} => (http.pc \in {"dump", "add"} /\ http' = http /\ WsFds' = WsFds /\ clean' = clean)
    BY <1>23 DEF StopEnd, CloseLater, Idle, WsFds
  <2> QED
    BY <2>1, <2>2, <2>3
<1>24. ASSUME Start
      PROVE  Room'
  BY <1>24 DEF Start, WsFds
<1>25. CASE UNCHANGED vars
  BY <1>25 DEF vars, WsFds
<1>26. ASSUME NEW f \in Fds, HandshakeFails(f)
      PROVE  Room'
  <2>1. keepAlive' \in SUBSET keepAlive
    BY <1>26 DEF HandshakeFails, EndSessions
  <2>2. IsFiniteSet(keepAlive') /\ Cardinality(keepAlive') <= Cardinality(keepAlive)
           /\ Cardinality(keepAlive') \in Nat
    BY <2>1, ListShrinks
  <2>3. http'.pc \in {"dump", "add"} => FALSE
    BY <1>26 DEF HandshakeFails
  <2> QED
    BY <2>1, <2>2, <2>3
<1>27. QED
  BY <1>1, <1>2, <1>3, <1>4, <1>5, <1>6, <1>7, <1>8, <1>9, <1>10, <1>11, <1>12, <1>13, <1>14,
      <1>15, <1>16, <1>17, <1>18, <1>19, <1>20, <1>21, <1>22, <1>23, <1>24, <1>25, <1>26
     DEF Next, HttpThread, MainThread, Clients, Worker, PokeLocalhost

\* The list of clients holds open sessions, and has room for the next one.
LEMMA ListStep == TypeOK /\ SessionInv /\ ListInv /\ [Next]_vars => ListInv'
  BY LiveStep, RoomStep DEF ListInv, Room, SlotIsFree

\* No step strands the worker: who sets worker_active sees to a run or takes it back.
LEMMA WorkerStep == TypeOK /\ WorkerNotStuck /\ [Next]_vars => WorkerNotStuck'
<1> SUFFICES ASSUME TypeOK, WorkerNotStuck, [Next]_vars
             PROVE  WorkerNotStuck'
  OBVIOUS
<1> USE WebSocketsAssumption DEF TypeOK, ThreadTypeOK, WorkerNotStuck, Idle, sessVars,
    apiVars, boundVars, httpVars, history
<1>1. ASSUME NEW f \in Fds, NEW c \in Conns, Accept(f, c)
      PROVE  WorkerNotStuck'
  BY <1>1 DEF Accept
<1>2. ASSUME NEW f \in Fds, Upgrade(f)
      PROVE  WorkerNotStuck'
  BY <1>2 DEF Upgrade
<1>3. ASSUME NEW last \in States, DumpChunk(last)
      PROVE  WorkerNotStuck'
  BY <1>3 DEF DumpChunk
<1>4. ASSUME DumpFail
      PROVE  WorkerNotStuck'
  BY <1>4 DEF DumpFail
<1>5. ASSUME KeepAliveAdd
      PROVE  WorkerNotStuck'
  BY <1>5 DEF KeepAliveAdd
<1>6. ASSUME NEW f \in Fds, ReceivedPong(f)
      PROVE  WorkerNotStuck'
  BY <1>6 DEF ReceivedPong
<1>7. ASSUME NEW f \in Fds, ReceivedClose(f)
      PROVE  WorkerNotStuck'
  BY <1>7 DEF ReceivedClose
<1>8. ASSUME NEW f \in Fds, SessionEnds(f)
      PROVE  WorkerNotStuck'
  BY <1>8 DEF SessionEnds
<1>9. ASSUME NEW f \in Fds, PongIsLate(f)
      PROVE  WorkerNotStuck'
  BY <1>9 DEF PongIsLate
<1>10. ASSUME WorkStart
      PROVE  WorkerNotStuck'
  BY <1>10 DEF WorkStart
<1>11. ASSUME WorkItem
      PROVE  WorkerNotStuck'
  BY <1>11 DEF WorkItem
<1>12. ASSUME WorkEmpty
      PROVE  WorkerNotStuck'
  BY <1>12 DEF WorkEmpty
<1>13. ASSUME WorkDone
      PROVE  WorkerNotStuck'
  BY <1>13 DEF WorkDone
<1>14. ASSUME NEW s \in States, UpdateState(s)
      PROVE  WorkerNotStuck'
  BY <1>14 DEF UpdateState
<1>15. ASSUME NEW s \in States, PushState(s)
      PROVE  WorkerNotStuck'
  BY <1>15 DEF PushState
<1>16. ASSUME SendPing
      PROVE  WorkerNotStuck'
  BY <1>16 DEF SendPing
<1>17. ASSUME NEW c \in Conns, SendToClient(c)
      PROVE  WorkerNotStuck'
  BY <1>17 DEF SendToClient
<1>18. ASSUME NEW c \in Conns, LearnDisconnect(c)
      PROVE  WorkerNotStuck'
  BY <1>18 DEF LearnDisconnect
<1>19. ASSUME NEW c \in Conns, CloseAsync(c)
      PROVE  WorkerNotStuck'
  BY <1>19 DEF CloseAsync
<1>20. ASSUME TriggerHttpThread
      PROVE  WorkerNotStuck'
  BY <1>20 DEF TriggerHttpThread
<1>21. ASSUME QueueWork
      PROVE  WorkerNotStuck'
  BY <1>21 DEF QueueWork
<1>22. ASSUME Stop
      PROVE  WorkerNotStuck'
  BY <1>22 DEF Stop
<1>23. ASSUME StopEnd
      PROVE  WorkerNotStuck'
  BY <1>23 DEF StopEnd
<1>24. ASSUME Start
      PROVE  WorkerNotStuck'
  BY <1>24 DEF Start
<1>25. CASE UNCHANGED vars
  BY <1>25 DEF vars
<1>26. ASSUME NEW f \in Fds, HandshakeFails(f)
      PROVE  WorkerNotStuck'
  BY <1>26 DEF HandshakeFails
<1>27. QED
  BY <1>1, <1>2, <1>3, <1>4, <1>5, <1>6, <1>7, <1>8, <1>9, <1>10, <1>11, <1>12, <1>13, <1>14,
      <1>15, <1>16, <1>17, <1>18, <1>19, <1>20, <1>21, <1>22, <1>23, <1>24, <1>25, <1>26
     DEF Next, HttpThread, MainThread, Clients, Worker, PokeLocalhost

-----------------------------------------------------------------------------
(* Unicasts. *)

\* Items stay private when their receivers leave the list.
LEMMA UnicastUnaddress ==
    ASSUME UnicastInv, SessionTypeOK, QueueTypeOK, NEW fs, NEW q \in Seq(Item),
           \A i \in DOMAIN q : \E j \in DOMAIN queue : q[i] = queue[j],
           queue' = Unaddress(q, fs), keepAlive' = keepAlive \ fs,
           \A f \in keepAlive \ fs : owner'[f] = owner[f]
    PROVE  UnicastInv'
<1> SUFFICES ASSUME NEW i \in DOMAIN queue', queue'[i].live, queue'[i].to # Cleared
             PROVE  queue'[i].to \in keepAlive' /\ owner'[queue'[i].to] = queue'[i].for
  BY DEF UnicastInv
<1>1. i \in DOMAIN q
  BY UnaddressResult
<1>2. /\ queue'[i].to = IF q[i].to \in fs THEN Cleared ELSE q[i].to
      /\ queue'[i].for = q[i].for /\ queue'[i].live = q[i].live
  <2>1. \A j \in DOMAIN q : /\ Unaddress(q, fs)[j].to = IF q[j].to \in fs THEN Cleared ELSE q[j].to
                            /\ Unaddress(q, fs)[j].for = q[j].for
                            /\ Unaddress(q, fs)[j].live = q[j].live
    BY UnaddressResult
  <2> QED
    BY <1>1, <2>1
<1>3. q[i].to \in keepAlive /\ owner[q[i].to] = q[i].for /\ q[i].to \notin fs
  BY <1>1, <1>2 DEF UnicastInv
<1> QED
  BY <1>2, <1>3

\* A new item may join them if it is as private as they are.
LEMMA UnicastEnqueue ==
    ASSUME UnicastInv, QueueTypeOK, NEW it \in Item, queue' = Enqueue(queue, it),
           it.live /\ it.to # Cleared => it.to \in keepAlive /\ owner[it.to] = it.for,
           UNCHANGED <<keepAlive, owner>>
    PROVE  UnicastInv'
<1>1. PICK k \in 0 .. Len(queue) :
          /\ \A i \in 1 .. Len(queue) - k : queue'[i] = queue[i + k]
          /\ Len(queue') = IF Refused(queue) THEN Len(queue) - k ELSE Len(queue) - k + 1
          /\ ~Refused(queue) => queue'[Len(queue) - k + 1] = it
  BY EnqueueResult DEF QueueTypeOK
<1>2. queue' \in Seq(Item)
  BY EnqueueResult DEF QueueTypeOK
<1>3. \A i \in DOMAIN queue' : queue'[i] = it \/ \E j \in DOMAIN queue : queue'[i] = queue[j]
  BY <1>1, <1>2 DEF QueueTypeOK
<1> QED
  BY <1>3 DEF UnicastInv

LEMMA UnicastStep == TypeOK /\ SessionInv /\ ListInv /\ UnicastInv /\ [Next]_vars =>
    UnicastInv'
<1> SUFFICES ASSUME TypeOK, SessionInv, ListInv, UnicastInv, [Next]_vars
             PROVE  UnicastInv'
  OBVIOUS
<1> USE WebSocketsAssumption DEF TypeOK, SessionTypeOK, sessVars, apiVars, boundVars, httpVars, history
<1>q. queue \in Seq(Item) /\ \A i \in DOMAIN queue : \E j \in DOMAIN queue : queue[i] = queue[j]
  BY DEF QueueTypeOK
<1>1. ASSUME NEW f \in Fds, NEW c \in Conns, Accept(f, c)
      PROVE  UnicastInv'
  <2>1. f \notin keepAlive
    BY <1>1 DEF Accept, ListInv, KeepAliveIsLive, WsFds
  <2> QED
    BY <1>1, <2>1 DEF Accept, UnicastInv
<1>2. ASSUME NEW f \in Fds, Upgrade(f)
      PROVE  UnicastInv'
  <2> PICK gone \in Evicted : EndSessions(gone, gone, [kind EXCEPT ![f] = "ws"], queue)
    BY <1>2 DEF Upgrade
  <2>1. queue' = Unaddress(queue, gone) /\ keepAlive' = keepAlive \ gone
    BY <1>2 DEF EndSessions
  <2>2. \A f1 \in keepAlive \ gone : owner'[f1] = owner[f1]
    BY <1>2 DEF EndSessions, Evicted, Victims
  <2> QED
    BY <2>1, <2>2, <1>q, UnicastUnaddress
<1>3. ASSUME NEW last \in States, DumpChunk(last)
      PROVE  UnicastInv'
  BY <1>3 DEF DumpChunk, UnicastInv
<1>4. ASSUME DumpFail
      PROVE  UnicastInv'
  <2>1. queue' = Unaddress(queue, {http.fd}) /\ keepAlive' = keepAlive \ {http.fd}
    BY <1>4 DEF DumpFail, EndSessions
  <2>2. \A f1 \in keepAlive \ {http.fd} : owner'[f1] = owner[f1]
    BY <1>4 DEF DumpFail, EndSessions
  <2> QED
    BY <2>1, <2>2, <1>q, UnicastUnaddress
<1>5. ASSUME KeepAliveAdd
      PROVE  UnicastInv'
  <2>1. keepAlive \subseteq keepAlive' /\ UNCHANGED <<queue, owner>>
    BY <1>5 DEF KeepAliveAdd
  <2> QED
    BY <2>1 DEF UnicastInv
<1>6. ASSUME NEW f \in Fds, ReceivedPong(f)
      PROVE  UnicastInv'
  BY <1>6 DEF ReceivedPong, UnicastInv
<1>7. ASSUME NEW f \in Fds, ReceivedClose(f)
      PROVE  UnicastInv'
  <2>1. queue' = Unaddress(queue, {f}) /\ keepAlive' = keepAlive \ {f}
    BY <1>7 DEF ReceivedClose
  <2>2. \A f1 \in keepAlive \ {f} : owner'[f1] = owner[f1]
    BY <1>7 DEF ReceivedClose
  <2> QED
    BY <2>1, <2>2, <1>q, UnicastUnaddress
<1>8. ASSUME NEW f \in Fds, SessionEnds(f)
      PROVE  UnicastInv'
  <2>1. queue' = Unaddress(queue, Reported(f)) /\ keepAlive' = keepAlive \ Reported(f)
    BY <1>8 DEF SessionEnds, EndSessions
  <2>2. \A f1 \in keepAlive \ Reported(f) : owner'[f1] = owner[f1]
    BY <1>8 DEF SessionEnds, EndSessions, Reported, SessionInv, ListInv, KeepAliveIsLive, WsFds
  <2> QED
    BY <2>1, <2>2, <1>q, UnicastUnaddress
<1>9. ASSUME NEW f \in Fds, PongIsLate(f)
      PROVE  UnicastInv'
  BY <1>9 DEF PongIsLate, UnicastInv
<1>10. ASSUME WorkStart
      PROVE  UnicastInv'
  <2>1. queue' = Unaddress(queue, ({pending[i].fd : i \in DOMAIN pending} \cup DeadClients)) /\ keepAlive' = keepAlive \ ({pending[i].fd : i \in DOMAIN pending} \cup DeadClients)
    BY <1>10 DEF WorkStart, EndSessions
  <2>2. \A f1 \in keepAlive \ ({pending[i].fd : i \in DOMAIN pending} \cup DeadClients) : owner'[f1] = owner[f1]
    BY <1>10 DEF WorkStart, EndSessions
  <2> QED
    BY <2>1, <2>2, <1>q, UnicastUnaddress
<1>11. ASSUME WorkItem
      PROVE  UnicastInv'
  <2> DEFINE q == Tail(queue)
  <2>1. PICK failed \in SUBSET Receivers(Head(queue)) : EndSessions(failed, failed, kind, q)
    BY <1>11 DEF WorkItem
  <2>2. q \in Seq(Item) /\ \A i \in DOMAIN q : \E j \in DOMAIN queue : q[i] = queue[j]
    BY <1>11, TailResult DEF WorkItem, QueueTypeOK
  <2> HIDE DEF q
  <2>3. /\ queue' = Unaddress(q, failed) /\ keepAlive' = keepAlive \ failed
        /\ \A f \in keepAlive \ failed : owner'[f] = owner[f]
    BY <2>1 DEF EndSessions
  <2> QED
    BY <2>2, <2>3, <1>q, UnicastUnaddress
<1>12. ASSUME WorkEmpty
      PROVE  UnicastInv'
  BY <1>12 DEF WorkEmpty, UnicastInv
<1>13. ASSUME WorkDone
      PROVE  UnicastInv'
  BY <1>13 DEF WorkDone, UnicastInv
<1>14. ASSUME NEW s \in States, UpdateState(s)
      PROVE  UnicastInv'
  BY <1>14 DEF UpdateState, UnicastInv
<1>15. ASSUME NEW s \in States, PushState(s)
      PROVE  UnicastInv'
  <2>1. BroadcastItem(s, version[s]) \in Item /\ ~BroadcastItem(s, version[s]).live
    BY DEF BroadcastItem, Item, ApiTypeOK, States
  <2>2. (queue' = queue \/ queue' = Enqueue(queue, BroadcastItem(s, version[s]))) /\ UNCHANGED <<keepAlive, owner>>
    BY <1>15 DEF PushState
  <2>3. CASE queue' = queue
    BY <2>2, <2>3 DEF UnicastInv
  <2> QED
    BY <2>1, <2>2, <2>3, UnicastEnqueue
<1>16. ASSUME SendPing
      PROVE  UnicastInv'
  <2>1. BroadcastItem(0, 0) \in Item /\ ~BroadcastItem(0, 0).live
    BY DEF BroadcastItem, Item, ApiTypeOK, States
  <2>2. (queue' = queue \/ queue' = Enqueue(queue, BroadcastItem(0, 0))) /\ UNCHANGED <<keepAlive, owner>>
    BY <1>16 DEF SendPing
  <2>3. CASE queue' = queue
    BY <2>2, <2>3 DEF UnicastInv
  <2> QED
    BY <2>1, <2>2, <2>3, UnicastEnqueue
<1>17. ASSUME NEW c \in Conns, SendToClient(c)
      PROVE  UnicastInv'
  <2> DEFINE it == [to |-> known[c], state |-> 0, version |-> 0, for |-> c,
                    live |-> known[c] \in keepAlive /\ owner[known[c]] = c]
  <2>1. it \in Item
    BY DEF Item
  <2>2. it.live => it.to \in keepAlive /\ owner[it.to] = it.for
    OBVIOUS
  <2>3. queue' = Enqueue(queue, it) /\ UNCHANGED <<keepAlive, owner>>
    BY <1>17 DEF SendToClient
  <2> HIDE DEF it
  <2> QED
    BY <2>1, <2>2, <2>3, UnicastEnqueue
<1>18. ASSUME NEW c \in Conns, LearnDisconnect(c)
      PROVE  UnicastInv'
  BY <1>18 DEF LearnDisconnect, UnicastInv
<1>19. ASSUME NEW c \in Conns, CloseAsync(c)
      PROVE  UnicastInv'
  <2> DEFINE fs == {<<[fd |-> known[c], for |-> c]>>[i].fd : i \in DOMAIN <<[fd |-> known[c], for |-> c]>>}
  <2>1. queue' = Unaddress(queue, fs) /\ keepAlive' = keepAlive \ fs /\ owner' = owner
    BY <1>19 DEF CloseAsync, CloseLater
  <2> HIDE DEF fs
  <2> QED
    BY <2>1, <1>q, UnicastUnaddress
<1>20. ASSUME TriggerHttpThread
      PROVE  UnicastInv'
  BY <1>20 DEF TriggerHttpThread, UnicastInv
<1>21. ASSUME QueueWork
      PROVE  UnicastInv'
  BY <1>21 DEF QueueWork, UnicastInv
<1>22. ASSUME Stop
      PROVE  UnicastInv'
  <2>1. BroadcastItem(0, 0) \in Item /\ ~BroadcastItem(0, 0).live
    BY DEF BroadcastItem, Item, ApiTypeOK, States
  <2>2. (queue' = queue \/ queue' = Enqueue(queue, BroadcastItem(0, 0))) /\ UNCHANGED <<keepAlive, owner>>
    BY <1>22 DEF Stop
  <2>3. CASE queue' = queue
    BY <2>2, <2>3 DEF UnicastInv
  <2> QED
    BY <2>1, <2>2, <2>3, UnicastEnqueue
<1>23. ASSUME StopEnd
      PROVE  UnicastInv'
  <2>1. PICK fs : queue' = Unaddress(queue, fs) /\ keepAlive' = keepAlive \ fs
    BY <1>23 DEF StopEnd, CloseLater
  <2>2. owner' = owner
    BY <1>23 DEF StopEnd
  <2> QED
    BY <2>1, <2>2, <1>q, UnicastUnaddress
<1>24. ASSUME Start
      PROVE  UnicastInv'
  BY <1>24 DEF Start, UnicastInv
<1>25. CASE UNCHANGED vars
  BY <1>25 DEF vars, UnicastInv
<1>26. ASSUME NEW f \in Fds, HandshakeFails(f)
      PROVE  UnicastInv'
  <2>0. PICK gone \in Evicted, ended \in SUBSET {f} :
               EndSessions(gone \cup ended, gone, kind, queue)
    BY <1>26 DEF HandshakeFails
  <2>1. queue' = Unaddress(queue, gone) /\ keepAlive' = keepAlive \ gone
    BY <2>0 DEF EndSessions
  <2>2. \A f1 \in keepAlive \ gone : owner'[f1] = owner[f1]
    BY <1>26, <2>0 DEF HandshakeFails, EndSessions, ListInv, KeepAliveIsLive, WsFds
  <2> QED
    BY <2>1, <2>2, <1>q, UnicastUnaddress
<1>27. QED
  BY <1>1, <1>2, <1>3, <1>4, <1>5, <1>6, <1>7, <1>8, <1>9, <1>10, <1>11, <1>12, <1>13, <1>14,
      <1>15, <1>16, <1>17, <1>18, <1>19, <1>20, <1>21, <1>22, <1>23, <1>24, <1>25, <1>26
     DEF Next, HttpThread, MainThread, Clients, Worker, PokeLocalhost

-----------------------------------------------------------------------------
(* Updates. *)

\* Taking receivers away leaves the broadcasts alone.
LEMMA UnaddressKeeps ==
    ASSUME ItemInv, QueueTypeOK, NEW fs \in SUBSET Fds, queue' = Unaddress(queue, fs),
           UNCHANGED <<version, updated, dropped>>
    PROVE  ItemInv' /\ \A s \in States : OnItsWay(s) => OnItsWay(s)'
<1> USE WebSocketsAssumption
<1>1. \A i \in DOMAIN queue : /\ queue'[i].to = IF queue[i].to \in fs THEN Cleared ELSE queue[i].to
                              /\ queue'[i].state = queue[i].state
                              /\ queue'[i].version = queue[i].version
  <2>1. \A i \in DOMAIN queue :
           /\ Unaddress(queue, fs)[i].to = IF queue[i].to \in fs THEN Cleared ELSE queue[i].to
           /\ Unaddress(queue, fs)[i].state = queue[i].state
           /\ Unaddress(queue, fs)[i].version = queue[i].version
    BY UnaddressResult DEF QueueTypeOK
  <2> QED
    BY <2>1
<1>2. DOMAIN queue' = DOMAIN queue
  BY UnaddressResult DEF QueueTypeOK
<1>3. ItemInv'
  BY <1>1, <1>2 DEF ItemInv
<1>4. \A s \in States : OnItsWay(s) => OnItsWay(s)'
  BY <1>1, <1>2 DEF OnItsWay
<1> QED
  BY <1>3, <1>4

\* A new item that carries nothing or the current version of a state leaves
\* every broadcast in the queue and, unless it is refused, is the last of them.
LEMMA EnqueueKeeps ==
    ASSUME ItemInv, QueueTypeOK, NEW it \in Item, queue' = Enqueue(queue, it),
           it.state # 0 => it.to = Broadcast /\ it.version = version[it.state],
           UNCHANGED <<version, dropped>>,
           \A s \in States : updated[s] => updated'[s] \/ (s = it.state /\ ~Refused(queue))
    PROVE  /\ ItemInv'
           /\ \A s \in States : OnItsWay(s) => OnItsWay(s)'
           /\ \A s \in States : s = it.state /\ ~Refused(queue) => OnItsWay(s)'
<1> USE WebSocketsAssumption
<1>1. PICK k \in 0 .. Len(queue) :
          /\ \A i \in 1 .. k : queue[i].to = Cleared
          /\ \A i \in 1 .. Len(queue) - k : queue'[i] = queue[i + k]
          /\ Len(queue') = IF Refused(queue) THEN Len(queue) - k ELSE Len(queue) - k + 1
          /\ ~Refused(queue) => queue'[Len(queue) - k + 1] = it
  <2> DEFINE e == Enqueue(queue, it)
  <2>1. \E k \in 0 .. Len(queue) :
           /\ \A i \in 1 .. k : queue[i].to = Cleared
           /\ \A i \in 1 .. Len(queue) - k : e[i] = queue[i + k]
           /\ Len(e) = IF Refused(queue) THEN Len(queue) - k ELSE Len(queue) - k + 1
           /\ ~Refused(queue) => e[Len(queue) - k + 1] = it
    BY EnqueueResult DEF QueueTypeOK
  <2>2. queue' = e
    OBVIOUS
  <2> HIDE DEF e
  <2> QED
    BY <2>1, <2>2
<1>2. queue' \in Seq(Item) /\ queue \in Seq(Item)
  BY EnqueueResult DEF QueueTypeOK
<1> DEFINE n == Len(queue) - k
<1>3. /\ n \in Nat /\ DOMAIN queue = 1 .. Len(queue) /\ Len(queue) \in Nat
      /\ DOMAIN queue' = 1 .. (IF Refused(queue) THEN n ELSE n + 1)
  BY <1>1, <1>2
<1>4. \A j \in DOMAIN queue : queue[j].to = Broadcast =>
         j - k \in 1 .. n /\ j - k \in DOMAIN queue' /\ queue'[j - k] = queue[j]
  <2>1. ASSUME NEW j \in DOMAIN queue, queue[j].to = Broadcast
        PROVE  j > k
    <3>1. j \notin 1 .. k
      BY <1>1, <2>1
    <3>2. j \in 1 .. Len(queue) /\ k \in Nat
      BY <1>3
    <3> QED
      BY <3>1, <3>2
  <2>2. \A j \in DOMAIN queue : j > k => j - k \in 1 .. n /\ (j - k) + k = j
    <3> SUFFICES ASSUME NEW j \in DOMAIN queue, j > k
                 PROVE  j - k \in 1 .. n /\ (j - k) + k = j
      OBVIOUS
    <3>1. j \in Int /\ k \in Int /\ j <= Len(queue) /\ Len(queue) \in Int
      BY <1>3
    <3> QED
      BY <3>1
  <2>3. \A j \in DOMAIN queue : j > k => queue'[j - k] = queue[j]
    BY <1>1, <2>2
  <2>4. \A i \in 1 .. n : i \in DOMAIN queue'
    BY <1>3
  <2> HIDE DEF n
  <2> QED
    BY <2>1, <2>2, <2>3, <2>4
<1>5. \A s \in States : OnItsWay(s) => OnItsWay(s)'
  BY <1>4 DEF OnItsWay
<1>6. ASSUME NEW s \in States, s = it.state, ~Refused(queue)
      PROVE  OnItsWay(s)'
  <2>1. n + 1 \in DOMAIN queue' /\ queue'[n + 1] = it
    BY <1>1, <1>3, <1>6
  <2> QED
    BY <1>6, <2>1 DEF OnItsWay, States
<1>7. ItemInv'
  <2> SUFFICES ASSUME NEW i \in DOMAIN queue', queue'[i].state # 0
               PROVE  LET s == queue'[i].state
                      IN  /\ queue'[i].to = Broadcast
                          /\ \/ queue'[i].version = version'[s]
                             \/ updated'[s]
                             \/ \E j \in DOMAIN queue' : /\ j > i
                                                         /\ queue'[j].state = s
                                                         /\ queue'[j].version = version'[s]
                             \/ <<s, version'[s]>> \in dropped'
    BY DEF ItemInv
  <2>1. CASE ~Refused(queue) /\ i = n + 1
    BY <1>1, <2>1
  <2>2. CASE i \in 1 .. n
    <3> DEFINE s == queue'[i].state
    <3>1. i + k \in DOMAIN queue /\ queue'[i] = queue[i + k] /\ queue[i + k].state = s
      BY <1>1, <1>3, <2>2
    <3>2. queue[i + k] \in Item
      BY <1>2, <3>1
    <3>3. s \in States
      BY <3>1, <3>2 DEF Item, States
    <3> HIDE DEF s
    <3>4. /\ queue[i + k].to = Broadcast
          /\ \/ queue[i + k].version = version[s]
             \/ updated[s]
             \/ \E j \in DOMAIN queue : /\ j > i + k
                                        /\ queue[j].state = s
                                        /\ queue[j].version = version[s]
             \/ <<s, version[s]>> \in dropped
      BY <3>1, <3>3 DEF ItemInv, s
    <3>5. CASE s = it.state /\ ~Refused(queue)
      <4>1. n + 1 \in DOMAIN queue' /\ queue'[n + 1] = it /\ n + 1 > i
        BY <1>1, <1>3, <2>2, <3>5
      <4> QED
        BY <3>1, <3>4, <3>5, <4>1 DEF s
    <3>6. CASE updated[s] /\ ~(s = it.state /\ ~Refused(queue))
      BY <3>1, <3>3, <3>4, <3>6 DEF s
    <3>7. ASSUME NEW j \in DOMAIN queue, j > i + k, queue[j].state = s,
                 queue[j].version = version[s]
          PROVE  j - k \in DOMAIN queue' /\ j - k > i /\ queue'[j - k].state = s
                     /\ queue'[j - k].version = version[s]
      <4>1. j - k \in 1 .. n /\ (j - k) + k = j /\ j - k > i
        <5>1. j \in Int /\ k \in Int /\ i \in Int /\ i >= 1 /\ j <= Len(queue) /\ Len(queue) \in Int
          BY <1>3, <2>2
        <5> QED
          BY <3>7, <5>1
      <4>2. queue'[j - k] = queue[j]
        BY <1>1, <4>1
      <4> QED
        BY <1>3, <3>7, <4>1, <4>2
    <3> QED
      BY <3>1, <3>4, <3>5, <3>6, <3>7 DEF s
  <2> QED
    BY <1>3, <2>1, <2>2
<1> QED
  BY <1>5, <1>6, <1>7

\* Sending the first item: a current one leaves the queue for the clients, an
\* old one has a successor.
LEMMA SendKeeps ==
    ASSUME ItemInv, QueueTypeOK, queue # <<>>, NEW fs \in SUBSET Fds,
           queue' = Unaddress(Tail(queue), fs), UNCHANGED <<version, updated, dropped>>
    PROVE  /\ ItemInv'
           /\ \A s \in States :
                 /\ OnItsWay(s) /\ Head(queue).state # s => OnItsWay(s)'
                 /\ Head(queue).state = s =>
                       \/ Head(queue).version = version[s]
                       \/ updated[s]
                       \/ OnItsWay(s)'
                       \/ <<s, version[s]>> \in dropped
<1> USE WebSocketsAssumption
<1> DEFINE q == Tail(queue)
<1>1. /\ q \in Seq(Item) /\ Len(q) = Len(queue) - 1 /\ Len(queue) > 0
      /\ \A i \in 1 .. Len(queue) - 1 : q[i] = queue[i + 1]
      /\ Head(queue) = queue[1]
  BY TailResult DEF QueueTypeOK
<1>2. queue' = Unaddress(q, fs) /\ queue \in Seq(Item)
  BY DEF QueueTypeOK
<1> HIDE DEF q
<1>3. \A i \in DOMAIN q :
         /\ Unaddress(q, fs)[i].to = IF q[i].to \in fs THEN Cleared ELSE q[i].to
         /\ Unaddress(q, fs)[i].state = q[i].state
         /\ Unaddress(q, fs)[i].version = q[i].version
  BY <1>1, UnaddressResult
<1>4. DOMAIN queue = 1 .. Len(queue) /\ Len(queue) \in Nat /\ DOMAIN q = 1 .. Len(queue) - 1
  BY <1>1, <1>2
<1>5. DOMAIN queue' = 1 .. Len(queue) - 1
  BY <1>1, <1>2, <1>4, UnaddressResult
<1>6. \A i \in 1 .. Len(queue) - 1 :
         /\ queue'[i].to = IF queue[i + 1].to \in fs THEN Cleared ELSE queue[i + 1].to
         /\ queue'[i].state = queue[i + 1].state
         /\ queue'[i].version = queue[i + 1].version
  BY <1>1, <1>2, <1>3, <1>4
<1>7. \A j \in DOMAIN queue : j > 1 /\ queue[j].to = Broadcast =>
         /\ j - 1 \in DOMAIN queue' /\ queue'[j - 1].to = Broadcast
         /\ queue'[j - 1].state = queue[j].state /\ queue'[j - 1].version = queue[j].version
  BY <1>4, <1>5, <1>6
<1>8. \A s \in States : OnItsWay(s) /\ Head(queue).state # s => OnItsWay(s)'
  BY <1>1, <1>4, <1>7 DEF OnItsWay
<1>9. ASSUME NEW s \in States, Head(queue).state = s
      PROVE  \/ Head(queue).version = version[s]
             \/ updated[s]
             \/ OnItsWay(s)'
             \/ <<s, version[s]>> \in dropped
  <2>1. 1 \in DOMAIN queue /\ queue[1].state = s /\ s # 0
    BY <1>1, <1>4, <1>9 DEF States
  <2>2. ASSUME NEW j \in DOMAIN queue, j > 1, queue[j].state = s, queue[j].version = version[s]
        PROVE  OnItsWay(s)'
    <3>1. queue[j].to = Broadcast
      BY <2>1, <2>2 DEF ItemInv
    <3> QED
      BY <1>7, <2>2, <3>1 DEF OnItsWay
  <2> QED
    BY <1>1, <2>1, <2>2 DEF ItemInv
<1>10. ItemInv'
  <2> SUFFICES ASSUME NEW i \in DOMAIN queue', queue'[i].state # 0
               PROVE  LET s == queue'[i].state
                      IN  /\ queue'[i].to = Broadcast
                          /\ \/ queue'[i].version = version'[s]
                             \/ updated'[s]
                             \/ \E j \in DOMAIN queue' : /\ j > i
                                                         /\ queue'[j].state = s
                                                         /\ queue'[j].version = version'[s]
                             \/ <<s, version'[s]>> \in dropped'
    BY DEF ItemInv
  <2>1. i + 1 \in DOMAIN queue /\ queue'[i].state = queue[i + 1].state /\ i \in 1 .. Len(queue) - 1
    BY <1>4, <1>5, <1>6
  <2>2. queue[i + 1].to = Broadcast /\ queue'[i].to = Broadcast
    BY <1>6, <2>1 DEF ItemInv
  <2>3. queue'[i].version = queue[i + 1].version
    BY <1>6, <2>1
  <2>4. ASSUME NEW j \in DOMAIN queue, j > i + 1, queue[j].state = queue[i + 1].state,
               queue[j].version = version[queue[i + 1].state]
        PROVE  j - 1 \in DOMAIN queue' /\ j - 1 > i /\ queue'[j - 1].state = queue'[i].state
                  /\ queue'[j - 1].version = version[queue'[i].state]
    BY <1>4, <1>5, <1>6, <2>1, <2>4
  <2> QED
    BY <2>1, <2>2, <2>3, <2>4 DEF ItemInv
<1> QED
  BY <1>8, <1>9, <1>10

\* The steps that neither change, push nor send a state.
Quiet ==
    \/ \E f \in Fds, c \in Conns : Accept(f, c)
    \/ \E f \in Fds : \/ Upgrade(f) \/ HandshakeFails(f) \/ ReceivedPong(f)
                      \/ ReceivedClose(f) \/ SessionEnds(f) \/ PongIsLate(f)
    \/ \E last \in States : DumpChunk(last)
    \/ DumpFail \/ KeepAliveAdd \/ WorkStart \/ WorkEmpty \/ WorkDone
    \/ \E c \in Conns : SendToClient(c) \/ LearnDisconnect(c) \/ CloseAsync(c)
    \/ SendPing \/ TriggerHttpThread \/ QueueWork \/ Stop \/ StopEnd \/ Start
    \/ UNCHANGED vars

\* They keep the order of versions in the queue and every broadcast.
LEMMA QuietStep ==
    ASSUME TypeOK, SessionInv, ListInv, ItemInv, Quiet
    PROVE  ItemInv' /\ \A s \in States : OnItsWay(s) => OnItsWay(s)'
<1> DEFINE QuietQueue == ItemInv' /\ \A s \in States : OnItsWay(s) => OnItsWay(s)'
<1> USE WebSocketsAssumption DEF TypeOK, SessionTypeOK, sessVars, apiVars, boundVars, httpVars, history
<1>1. ASSUME NEW f \in Fds, NEW c \in Conns, Accept(f, c)
      PROVE  QuietQueue
  BY <1>1 DEF Accept, ItemInv, OnItsWay
<1>2. ASSUME NEW f \in Fds, Upgrade(f)
      PROVE  QuietQueue
  <2> PICK gone \in Evicted : EndSessions(gone, gone, [kind EXCEPT ![f] = "ws"], queue)
    BY <1>2 DEF Upgrade
  <2>1. queue' = Unaddress(queue, gone) /\ UNCHANGED <<version, updated, dropped>>
    BY <1>2 DEF Upgrade, EndSessions
  <2>2. gone \in SUBSET Fds
    BY DEF Evicted, Victims
  <2> QED
    BY <2>1, <2>2, UnaddressKeeps
<1>3. ASSUME NEW last \in States, DumpChunk(last)
      PROVE  QuietQueue
  BY <1>3 DEF DumpChunk, ItemInv, OnItsWay
<1>4. ASSUME DumpFail
      PROVE  QuietQueue
  <2>1. queue' = Unaddress(queue, {http.fd}) /\ UNCHANGED <<version, updated, dropped>>
    BY <1>4 DEF DumpFail, EndSessions
  <2>2. {http.fd} \in SUBSET Fds
    BY <1>4 DEF DumpFail, ListInv, WsFds
  <2> QED
    BY <2>1, <2>2, UnaddressKeeps
<1>5. ASSUME KeepAliveAdd
      PROVE  QuietQueue
  BY <1>5 DEF KeepAliveAdd, ItemInv, OnItsWay
<1>6. ASSUME NEW f \in Fds, ReceivedPong(f)
      PROVE  QuietQueue
  BY <1>6 DEF ReceivedPong, ItemInv, OnItsWay
<1>7. ASSUME NEW f \in Fds, ReceivedClose(f)
      PROVE  QuietQueue
  <2>1. queue' = Unaddress(queue, {f}) /\ UNCHANGED <<version, updated, dropped>>
    BY <1>7 DEF ReceivedClose
  <2>2. {f} \in SUBSET Fds
    BY <1>7 DEF ReceivedClose
  <2> QED
    BY <2>1, <2>2, UnaddressKeeps
<1>8. ASSUME NEW f \in Fds, SessionEnds(f)
      PROVE  QuietQueue
  <2>1. queue' = Unaddress(queue, Reported(f)) /\ UNCHANGED <<version, updated, dropped>>
    BY <1>8 DEF SessionEnds, EndSessions
  <2>2. Reported(f) \in SUBSET Fds
    BY <1>8 DEF SessionEnds, Reported
  <2> QED
    BY <2>1, <2>2, UnaddressKeeps
<1>9. ASSUME NEW f \in Fds, PongIsLate(f)
      PROVE  QuietQueue
  BY <1>9 DEF PongIsLate, ItemInv, OnItsWay
<1>10. ASSUME WorkStart
      PROVE  QuietQueue
  <2>1. queue' = Unaddress(queue, ({pending[i].fd : i \in DOMAIN pending} \cup DeadClients)) /\ UNCHANGED <<version, updated, dropped>>
    BY <1>10 DEF WorkStart, EndSessions
  <2>2. ({pending[i].fd : i \in DOMAIN pending} \cup DeadClients) \in SUBSET Fds
    <3>1. \A i \in DOMAIN pending : pending[i] \in [fd : Fds, for : Conns]
      <4> DEFINE P == [fd : Fds, for : Conns]
      <4>1. pending \in Seq(P)
        BY DEF PendingTypeOK
      <4> HIDE DEF P
      <4>2. \A i \in DOMAIN pending : pending[i] \in P
        BY <4>1
      <4> QED
        BY <4>2 DEF P
    <3> QED
      BY <3>1 DEF DeadClients
  <2> QED
    BY <2>1, <2>2, UnaddressKeeps
<1>11. ASSUME WorkEmpty
      PROVE  QuietQueue
  BY <1>11 DEF WorkEmpty, ItemInv, OnItsWay
<1>12. ASSUME WorkDone
      PROVE  QuietQueue
  BY <1>12 DEF WorkDone, ItemInv, OnItsWay
<1>13. ASSUME SendPing
      PROVE  QuietQueue
  <2>1. BroadcastItem(0, 0) \in Item
    BY DEF BroadcastItem, Item
  <2>2. (queue' = queue \/ queue' = Enqueue(queue, BroadcastItem(0, 0))) /\ UNCHANGED <<version, updated, dropped>>
    BY <1>13 DEF SendPing
  <2>3. BroadcastItem(0, 0).state = 0
    BY DEF BroadcastItem
  <2>4. CASE queue' = queue
    BY <2>2, <2>4 DEF ItemInv, OnItsWay
  <2> QED
    BY <2>1, <2>2, <2>3, <2>4, EnqueueKeeps
<1>14. ASSUME NEW c \in Conns, SendToClient(c)
      PROVE  QuietQueue
  <2> DEFINE it == [to |-> known[c], state |-> 0, version |-> 0, for |-> c,
                    live |-> known[c] \in keepAlive /\ owner[known[c]] = c]
  <2>1. it \in Item
    BY DEF Item
  <2>2. it.state = 0
    OBVIOUS
  <2>3. queue' = Enqueue(queue, it) /\ UNCHANGED <<version, updated, dropped>>
    BY <1>14 DEF SendToClient
  <2> HIDE DEF it
  <2> QED
    BY <2>1, <2>2, <2>3, EnqueueKeeps
<1>15. ASSUME NEW c \in Conns, LearnDisconnect(c)
      PROVE  QuietQueue
  BY <1>15 DEF LearnDisconnect, ItemInv, OnItsWay
<1>16. ASSUME NEW c \in Conns, CloseAsync(c)
      PROVE  QuietQueue
  <2> DEFINE s == <<[fd |-> known[c], for |-> c]>>
             fs == {s[i].fd : i \in DOMAIN s}
  <2>1. queue' = Unaddress(queue, fs) /\ UNCHANGED <<version, updated, dropped>>
    BY <1>16 DEF CloseAsync, CloseLater
  <2>2. fs \in SUBSET Fds
    BY <1>16 DEF CloseAsync
  <2> HIDE DEF fs
  <2> QED
    BY <2>1, <2>2, UnaddressKeeps
<1>17. ASSUME TriggerHttpThread
      PROVE  QuietQueue
  BY <1>17 DEF TriggerHttpThread, ItemInv, OnItsWay
<1>18. ASSUME QueueWork
      PROVE  QuietQueue
  BY <1>18 DEF QueueWork, ItemInv, OnItsWay
<1>19. ASSUME Stop
      PROVE  QuietQueue
  <2>1. BroadcastItem(0, 0) \in Item
    BY DEF BroadcastItem, Item
  <2>2. (queue' = queue \/ queue' = Enqueue(queue, BroadcastItem(0, 0))) /\ UNCHANGED <<version, updated, dropped>>
    BY <1>19 DEF Stop
  <2>3. BroadcastItem(0, 0).state = 0
    BY DEF BroadcastItem
  <2>4. CASE queue' = queue
    BY <2>2, <2>4 DEF ItemInv, OnItsWay
  <2> QED
    BY <2>1, <2>2, <2>3, <2>4, EnqueueKeeps
<1>20. ASSUME StopEnd
      PROVE  QuietQueue
  <2>1. PICK s \in [1 .. Cardinality(keepAlive) -> keepAlive] :
                CloseLater([i \in DOMAIN s |-> [fd |-> s[i], for |-> owner[s[i]]]])
    BY <1>20 DEF StopEnd
  <2> DEFINE e == [i \in DOMAIN s |-> [fd |-> s[i], for |-> owner[s[i]]]]
             fs == {e[i].fd : i \in DOMAIN e}
  <2>2. fs \in SUBSET Fds
    BY <2>1
  <2>3. queue' = Unaddress(queue, fs)
    BY <2>1 DEF CloseLater
  <2>4. UNCHANGED <<version, updated, dropped>>
    BY <1>20 DEF StopEnd
  <2> HIDE DEF fs
  <2> QED
    BY <2>2, <2>3, <2>4, UnaddressKeeps
<1>21. ASSUME Start
      PROVE  QuietQueue
  BY <1>21 DEF Start, ItemInv, OnItsWay
<1>22. ASSUME NEW f \in Fds, HandshakeFails(f)
      PROVE  QuietQueue
  <2>0. PICK gone \in Evicted, ended \in SUBSET {f} :
               EndSessions(gone \cup ended, gone, kind, queue)
    BY <1>22 DEF HandshakeFails
  <2>1. queue' = Unaddress(queue, gone) /\ UNCHANGED <<version, updated, dropped>>
    BY <1>22, <2>0 DEF HandshakeFails, EndSessions
  <2>2. gone \in SUBSET Fds
    BY DEF Evicted, Victims
  <2> QED
    BY <2>1, <2>2, UnaddressKeeps
<1>23. CASE UNCHANGED vars
  BY <1>23 DEF vars, ItemInv, OnItsWay
<1> QED
  BY <1>1, <1>2, <1>3, <1>4, <1>5, <1>6, <1>7, <1>8, <1>9, <1>10, <1>11, <1>12, <1>13, <1>14,
      <1>15, <1>16, <1>17, <1>18, <1>19, <1>20, <1>21, <1>22, <1>23
     DEF Quiet

\* What a client is owed, it is still owed after a quiet step.
LEMMA CoverKept ==
    ASSUME UNCHANGED <<version, updated, dropped>>,
           \A s \in States : OnItsWay(s) => OnItsWay(s)'
    PROVE  \A c \in Conns, s \in States :
              /\ Covered(c, s)
              /\ seen'[c][s] = seen[c][s] \/ seen'[c][s] = version[s]
              => Covered(c, s)'
<1> SUFFICES ASSUME NEW c \in Conns, NEW s \in States, Covered(c, s),
                    seen'[c][s] = seen[c][s] \/ seen'[c][s] = version[s]
             PROVE  Covered(c, s)'
  OBVIOUS
<1>1. CASE seen[c][s] = version[s]
  BY <1>1 DEF Covered
<1>2. CASE updated[s]
  BY <1>2 DEF Covered
<1>3. CASE OnItsWay(s)
  BY <1>3 DEF Covered
<1>4. CASE <<s, version[s]>> \in dropped
  BY <1>4 DEF Covered
<1> QED
  BY <1>1, <1>2, <1>3, <1>4 DEF Covered

LEMMA CoverStep == TypeOK /\ SessionInv /\ ListInv /\ ItemInv /\ CoverInv /\ [Next]_vars =>
    CoverInv'
<1> SUFFICES ASSUME TypeOK, SessionInv, ListInv, ItemInv, CoverInv, [Next]_vars
             PROVE  CoverInv'
  OBVIOUS
<1> USE WebSocketsAssumption DEF TypeOK, SessionTypeOK, sessVars, apiVars, boundVars, httpVars, history
<1>a. http.pc = "add" => http.next = NStates + 1
  BY DEF CoverInv
<1>b. (http.pc = "add" => http.next = NStates + 1)'
  <2>1. ASSUME NEW f \in Fds, NEW c \in Conns, Accept(f, c)
        PROVE  (http.pc = "add" => http.next = NStates + 1)'
    BY <2>1, <1>a DEF Accept, Idle, ThreadTypeOK
  <2>2. ASSUME NEW f \in Fds, Upgrade(f)
        PROVE  (http.pc = "add" => http.next = NStates + 1)'
    BY <2>2, <1>a DEF Upgrade, Idle, ThreadTypeOK
  <2>3. ASSUME NEW last \in States, DumpChunk(last)
        PROVE  (http.pc = "add" => http.next = NStates + 1)'
    BY <2>3, <1>a DEF DumpChunk, Idle, ThreadTypeOK
  <2>4. ASSUME DumpFail
        PROVE  (http.pc = "add" => http.next = NStates + 1)'
    BY <2>4, <1>a DEF DumpFail, Idle, ThreadTypeOK
  <2>5. ASSUME KeepAliveAdd
        PROVE  (http.pc = "add" => http.next = NStates + 1)'
    BY <2>5, <1>a DEF KeepAliveAdd, Idle, ThreadTypeOK
  <2>6. ASSUME NEW f \in Fds, ReceivedPong(f)
        PROVE  (http.pc = "add" => http.next = NStates + 1)'
    BY <2>6, <1>a DEF ReceivedPong, Idle, ThreadTypeOK
  <2>7. ASSUME NEW f \in Fds, ReceivedClose(f)
        PROVE  (http.pc = "add" => http.next = NStates + 1)'
    BY <2>7, <1>a DEF ReceivedClose, Idle, ThreadTypeOK
  <2>8. ASSUME NEW f \in Fds, SessionEnds(f)
        PROVE  (http.pc = "add" => http.next = NStates + 1)'
    BY <2>8, <1>a DEF SessionEnds, Idle, ThreadTypeOK
  <2>9. ASSUME NEW f \in Fds, PongIsLate(f)
        PROVE  (http.pc = "add" => http.next = NStates + 1)'
    BY <2>9, <1>a DEF PongIsLate, Idle, ThreadTypeOK
  <2>10. ASSUME WorkStart
        PROVE  (http.pc = "add" => http.next = NStates + 1)'
    BY <2>10, <1>a DEF WorkStart, Idle, ThreadTypeOK
  <2>11. ASSUME WorkItem
        PROVE  (http.pc = "add" => http.next = NStates + 1)'
    BY <2>11, <1>a DEF WorkItem, Idle, ThreadTypeOK
  <2>12. ASSUME WorkEmpty
        PROVE  (http.pc = "add" => http.next = NStates + 1)'
    BY <2>12, <1>a DEF WorkEmpty, Idle, ThreadTypeOK
  <2>13. ASSUME WorkDone
        PROVE  (http.pc = "add" => http.next = NStates + 1)'
    BY <2>13, <1>a DEF WorkDone, Idle, ThreadTypeOK
  <2>14. ASSUME NEW s \in States, UpdateState(s)
        PROVE  (http.pc = "add" => http.next = NStates + 1)'
    BY <2>14, <1>a DEF UpdateState, Idle, ThreadTypeOK
  <2>15. ASSUME NEW s \in States, PushState(s)
        PROVE  (http.pc = "add" => http.next = NStates + 1)'
    BY <2>15, <1>a DEF PushState, Idle, ThreadTypeOK
  <2>16. ASSUME SendPing
        PROVE  (http.pc = "add" => http.next = NStates + 1)'
    BY <2>16, <1>a DEF SendPing, Idle, ThreadTypeOK
  <2>17. ASSUME NEW c \in Conns, SendToClient(c)
        PROVE  (http.pc = "add" => http.next = NStates + 1)'
    BY <2>17, <1>a DEF SendToClient, Idle, ThreadTypeOK
  <2>18. ASSUME NEW c \in Conns, LearnDisconnect(c)
        PROVE  (http.pc = "add" => http.next = NStates + 1)'
    BY <2>18, <1>a DEF LearnDisconnect, Idle, ThreadTypeOK
  <2>19. ASSUME NEW c \in Conns, CloseAsync(c)
        PROVE  (http.pc = "add" => http.next = NStates + 1)'
    BY <2>19, <1>a DEF CloseAsync, Idle, ThreadTypeOK
  <2>20. ASSUME TriggerHttpThread
        PROVE  (http.pc = "add" => http.next = NStates + 1)'
    BY <2>20, <1>a DEF TriggerHttpThread, Idle, ThreadTypeOK
  <2>21. ASSUME QueueWork
        PROVE  (http.pc = "add" => http.next = NStates + 1)'
    BY <2>21, <1>a DEF QueueWork, Idle, ThreadTypeOK
  <2>22. ASSUME Stop
        PROVE  (http.pc = "add" => http.next = NStates + 1)'
    BY <2>22, <1>a DEF Stop, Idle, ThreadTypeOK
  <2>23. ASSUME StopEnd
        PROVE  (http.pc = "add" => http.next = NStates + 1)'
    BY <2>23, <1>a DEF StopEnd, Idle, ThreadTypeOK
  <2>24. ASSUME Start
        PROVE  (http.pc = "add" => http.next = NStates + 1)'
    BY <2>24, <1>a DEF Start, Idle, ThreadTypeOK
  <2>25. CASE UNCHANGED vars
    BY <2>25, <1>a DEF vars
  <2>26. ASSUME NEW f \in Fds, HandshakeFails(f)
        PROVE  (http.pc = "add" => http.next = NStates + 1)'
    BY <2>26, <1>a DEF HandshakeFails
  <2> QED
    BY <2>1, <2>2, <2>3, <2>4, <2>5, <2>6, <2>7, <2>8, <2>9, <2>10, <2>11, <2>12, <2>13, <2>14,
        <2>15, <2>16, <2>17, <2>18, <2>19, <2>20, <2>21, <2>22, <2>23, <2>24, <2>25, <2>26
       DEF Next, HttpThread, MainThread, Clients, Worker, PokeLocalhost
<1>c. \A c \in Conns, s \in States : Owed(c, s) => Covered(c, s)
  BY DEF CoverInv
<1> SUFFICES ASSUME NEW c0 \in Conns, NEW s0 \in States, Owed(c0, s0)'
             PROVE  Covered(c0, s0)'
  BY <1>b DEF CoverInv
<1>1. ASSUME NEW f \in Fds, NEW c \in Conns, Accept(f, c)
      PROVE  Covered(c0, s0)'
  <2>1. Owed(c0, s0)
    BY <1>1 DEF Accept, Owed, Idle, States, ListInv, KeepAliveIsLive, SlotIsFree, SessionInv,
        WsFds, ThreadTypeOK
  <2>2. seen' = seen /\ UNCHANGED <<version, updated, dropped>>
    BY <1>1 DEF Accept
  <2>3. \A s1 \in States : OnItsWay(s1) => OnItsWay(s1)'
    BY <1>1, QuietStep DEF Quiet
  <2> QED
    BY <2>1, <2>2, <2>3, <1>c, CoverKept
<1>2. ASSUME NEW f \in Fds, Upgrade(f)
      PROVE  Covered(c0, s0)'
  <2>1. Owed(c0, s0)
    BY <1>2 DEF Upgrade, EndSessions, Owed, Idle, States, ListInv, KeepAliveIsLive,
        SlotIsFree, SessionInv, WsFds, ThreadTypeOK, Evicted, Victims
  <2>2. seen' = seen /\ UNCHANGED <<version, updated, dropped>>
    BY <1>2 DEF Upgrade
  <2>3. \A s1 \in States : OnItsWay(s1) => OnItsWay(s1)'
    BY <1>2, QuietStep DEF Quiet
  <2> QED
    BY <2>1, <2>2, <2>3, <1>c, CoverKept
<1>3. ASSUME NEW last \in States, DumpChunk(last)
      PROVE  Covered(c0, s0)'
  <2>1. Owed(c0, s0) \/ (s0 \in http.next .. last /\ c0 = owner[http.fd])
    BY <1>3 DEF DumpChunk, Owed, States, ThreadTypeOK
  <2>2. UNCHANGED <<version, updated, dropped>>
    BY <1>3 DEF DumpChunk
  <2>3. s0 \in http.next .. last /\ c0 = owner[http.fd] => seen'[c0][s0] = version[s0]
    BY <1>3 DEF DumpChunk, ApiTypeOK
  <2>4. seen'[c0][s0] = seen[c0][s0] \/ seen'[c0][s0] = version[s0]
    BY <1>3 DEF DumpChunk, ApiTypeOK
  <2>5. \A s1 \in States : OnItsWay(s1) => OnItsWay(s1)'
    BY <1>3, QuietStep DEF Quiet
  <2>6. CASE Owed(c0, s0)
    BY <2>2, <2>4, <2>5, <2>6, <1>c, CoverKept
  <2>7. CASE s0 \in http.next .. last /\ c0 = owner[http.fd]
    BY <2>2, <2>3, <2>7 DEF Covered
  <2> QED
    BY <2>1, <2>6, <2>7
<1>4. ASSUME DumpFail
      PROVE  Covered(c0, s0)'
  <2>1. Owed(c0, s0)
    BY <1>4 DEF DumpFail, EndSessions, Owed, Idle, States, ListInv, KeepAliveIsLive,
        SlotIsFree, SessionInv, WsFds, ThreadTypeOK
  <2>2. seen' = seen /\ UNCHANGED <<version, updated, dropped>>
    BY <1>4 DEF DumpFail
  <2>3. \A s1 \in States : OnItsWay(s1) => OnItsWay(s1)'
    BY <1>4, QuietStep DEF Quiet
  <2> QED
    BY <2>1, <2>2, <2>3, <1>c, CoverKept
<1>5. ASSUME KeepAliveAdd
      PROVE  Covered(c0, s0)'
  <2>1. Owed(c0, s0)
    BY <1>5, <1>a DEF KeepAliveAdd, Owed, Idle, States, ListInv, KeepAliveIsLive, SlotIsFree,
        SessionInv, WsFds, ThreadTypeOK
  <2>2. seen' = seen /\ UNCHANGED <<version, updated, dropped>>
    BY <1>5 DEF KeepAliveAdd
  <2>3. \A s1 \in States : OnItsWay(s1) => OnItsWay(s1)'
    BY <1>5, QuietStep DEF Quiet
  <2> QED
    BY <2>1, <2>2, <2>3, <1>c, CoverKept
<1>6. ASSUME NEW f \in Fds, ReceivedPong(f)
      PROVE  Covered(c0, s0)'
  <2>1. Owed(c0, s0)
    BY <1>6 DEF ReceivedPong, Owed, Idle, States, ListInv, KeepAliveIsLive, SlotIsFree,
        SessionInv, WsFds, ThreadTypeOK
  <2>2. seen' = seen /\ UNCHANGED <<version, updated, dropped>>
    BY <1>6 DEF ReceivedPong
  <2>3. \A s1 \in States : OnItsWay(s1) => OnItsWay(s1)'
    BY <1>6, QuietStep DEF Quiet
  <2> QED
    BY <2>1, <2>2, <2>3, <1>c, CoverKept
<1>7. ASSUME NEW f \in Fds, ReceivedClose(f)
      PROVE  Covered(c0, s0)'
  <2>1. Owed(c0, s0)
    BY <1>7 DEF ReceivedClose, Owed, Idle, States, ListInv, KeepAliveIsLive, SlotIsFree,
        SessionInv, WsFds, ThreadTypeOK
  <2>2. seen' = seen /\ UNCHANGED <<version, updated, dropped>>
    BY <1>7 DEF ReceivedClose
  <2>3. \A s1 \in States : OnItsWay(s1) => OnItsWay(s1)'
    BY <1>7, QuietStep DEF Quiet
  <2> QED
    BY <2>1, <2>2, <2>3, <1>c, CoverKept
<1>8. ASSUME NEW f \in Fds, SessionEnds(f)
      PROVE  Covered(c0, s0)'
  <2>1. Owed(c0, s0)
    BY <1>8 DEF SessionEnds, EndSessions, Owed, Idle, States, ListInv, KeepAliveIsLive,
        SlotIsFree, SessionInv, WsFds, ThreadTypeOK, Reported
  <2>2. seen' = seen /\ UNCHANGED <<version, updated, dropped>>
    BY <1>8 DEF SessionEnds
  <2>3. \A s1 \in States : OnItsWay(s1) => OnItsWay(s1)'
    BY <1>8, QuietStep DEF Quiet
  <2> QED
    BY <2>1, <2>2, <2>3, <1>c, CoverKept
<1>9. ASSUME NEW f \in Fds, PongIsLate(f)
      PROVE  Covered(c0, s0)'
  <2>1. Owed(c0, s0)
    BY <1>9 DEF PongIsLate, Owed, Idle, States, ListInv, KeepAliveIsLive, SlotIsFree,
        SessionInv, WsFds, ThreadTypeOK
  <2>2. seen' = seen /\ UNCHANGED <<version, updated, dropped>>
    BY <1>9 DEF PongIsLate
  <2>3. \A s1 \in States : OnItsWay(s1) => OnItsWay(s1)'
    BY <1>9, QuietStep DEF Quiet
  <2> QED
    BY <2>1, <2>2, <2>3, <1>c, CoverKept
<1>10. ASSUME WorkStart
      PROVE  Covered(c0, s0)'
  <2>1. Owed(c0, s0)
    BY <1>10 DEF WorkStart, EndSessions, Owed, Idle, States, ListInv, KeepAliveIsLive,
        SlotIsFree, SessionInv, WsFds, ThreadTypeOK
  <2>2. seen' = seen /\ UNCHANGED <<version, updated, dropped>>
    BY <1>10 DEF WorkStart
  <2>3. \A s1 \in States : OnItsWay(s1) => OnItsWay(s1)'
    BY <1>10, QuietStep DEF Quiet
  <2> QED
    BY <2>1, <2>2, <2>3, <1>c, CoverKept
<1>11. ASSUME WorkItem
      PROVE  Covered(c0, s0)'
  <2> DEFINE head == Head(queue)
             got(failed) == {owner[f] : f \in Receivers(head) \ failed}
  <2>1. PICK failed \in SUBSET Receivers(head) :
           /\ seen' = IF head.state = 0 THEN seen
                      ELSE [c \in Conns |-> IF c \in got(failed)
                                            THEN [seen[c] EXCEPT ![head.state] = head.version]
                                            ELSE seen[c]]
           /\ EndSessions(failed, failed, kind, Tail(queue))
    BY <1>11 DEF WorkItem
  <2>2. failed \in SUBSET Fds
    BY DEF Receivers, WsFds
  <2>3. UNCHANGED <<version, updated, dropped, http>> /\ http.pc = "work" /\ queue # <<>>
    BY <1>11 DEF WorkItem
  <2>4. queue' = Unaddress(Tail(queue), failed) /\ keepAlive' = keepAlive \ failed
    BY <2>1 DEF EndSessions
  <2>5. PICK f \in keepAlive \ failed : owner[f] = c0
    BY <2>1, <2>2, <2>3, <2>4 DEF Owed, EndSessions
  <2>6. Covered(c0, s0)
    BY <2>5, <1>c DEF Owed
  <2>7. /\ OnItsWay(s0) /\ head.state # s0 => OnItsWay(s0)'
        /\ head.state = s0 => \/ head.version = version[s0]
                              \/ updated[s0]
                              \/ OnItsWay(s0)'
                              \/ <<s0, version[s0]>> \in dropped
    BY <2>2, <2>3, <2>4, SendKeeps
  <2>8. CASE head.state = s0
    <3>1. head.to = Broadcast /\ s0 # 0
      <4>1. 1 \in DOMAIN queue /\ head = queue[1]
        BY <2>3, TailResult DEF QueueTypeOK
      <4>2. queue[1].state = s0 /\ s0 # 0
        BY <2>8, <4>1 DEF States
      <4>3. queue[1].to = Broadcast
        BY <4>1, <4>2 DEF ItemInv
      <4> QED
        BY <4>1, <4>2, <4>3
    <3>2. c0 \in got(failed)
      BY <2>5, <3>1 DEF Receivers, ListInv, KeepAliveIsLive
    <3> HIDE DEF head, got
    <3>3. seen'[c0][s0] = head.version
      BY <2>1, <2>8, <3>1, <3>2 DEF ApiTypeOK
    <3> QED
      BY <2>3, <2>7, <2>8, <3>3 DEF Covered
  <2>9. CASE head.state # s0
    <3> HIDE DEF head, got
    <3>1. seen'[c0][s0] = seen[c0][s0]
      BY <2>1, <2>9 DEF ApiTypeOK
    <3> QED
      BY <2>3, <2>6, <2>7, <2>9, <3>1 DEF Covered
  <2> QED
    BY <2>8, <2>9
<1>12. ASSUME WorkEmpty
      PROVE  Covered(c0, s0)'
  <2>1. Owed(c0, s0)
    BY <1>12 DEF WorkEmpty, Owed, Idle, States, ListInv, KeepAliveIsLive, SlotIsFree,
        SessionInv, WsFds, ThreadTypeOK
  <2>2. seen' = seen /\ UNCHANGED <<version, updated, dropped>>
    BY <1>12 DEF WorkEmpty
  <2>3. \A s1 \in States : OnItsWay(s1) => OnItsWay(s1)'
    BY <1>12, QuietStep DEF Quiet
  <2> QED
    BY <2>1, <2>2, <2>3, <1>c, CoverKept
<1>13. ASSUME WorkDone
      PROVE  Covered(c0, s0)'
  <2>1. Owed(c0, s0)
    BY <1>13 DEF WorkDone, Owed, Idle, States, ListInv, KeepAliveIsLive, SlotIsFree,
        SessionInv, WsFds, ThreadTypeOK
  <2>2. seen' = seen /\ UNCHANGED <<version, updated, dropped>>
    BY <1>13 DEF WorkDone
  <2>3. \A s1 \in States : OnItsWay(s1) => OnItsWay(s1)'
    BY <1>13, QuietStep DEF Quiet
  <2> QED
    BY <2>1, <2>2, <2>3, <1>c, CoverKept
<1>14. ASSUME NEW s \in States, UpdateState(s)
      PROVE  Covered(c0, s0)'
  <2>1. Owed(c0, s0)
    BY <1>14 DEF UpdateState, Owed
  <2>2. CASE s0 = s
    BY <1>14, <2>2 DEF UpdateState, Covered, ApiTypeOK
  <2>3. CASE s0 # s
    <3>1. UNCHANGED <<queue, dropped, seen>> /\ version'[s0] = version[s0] /\ updated'[s0] = updated[s0]
      BY <1>14, <2>3 DEF UpdateState, ApiTypeOK
    <3> QED
      BY <2>1, <3>1, <1>c DEF Covered, OnItsWay
  <2> QED
    BY <2>2, <2>3
<1>15. ASSUME NEW s \in States, PushState(s)
      PROVE  Covered(c0, s0)'
  <2>1. Owed(c0, s0) /\ Covered(c0, s0)
    BY <1>15, <1>c DEF PushState, Owed
  <2>2. UNCHANGED <<version, seen, http, keepAlive, owner>>
    BY <1>15 DEF PushState
  <2>3. CASE keepAlive = {}
    <3>1. UNCHANGED queue /\ dropped \subseteq dropped'
      BY <1>15, <2>3 DEF PushState
    <3>2. CASE s0 = s
      <4>1. http.pc \in {"dump", "add"} /\ s < http.next
        BY <2>1, <2>3, <3>2 DEF Owed
      <4>2. <<s0, version[s0]>> \in dropped'
        BY <1>15, <2>3, <3>2, <4>1 DEF PushState
      <4> QED
        BY <2>2, <4>2 DEF Covered
    <3>3. CASE s0 # s
      <4>1. updated'[s0] = updated[s0]
        BY <1>15, <2>3, <3>3 DEF PushState, ApiTypeOK
      <4> QED
        BY <2>1, <2>2, <3>1, <4>1 DEF Covered, OnItsWay
    <3> QED
      BY <3>2, <3>3
  <2>4. CASE keepAlive # {}
    <3>0. PICK it : it = BroadcastItem(s, version[s])
      OBVIOUS
    <3>1. it \in Item /\ it.state = s /\ it.to = Broadcast /\ it.version = version[s] /\ s # 0
      BY <3>0 DEF BroadcastItem, Item, ApiTypeOK, States
    <3>2. /\ queue' = Enqueue(queue, it) /\ dropped' = dropped
          /\ updated' = [updated EXCEPT ![s] = Refused(queue)]
      BY <1>15, <2>4, <3>0 DEF PushState
    <3>3. \A s1 \in States : updated[s1] => updated'[s1] \/ (s1 = it.state /\ ~Refused(queue))
      BY <3>1, <3>2 DEF ApiTypeOK
    <3>4. /\ \A s1 \in States : OnItsWay(s1) => OnItsWay(s1)'
          /\ ~Refused(queue) => OnItsWay(s)'
      BY <2>2, <3>1, <3>2, <3>3, EnqueueKeeps
    <3>5. CASE s0 = s /\ ~Refused(queue)
      BY <3>4, <3>5 DEF Covered
    <3>6. CASE s0 # s \/ Refused(queue)
      <4>1. updated[s0] => updated'[s0]
        BY <3>1, <3>3, <3>6
      <4> QED
        BY <2>1, <2>2, <3>2, <3>4, <4>1 DEF Covered
    <3> QED
      BY <3>5, <3>6
  <2> QED
    BY <2>3, <2>4
<1>16. ASSUME SendPing
      PROVE  Covered(c0, s0)'
  <2>1. Owed(c0, s0)
    BY <1>16 DEF SendPing, Owed, Idle, States, ListInv, KeepAliveIsLive, SlotIsFree,
        SessionInv, WsFds, ThreadTypeOK
  <2>2. seen' = seen /\ UNCHANGED <<version, updated, dropped>>
    BY <1>16 DEF SendPing
  <2>3. \A s1 \in States : OnItsWay(s1) => OnItsWay(s1)'
    BY <1>16, QuietStep DEF Quiet
  <2> QED
    BY <2>1, <2>2, <2>3, <1>c, CoverKept
<1>17. ASSUME NEW c \in Conns, SendToClient(c)
      PROVE  Covered(c0, s0)'
  <2>1. Owed(c0, s0)
    BY <1>17 DEF SendToClient, Owed, Idle, States, ListInv, KeepAliveIsLive, SlotIsFree,
        SessionInv, WsFds, ThreadTypeOK
  <2>2. seen' = seen /\ UNCHANGED <<version, updated, dropped>>
    BY <1>17 DEF SendToClient
  <2>3. \A s1 \in States : OnItsWay(s1) => OnItsWay(s1)'
    BY <1>17, QuietStep DEF Quiet
  <2> QED
    BY <2>1, <2>2, <2>3, <1>c, CoverKept
<1>18. ASSUME NEW c \in Conns, LearnDisconnect(c)
      PROVE  Covered(c0, s0)'
  <2>1. Owed(c0, s0)
    BY <1>18 DEF LearnDisconnect, Owed, Idle, States, ListInv, KeepAliveIsLive, SlotIsFree,
        SessionInv, WsFds, ThreadTypeOK
  <2>2. seen' = seen /\ UNCHANGED <<version, updated, dropped>>
    BY <1>18 DEF LearnDisconnect
  <2>3. \A s1 \in States : OnItsWay(s1) => OnItsWay(s1)'
    BY <1>18, QuietStep DEF Quiet
  <2> QED
    BY <2>1, <2>2, <2>3, <1>c, CoverKept
<1>19. ASSUME NEW c \in Conns, CloseAsync(c)
      PROVE  Covered(c0, s0)'
  <2>1. Owed(c0, s0)
    BY <1>19 DEF CloseAsync, CloseLater, Owed, Idle, States, ListInv, KeepAliveIsLive,
        SlotIsFree, SessionInv, WsFds, ThreadTypeOK
  <2>2. seen' = seen /\ UNCHANGED <<version, updated, dropped>>
    BY <1>19 DEF CloseAsync
  <2>3. \A s1 \in States : OnItsWay(s1) => OnItsWay(s1)'
    BY <1>19, QuietStep DEF Quiet
  <2> QED
    BY <2>1, <2>2, <2>3, <1>c, CoverKept
<1>20. ASSUME TriggerHttpThread
      PROVE  Covered(c0, s0)'
  <2>1. Owed(c0, s0)
    BY <1>20 DEF TriggerHttpThread, Owed, Idle, States, ListInv, KeepAliveIsLive, SlotIsFree,
        SessionInv, WsFds, ThreadTypeOK
  <2>2. seen' = seen /\ UNCHANGED <<version, updated, dropped>>
    BY <1>20 DEF TriggerHttpThread
  <2>3. \A s1 \in States : OnItsWay(s1) => OnItsWay(s1)'
    BY <1>20, QuietStep DEF Quiet
  <2> QED
    BY <2>1, <2>2, <2>3, <1>c, CoverKept
<1>21. ASSUME QueueWork
      PROVE  Covered(c0, s0)'
  <2>1. Owed(c0, s0)
    BY <1>21 DEF QueueWork, Owed, Idle, States, ListInv, KeepAliveIsLive, SlotIsFree,
        SessionInv, WsFds, ThreadTypeOK
  <2>2. seen' = seen /\ UNCHANGED <<version, updated, dropped>>
    BY <1>21 DEF QueueWork
  <2>3. \A s1 \in States : OnItsWay(s1) => OnItsWay(s1)'
    BY <1>21, QuietStep DEF Quiet
  <2> QED
    BY <2>1, <2>2, <2>3, <1>c, CoverKept
<1>22. ASSUME Stop
      PROVE  Covered(c0, s0)'
  <2>1. Owed(c0, s0)
    BY <1>22 DEF Stop, Owed, Idle, States, ListInv, KeepAliveIsLive, SlotIsFree, SessionInv,
        WsFds, ThreadTypeOK
  <2>2. seen' = seen /\ UNCHANGED <<version, updated, dropped>>
    BY <1>22 DEF Stop
  <2>3. \A s1 \in States : OnItsWay(s1) => OnItsWay(s1)'
    BY <1>22, QuietStep DEF Quiet
  <2> QED
    BY <2>1, <2>2, <2>3, <1>c, CoverKept
<1>23. ASSUME StopEnd
      PROVE  Covered(c0, s0)'
  <2>1. Owed(c0, s0)
    BY <1>23 DEF StopEnd, CloseLater, Owed, Idle, States, ListInv, KeepAliveIsLive,
        SlotIsFree, SessionInv, WsFds, ThreadTypeOK
  <2>2. seen' = seen /\ UNCHANGED <<version, updated, dropped>>
    BY <1>23 DEF StopEnd
  <2>3. \A s1 \in States : OnItsWay(s1) => OnItsWay(s1)'
    BY <1>23, QuietStep DEF Quiet
  <2> QED
    BY <2>1, <2>2, <2>3, <1>c, CoverKept
<1>24. ASSUME Start
      PROVE  Covered(c0, s0)'
  <2>1. Owed(c0, s0)
    BY <1>24 DEF Start, Owed, Idle, States, ListInv, KeepAliveIsLive, SlotIsFree, SessionInv,
        WsFds, ThreadTypeOK
  <2>2. seen' = seen /\ UNCHANGED <<version, updated, dropped>>
    BY <1>24 DEF Start
  <2>3. \A s1 \in States : OnItsWay(s1) => OnItsWay(s1)'
    BY <1>24, QuietStep DEF Quiet
  <2> QED
    BY <2>1, <2>2, <2>3, <1>c, CoverKept
<1>25. CASE UNCHANGED vars
  BY <1>25, <1>c DEF vars, Owed, Covered, OnItsWay
<1>26. ASSUME NEW f \in Fds, HandshakeFails(f)
      PROVE  Covered(c0, s0)'
  <2>0. PICK gone \in Evicted, ended \in SUBSET {f} :
               EndSessions(gone \cup ended, gone, kind, queue)
    BY <1>26 DEF HandshakeFails
  <2>1. Owed(c0, s0)
    BY <1>26, <2>0 DEF HandshakeFails, EndSessions, Owed, ListInv, KeepAliveIsLive, WsFds
  <2>2. seen' = seen /\ UNCHANGED <<version, updated, dropped>>
    BY <1>26 DEF HandshakeFails
  <2>3. \A s1 \in States : OnItsWay(s1) => OnItsWay(s1)'
    BY <1>26, QuietStep DEF Quiet
  <2> QED
    BY <2>1, <2>2, <2>3, <1>c, CoverKept
<1>27. QED
  BY <1>1, <1>2, <1>3, <1>4, <1>5, <1>6, <1>7, <1>8, <1>9, <1>10, <1>11, <1>12, <1>13, <1>14,
      <1>15, <1>16, <1>17, <1>18, <1>19, <1>20, <1>21, <1>22, <1>23, <1>24, <1>25, <1>26
     DEF Next, HttpThread, MainThread, Clients, Worker, PokeLocalhost

LEMMA ItemStates ==
    ASSUME QueueTypeOK
    PROVE  \A i \in DOMAIN queue : queue[i].state # 0 => queue[i].state \in States
<1>1. \A i \in DOMAIN queue : queue[i] \in Item
  BY DEF QueueTypeOK
<1>2. \A x \in Item : x.state \in 0 .. NStates
  BY DEF Item
<1> QED
  BY <1>1, <1>2, WebSocketsAssumption DEF States

LEMMA ItemStep == TypeOK /\ SessionInv /\ ListInv /\ ItemInv /\ [Next]_vars => ItemInv'
<1> SUFFICES ASSUME TypeOK, SessionInv, ListInv, ItemInv, [Next]_vars
             PROVE  ItemInv'
  OBVIOUS
<1> USE WebSocketsAssumption DEF TypeOK, sessVars, apiVars, boundVars, httpVars, history
<1>1. ASSUME NEW f \in Fds, NEW c \in Conns, Accept(f, c)
      PROVE  ItemInv'
  BY <1>1, QuietStep DEF Quiet
<1>2. ASSUME NEW f \in Fds, Upgrade(f)
      PROVE  ItemInv'
  BY <1>2, QuietStep DEF Quiet
<1>3. ASSUME NEW last \in States, DumpChunk(last)
      PROVE  ItemInv'
  BY <1>3, QuietStep DEF Quiet
<1>4. ASSUME DumpFail
      PROVE  ItemInv'
  BY <1>4, QuietStep DEF Quiet
<1>5. ASSUME KeepAliveAdd
      PROVE  ItemInv'
  BY <1>5, QuietStep DEF Quiet
<1>6. ASSUME NEW f \in Fds, ReceivedPong(f)
      PROVE  ItemInv'
  BY <1>6, QuietStep DEF Quiet
<1>7. ASSUME NEW f \in Fds, ReceivedClose(f)
      PROVE  ItemInv'
  BY <1>7, QuietStep DEF Quiet
<1>8. ASSUME NEW f \in Fds, SessionEnds(f)
      PROVE  ItemInv'
  BY <1>8, QuietStep DEF Quiet
<1>9. ASSUME NEW f \in Fds, PongIsLate(f)
      PROVE  ItemInv'
  BY <1>9, QuietStep DEF Quiet
<1>10. ASSUME WorkStart
      PROVE  ItemInv'
  BY <1>10, QuietStep DEF Quiet
<1>11. ASSUME WorkItem
      PROVE  ItemInv'
  <2>1. PICK failed \in SUBSET Receivers(Head(queue)) :
           EndSessions(failed, failed, kind, Tail(queue))
    BY <1>11 DEF WorkItem
  <2>2. failed \in SUBSET Fds
    BY DEF Receivers, WsFds
  <2>3. UNCHANGED <<version, updated, dropped>> /\ queue # <<>>
    BY <1>11 DEF WorkItem
  <2>4. queue' = Unaddress(Tail(queue), failed)
    BY <2>1 DEF EndSessions
  <2> QED
    BY <2>2, <2>3, <2>4, SendKeeps
<1>12. ASSUME WorkEmpty
      PROVE  ItemInv'
  BY <1>12, QuietStep DEF Quiet
<1>13. ASSUME WorkDone
      PROVE  ItemInv'
  BY <1>13, QuietStep DEF Quiet
<1>14. ASSUME NEW s \in States, UpdateState(s)
      PROVE  ItemInv'
  <2>1. UNCHANGED <<queue, dropped>> /\ updated'[s]
    BY <1>14 DEF UpdateState, ApiTypeOK
  <2>2. \A s1 \in States : s1 # s => version'[s1] = version[s1] /\ updated'[s1] = updated[s1]
    BY <1>14 DEF UpdateState, ApiTypeOK
  <2>3. \A i \in DOMAIN queue : queue[i].state # 0 => queue[i].state \in States
    BY ItemStates
  <2> QED
    <3> SUFFICES ASSUME NEW i \in DOMAIN queue, queue[i].state # 0
                 PROVE  LET t == queue[i].state
                        IN  /\ queue[i].to = Broadcast
                            /\ \/ queue[i].version = version'[t]
                               \/ updated'[t]
                               \/ \E j \in DOMAIN queue : /\ j > i
                                                          /\ queue[j].state = t
                                                          /\ queue[j].version = version'[t]
                               \/ <<t, version'[t]>> \in dropped
      BY <2>1 DEF ItemInv
    <3>1. CASE queue[i].state = s
      BY <2>1, <3>1 DEF ItemInv
    <3>2. CASE queue[i].state # s
      <4>1. /\ version'[queue[i].state] = version[queue[i].state]
            /\ updated'[queue[i].state] = updated[queue[i].state]
        BY <2>2, <2>3, <3>2
      <4> QED
        BY <4>1 DEF ItemInv
    <3> QED
      BY <3>1, <3>2
<1>15. ASSUME NEW s \in States, PushState(s)
      PROVE  ItemInv'
  <2>1. version' = version
    BY <1>15 DEF PushState
  <2>2. CASE keepAlive = {}
    <3>1. UNCHANGED queue /\ dropped \subseteq dropped'
      BY <1>15, <2>2 DEF PushState
    <3>2. \A i \in DOMAIN queue : queue[i].state = s => <<s, version[s]>> \in dropped'
      BY <1>15, <2>2 DEF PushState
    <3>3. \A s1 \in States : s1 # s => updated'[s1] = updated[s1]
      BY <1>15, <2>2 DEF PushState, ApiTypeOK
    <3>4. \A i \in DOMAIN queue : queue[i].state # 0 => queue[i].state \in States
      BY ItemStates
    <3> QED
      BY <2>1, <3>1, <3>2, <3>3, <3>4 DEF ItemInv
  <2>3. CASE keepAlive # {}
    <3>0. PICK it : it = BroadcastItem(s, version[s])
      OBVIOUS
    <3>1. it \in Item /\ it.state = s /\ it.to = Broadcast /\ it.version = version[s]
      BY <3>0 DEF BroadcastItem, Item, ApiTypeOK, States
    <3>2. /\ queue' = Enqueue(queue, it) /\ dropped' = dropped
          /\ updated' = [updated EXCEPT ![s] = Refused(queue)]
      BY <1>15, <2>3, <3>0 DEF PushState
    <3>3. \A s1 \in States : updated[s1] => updated'[s1] \/ (s1 = it.state /\ ~Refused(queue))
      BY <3>1, <3>2 DEF ApiTypeOK
    <3> QED
      BY <2>1, <3>1, <3>2, <3>3, EnqueueKeeps
  <2> QED
    BY <2>2, <2>3
<1>16. ASSUME SendPing
      PROVE  ItemInv'
  BY <1>16, QuietStep DEF Quiet
<1>17. ASSUME NEW c \in Conns, SendToClient(c)
      PROVE  ItemInv'
  BY <1>17, QuietStep DEF Quiet
<1>18. ASSUME NEW c \in Conns, LearnDisconnect(c)
      PROVE  ItemInv'
  BY <1>18, QuietStep DEF Quiet
<1>19. ASSUME NEW c \in Conns, CloseAsync(c)
      PROVE  ItemInv'
  BY <1>19, QuietStep DEF Quiet
<1>20. ASSUME TriggerHttpThread
      PROVE  ItemInv'
  BY <1>20, QuietStep DEF Quiet
<1>21. ASSUME QueueWork
      PROVE  ItemInv'
  BY <1>21, QuietStep DEF Quiet
<1>22. ASSUME Stop
      PROVE  ItemInv'
  BY <1>22, QuietStep DEF Quiet
<1>23. ASSUME StopEnd
      PROVE  ItemInv'
  BY <1>23, QuietStep DEF Quiet
<1>24. ASSUME Start
      PROVE  ItemInv'
  BY <1>24, QuietStep DEF Quiet
<1>25. CASE UNCHANGED vars
  BY <1>25, QuietStep DEF Quiet
<1>26. ASSUME NEW f \in Fds, HandshakeFails(f)
      PROVE  ItemInv'
  BY <1>26, QuietStep DEF Quiet
<1>27. QED
  BY <1>1, <1>2, <1>3, <1>4, <1>5, <1>6, <1>7, <1>8, <1>9, <1>10, <1>11, <1>12, <1>13, <1>14,
      <1>15, <1>16, <1>17, <1>18, <1>19, <1>20, <1>21, <1>22, <1>23, <1>24, <1>25, <1>26
     DEF Next, HttpThread, MainThread, Clients, Worker, PokeLocalhost

-----------------------------------------------------------------------------
(* The theorems. *)

LEMMA InvInit == Init => IInv
<1> SUFFICES ASSUME Init PROVE IInv
  OBVIOUS
<1> USE WebSocketsAssumption
<1>1. TypeOK
  BY TypeInit
<1>2. SessionInv
  BY DEF Init, SessionInv, WsFds
<1>3. ListInv
  BY FS_EmptySet DEF Init, ListInv, KeepAliveIsLive, SlotIsFree, Idle
<1>4. WorkerNotStuck
  BY DEF Init, WorkerNotStuck
<1>5. UnicastInv /\ ItemInv
  BY DEF Init, UnicastInv, ItemInv
<1>6. CoverInv
  BY DEF Init, CoverInv, Owed, Idle
<1> QED
  BY <1>1, <1>2, <1>3, <1>4, <1>5, <1>6 DEF IInv

LEMMA InvStep == IInv /\ [Next]_vars => IInv'
  BY TypeStep, SessionStep, ListStep, WorkerStep, UnicastStep, ItemStep, CoverStep DEF IInv

LEMMA InvHolds == Spec => []IInv
<1>1. Init => IInv
  BY InvInit
<1>2. IInv /\ [Next]_vars => IInv'
  BY InvStep
<1> QED
  BY <1>1, <1>2, PTL DEF Spec

\* The queue never holds more items than its limit, nor do the closes that wait
\* for the HTTP thread; every variable has its type.
THEOREM SocketTypeCorrect == Spec => []TypeOK
<1>1. IInv => TypeOK
  BY DEF IInv
<1> QED
  BY <1>1, InvHolds, PTL

\* keep_alive_fds holds only descriptors of open WebSockets that did not announce
\* their end, and has room for the client whose handler is under way, whatever
\* sessions end, are closed by the main thread or are evicted.
THEOREM ClientListIsRight == Spec => []ClientListOK
<1>1. IInv => ClientListOK
  BY DEF IInv, ListInv, ClientListOK
<1> QED
  BY <1>1, InvHolds, PTL

\* An item that was queued while its client was listed is sent to that client's
\* connection or to none, however often the descriptor is used again.
THEOREM UnicastsArePrivate == Spec => []UnicastIsPrivate
<1>1. IInv => UnicastIsPrivate
  BY DEF IInv, UnicastInv, UnicastIsPrivate
<1> QED
  BY <1>1, InvHolds, PTL

\* worker_active never says that a run is due or under way when none is, so that
\* triggerHttpThread is not locked out, unless httpd refused the call of a stop.
THEOREM WorkerCanRun == Spec => []WorkerNotStuck
<1>1. IInv => WorkerNotStuck
  BY DEF IInv
<1> QED
  BY <1>1, InvHolds, PTL

\* Every listed client has the current version of every state or will be sent it,
\* but for the updates that PushState dropped at a bad moment.
THEOREM UpdatesArrive == Spec => []NoUpdateLost
<1>1. IInv => NoUpdateLost
  <2> SUFFICES ASSUME IInv, NEW f \in keepAlive, NEW s \in States
               PROVE  Covered(owner[f], s)
    BY DEF NoUpdateLost, Covered, OnItsWay
  <2>1. owner[f] \in Conns
    BY DEF IInv, TypeOK, SessionTypeOK, ListInv, KeepAliveIsLive, WsFds
  <2>2. Owed(owner[f], s)
    BY DEF Owed
  <2> QED
    BY <2>1, <2>2 DEF IInv, CoverInv
<1> QED
  BY <1>1, InvHolds, PTL
=============================================================================
