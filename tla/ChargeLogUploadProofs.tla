----------------------- MODULE ChargeLogUploadProofs ------------------------
(***************************************************************************)
(* Proofs about ChargeLogUpload, for any number of users, uploads and      *)
(* manual uploads: the lock of the generation has one holder, one TCP task *)
(* sends at a time, and a user is marked only for a log the server has or  *)
(* took cut off, unless his config moved to the index of another one.      *)
(***************************************************************************)
EXTENDS ChargeLogUpload, FiniteSetTheorems, TLAPS

-----------------------------------------------------------------------------
(* Types. *)

\* One more answer of a kind, capped, keeps the network in its type.
LEMMA AnsweredType ==
    ASSUME NEW n \in Net, NEW a \in Answers
    PROVE  Answered(n, a) \in Net
  BY UploadAssumption DEF Answered, Net

\* So does an answer that is taken out.
LEMMA TakenType ==
    ASSUME net \in Net, NEW a \in Answers, net[a] > 0
    PROVE  Taken(a) \in Net
  BY UploadAssumption DEF Taken, Net

\* What the server answers to a request, and to the metadata, has its type.
LEMMA RequestType ==
    ASSUME net \in Net, server \in Server, NEW log \in Logs, ServerGetsRequest(log)
    PROVE  net' \in Net /\ server' \in Server
<1> "Ack" \in Answers /\ "Nack" \in Answers /\ "AlreadySent" \in Answers
  BY DEF Answers
<1> QED
  BY AnsweredType DEF ServerGetsRequest, Server, Stages

LEMMA MetadataType ==
    ASSUME server \in Server, NEW n \in Net, ServerGetsMetadata(n)
    PROVE  net' \in Net /\ server' \in Server
<1> "Ack" \in Answers /\ "Nack" \in Answers
  BY DEF Answers
<1> QED
  BY AnsweredType DEF ServerGetsMetadata, Server, Stages, ReadyServer

\* The index of a config is that of a user at most.
LEMMA PositionType ==
    ASSUME NEW S, S \subseteq Users0
    PROVE  Cardinality(S) \in 0 .. Users /\ \A u \in S : Position(S, u) \in 0 .. Users - 1
<1>1. ASSUME NEW n \in Nat PROVE IsFiniteSet(0 .. n - 1) /\ Cardinality(0 .. n - 1) = n
  <2>1. /\ IsFiniteSet(0 .. n - 1)
        /\ Cardinality(0 .. n - 1) = IF 0 > n - 1 THEN 0 ELSE (n - 1) - 0 + 1
    BY FS_Interval
  <2>2. QED
    BY <2>1
<1>2. ASSUME NEW n \in Nat, NEW T, T \subseteq 0 .. n - 1
      PROVE  IsFiniteSet(T) /\ Cardinality(T) \in 0 .. n
  <2>1. IsFiniteSet(T) /\ Cardinality(T) <= Cardinality(0 .. n - 1)
    BY <1>1, <1>2, FS_Subset
  <2>2. Cardinality(T) \in Nat
    BY <2>1, FS_CardinalityType
  <2>3. QED
    BY <1>1, <2>1, <2>2
<1>3. Cardinality(S) \in 0 .. Users
  BY <1>2, UploadAssumption DEF Users0
<1>4. ASSUME NEW u \in S PROVE Position(S, u) \in 0 .. Users - 1
  <2>1. u \in Nat /\ u <= Users - 1 /\ \A v \in S : v < u => v \in 0 .. u - 1
    BY UploadAssumption DEF Users0
  <2>2. {v \in S : v < u} \subseteq 0 .. u - 1
    BY <2>1
  <2>4. Cardinality({v \in S : v < u}) \in 0 .. u
    BY <1>2, <2>1, <2>2
  <2>3. QED
    BY <2>1, <2>4, UploadAssumption DEF Position
<1>5. QED
  BY <1>3, <1>4

\* No two users have the same index.
LEMMA PositionInjective ==
    ASSUME NEW S, S \subseteq Users0, NEW u \in S
    PROVE  UserAt(S, Position(S, u)) = {u}
<1>1. ASSUME NEW v \in S, NEW w \in S, v < w
      PROVE  Position(S, v) # Position(S, w)
  <2> DEFINE Below(x) == {y \in S : y < x}
  <2>1. IsFiniteSet(Users0)
    BY FS_Interval, UploadAssumption DEF Users0
  <2>2. IsFiniteSet(Below(v)) /\ IsFiniteSet(Below(w))
    BY <2>1, FS_Subset
  <2>3. v \notin Below(v) /\ Below(v) \cup {v} \subseteq Below(w)
    <3>1. v \in Int /\ w \in Int /\ \A y \in S : y \in Int
      BY UploadAssumption DEF Users0
    <3>2. ~(v < v) /\ \A y \in S : y < v => y < w
      BY <1>1, <3>1
    <3>3. QED
      BY <1>1, <3>2
  <2>4. Cardinality(Below(v) \cup {v}) = Cardinality(Below(v)) + 1
    BY <2>2, <2>3, FS_AddElement
  <2>5. Cardinality(Below(v) \cup {v}) <= Cardinality(Below(w))
    BY <2>2, <2>3, FS_Subset
  <2>6. Cardinality(Below(v)) \in Nat /\ Cardinality(Below(w)) \in Nat
    BY <2>2, FS_CardinalityType
  <2>7. Position(S, v) = Cardinality(Below(v)) /\ Position(S, w) = Cardinality(Below(w))
    BY DEF Position
  <2> HIDE DEF Below
  <2>8. QED
    BY <2>4, <2>5, <2>6, <2>7
<1>2. ASSUME NEW w \in S, w # u PROVE Position(S, w) # Position(S, u)
  <2>1. w < u \/ u < w
    BY <1>2 DEF Users0
  <2>2. QED
    BY <2>1, <1>1
<1>3. QED
  BY <1>2 DEF UserAt

\* The user whose upload the monthly task starts, by the index of his config.
LEMMA StartsUserType ==
    ASSUME TypeOK, NEW i, NEW sent, StartsUser(i, sent)
    PROVE  \E u \in Users0 :
              /\ StartSend(u) /\ expired' = FALSE
              /\ index' = month' /\ month' \in 0 .. Users - 1
              /\ UserAt(configs, month') = {u}
  BY PositionType, PositionInjective DEF StartsUser, TypeOK, MonthTypeOK

LEMMA TypeInit == Init => TypeOK
<1> SUFFICES ASSUME Init PROVE TypeOK
  OBVIOUS
<1> USE UploadAssumption DEF Init
<1>1. FlagTypeOK
  BY DEF FlagTypeOK
<1>2. ControlTypeOK
  BY DEF ControlTypeOK, LockStates, SendStates
<1>3. MonthTypeOK
  BY DEF MonthTypeOK
<1>4. TaskTypeOK
  BY DEF TaskTypeOK
<1>5. ServerTypeOK
  BY DEF ServerTypeOK, Server, Net, ReadyServer, Stages
<1> QED
  BY <1>1, <1>2, <1>3, <1>4, <1>5 DEF TypeOK

LEMMA FlagStep == TypeOK /\ [Next]_vars => FlagTypeOK'
<1> SUFFICES ASSUME TypeOK, [Next]_vars
             PROVE  FlagTypeOK'
  OBVIOUS
<1> USE UploadAssumption DEF TypeOK, FlagTypeOK, ram, history, remote, bounds
<1>1. ASSUME StartManual
      PROVE  FlagTypeOK'
  BY <1>1 DEF StartManual, StartSend, NotStarted, Unlock
<1>2. ASSUME MonthlyBegins
      PROVE  FlagTypeOK'
  BY <1>2, StartsUserType
     DEF MonthlyBegins, StartsNobody, DropRequest, StartSend, NotStarted
<1>3. ASSUME MonthlyPolls
      PROVE  FlagTypeOK'
  BY <1>3, StartsUserType
     DEF MonthlyPolls, StartsNobody, DropRequest, StartSend, NotStarted, FinishMonthly,
      ReleasePending, Over
<1>4. ASSUME MonthlyStops
      PROVE  FlagTypeOK'
  BY <1>4 DEF MonthlyStops, FinishMonthly, ReleasePending
<1>5. ASSUME NEW a \in Answers, HandlePacket(a), Nack(a)
      PROVE  FlagTypeOK'
  BY <1>5 DEF HandlePacket, Nack, Concludes, Ends, DropRequest, ReleasePending
<1>6. ASSUME NEW a \in Answers, HandlePacket(a), AlreadySent(a)
      PROVE  FlagTypeOK'
  BY <1>6 DEF HandlePacket, AlreadySent, Ends, DropRequest, ReleasePending
<1>7. ASSUME NEW a \in Answers, HandlePacket(a), RequestAck(a)
      PROVE  FlagTypeOK'
  BY <1>7 DEF HandlePacket, RequestAck, Ends, DropRequest, ReleasePending
<1>8. ASSUME NEW a \in Answers, HandlePacket(a), MetadataAck(a)
      PROVE  FlagTypeOK'
  BY <1>8 DEF HandlePacket, MetadataAck
<1>9. ASSUME NEW a \in Answers, HandlePacket(a), OpenAck(a)
      PROVE  FlagTypeOK'
  BY <1>9 DEF HandlePacket, OpenAck, Ends, DropRequest, ReleasePending
<1>10. ASSUME NEW a \in Answers, HandlePacket(a), FinalAck(a)
      PROVE  FlagTypeOK'
  BY <1>10 DEF HandlePacket, FinalAck, Concludes, Ends, DropRequest, ReleasePending
<1>11. ASSUME NEW a \in Answers, HandlePacket(a), Dropped(a)
      PROVE  FlagTypeOK'
  BY <1>11 DEF HandlePacket, Dropped
<1>12. ASSUME NEW kind \in {"LocalDownload", "ManualRemoteSend"}, HttpBegin(kind)
      PROVE  FlagTypeOK'
  BY <1>12 DEF HttpBegin
<1>13. ASSUME HttpEnd
      PROVE  FlagTypeOK'
  BY <1>13 DEF HttpEnd, Unlock
<1>14. ASSUME HttpHandOver
      PROVE  FlagTypeOK'
  BY <1>14 DEF HttpHandOver
<1>15. ASSUME NEW t \in tasks, TcpTask(t), TcpConnect(t)
      PROVE  FlagTypeOK'
  BY <1>15 DEF TcpTask, TcpConnect, TaskMoves
<1>16. ASSUME NEW t \in tasks, TcpTask(t), TcpSend(t)
      PROVE  FlagTypeOK'
  BY <1>16 DEF TcpTask, TcpSend, TaskMoves
<1>17. ASSUME NEW t \in tasks, TcpTask(t), TcpSendFails(t)
      PROVE  FlagTypeOK'
  BY <1>17 DEF TcpTask, TcpSendFails, TaskMoves
<1>18. ASSUME NEW t \in tasks, TcpTask(t), TcpWait(t)
      PROVE  FlagTypeOK'
  BY <1>18 DEF TcpTask, TcpWait, TaskMoves
<1>19. ASSUME NEW t \in tasks, TcpLeaves(t), TcpCleanup(t)
      PROVE  FlagTypeOK'
  BY <1>19 DEF TcpLeaves, TcpCleanup, TaskMoves
<1>20. ASSUME NEW t \in tasks, TcpLeaves(t), TcpRelease(t)
      PROVE  FlagTypeOK'
  BY <1>20 DEF TcpLeaves, TcpRelease, TaskMoves
<1>21. ASSUME NEW t \in tasks, TcpLeaves(t), TcpUnlock(t)
      PROVE  FlagTypeOK'
  BY <1>21 DEF TcpLeaves, TcpUnlock, Unlock
<1>22. ASSUME ServerOpens
      PROVE  FlagTypeOK'
  BY <1>22 DEF ServerOpens
<1>23. ASSUME ServerHasFile
      PROVE  FlagTypeOK'
  BY <1>23 DEF ServerHasFile
<1>24. ASSUME ServerGivesUp
      PROVE  FlagTypeOK'
  BY <1>24 DEF ServerGivesUp
<1>25. ASSUME NEW a \in Answers, Lose(a)
      PROVE  FlagTypeOK'
  BY <1>25 DEF Lose
<1>26. ASSUME Expire
      PROVE  FlagTypeOK'
  BY <1>26 DEF Expire
<1>27. ASSUME Delete
      PROVE  FlagTypeOK'
  BY <1>27 DEF Delete
<1>28. ASSUME Abort
      PROVE  FlagTypeOK'
  BY <1>28 DEF Abort, Boot
<1>29. CASE UNCHANGED vars
  BY <1>29 DEF vars
<1>30. QED
  BY <1>1, <1>2, <1>3, <1>4, <1>5, <1>6, <1>7, <1>8, <1>9, <1>10, <1>11, <1>12, <1>13, <1>14,
      <1>15, <1>16, <1>17, <1>18, <1>19, <1>20, <1>21, <1>22, <1>23, <1>24, <1>25, <1>26, <1>27,
      <1>28,
      <1>29
     DEF Next, Main, HandlePacket, TcpTask, TcpLeaves

LEMMA ControlStep == TypeOK /\ [Next]_vars => ControlTypeOK'
<1> SUFFICES ASSUME TypeOK, [Next]_vars
             PROVE  ControlTypeOK'
  OBVIOUS
<1> USE UploadAssumption DEF TypeOK, ControlTypeOK, LockStates, SendStates, ram, history,
      remote, bounds
<1>1. ASSUME StartManual
      PROVE  ControlTypeOK'
  BY <1>1 DEF StartManual, StartSend, NotStarted, Unlock, MonthTypeOK, Logs, Users0, Manual
<1>2. ASSUME MonthlyBegins
      PROVE  ControlTypeOK'
  <2>1. CASE StartsUser(0, last)
    <3>1. PICK u \in Users0 :
             /\ StartSend(u) /\ expired' = FALSE
             /\ index' = month' /\ month' \in 0 .. Users - 1
             /\ UserAt(configs, month') = {u}
      BY <2>1, StartsUserType
    <3>2. QED
      BY <1>2, <2>1, <3>1 DEF MonthlyBegins, StartSend, MonthTypeOK, Logs, Users0, Manual
  <2>2. CASE StartsNobody(0, last) /\ UNCHANGED <<month, count, expired, lock, pending>>
    BY <1>2, <2>2 DEF MonthlyBegins, StartsNobody, DropRequest, NotStarted
  <2>3. QED
    BY <1>2, <2>1, <2>2 DEF MonthlyBegins
<1>3. ASSUME MonthlyPolls
      PROVE  ControlTypeOK'
  <2>1. CASE StartsUser(month + 1, last') /\ UNCHANGED <<lock, pending, count>>
    <3>1. PICK u \in Users0 :
             /\ StartSend(u) /\ expired' = FALSE
             /\ index' = month' /\ month' \in 0 .. Users - 1
             /\ UserAt(configs, month') = {u}
      BY <2>1, StartsUserType
    <3>2. QED
      BY <1>3, <2>1, <3>1 DEF MonthlyPolls, StartSend, MonthTypeOK, Logs, Users0, Manual
  <2>2. CASE StartsNobody(month + 1, last') /\ FinishMonthly
    BY <1>3, <2>2
       DEF MonthlyPolls, StartsNobody, DropRequest, NotStarted, FinishMonthly, ReleasePending
  <2>3. QED
    BY <1>3, <2>1, <2>2 DEF MonthlyPolls
<1>4. ASSUME MonthlyStops
      PROVE  ControlTypeOK'
  BY <1>4 DEF MonthlyStops, FinishMonthly, ReleasePending
<1>5. ASSUME NEW a \in Answers, HandlePacket(a), Nack(a)
      PROVE  ControlTypeOK'
  BY <1>5 DEF HandlePacket, Nack, Concludes, Ends, DropRequest, ReleasePending
<1>6. ASSUME NEW a \in Answers, HandlePacket(a), AlreadySent(a)
      PROVE  ControlTypeOK'
  BY <1>6 DEF HandlePacket, AlreadySent, Ends, DropRequest, ReleasePending
<1>7. ASSUME NEW a \in Answers, HandlePacket(a), RequestAck(a)
      PROVE  ControlTypeOK'
  BY <1>7 DEF HandlePacket, RequestAck, Ends, DropRequest, ReleasePending
<1>8. ASSUME NEW a \in Answers, HandlePacket(a), MetadataAck(a)
      PROVE  ControlTypeOK'
  BY <1>8 DEF HandlePacket, MetadataAck
<1>9. ASSUME NEW a \in Answers, HandlePacket(a), OpenAck(a)
      PROVE  ControlTypeOK'
  BY <1>9 DEF HandlePacket, OpenAck, Ends, DropRequest, ReleasePending
<1>10. ASSUME NEW a \in Answers, HandlePacket(a), FinalAck(a)
      PROVE  ControlTypeOK'
  BY <1>10 DEF HandlePacket, FinalAck, Concludes, Ends, DropRequest, ReleasePending
<1>11. ASSUME NEW a \in Answers, HandlePacket(a), Dropped(a)
      PROVE  ControlTypeOK'
  BY <1>11 DEF HandlePacket, Dropped
<1>12. ASSUME NEW kind \in {"LocalDownload", "ManualRemoteSend"}, HttpBegin(kind)
      PROVE  ControlTypeOK'
  BY <1>12 DEF HttpBegin
<1>13. ASSUME HttpEnd
      PROVE  ControlTypeOK'
  BY <1>13 DEF HttpEnd, Unlock
<1>14. ASSUME HttpHandOver
      PROVE  ControlTypeOK'
  BY <1>14 DEF HttpHandOver
<1>15. ASSUME NEW t \in tasks, TcpTask(t), TcpConnect(t)
      PROVE  ControlTypeOK'
  BY <1>15 DEF TcpTask, TcpConnect, TaskMoves
<1>16. ASSUME NEW t \in tasks, TcpTask(t), TcpSend(t)
      PROVE  ControlTypeOK'
  BY <1>16 DEF TcpTask, TcpSend, TaskMoves
<1>17. ASSUME NEW t \in tasks, TcpTask(t), TcpSendFails(t)
      PROVE  ControlTypeOK'
  BY <1>17 DEF TcpTask, TcpSendFails, TaskMoves
<1>18. ASSUME NEW t \in tasks, TcpTask(t), TcpWait(t)
      PROVE  ControlTypeOK'
  BY <1>18 DEF TcpTask, TcpWait, TaskMoves
<1>19. ASSUME NEW t \in tasks, TcpLeaves(t), TcpCleanup(t)
      PROVE  ControlTypeOK'
  BY <1>19 DEF TcpLeaves, TcpCleanup, TaskMoves
<1>20. ASSUME NEW t \in tasks, TcpLeaves(t), TcpRelease(t)
      PROVE  ControlTypeOK'
  BY <1>20 DEF TcpLeaves, TcpRelease, TaskMoves
<1>21. ASSUME NEW t \in tasks, TcpLeaves(t), TcpUnlock(t)
      PROVE  ControlTypeOK'
  BY <1>21 DEF TcpLeaves, TcpUnlock, Unlock
<1>22. ASSUME ServerOpens
      PROVE  ControlTypeOK'
  BY <1>22 DEF ServerOpens
<1>23. ASSUME ServerHasFile
      PROVE  ControlTypeOK'
  BY <1>23 DEF ServerHasFile
<1>24. ASSUME ServerGivesUp
      PROVE  ControlTypeOK'
  BY <1>24 DEF ServerGivesUp
<1>25. ASSUME NEW a \in Answers, Lose(a)
      PROVE  ControlTypeOK'
  BY <1>25 DEF Lose
<1>26. ASSUME Expire
      PROVE  ControlTypeOK'
  BY <1>26 DEF Expire
<1>27. ASSUME Delete
      PROVE  ControlTypeOK'
  BY <1>27 DEF Delete
<1>28. ASSUME Abort
      PROVE  ControlTypeOK'
  BY <1>28 DEF Abort, Boot
<1>29. CASE UNCHANGED vars
  BY <1>29 DEF vars
<1>30. QED
  BY <1>1, <1>2, <1>3, <1>4, <1>5, <1>6, <1>7, <1>8, <1>9, <1>10, <1>11, <1>12, <1>13, <1>14,
      <1>15, <1>16, <1>17, <1>18, <1>19, <1>20, <1>21, <1>22, <1>23, <1>24, <1>25, <1>26, <1>27,
      <1>28,
      <1>29
     DEF Next, Main, HandlePacket, TcpTask, TcpLeaves

LEMMA MonthStep == TypeOK /\ [Next]_vars => MonthTypeOK'
<1> SUFFICES ASSUME TypeOK, [Next]_vars
             PROVE  MonthTypeOK'
  OBVIOUS
<1> USE UploadAssumption DEF TypeOK, MonthTypeOK, UserAt, Marked, ram, history, remote, bounds
<1>1. ASSUME StartManual
      PROVE  MonthTypeOK'
  BY <1>1 DEF StartManual, StartSend, NotStarted, Unlock
<1>2. ASSUME MonthlyBegins
      PROVE  MonthTypeOK'
  <2>1. CASE StartsUser(0, last)
    <3>1. PICK u \in Users0 :
             /\ StartSend(u) /\ expired' = FALSE
             /\ index' = month' /\ month' \in 0 .. Users - 1
             /\ UserAt(configs, month') = {u}
      BY <2>1, StartsUserType
    <3>2. QED
      BY <1>2, <2>1, <3>1, PositionType DEF MonthlyBegins, StartSend
  <2>2. CASE StartsNobody(0, last) /\ UNCHANGED <<month, count, expired, lock, pending>>
    BY <1>2, <2>2 DEF MonthlyBegins, StartsNobody, DropRequest, NotStarted
  <2>3. QED
    BY <1>2, <2>1, <2>2 DEF MonthlyBegins
<1>3. ASSUME MonthlyPolls
      PROVE  MonthTypeOK'
  <2>1. CASE StartsUser(month + 1, last') /\ UNCHANGED <<lock, pending, count>>
    <3>1. PICK u \in Users0 :
             /\ StartSend(u) /\ expired' = FALSE
             /\ index' = month' /\ month' \in 0 .. Users - 1
             /\ UserAt(configs, month') = {u}
      BY <2>1, StartsUserType
    <3>2. QED
      BY <1>3, <2>1, <3>1 DEF MonthlyPolls, StartSend
  <2>2. CASE StartsNobody(month + 1, last') /\ FinishMonthly
    BY <1>3, <2>2
       DEF MonthlyPolls, StartsNobody, DropRequest, NotStarted, FinishMonthly, ReleasePending
  <2>3. QED
    BY <1>3, <2>1, <2>2 DEF MonthlyPolls
<1>4. ASSUME MonthlyStops
      PROVE  MonthTypeOK'
  BY <1>4 DEF MonthlyStops, FinishMonthly, ReleasePending
<1>5. ASSUME NEW a \in Answers, HandlePacket(a), Nack(a)
      PROVE  MonthTypeOK'
  BY <1>5 DEF HandlePacket, Nack, Concludes, Ends, DropRequest, ReleasePending
<1>6. ASSUME NEW a \in Answers, HandlePacket(a), AlreadySent(a)
      PROVE  MonthTypeOK'
  BY <1>6 DEF HandlePacket, AlreadySent, Ends, DropRequest, ReleasePending
<1>7. ASSUME NEW a \in Answers, HandlePacket(a), RequestAck(a)
      PROVE  MonthTypeOK'
  BY <1>7 DEF HandlePacket, RequestAck, Ends, DropRequest, ReleasePending
<1>8. ASSUME NEW a \in Answers, HandlePacket(a), MetadataAck(a)
      PROVE  MonthTypeOK'
  BY <1>8 DEF HandlePacket, MetadataAck
<1>9. ASSUME NEW a \in Answers, HandlePacket(a), OpenAck(a)
      PROVE  MonthTypeOK'
  BY <1>9 DEF HandlePacket, OpenAck, Ends, DropRequest, ReleasePending
<1>10. ASSUME NEW a \in Answers, HandlePacket(a), FinalAck(a)
      PROVE  MonthTypeOK'
  BY <1>10 DEF HandlePacket, FinalAck, Concludes, Ends, DropRequest, ReleasePending
<1>11. ASSUME NEW a \in Answers, HandlePacket(a), Dropped(a)
      PROVE  MonthTypeOK'
  BY <1>11 DEF HandlePacket, Dropped
<1>12. ASSUME NEW kind \in {"LocalDownload", "ManualRemoteSend"}, HttpBegin(kind)
      PROVE  MonthTypeOK'
  BY <1>12 DEF HttpBegin
<1>13. ASSUME HttpEnd
      PROVE  MonthTypeOK'
  BY <1>13 DEF HttpEnd, Unlock
<1>14. ASSUME HttpHandOver
      PROVE  MonthTypeOK'
  BY <1>14 DEF HttpHandOver
<1>15. ASSUME NEW t \in tasks, TcpTask(t), TcpConnect(t)
      PROVE  MonthTypeOK'
  BY <1>15 DEF TcpTask, TcpConnect, TaskMoves
<1>16. ASSUME NEW t \in tasks, TcpTask(t), TcpSend(t)
      PROVE  MonthTypeOK'
  BY <1>16 DEF TcpTask, TcpSend, TaskMoves
<1>17. ASSUME NEW t \in tasks, TcpTask(t), TcpSendFails(t)
      PROVE  MonthTypeOK'
  BY <1>17 DEF TcpTask, TcpSendFails, TaskMoves
<1>18. ASSUME NEW t \in tasks, TcpTask(t), TcpWait(t)
      PROVE  MonthTypeOK'
  BY <1>18 DEF TcpTask, TcpWait, TaskMoves
<1>19. ASSUME NEW t \in tasks, TcpLeaves(t), TcpCleanup(t)
      PROVE  MonthTypeOK'
  BY <1>19 DEF TcpLeaves, TcpCleanup, TaskMoves
<1>20. ASSUME NEW t \in tasks, TcpLeaves(t), TcpRelease(t)
      PROVE  MonthTypeOK'
  BY <1>20 DEF TcpLeaves, TcpRelease, TaskMoves
<1>21. ASSUME NEW t \in tasks, TcpLeaves(t), TcpUnlock(t)
      PROVE  MonthTypeOK'
  BY <1>21 DEF TcpLeaves, TcpUnlock, Unlock
<1>22. ASSUME ServerOpens
      PROVE  MonthTypeOK'
  BY <1>22 DEF ServerOpens
<1>23. ASSUME ServerHasFile
      PROVE  MonthTypeOK'
  BY <1>23 DEF ServerHasFile
<1>24. ASSUME ServerGivesUp
      PROVE  MonthTypeOK'
  BY <1>24 DEF ServerGivesUp
<1>25. ASSUME NEW a \in Answers, Lose(a)
      PROVE  MonthTypeOK'
  BY <1>25 DEF Lose
<1>26. ASSUME Expire
      PROVE  MonthTypeOK'
  BY <1>26 DEF Expire
<1>27. ASSUME Delete
      PROVE  MonthTypeOK'
  BY <1>27 DEF Delete
<1>28. ASSUME Abort
      PROVE  MonthTypeOK'
  BY <1>28 DEF Abort, Boot
<1>29. CASE UNCHANGED vars
  BY <1>29 DEF vars
<1>30. QED
  BY <1>1, <1>2, <1>3, <1>4, <1>5, <1>6, <1>7, <1>8, <1>9, <1>10, <1>11, <1>12, <1>13, <1>14,
      <1>15, <1>16, <1>17, <1>18, <1>19, <1>20, <1>21, <1>22, <1>23, <1>24, <1>25, <1>26, <1>27,
      <1>28,
      <1>29
     DEF Next, Main, HandlePacket, TcpTask, TcpLeaves

LEMMA TaskStep == TypeOK /\ [Next]_vars => TaskTypeOK'
<1> SUFFICES ASSUME TypeOK, [Next]_vars
             PROVE  TaskTypeOK'
  OBVIOUS
<1> USE UploadAssumption DEF TypeOK, TaskTypeOK, Leaving, ram, history, remote, bounds
<1>1. ASSUME StartManual
      PROVE  TaskTypeOK'
  BY <1>1 DEF StartManual, StartSend, NotStarted, Unlock
<1>2. ASSUME MonthlyBegins
      PROVE  TaskTypeOK'
  <2>1. CASE StartsUser(0, last)
    <3>1. PICK u \in Users0 :
             /\ StartSend(u) /\ expired' = FALSE
             /\ index' = month' /\ month' \in 0 .. Users - 1
             /\ UserAt(configs, month') = {u}
      BY <2>1, StartsUserType
    <3>2. QED
      BY <1>2, <2>1, <3>1 DEF MonthlyBegins, StartSend
  <2>2. CASE StartsNobody(0, last) /\ UNCHANGED <<month, count, expired, lock, pending>>
    BY <1>2, <2>2 DEF MonthlyBegins, StartsNobody, DropRequest, NotStarted
  <2>3. QED
    BY <1>2, <2>1, <2>2 DEF MonthlyBegins
<1>3. ASSUME MonthlyPolls
      PROVE  TaskTypeOK'
  <2>1. CASE StartsUser(month + 1, last') /\ UNCHANGED <<lock, pending, count>>
    <3>1. PICK u \in Users0 :
             /\ StartSend(u) /\ expired' = FALSE
             /\ index' = month' /\ month' \in 0 .. Users - 1
             /\ UserAt(configs, month') = {u}
      BY <2>1, StartsUserType
    <3>2. QED
      BY <1>3, <2>1, <3>1 DEF MonthlyPolls, StartSend
  <2>2. CASE StartsNobody(month + 1, last') /\ FinishMonthly
    BY <1>3, <2>2
       DEF MonthlyPolls, StartsNobody, DropRequest, NotStarted, FinishMonthly, ReleasePending
  <2>3. QED
    BY <1>3, <2>1, <2>2 DEF MonthlyPolls
<1>4. ASSUME MonthlyStops
      PROVE  TaskTypeOK'
  BY <1>4 DEF MonthlyStops, FinishMonthly, ReleasePending
<1>5. ASSUME NEW a \in Answers, HandlePacket(a), Nack(a)
      PROVE  TaskTypeOK'
  BY <1>5 DEF HandlePacket, Nack, Concludes, Ends, DropRequest, ReleasePending
<1>6. ASSUME NEW a \in Answers, HandlePacket(a), AlreadySent(a)
      PROVE  TaskTypeOK'
  BY <1>6 DEF HandlePacket, AlreadySent, Ends, DropRequest, ReleasePending
<1>7. ASSUME NEW a \in Answers, HandlePacket(a), RequestAck(a)
      PROVE  TaskTypeOK'
  BY <1>7 DEF HandlePacket, RequestAck, Ends, DropRequest, ReleasePending
<1>8. ASSUME NEW a \in Answers, HandlePacket(a), MetadataAck(a)
      PROVE  TaskTypeOK'
  BY <1>8 DEF HandlePacket, MetadataAck
<1>9. ASSUME NEW a \in Answers, HandlePacket(a), OpenAck(a)
      PROVE  TaskTypeOK'
  BY <1>9 DEF HandlePacket, OpenAck, Ends, DropRequest, ReleasePending, ControlTypeOK
<1>10. ASSUME NEW a \in Answers, HandlePacket(a), FinalAck(a)
      PROVE  TaskTypeOK'
  BY <1>10 DEF HandlePacket, FinalAck, Concludes, Ends, DropRequest, ReleasePending
<1>11. ASSUME NEW a \in Answers, HandlePacket(a), Dropped(a)
      PROVE  TaskTypeOK'
  BY <1>11 DEF HandlePacket, Dropped
<1>12. ASSUME NEW kind \in {"LocalDownload", "ManualRemoteSend"}, HttpBegin(kind)
      PROVE  TaskTypeOK'
  BY <1>12 DEF HttpBegin
<1>13. ASSUME HttpEnd
      PROVE  TaskTypeOK'
  BY <1>13 DEF HttpEnd, Unlock
<1>14. ASSUME HttpHandOver
      PROVE  TaskTypeOK'
  BY <1>14 DEF HttpHandOver
<1>15. ASSUME NEW t \in tasks, TcpTask(t), TcpConnect(t)
      PROVE  TaskTypeOK'
  BY <1>15 DEF TcpTask, TcpConnect, TaskMoves
<1>16. ASSUME NEW t \in tasks, TcpTask(t), TcpSend(t)
      PROVE  TaskTypeOK'
  BY <1>16 DEF TcpTask, TcpSend, TaskMoves
<1>17. ASSUME NEW t \in tasks, TcpTask(t), TcpSendFails(t)
      PROVE  TaskTypeOK'
  BY <1>17 DEF TcpTask, TcpSendFails, TaskMoves
<1>18. ASSUME NEW t \in tasks, TcpTask(t), TcpWait(t)
      PROVE  TaskTypeOK'
  BY <1>18 DEF TcpTask, TcpWait, TaskMoves
<1>19. ASSUME NEW t \in tasks, TcpLeaves(t), TcpCleanup(t)
      PROVE  TaskTypeOK'
  BY <1>19 DEF TcpLeaves, TcpCleanup, TaskMoves
<1>20. ASSUME NEW t \in tasks, TcpLeaves(t), TcpRelease(t)
      PROVE  TaskTypeOK'
  BY <1>20 DEF TcpLeaves, TcpRelease, TaskMoves
<1>21. ASSUME NEW t \in tasks, TcpLeaves(t), TcpUnlock(t)
      PROVE  TaskTypeOK'
  BY <1>21 DEF TcpLeaves, TcpUnlock, Unlock
<1>22. ASSUME ServerOpens
      PROVE  TaskTypeOK'
  BY <1>22 DEF ServerOpens
<1>23. ASSUME ServerHasFile
      PROVE  TaskTypeOK'
  BY <1>23 DEF ServerHasFile
<1>24. ASSUME ServerGivesUp
      PROVE  TaskTypeOK'
  BY <1>24 DEF ServerGivesUp
<1>25. ASSUME NEW a \in Answers, Lose(a)
      PROVE  TaskTypeOK'
  BY <1>25 DEF Lose
<1>26. ASSUME Expire
      PROVE  TaskTypeOK'
  BY <1>26 DEF Expire
<1>27. ASSUME Delete
      PROVE  TaskTypeOK'
  BY <1>27 DEF Delete
<1>28. ASSUME Abort
      PROVE  TaskTypeOK'
  BY <1>28 DEF Abort, Boot
<1>29. CASE UNCHANGED vars
  BY <1>29 DEF vars
<1>30. QED
  BY <1>1, <1>2, <1>3, <1>4, <1>5, <1>6, <1>7, <1>8, <1>9, <1>10, <1>11, <1>12, <1>13, <1>14,
      <1>15, <1>16, <1>17, <1>18, <1>19, <1>20, <1>21, <1>22, <1>23, <1>24, <1>25, <1>26, <1>27,
      <1>28,
      <1>29
     DEF Next, Main, HandlePacket, TcpTask, TcpLeaves

\* The server has a log to wait for exactly while it is busy.
QuietInv == server.stage = "idle" <=> server.log = None

LEMMA ServerStep == TypeOK /\ QuietInv /\ [Next]_vars => ServerTypeOK'
<1> SUFFICES ASSUME TypeOK, QuietInv, [Next]_vars
             PROVE  ServerTypeOK'
  OBVIOUS
<1> USE UploadAssumption DEF ServerTypeOK, ram, history, remote, bounds
<1>a. /\ net \in Net /\ server \in Server
      /\ known \subseteq Logs /\ received \subseteq Logs /\ cut \subseteq Logs
  BY DEF TypeOK, ServerTypeOK
<1>c. "Ack" \in Answers /\ "Nack" \in Answers /\ ReadyServer \in Server
  BY DEF Answers, ReadyServer, Server, Stages
<1>1. ASSUME StartManual
      PROVE  ServerTypeOK'
  BY <1>1, <1>a, RequestType DEF StartManual, StartSend, NotStarted, Unlock, Logs
<1>2. ASSUME MonthlyBegins
      PROVE  ServerTypeOK'
  BY <1>2, <1>a, RequestType, StartsUserType
     DEF MonthlyBegins, StartsNobody, DropRequest, StartSend,
      NotStarted, Logs, Users0, TypeOK, MonthTypeOK
<1>3. ASSUME MonthlyPolls
      PROVE  ServerTypeOK'
  BY <1>3, <1>a, RequestType, StartsUserType
     DEF MonthlyPolls, StartsNobody, DropRequest, StartSend,
      NotStarted, FinishMonthly, ReleasePending, Over, Logs, Users0, TypeOK, MonthTypeOK
<1>4. ASSUME MonthlyStops
      PROVE  ServerTypeOK'
  BY <1>4, <1>a DEF MonthlyStops, FinishMonthly, ReleasePending
<1>5. ASSUME NEW a \in Answers, HandlePacket(a), Nack(a)
      PROVE  ServerTypeOK'
  BY <1>5, <1>a, TakenType DEF HandlePacket, Nack, Concludes, Ends, DropRequest, ReleasePending
<1>6. ASSUME NEW a \in Answers, HandlePacket(a), AlreadySent(a)
      PROVE  ServerTypeOK'
  BY <1>6, <1>a, TakenType DEF HandlePacket, AlreadySent, Ends, DropRequest, ReleasePending
<1>7. ASSUME NEW a \in Answers, HandlePacket(a), RequestAck(a)
      PROVE  ServerTypeOK'
  BY <1>7, <1>a, TakenType, MetadataType DEF HandlePacket, RequestAck, Ends, DropRequest,
      ReleasePending
<1>8. ASSUME NEW a \in Answers, HandlePacket(a), MetadataAck(a)
      PROVE  ServerTypeOK'
  BY <1>8, <1>a, TakenType DEF HandlePacket, MetadataAck
<1>9. ASSUME NEW a \in Answers, HandlePacket(a), OpenAck(a)
      PROVE  ServerTypeOK'
  BY <1>9, <1>a, TakenType DEF HandlePacket, OpenAck, Ends, DropRequest, ReleasePending
<1>10. ASSUME NEW a \in Answers, HandlePacket(a), FinalAck(a)
      PROVE  ServerTypeOK'
  BY <1>10, <1>a, TakenType DEF HandlePacket, FinalAck, Concludes, Ends, DropRequest,
      ReleasePending
<1>11. ASSUME NEW a \in Answers, HandlePacket(a), Dropped(a)
      PROVE  ServerTypeOK'
  BY <1>11, <1>a, TakenType DEF HandlePacket, Dropped
<1>12. ASSUME NEW kind \in {"LocalDownload", "ManualRemoteSend"}, HttpBegin(kind)
      PROVE  ServerTypeOK'
  BY <1>12, <1>a DEF HttpBegin
<1>13. ASSUME HttpEnd
      PROVE  ServerTypeOK'
  BY <1>13, <1>a DEF HttpEnd, Unlock
<1>14. ASSUME HttpHandOver
      PROVE  ServerTypeOK'
  BY <1>14, <1>a DEF HttpHandOver
<1>15. ASSUME NEW t \in tasks, TcpTask(t), TcpConnect(t)
      PROVE  ServerTypeOK'
  BY <1>15, <1>a DEF TcpTask, TcpConnect, TaskMoves, Server, Stages
<1>16. ASSUME NEW t \in tasks, TcpTask(t), TcpSend(t)
      PROVE  ServerTypeOK'
  BY <1>16, <1>a DEF TcpTask, TcpSend, TaskMoves, Server, Stages, TypeOK, TaskTypeOK
<1>17. ASSUME NEW t \in tasks, TcpTask(t), TcpSendFails(t)
      PROVE  ServerTypeOK'
  BY <1>17, <1>a DEF TcpTask, TcpSendFails, TaskMoves, Server, Stages, TypeOK, TaskTypeOK
<1>18. ASSUME NEW t \in tasks, TcpTask(t), TcpWait(t)
      PROVE  ServerTypeOK'
  BY <1>18, <1>a DEF TcpTask, TcpWait, TaskMoves
<1>19. ASSUME NEW t \in tasks, TcpLeaves(t), TcpCleanup(t)
      PROVE  ServerTypeOK'
  BY <1>19, <1>a DEF TcpLeaves, TcpCleanup, TaskMoves
<1>20. ASSUME NEW t \in tasks, TcpLeaves(t), TcpRelease(t)
      PROVE  ServerTypeOK'
  BY <1>20, <1>a DEF TcpLeaves, TcpRelease, TaskMoves
<1>21. ASSUME NEW t \in tasks, TcpLeaves(t), TcpUnlock(t)
      PROVE  ServerTypeOK'
  BY <1>21, <1>a DEF TcpLeaves, TcpUnlock, Unlock
<1>22. ASSUME ServerOpens
      PROVE  ServerTypeOK'
  BY <1>22, <1>a, <1>c, AnsweredType DEF ServerOpens, Server, Stages
<1>23. ASSUME ServerHasFile
      PROVE  ServerTypeOK'
  BY <1>23, <1>a, <1>c, AnsweredType DEF ServerHasFile, Server, QuietInv
<1>24. ASSUME ServerGivesUp
      PROVE  ServerTypeOK'
  BY <1>24, <1>a, <1>c, AnsweredType DEF ServerGivesUp
<1>25. ASSUME NEW a \in Answers, Lose(a)
      PROVE  ServerTypeOK'
  BY <1>25, <1>a, TakenType DEF Lose
<1>26. ASSUME Expire
      PROVE  ServerTypeOK'
  BY <1>26, <1>a DEF Expire
<1>27. ASSUME Delete
      PROVE  ServerTypeOK'
  BY <1>27, <1>a DEF Delete
<1>28. ASSUME Abort
      PROVE  ServerTypeOK'
  BY <1>28, <1>a DEF Abort, Boot
<1>29. CASE UNCHANGED vars
  BY <1>29, <1>a DEF vars
<1>30. QED
  BY <1>1, <1>2, <1>3, <1>4, <1>5, <1>6, <1>7, <1>8, <1>9, <1>10, <1>11, <1>12, <1>13, <1>14,
      <1>15, <1>16, <1>17, <1>18, <1>19, <1>20, <1>21, <1>22, <1>23, <1>24, <1>25, <1>26, <1>27,
      <1>28,
      <1>29
     DEF Next, Main, HandlePacket, TcpTask, TcpLeaves

LEMMA QuietStep == TypeOK /\ QuietInv /\ [Next]_vars => QuietInv'
<1> SUFFICES ASSUME TypeOK, QuietInv, [Next]_vars
             PROVE  QuietInv'
  OBVIOUS
<1> USE UploadAssumption DEF QuietInv, ReadyServer, ram, history, remote, bounds
<1>a. server \in Server
  BY DEF TypeOK, ServerTypeOK
<1>1. ASSUME StartManual
      PROVE  QuietInv'
  BY <1>1, <1>a DEF StartManual, StartSend, NotStarted, Unlock, ServerGetsRequest, Logs,
      Users0, Manual, None
<1>2. ASSUME MonthlyBegins
      PROVE  QuietInv'
  <2>1. CASE StartsUser(0, last)
    <3>1. PICK u \in Users0 :
             /\ StartSend(u) /\ expired' = FALSE
             /\ index' = month' /\ month' \in 0 .. Users - 1
             /\ UserAt(configs, month') = {u}
      BY <2>1, StartsUserType
    <3>2. QED
      BY <1>2, <1>a, <2>1, <3>1 DEF MonthlyBegins, StartSend, ServerGetsRequest, Users0, None
  <2>2. CASE StartsNobody(0, last) /\ UNCHANGED <<month, count, expired, lock, pending>>
    BY <1>2, <1>a, <2>2 DEF MonthlyBegins, StartsNobody, DropRequest, NotStarted
  <2>3. QED
    BY <1>2, <2>1, <2>2 DEF MonthlyBegins
<1>3. ASSUME MonthlyPolls
      PROVE  QuietInv'
  <2>1. CASE StartsUser(month + 1, last') /\ UNCHANGED <<lock, pending, count>>
    <3>1. PICK u \in Users0 :
             /\ StartSend(u) /\ expired' = FALSE
             /\ index' = month' /\ month' \in 0 .. Users - 1
             /\ UserAt(configs, month') = {u}
      BY <2>1, StartsUserType
    <3>2. QED
      BY <1>3, <1>a, <2>1, <3>1 DEF MonthlyPolls, StartSend, ServerGetsRequest, Users0, None
  <2>2. CASE StartsNobody(month + 1, last') /\ FinishMonthly
    BY <1>3, <1>a, <2>2
       DEF MonthlyPolls, StartsNobody, DropRequest, NotStarted, FinishMonthly, ReleasePending
  <2>3. QED
    BY <1>3, <2>1, <2>2 DEF MonthlyPolls
<1>4. ASSUME MonthlyStops
      PROVE  QuietInv'
  BY <1>4, <1>a DEF MonthlyStops, FinishMonthly, ReleasePending
<1>5. ASSUME NEW a \in Answers, HandlePacket(a), Nack(a)
      PROVE  QuietInv'
  BY <1>5, <1>a DEF HandlePacket, Nack, Concludes, Ends, DropRequest, ReleasePending
<1>6. ASSUME NEW a \in Answers, HandlePacket(a), AlreadySent(a)
      PROVE  QuietInv'
  BY <1>6, <1>a DEF HandlePacket, AlreadySent, Ends, DropRequest, ReleasePending
<1>7. ASSUME NEW a \in Answers, HandlePacket(a), RequestAck(a)
      PROVE  QuietInv'
  BY <1>7, <1>a DEF HandlePacket, RequestAck, Ends, DropRequest, ReleasePending,
      ServerGetsMetadata, Server
<1>8. ASSUME NEW a \in Answers, HandlePacket(a), MetadataAck(a)
      PROVE  QuietInv'
  BY <1>8, <1>a DEF HandlePacket, MetadataAck
<1>9. ASSUME NEW a \in Answers, HandlePacket(a), OpenAck(a)
      PROVE  QuietInv'
  BY <1>9, <1>a DEF HandlePacket, OpenAck, Ends, DropRequest, ReleasePending
<1>10. ASSUME NEW a \in Answers, HandlePacket(a), FinalAck(a)
      PROVE  QuietInv'
  BY <1>10, <1>a DEF HandlePacket, FinalAck, Concludes, Ends, DropRequest, ReleasePending
<1>11. ASSUME NEW a \in Answers, HandlePacket(a), Dropped(a)
      PROVE  QuietInv'
  BY <1>11, <1>a DEF HandlePacket, Dropped
<1>12. ASSUME NEW kind \in {"LocalDownload", "ManualRemoteSend"}, HttpBegin(kind)
      PROVE  QuietInv'
  BY <1>12, <1>a DEF HttpBegin
<1>13. ASSUME HttpEnd
      PROVE  QuietInv'
  BY <1>13, <1>a DEF HttpEnd, Unlock
<1>14. ASSUME HttpHandOver
      PROVE  QuietInv'
  BY <1>14, <1>a DEF HttpHandOver
<1>15. ASSUME NEW t \in tasks, TcpTask(t), TcpConnect(t)
      PROVE  QuietInv'
  BY <1>15, <1>a DEF TcpTask, TcpConnect, TaskMoves, Server
<1>16. ASSUME NEW t \in tasks, TcpTask(t), TcpSend(t)
      PROVE  QuietInv'
  BY <1>16, <1>a DEF TcpTask, TcpSend, TaskMoves, Server
<1>17. ASSUME NEW t \in tasks, TcpTask(t), TcpSendFails(t)
      PROVE  QuietInv'
  BY <1>17, <1>a DEF TcpTask, TcpSendFails, TaskMoves, Server
<1>18. ASSUME NEW t \in tasks, TcpTask(t), TcpWait(t)
      PROVE  QuietInv'
  BY <1>18, <1>a DEF TcpTask, TcpWait, TaskMoves
<1>19. ASSUME NEW t \in tasks, TcpLeaves(t), TcpCleanup(t)
      PROVE  QuietInv'
  BY <1>19, <1>a DEF TcpLeaves, TcpCleanup, TaskMoves
<1>20. ASSUME NEW t \in tasks, TcpLeaves(t), TcpRelease(t)
      PROVE  QuietInv'
  BY <1>20, <1>a DEF TcpLeaves, TcpRelease, TaskMoves
<1>21. ASSUME NEW t \in tasks, TcpLeaves(t), TcpUnlock(t)
      PROVE  QuietInv'
  BY <1>21, <1>a DEF TcpLeaves, TcpUnlock, Unlock
<1>22. ASSUME ServerOpens
      PROVE  QuietInv'
  BY <1>22, <1>a DEF ServerOpens, Server
<1>23. ASSUME ServerHasFile
      PROVE  QuietInv'
  BY <1>23, <1>a DEF ServerHasFile
<1>24. ASSUME ServerGivesUp
      PROVE  QuietInv'
  BY <1>24, <1>a DEF ServerGivesUp
<1>25. ASSUME NEW a \in Answers, Lose(a)
      PROVE  QuietInv'
  BY <1>25, <1>a DEF Lose
<1>26. ASSUME Expire
      PROVE  QuietInv'
  BY <1>26, <1>a DEF Expire
<1>27. ASSUME Delete
      PROVE  QuietInv'
  BY <1>27, <1>a DEF Delete
<1>28. ASSUME Abort
      PROVE  QuietInv'
  BY <1>28, <1>a DEF Abort, Boot
<1>29. CASE UNCHANGED vars
  BY <1>29 DEF vars
<1>30. QED
  BY <1>1, <1>2, <1>3, <1>4, <1>5, <1>6, <1>7, <1>8, <1>9, <1>10, <1>11, <1>12, <1>13, <1>14,
      <1>15, <1>16, <1>17, <1>18, <1>19, <1>20, <1>21, <1>22, <1>23, <1>24, <1>25, <1>26, <1>27,
      <1>28,
      <1>29
     DEF Next, Main, HandlePacket, TcpTask, TcpLeaves

\* The types, by parts.
LEMMA TypeStep == TypeOK /\ QuietInv /\ [Next]_vars => TypeOK'
  BY FlagStep, ControlStep, MonthStep, TaskStep, ServerStep DEF TypeOK

-----------------------------------------------------------------------------
(* The lock. *)

\* Whoever holds the lock is alone, and the lock is taken then.
LockInv ==
    /\ ~(http # "no" /\ starting) /\ ~(http # "no" /\ pending) /\ ~(starting /\ pending)
    /\ \A t \in Unlocking : http = "no" /\ ~starting /\ ~pending
    /\ \A t, u \in Unlocking : t = u
    /\ lock # "Ready" <=> (http # "no" \/ starting \/ pending \/ Unlocking # {})

LEMMA LockStep == TypeOK /\ LockInv /\ [Next]_vars => LockInv'
<1> SUFFICES ASSUME TypeOK, LockInv, [Next]_vars
             PROVE  LockInv'
  OBVIOUS
<1> USE UploadAssumption DEF TypeOK, TaskTypeOK, LockInv, Unlocking, ram, history, remote, bounds
<1>1. ASSUME StartManual
      PROVE  LockInv'
  BY <1>1 DEF StartManual, StartSend, NotStarted, Unlock
<1>2. ASSUME MonthlyBegins
      PROVE  LockInv'
  BY <1>2, StartsUserType
     DEF MonthlyBegins, StartsNobody, DropRequest, StartSend, NotStarted
<1>3. ASSUME MonthlyPolls
      PROVE  LockInv'
  BY <1>3, StartsUserType
     DEF MonthlyPolls, StartsNobody, DropRequest, StartSend, NotStarted, FinishMonthly,
      ReleasePending, Over
<1>4. ASSUME MonthlyStops
      PROVE  LockInv'
  BY <1>4 DEF MonthlyStops, FinishMonthly, ReleasePending
<1>5. ASSUME NEW a \in Answers, HandlePacket(a), Nack(a)
      PROVE  LockInv'
  BY <1>5 DEF HandlePacket, Nack, Concludes, Ends, DropRequest, ReleasePending
<1>6. ASSUME NEW a \in Answers, HandlePacket(a), AlreadySent(a)
      PROVE  LockInv'
  BY <1>6 DEF HandlePacket, AlreadySent, Ends, DropRequest, ReleasePending
<1>7. ASSUME NEW a \in Answers, HandlePacket(a), RequestAck(a)
      PROVE  LockInv'
  BY <1>7 DEF HandlePacket, RequestAck, Ends, DropRequest, ReleasePending
<1>8. ASSUME NEW a \in Answers, HandlePacket(a), MetadataAck(a)
      PROVE  LockInv'
  BY <1>8 DEF HandlePacket, MetadataAck
<1>9. ASSUME NEW a \in Answers, HandlePacket(a), OpenAck(a)
      PROVE  LockInv'
  BY <1>9 DEF HandlePacket, OpenAck, Ends, DropRequest, ReleasePending
<1>10. ASSUME NEW a \in Answers, HandlePacket(a), FinalAck(a)
      PROVE  LockInv'
  BY <1>10 DEF HandlePacket, FinalAck, Concludes, Ends, DropRequest, ReleasePending
<1>11. ASSUME NEW a \in Answers, HandlePacket(a), Dropped(a)
      PROVE  LockInv'
  BY <1>11 DEF HandlePacket, Dropped
<1>12. ASSUME NEW kind \in {"LocalDownload", "ManualRemoteSend"}, HttpBegin(kind)
      PROVE  LockInv'
  BY <1>12 DEF HttpBegin
<1>13. ASSUME HttpEnd
      PROVE  LockInv'
  BY <1>13 DEF HttpEnd, Unlock
<1>14. ASSUME HttpHandOver
      PROVE  LockInv'
  BY <1>14 DEF HttpHandOver
<1>15. ASSUME NEW t \in tasks, TcpTask(t), TcpConnect(t)
      PROVE  LockInv'
  BY <1>15 DEF TcpTask, TcpConnect, TaskMoves
<1>16. ASSUME NEW t \in tasks, TcpTask(t), TcpSend(t)
      PROVE  LockInv'
  BY <1>16 DEF TcpTask, TcpSend, TaskMoves
<1>17. ASSUME NEW t \in tasks, TcpTask(t), TcpSendFails(t)
      PROVE  LockInv'
  BY <1>17 DEF TcpTask, TcpSendFails, TaskMoves
<1>18. ASSUME NEW t \in tasks, TcpTask(t), TcpWait(t)
      PROVE  LockInv'
  BY <1>18 DEF TcpTask, TcpWait, TaskMoves
<1>19. ASSUME NEW t \in tasks, TcpLeaves(t), TcpCleanup(t)
      PROVE  LockInv'
  BY <1>19 DEF TcpLeaves, TcpCleanup, TaskMoves
<1>20. ASSUME NEW t \in tasks, TcpLeaves(t), TcpRelease(t)
      PROVE  LockInv'
  <2>1. t.pc = "release" /\ pending' = FALSE /\ UNCHANGED <<http, starting, lock>>
    BY <1>20 DEF TcpLeaves, TcpRelease
  <2>2. CASE pending
    <3>1. tasks' = (tasks \ {t}) \cup {[t EXCEPT !.pc = "unlock"]}
      BY <1>20, <2>2 DEF TcpRelease, TaskMoves
    <3>2. Unlocking = {} /\ http = "no" /\ ~starting /\ lock # "Ready"
      BY <2>2
    <3>3. Unlocking' = {[t EXCEPT !.pc = "unlock"]}
      BY <3>1, <3>2
    <3>4. QED
      BY <2>1, <3>2, <3>3
  <2>3. CASE ~pending
    <3>1. tasks' = tasks \ {t}
      BY <1>20, <2>3 DEF TcpRelease
    <3>2. Unlocking' = Unlocking
      BY <2>1, <3>1
    <3>3. QED
      BY <2>1, <2>3, <3>2
  <2>4. QED
    BY <2>2, <2>3
<1>21. ASSUME NEW t \in tasks, TcpLeaves(t), TcpUnlock(t)
      PROVE  LockInv'
  BY <1>21 DEF TcpLeaves, TcpUnlock, Unlock
<1>22. ASSUME ServerOpens
      PROVE  LockInv'
  BY <1>22 DEF ServerOpens
<1>23. ASSUME ServerHasFile
      PROVE  LockInv'
  BY <1>23 DEF ServerHasFile
<1>24. ASSUME ServerGivesUp
      PROVE  LockInv'
  BY <1>24 DEF ServerGivesUp
<1>25. ASSUME NEW a \in Answers, Lose(a)
      PROVE  LockInv'
  BY <1>25 DEF Lose
<1>26. ASSUME Expire
      PROVE  LockInv'
  BY <1>26 DEF Expire
<1>27. ASSUME Delete
      PROVE  LockInv'
  BY <1>27 DEF Delete
<1>28. ASSUME Abort
      PROVE  LockInv'
  BY <1>28 DEF Abort, Boot
<1>29. CASE UNCHANGED vars
  BY <1>29 DEF vars
<1>30. QED
  BY <1>1, <1>2, <1>3, <1>4, <1>5, <1>6, <1>7, <1>8, <1>9, <1>10, <1>11, <1>12, <1>13, <1>14,
      <1>15, <1>16, <1>17, <1>18, <1>19, <1>20, <1>21, <1>22, <1>23, <1>24, <1>25, <1>26, <1>27,
      <1>28,
      <1>29
     DEF Next, Main, HandlePacket, TcpTask, TcpLeaves

-----------------------------------------------------------------------------
(* The TCP tasks. *)

Active == {t \in tasks : t.pc \notin Leaving}

\* Unless an upload was ended behind its back, a task is alone until it cleans up,
\* the state of the upload is the one it was created in or has set itself, and no
\* other request is stored.
SenderInv ==
    ~orphaned =>
        /\ \A t, u \in Active : t = u
        /\ \A t \in tasks : t.pc = "connect" => sm = "OpeningConnection"
        /\ \A t \in tasks : t.pc \in {"send", "closed"} => sm = "SendingData"
        /\ Active # {} => request = None

\* When a new upload may start no task is at work.
LEMMA FreeMeansIdle ==
    ASSUME TypeOK, SenderInv, ~orphaned, Free
    PROVE  Active = {}
  BY DEF TypeOK, TaskTypeOK, SenderInv, Active, Leaving, Free

LEMMA SenderStep == TypeOK /\ SenderInv /\ [Next]_vars => SenderInv'
<1> SUFFICES ASSUME TypeOK, SenderInv, [Next]_vars
             PROVE  SenderInv'
  OBVIOUS
<1> USE UploadAssumption DEF SenderInv, Active, Leaving, TypeOK, ram, history, remote, bounds
<1>1. ASSUME StartManual
      PROVE  SenderInv'
  <2>1. \/ tasks' = tasks /\ orphaned' = orphaned /\ request' \in {request, None} /\ (Free \/ sm' = sm)
        \/ Free /\ tasks' = tasks /\ orphaned' = orphaned
    BY <1>1 DEF StartManual, StartSend, NotStarted, Unlock
  <2>2. CASE Free /\ ~orphaned
    BY <2>1, <2>2, FreeMeansIdle
  <2>3. QED
    BY <2>1, <2>2
<1>2. ASSUME MonthlyBegins
      PROVE  SenderInv'
  <2>1. \/ tasks' = tasks /\ orphaned' = orphaned /\ request' \in {request, None} /\ (Free \/ sm' = sm)
        \/ Free /\ tasks' = tasks /\ orphaned' = orphaned
    BY <1>2, StartsUserType
     DEF MonthlyBegins, StartsNobody, DropRequest, StartSend, NotStarted
  <2>2. CASE Free /\ ~orphaned
    BY <2>1, <2>2, FreeMeansIdle
  <2>3. QED
    BY <2>1, <2>2
<1>3. ASSUME MonthlyPolls
      PROVE  SenderInv'
  <2>1. \/ tasks' = tasks /\ orphaned' = orphaned /\ request' \in {request, None} /\ (Free \/ sm' = sm)
        \/ Free /\ tasks' = tasks /\ orphaned' = orphaned
    BY <1>3, StartsUserType
     DEF MonthlyPolls, StartsNobody, DropRequest, StartSend, NotStarted,
        FinishMonthly, ReleasePending, Over
  <2>2. CASE Free /\ ~orphaned
    BY <2>1, <2>2, FreeMeansIdle
  <2>3. QED
    BY <2>1, <2>2
<1>4. ASSUME MonthlyStops
      PROVE  SenderInv'
  BY <1>4 DEF MonthlyStops, FinishMonthly, ReleasePending
<1>5. ASSUME NEW a \in Answers, HandlePacket(a), Nack(a)
      PROVE  SenderInv'
  BY <1>5 DEF HandlePacket, Nack, Concludes, Ends, DropRequest, ReleasePending, TaskTypeOK
<1>6. ASSUME NEW a \in Answers, HandlePacket(a), AlreadySent(a)
      PROVE  SenderInv'
  BY <1>6 DEF HandlePacket, AlreadySent, Ends, DropRequest, ReleasePending, TaskTypeOK
<1>7. ASSUME NEW a \in Answers, HandlePacket(a), RequestAck(a)
      PROVE  SenderInv'
  BY <1>7 DEF HandlePacket, RequestAck, Ends, DropRequest, ReleasePending, TaskTypeOK
<1>8. ASSUME NEW a \in Answers, HandlePacket(a), MetadataAck(a)
      PROVE  SenderInv'
  BY <1>8 DEF HandlePacket, MetadataAck, TaskTypeOK
<1>9. ASSUME NEW a \in Answers, HandlePacket(a), OpenAck(a)
      PROVE  SenderInv'
  <2>1. sm = "OpeningConnection"
    BY <1>9 DEF OpenAck
  <2>2. CASE orphaned \/ request = None
    BY <1>9, <2>1, <2>2 DEF HandlePacket, FlagTypeOK
  <2>3. CASE ~orphaned /\ request # None
    <3>1. Active = {}
      BY <2>1, <2>3
    <3>2. tasks' = tasks \/ tasks' = tasks \cup {[n |-> uploads, log |-> request,
      pc |-> "connect"]}
      BY <1>9, <2>3 DEF OpenAck, Ends, DropRequest
    <3>3. CASE tasks' = tasks
      BY <3>1, <3>3
    <3>4. CASE tasks' = tasks \cup {[n |-> uploads, log |-> request, pc |-> "connect"]}
          /\ request' = None /\ sm' = sm
      BY <2>1, <3>1, <3>4
    <3>5. QED
      BY <1>9, <2>3, <3>3, <3>4 DEF OpenAck, Ends, DropRequest
  <2>4. QED
    BY <2>2, <2>3
<1>10. ASSUME NEW a \in Answers, HandlePacket(a), FinalAck(a)
      PROVE  SenderInv'
  BY <1>10 DEF HandlePacket, FinalAck, Concludes, Ends, DropRequest, ReleasePending, TaskTypeOK
<1>11. ASSUME NEW a \in Answers, HandlePacket(a), Dropped(a)
      PROVE  SenderInv'
  BY <1>11 DEF HandlePacket, Dropped, TaskTypeOK
<1>12. ASSUME NEW kind \in {"LocalDownload", "ManualRemoteSend"}, HttpBegin(kind)
      PROVE  SenderInv'
  BY <1>12 DEF HttpBegin
<1>13. ASSUME HttpEnd
      PROVE  SenderInv'
  BY <1>13 DEF HttpEnd, Unlock
<1>14. ASSUME HttpHandOver
      PROVE  SenderInv'
  BY <1>14 DEF HttpHandOver
<1>15. ASSUME NEW t \in tasks, TcpTask(t), TcpConnect(t)
      PROVE  SenderInv'
  BY <1>15 DEF TcpTask, TcpConnect, TaskMoves, TaskTypeOK
<1>16. ASSUME NEW t \in tasks, TcpTask(t), TcpSend(t)
      PROVE  SenderInv'
  BY <1>16 DEF TcpTask, TcpSend, TaskMoves, TaskTypeOK
<1>17. ASSUME NEW t \in tasks, TcpTask(t), TcpSendFails(t)
      PROVE  SenderInv'
  BY <1>17 DEF TcpTask, TcpSendFails, TaskMoves, TaskTypeOK
<1>18. ASSUME NEW t \in tasks, TcpTask(t), TcpWait(t)
      PROVE  SenderInv'
  BY <1>18 DEF TcpTask, TcpWait, TaskMoves, TaskTypeOK
<1>19. ASSUME NEW t \in tasks, TcpLeaves(t), TcpCleanup(t)
      PROVE  SenderInv'
  BY <1>19 DEF TcpLeaves, TcpCleanup, TaskMoves, TaskTypeOK
<1>20. ASSUME NEW t \in tasks, TcpLeaves(t), TcpRelease(t)
      PROVE  SenderInv'
  BY <1>20 DEF TcpLeaves, TcpRelease, TaskMoves, TaskTypeOK
<1>21. ASSUME NEW t \in tasks, TcpLeaves(t), TcpUnlock(t)
      PROVE  SenderInv'
  BY <1>21 DEF TcpLeaves, TcpUnlock, Unlock, TaskTypeOK
<1>22. ASSUME ServerOpens
      PROVE  SenderInv'
  BY <1>22 DEF ServerOpens
<1>23. ASSUME ServerHasFile
      PROVE  SenderInv'
  BY <1>23 DEF ServerHasFile
<1>24. ASSUME ServerGivesUp
      PROVE  SenderInv'
  BY <1>24 DEF ServerGivesUp
<1>25. ASSUME NEW a \in Answers, Lose(a)
      PROVE  SenderInv'
  BY <1>25 DEF Lose
<1>26. ASSUME Expire
      PROVE  SenderInv'
  BY <1>26 DEF Expire
<1>27. ASSUME Delete
      PROVE  SenderInv'
  BY <1>27 DEF Delete
<1>28. ASSUME Abort
      PROVE  SenderInv'
  BY <1>28 DEF Abort, Boot
<1>29. CASE UNCHANGED vars
  BY <1>29 DEF vars
<1>30. QED
  BY <1>1, <1>2, <1>3, <1>4, <1>5, <1>6, <1>7, <1>8, <1>9, <1>10, <1>11, <1>12, <1>13, <1>14,
      <1>15, <1>16, <1>17, <1>18, <1>19, <1>20, <1>21, <1>22, <1>23, <1>24, <1>25, <1>26, <1>27,
      <1>28,
      <1>29
     DEF Next, Main, HandlePacket, TcpTask, TcpLeaves

-----------------------------------------------------------------------------
(* The marks of the monthly upload. *)

\* Before the first manual upload nothing belongs to one.
ManualInv ==
    manuals = 0 =>
        /\ ~starting /\ http # "ManualRemoteSend" /\ request # Manual /\ server.log # Manual
        /\ \A t \in tasks : t.log # Manual

LEMMA ManualStep == TypeOK /\ ManualInv /\ [Next]_vars => ManualInv'
<1> SUFFICES ASSUME TypeOK, ManualInv, [Next]_vars
             PROVE  ManualInv'
  OBVIOUS
<1> USE UploadAssumption DEF ManualInv, TypeOK, ram, history, remote, bounds
<1>1. ASSUME StartManual
      PROVE  ManualInv'
  BY <1>1 DEF StartManual, StartSend, NotStarted, Unlock
<1>2. ASSUME MonthlyBegins
      PROVE  ManualInv'
  <2>1. CASE StartsUser(0, last)
    <3>1. PICK u \in Users0 :
             /\ StartSend(u) /\ expired' = FALSE
             /\ index' = month' /\ month' \in 0 .. Users - 1
             /\ UserAt(configs, month') = {u}
      BY <2>1, StartsUserType
    <3>2. QED
      BY <1>2, <2>1, <3>1 DEF MonthlyBegins, StartSend, ServerGetsRequest, ServerTypeOK, Server,
      MonthTypeOK, Users0, Manual, None
  <2>2. CASE StartsNobody(0, last) /\ UNCHANGED <<month, count, expired, lock, pending>>
    BY <1>2, <2>2 DEF MonthlyBegins, StartsNobody, DropRequest, NotStarted, Manual, None
  <2>3. QED
    BY <1>2, <2>1, <2>2 DEF MonthlyBegins
<1>3. ASSUME MonthlyPolls
      PROVE  ManualInv'
  <2>1. CASE StartsUser(month + 1, last') /\ UNCHANGED <<lock, pending, count>>
    <3>1. PICK u \in Users0 :
             /\ StartSend(u) /\ expired' = FALSE
             /\ index' = month' /\ month' \in 0 .. Users - 1
             /\ UserAt(configs, month') = {u}
      BY <2>1, StartsUserType
    <3>2. QED
      BY <1>3, <2>1, <3>1 DEF MonthlyPolls, StartSend, ServerGetsRequest, ServerTypeOK, Server,
      MonthTypeOK, Users0, Manual, None
  <2>2. CASE StartsNobody(month + 1, last') /\ FinishMonthly
    BY <1>3, <2>2
       DEF MonthlyPolls, StartsNobody, DropRequest, NotStarted, FinishMonthly, ReleasePending,
           Manual, None
  <2>3. QED
    BY <1>3, <2>1, <2>2 DEF MonthlyPolls
<1>4. ASSUME MonthlyStops
      PROVE  ManualInv'
  BY <1>4 DEF MonthlyStops, FinishMonthly, ReleasePending
<1>5. ASSUME NEW a \in Answers, HandlePacket(a), Nack(a)
      PROVE  ManualInv'
  BY <1>5 DEF HandlePacket, Nack, Concludes, Ends, DropRequest, ReleasePending, Manual, None
<1>6. ASSUME NEW a \in Answers, HandlePacket(a), AlreadySent(a)
      PROVE  ManualInv'
  BY <1>6 DEF HandlePacket, AlreadySent, Ends, DropRequest, ReleasePending, Manual, None
<1>7. ASSUME NEW a \in Answers, HandlePacket(a), RequestAck(a)
      PROVE  ManualInv'
  BY <1>7 DEF HandlePacket, RequestAck, Ends, DropRequest, ReleasePending, ServerGetsMetadata,
      ReadyServer,
      Manual, None, ServerTypeOK, Server
<1>8. ASSUME NEW a \in Answers, HandlePacket(a), MetadataAck(a)
      PROVE  ManualInv'
  BY <1>8 DEF HandlePacket, MetadataAck
<1>9. ASSUME NEW a \in Answers, HandlePacket(a), OpenAck(a)
      PROVE  ManualInv'
  BY <1>9 DEF HandlePacket, OpenAck, Ends, DropRequest, ReleasePending, Manual, None
<1>10. ASSUME NEW a \in Answers, HandlePacket(a), FinalAck(a)
      PROVE  ManualInv'
  BY <1>10 DEF HandlePacket, FinalAck, Concludes, Ends, DropRequest, ReleasePending, Manual, None
<1>11. ASSUME NEW a \in Answers, HandlePacket(a), Dropped(a)
      PROVE  ManualInv'
  BY <1>11 DEF HandlePacket, Dropped
<1>12. ASSUME NEW kind \in {"LocalDownload", "ManualRemoteSend"}, HttpBegin(kind)
      PROVE  ManualInv'
  BY <1>12 DEF HttpBegin, TaskTypeOK
<1>13. ASSUME HttpEnd
      PROVE  ManualInv'
  BY <1>13 DEF HttpEnd, Unlock
<1>14. ASSUME HttpHandOver
      PROVE  ManualInv'
  BY <1>14 DEF HttpHandOver
<1>15. ASSUME NEW t \in tasks, TcpTask(t), TcpConnect(t)
      PROVE  ManualInv'
  BY <1>15 DEF TcpTask, TcpConnect, TaskMoves, ServerTypeOK, Server, TaskTypeOK
<1>16. ASSUME NEW t \in tasks, TcpTask(t), TcpSend(t)
      PROVE  ManualInv'
  BY <1>16 DEF TcpTask, TcpSend, TaskMoves, ServerTypeOK, Server, TaskTypeOK
<1>17. ASSUME NEW t \in tasks, TcpTask(t), TcpSendFails(t)
      PROVE  ManualInv'
  BY <1>17 DEF TcpTask, TcpSendFails, TaskMoves, ServerTypeOK, Server, TaskTypeOK
<1>18. ASSUME NEW t \in tasks, TcpTask(t), TcpWait(t)
      PROVE  ManualInv'
  BY <1>18 DEF TcpTask, TcpWait, TaskMoves, ServerTypeOK, Server, TaskTypeOK
<1>19. ASSUME NEW t \in tasks, TcpLeaves(t), TcpCleanup(t)
      PROVE  ManualInv'
  BY <1>19 DEF TcpLeaves, TcpCleanup, TaskMoves, TaskTypeOK
<1>20. ASSUME NEW t \in tasks, TcpLeaves(t), TcpRelease(t)
      PROVE  ManualInv'
  BY <1>20 DEF TcpLeaves, TcpRelease, TaskMoves, TaskTypeOK
<1>21. ASSUME NEW t \in tasks, TcpLeaves(t), TcpUnlock(t)
      PROVE  ManualInv'
  BY <1>21 DEF TcpLeaves, TcpUnlock, Unlock
<1>22. ASSUME ServerOpens
      PROVE  ManualInv'
  BY <1>22 DEF ServerOpens, ServerTypeOK, Server, TaskTypeOK
<1>23. ASSUME ServerHasFile
      PROVE  ManualInv'
  BY <1>23 DEF ServerHasFile, Manual, None, ReadyServer
<1>24. ASSUME ServerGivesUp
      PROVE  ManualInv'
  BY <1>24 DEF ServerGivesUp, Manual, None, ReadyServer
<1>25. ASSUME NEW a \in Answers, Lose(a)
      PROVE  ManualInv'
  BY <1>25 DEF Lose
<1>26. ASSUME Expire
      PROVE  ManualInv'
  BY <1>26 DEF Expire
<1>27. ASSUME Delete
      PROVE  ManualInv'
  BY <1>27 DEF Delete
<1>28. ASSUME Abort
      PROVE  ManualInv'
  BY <1>28 DEF Abort, Boot, Manual, None, ReadyServer
<1>29. CASE UNCHANGED vars
  BY <1>29 DEF vars
<1>30. QED
  BY <1>1, <1>2, <1>3, <1>4, <1>5, <1>6, <1>7, <1>8, <1>9, <1>10, <1>11, <1>12, <1>13, <1>14,
      <1>15, <1>16, <1>17, <1>18, <1>19, <1>20, <1>21, <1>22, <1>23, <1>24, <1>25, <1>26, <1>27,
      <1>28,
      <1>29
     DEF Next, Main, HandlePacket, TcpTask, TcpLeaves

\* What the exchange knows of the log of user u: the request, the server and the
\* task are about no other log.
About(u) ==
    /\ request \in {None, u} /\ server.log \in {None, u}
    /\ \A t \in Active : t.log = u

\* A round is at user u, the upload that is under way is about his log, and what the
\* device takes as success means that the server has it.
RoundOf(u) ==
    /\ About(u)
    /\ UserAt(configs, month) \subseteq {u} \cup shifted
    /\ net["AlreadySent"] > 0 => u \in known
    /\ sm \in {"WaitingForFinalAck", "Done"} => u \in received \cup cut

\* The upload that is under way, also when its round was given up, is about one log,
\* in a round that of its user, and what the device takes as success means that the
\* server has this log, whole or cut off.
Exchange ==
        /\ month # -1 => \E u \in Users0 : RoundOf(u)
        /\ request \in Users0 => UserAt(configs, index) \subseteq {request} \cup shifted
        /\ request # None => server.log \in {None, request}
        /\ \A t \in Active : server.log \in {None, t.log}
        /\ net["AlreadySent"] > 0 => (request # None => request \in known)
        /\ \A t \in tasks : t.pc = "closed" => t.log \in received
        /\ known \subseteq received \cup cut
        /\ server.stage = "file" => server.log \in received \cup cut
        /\ last \subseteq received \cup cut \cup shifted

Clean == ~orphaned /\ ~crossed /\ manuals = 0
MarkInv == Clean => Exchange

\* An answer taken out, and one of another kind, are no news of a log sent before.
LEMMA AlreadySentKept ==
    ASSUME net \in Net
    PROVE  /\ \A a \in Answers : Taken(a)["AlreadySent"] > 0 => net["AlreadySent"] > 0
           /\ \A n \in Net, b \in {"Ack", "Nack"} :
                 Answered(n, b)["AlreadySent"] = n["AlreadySent"]
  BY DEF Net, Answers, Taken, Answered

\* What spoils the marks is never undone.
LEMMA CleanBefore == TypeOK /\ [Next]_vars /\ Clean' => Clean
<1> SUFFICES ASSUME TypeOK, [Next]_vars
             PROVE  (orphaned => orphaned') /\ (crossed => crossed') /\ (manuals' = 0 => manuals = 0)
  BY DEF Clean
<1> USE DEF TypeOK, FlagTypeOK, TaskTypeOK, ram, history, remote, bounds
<1>1. CASE StartManual
  BY <1>1 DEF StartManual, StartSend, NotStarted
<1>2. CASE MonthlyBegins \/ MonthlyPolls
  BY <1>2 DEF MonthlyBegins, MonthlyPolls, StartsUser, StartsNobody, StartSend, NotStarted
<1>3. ASSUME NEW a \in Answers, HandlePacket(a)
      PROVE  (orphaned => orphaned') /\ crossed' = crossed /\ manuals' = manuals
  BY <1>3 DEF HandlePacket
<1>4. ASSUME NEW kind \in {"LocalDownload", "ManualRemoteSend"}, HttpBegin(kind)
      PROVE  orphaned' = orphaned /\ crossed' = crossed /\ (manuals' = 0 => manuals = 0)
  BY <1>4 DEF HttpBegin
<1>5. CASE UNCHANGED <<orphaned, crossed, manuals>>
  BY <1>5
<1>6. QED
  BY <1>1, <1>2, <1>3, <1>4, <1>5
     DEF Next, Main, MonthlyStops, HttpEnd, HttpHandOver, TcpTask, TcpLeaves, ServerOpens,
         ServerHasFile, ServerGivesUp, Lose, Expire, Delete, Abort, vars

\* An upload that starts while the server and the network are quiet.
LEMMA QuietStart ==
    ASSUME TypeOK, QuietInv, SenderInv, ~orphaned, ~crossed', NEW u \in Users0, StartSend(u)
    PROVE  /\ Active = {} /\ server'.log \in {None, u} /\ server'.stage # "file"
           /\ sm' = "RequestSent" /\ request' = u
           /\ net'["AlreadySent"] > 0 => u \in known
<1>1. Active = {}
  BY FreeMeansIdle DEF StartSend
<1>2. server.stage = "idle" /\ \A a \in Answers : ~(net[a] > 0)
  BY DEF StartSend
<1>3. server.log = None
  BY <1>2 DEF QuietInv
<1>4. ~(net["AlreadySent"] > 0) /\ net \in Net
  BY <1>2 DEF Answers, TypeOK, ServerTypeOK
<1>5. ServerGetsRequest(u) /\ sm' = "RequestSent" /\ request' = u
  BY DEF StartSend
<1>6. QED
  BY <1>1, <1>2, <1>3, <1>4, <1>5, AlreadySentKept DEF ServerGetsRequest

LEMMA MarkStep == TypeOK /\ QuietInv /\ SenderInv /\ ManualInv /\ MarkInv /\ [Next]_vars => MarkInv'
<1> SUFFICES ASSUME TypeOK, QuietInv, SenderInv, ManualInv, MarkInv, [Next]_vars
             PROVE  MarkInv'
  OBVIOUS
<1> USE UploadAssumption DEF Exchange, RoundOf, About, Active, Leaving, ram, history, remote,
      bounds
<1> SUFFICES ASSUME Clean' PROVE Exchange'
  BY DEF MarkInv
<1>a. Clean /\ Exchange /\ net \in Net
  BY CleanBefore DEF MarkInv, TypeOK, ServerTypeOK
<1>b. ~starting /\ http # "ManualRemoteSend" /\ manuals \in Nat
  BY <1>a DEF ManualInv, Clean, TypeOK, TaskTypeOK
<1>c. None \notin Users0
  BY DEF Users0, None
<1>1. ASSUME StartManual
      PROVE  Exchange'
  BY <1>1, <1>a, <1>b DEF StartManual, StartSend, NotStarted, Unlock
<1>2. ASSUME MonthlyBegins
      PROVE  Exchange'
  <2>1. CASE StartsUser(0, last)
    <3>1. PICK u \in Users0 :
             StartSend(u) /\ index' = month' /\ UserAt(configs, month') = {u}
      BY <2>1, StartsUserType
    <3>2. QED
      BY <1>2, <1>a, <3>1, QuietStart DEF MonthlyBegins, Clean
  <2>2. CASE StartsNobody(0, last) /\ UNCHANGED <<month, count, expired, lock, pending>>
    <3>1. /\ month = -1 /\ month' = -1
          /\ request' = None \/ UNCHANGED <<request, index>>
          /\ UNCHANGED <<configs, shifted, cut, server, net, tasks, last, known, received>>
      BY <1>2, <2>2 DEF MonthlyBegins, StartsNobody, NotStarted, DropRequest
    <3>2. QED
      BY <1>a, <3>1 DEF Users0, None
  <2>3. QED
    BY <1>2, <2>1, <2>2 DEF MonthlyBegins
<1>3. ASSUME MonthlyPolls
      PROVE  Exchange'
  <2>1. last' \subseteq received \cup cut \cup shifted
    BY <1>3, <1>a DEF MonthlyPolls, Marked
  <2>2. CASE StartsUser(month + 1, last')
    <3>1. PICK u \in Users0 :
             StartSend(u) /\ index' = month' /\ UserAt(configs, month') = {u}
      BY <2>2, StartsUserType
    <3>2. QED
      BY <1>3, <1>a, <2>1, <3>1, QuietStart DEF MonthlyPolls, Clean
  <2>3. CASE StartsNobody(month + 1, last') /\ FinishMonthly
    <3>1. /\ month' = -1
          /\ request' = None \/ UNCHANGED <<request, index>>
          /\ UNCHANGED <<configs, shifted, cut, server, net, tasks, known, received>>
      BY <1>3, <2>3 DEF MonthlyPolls, StartsNobody, NotStarted, DropRequest, FinishMonthly
    <3>2. QED
      BY <1>a, <2>1, <3>1 DEF Users0, None
  <2>4. QED
    BY <1>3, <2>2, <2>3 DEF MonthlyPolls
<1>4. ASSUME MonthlyStops
      PROVE  Exchange'
  BY <1>4, <1>a DEF MonthlyStops, FinishMonthly, ReleasePending
<1>5. ASSUME NEW a \in Answers, HandlePacket(a), Nack(a)
      PROVE  Exchange'
  <2>1. net'["AlreadySent"] > 0 => net["AlreadySent"] > 0
    BY <1>5, <1>a, AlreadySentKept DEF Nack, Concludes
  <2>2. /\ sm' = "Error" /\ request' = None
        /\ UNCHANGED <<month, configs, shifted, cut, server, tasks, last, known, received>>
    BY <1>5 DEF HandlePacket, Nack, Concludes, Ends, DropRequest
  <2>3. QED
    BY <1>a, <1>c, <2>1, <2>2
<1>6. ASSUME NEW a \in Answers, HandlePacket(a), AlreadySent(a)
      PROVE  Exchange'
  <2>1. a = "AlreadySent" /\ net["AlreadySent"] > 0 /\ net' = Taken(a)
    BY <1>6 DEF HandlePacket, AlreadySent
  <2>2. net'["AlreadySent"] > 0 => net["AlreadySent"] > 0
    BY <1>a, <2>1, AlreadySentKept
  <2>3. /\ sm' = "Done" /\ request' = None
        /\ last' = IF request \in Users0 THEN last \cup UserAt(configs, index) ELSE last
        /\ UNCHANGED <<month, configs, shifted, cut, server, tasks, known, received>>
    BY <1>6 DEF HandlePacket, AlreadySent, Ends, DropRequest
  <2>4. last' \subseteq received \cup cut \cup shifted
    BY <1>a, <1>c, <2>1, <2>3
  <2>5. QED
    BY <1>a, <1>c, <2>1, <2>2, <2>3, <2>4
<1>7. ASSUME NEW a \in Answers, HandlePacket(a), RequestAck(a)
      PROVE  Exchange'
  <2>1. Taken(a) \in Net /\ (Taken(a)["AlreadySent"] > 0 => net["AlreadySent"] > 0)
    BY <1>7, <1>a, TakenType, AlreadySentKept DEF HandlePacket
  <2>2. /\ sm' \in {"MetadataSent", "Error"}
        /\ request' = None \/ UNCHANGED <<request, index>>
        /\ UNCHANGED <<month, configs, shifted, cut, tasks, last, known, received>>
    BY <1>7 DEF HandlePacket, RequestAck, Ends, DropRequest
  <2>3. net'["AlreadySent"] > 0 => net["AlreadySent"] > 0
    BY <1>7, <2>1, AlreadySentKept, <1>a DEF RequestAck, ServerGetsMetadata
  <2>4. server'.log \in {None, server.log} /\ (server'.stage = "file" => server' = server)
    BY <1>7 DEF RequestAck, ServerGetsMetadata, ReadyServer, TypeOK, ServerTypeOK, Server
  <2>5. QED
    BY <1>a, <1>c, <2>2, <2>3, <2>4
<1>8. ASSUME NEW a \in Answers, HandlePacket(a), MetadataAck(a)
      PROVE  Exchange'
  BY <1>8, <1>a, AlreadySentKept DEF HandlePacket, MetadataAck
<1>9. ASSUME NEW a \in Answers, HandlePacket(a), OpenAck(a)
      PROVE  Exchange'
  <2>1. net'["AlreadySent"] > 0 => net["AlreadySent"] > 0
    BY <1>9, <1>a, AlreadySentKept DEF OpenAck
  <2>2. /\ sm' \in {"OpeningConnection", "Error"} /\ request' = None
        /\ \/ UNCHANGED tasks
           \/ /\ request # None
              /\ tasks' = tasks \cup {[n |-> uploads, log |-> request, pc |-> "connect"]}
        /\ UNCHANGED <<month, configs, shifted, cut, server, last, known, received>>
    BY <1>9 DEF HandlePacket, OpenAck, Ends, DropRequest
  <2>3. QED
    BY <1>a, <1>c, <2>1, <2>2
<1>10. ASSUME NEW a \in Answers, HandlePacket(a), FinalAck(a)
      PROVE  Exchange'
  <2>1. net'["AlreadySent"] > 0 => net["AlreadySent"] > 0
    BY <1>10, <1>a, AlreadySentKept DEF FinalAck, Concludes
  <2>2. /\ sm = "WaitingForFinalAck" /\ sm' = "Done" /\ request' = None
        /\ UNCHANGED <<month, configs, shifted, cut, server, tasks, last, known, received>>
    BY <1>10 DEF HandlePacket, FinalAck, Concludes, Ends, DropRequest
  <2>3. QED
    BY <1>a, <1>c, <2>1, <2>2
<1>11. ASSUME NEW a \in Answers, HandlePacket(a), Dropped(a)
      PROVE  Exchange'
  BY <1>11, <1>a, AlreadySentKept DEF HandlePacket, Dropped
<1>12. ASSUME NEW kind \in {"LocalDownload", "ManualRemoteSend"}, HttpBegin(kind)
      PROVE  Exchange'
  BY <1>12, <1>a, <1>b DEF HttpBegin, Clean
<1>13. ASSUME HttpEnd
      PROVE  Exchange'
  BY <1>13, <1>a DEF HttpEnd, Unlock
<1>14. ASSUME HttpHandOver
      PROVE  Exchange'
  BY <1>14, <1>a DEF HttpHandOver
<1>15. ASSUME NEW t \in tasks, TcpTask(t), TcpConnect(t)
      PROVE  Exchange'
  BY <1>15, <1>a DEF TcpTask, TcpConnect, TaskMoves, Clean, SenderInv, TypeOK, TaskTypeOK,
      ServerTypeOK, Server
<1>16. ASSUME NEW t \in tasks, TcpTask(t), TcpSend(t)
      PROVE  Exchange'
  <2> t \in Active /\ t.log \in Logs
    BY <1>16 DEF TcpSend, TypeOK, TaskTypeOK
  <2>1. UNCHANGED <<month, configs, shifted, cut, request, index, net, last, known, sm>>
    BY <1>16 DEF TcpTask, TcpSend
  <2>2. /\ server.stage = "receiving" /\ server' = [server EXCEPT !.stage = "file"]
        /\ received' = received \cup {t.log} /\ TaskMoves(t, "closed")
    BY <1>16 DEF TcpSend
  <2>3. server.log = t.log
    BY <1>a, <2>2 DEF QuietInv
  <2>4. server'.log = server.log /\ server'.stage = "file"
    BY <2>2 DEF TypeOK, ServerTypeOK, Server
  <2>5. /\ \A x \in Active' : x.log = t.log
        /\ \A x \in tasks' : x.pc = "closed" => x.log \in received'
    BY <1>a, <1>16, <2>2 DEF TaskMoves, TcpSend, SenderInv, Clean, TypeOK, TaskTypeOK
  <2>6. QED
    BY <1>a, <1>c, <2>1, <2>2, <2>3, <2>4, <2>5
<1>17. ASSUME NEW t \in tasks, TcpTask(t), TcpSendFails(t)
      PROVE  Exchange'
  <2> t \in Active /\ t.log \in Logs
    BY <1>17 DEF TcpSendFails, TypeOK, TaskTypeOK
  <2>1. UNCHANGED <<month, configs, shifted, request, index, net, last, known, received>>
    BY <1>17 DEF TcpTask, TcpSendFails
  <2>2. sm' = "Error" /\ TaskMoves(t, "cleanup")
    BY <1>17 DEF TcpSendFails
  <2>3. /\ Active' \subseteq Active
        /\ \A x \in tasks' : x.pc = "closed" => x \in tasks
    BY <2>2 DEF TaskMoves, TypeOK, TaskTypeOK
  <2>4. CASE UNCHANGED <<server, cut>>
    BY <1>a, <2>1, <2>2, <2>3, <2>4
  <2>5. CASE /\ server.stage = "receiving" /\ server' = [server EXCEPT !.stage = "file"]
             /\ cut' = cut \cup {t.log}
    <3>1. server'.log = server.log
      BY <2>5 DEF TypeOK, ServerTypeOK, Server
    <3>2. server.log = t.log
      BY <1>a, <2>5 DEF QuietInv
    <3>3. QED
      BY <1>a, <2>1, <2>2, <2>3, <2>5, <3>1, <3>2
  <2>6. QED
    BY <1>17, <2>4, <2>5 DEF TcpSendFails
<1>18. ASSUME NEW t \in tasks, TcpTask(t), TcpWait(t)
      PROVE  Exchange'
  BY <1>18, <1>a DEF TcpTask, TcpWait, TaskMoves, Clean, SenderInv, TypeOK, TaskTypeOK,
      ServerTypeOK, Server
<1>19. ASSUME NEW t \in tasks, TcpLeaves(t), TcpCleanup(t)
      PROVE  Exchange'
  <2>1. /\ Active' \subseteq Active
        /\ \A x \in tasks' : x.pc = "closed" => x \in tasks
    BY <1>19 DEF TcpCleanup, TaskMoves, TypeOK, TaskTypeOK
  <2>2. /\ UNCHANGED <<month, configs, shifted, cut, request, index, sm>>
        /\ UNCHANGED <<server, net, last, known, received>>
    BY <1>19 DEF TcpLeaves
  <2>3. QED
    BY <1>a, <2>1, <2>2
<1>20. ASSUME NEW t \in tasks, TcpLeaves(t), TcpRelease(t)
      PROVE  Exchange'
  <2>1. /\ Active' \subseteq Active
        /\ \A x \in tasks' : x.pc = "closed" => x \in tasks
    BY <1>20 DEF TcpRelease, TaskMoves, TypeOK, TaskTypeOK
  <2>2. /\ UNCHANGED <<month, configs, shifted, cut, request, index, sm>>
        /\ UNCHANGED <<server, net, last, known, received>>
    BY <1>20 DEF TcpLeaves
  <2>3. QED
    BY <1>a, <2>1, <2>2
<1>21. ASSUME NEW t \in tasks, TcpLeaves(t), TcpUnlock(t)
      PROVE  Exchange'
  <2>1. /\ Active' \subseteq Active
        /\ \A x \in tasks' : x.pc = "closed" => x \in tasks
    BY <1>21 DEF TcpUnlock, TaskMoves, TypeOK, TaskTypeOK
  <2>2. /\ UNCHANGED <<month, configs, shifted, cut, request, index, sm>>
        /\ UNCHANGED <<server, net, last, known, received>>
    BY <1>21 DEF TcpLeaves
  <2>3. QED
    BY <1>a, <2>1, <2>2
<1>22. ASSUME ServerOpens
      PROVE  Exchange'
  BY <1>22, <1>a, AlreadySentKept DEF ServerOpens, TypeOK, ServerTypeOK, Server
<1>23. ASSUME ServerHasFile
      PROVE  Exchange'
  BY <1>23, <1>a, AlreadySentKept DEF ServerHasFile, ReadyServer
<1>24. ASSUME ServerGivesUp
      PROVE  Exchange'
  BY <1>24, <1>a, AlreadySentKept DEF ServerGivesUp, ReadyServer
<1>25. ASSUME NEW a \in Answers, Lose(a)
      PROVE  Exchange'
  BY <1>25, <1>a, AlreadySentKept DEF Lose
<1>26. ASSUME Expire
      PROVE  Exchange'
  BY <1>26, <1>a DEF Expire
<1>27. ASSUME Delete
      PROVE  Exchange'
  <2>1. /\ UNCHANGED <<month, cut, request, index, sm, tasks>>
        /\ UNCHANGED <<server, net, last, known, received>>
    BY <1>27 DEF Delete
  <2> DEFINE stored == {month} \cup IF request \in Users0 THEN {index} ELSE {}
             moved(x) == UserAt(configs', x) \ UserAt(configs, x)
  <2>2. shifted' = shifted \cup UNION {moved(x) : x \in stored}
    BY <1>27 DEF Delete
  <2>3. month \in stored /\ (request \in Users0 => index \in stored)
    OBVIOUS
  <2>4. \A x \in stored : moved(x) \subseteq shifted'
    <3> HIDE DEF moved, stored
    <3> QED
      BY <2>2
  <2>5. shifted \subseteq shifted'
    BY <2>2
  <2>6. UserAt(configs', month) \subseteq UserAt(configs, month) \cup shifted'
    BY <2>3, <2>4
  <2>7. request \in Users0 => UserAt(configs', index) \subseteq UserAt(configs,
      index) \cup shifted'
    BY <2>3, <2>4
  <2> HIDE DEF moved, stored
  <2>8. QED
    BY <1>a, <2>1, <2>5, <2>6, <2>7
<1>28. ASSUME Abort
      PROVE  Exchange'
  <2>1. /\ month' = -1 /\ request' = None /\ tasks' = {}
        /\ UNCHANGED <<configs, shifted, cut, server, net, known, received>>
    BY <1>28 DEF Abort, Boot
  <2>2. last' = last \/ (month # -1 /\ last' = Marked)
    BY <1>28 DEF Abort
  <2>3. last' \subseteq received \cup cut \cup shifted
    BY <1>a, <2>2 DEF Marked
  <2>4. QED
    BY <1>a, <1>c, <2>1, <2>3
<1>29. CASE UNCHANGED vars
  BY <1>29, <1>a DEF vars
<1>30. QED
  BY <1>1, <1>2, <1>3, <1>4, <1>5, <1>6, <1>7, <1>8, <1>9, <1>10, <1>11, <1>12, <1>13, <1>14,
      <1>15, <1>16, <1>17, <1>18, <1>19, <1>20, <1>21, <1>22, <1>23, <1>24, <1>25, <1>26, <1>27,
      <1>28,
      <1>29
     DEF Next, Main, HandlePacket, TcpTask, TcpLeaves

-----------------------------------------------------------------------------
(* The theorems. *)

IInv == TypeOK /\ QuietInv /\ LockInv /\ SenderInv /\ ManualInv /\ MarkInv

LEMMA InitIInv == Init => IInv
<1> SUFFICES ASSUME Init PROVE IInv
  OBVIOUS
<1>1. TypeOK
  BY TypeInit
<1>2. QuietInv /\ LockInv
  BY DEF Init, QuietInv, LockInv, Unlocking, ReadyServer
<1>3. SenderInv /\ ManualInv
  BY UploadAssumption DEF Init, SenderInv, Active, ManualInv, Manual, None, ReadyServer
<1>4. MarkInv
  BY DEF Init, MarkInv, Exchange, Active, ReadyServer, Answers, Users0, None
<1>5. QED
  BY <1>1, <1>2, <1>3, <1>4 DEF IInv

LEMMA NextIInv == IInv /\ [Next]_vars => IInv'
  BY TypeStep, QuietStep, LockStep, SenderStep, ManualStep, MarkStep DEF IInv

LEMMA AlwaysIInv == Spec => []IInv
  BY InitIInv, NextIInv, PTL DEF Spec

\* The variables of the upload keep their types, and what the server is said to
\* have are logs it was asked for.
THEOREM UploadTypeCorrect == Spec => []TypeOK
<1>1. IInv => TypeOK
  BY DEF IInv
<1>2. QED
  BY <1>1, AlwaysIInv, PTL

\* For any sequence of downloads, manual and monthly uploads, answers and aborts
\* the generation lock is neither lost nor given twice: try_lock, the move into the
\* scheduled task and into pending_generation_lock, every early return, and the TCP
\* task that gives it back while the main thread goes on.
THEOREM LockIsExclusive == Spec => []LockHasOneHolder
<1>1. ASSUME TypeOK, LockInv PROVE LockHasOneHolder
  <2>1. Holders \subseteq {"http"} \/ Holders \subseteq {"starting"} \/ Holders \subseteq {"pending"}
    BY <1>1 DEF Holders, LockInv
  <2>2. ASSUME NEW x, Holders \subseteq {x} PROVE Cardinality(Holders) <= 1
    <3>1. IsFiniteSet({x}) /\ Cardinality({x}) = 1
      BY FS_Singleton
    <3>2. QED
      BY <2>2, <3>1, FS_Subset
  <2>3. lock # "Ready" <=> Holders # {} \/ Unlocking # {}
    BY <1>1 DEF Holders, LockInv
  <2>4. CASE Unlocking = {}
    <3>1. Cardinality(Unlocking) = 0
      BY <2>4, FS_EmptySet
    <3>2. Cardinality(Holders) <= 1
      BY <2>1, <2>2
    <3>3. IsFiniteSet(Holders)
      BY FS_Subset, FS_Singleton, <2>1
    <3>4. Cardinality(Holders) \in Nat
      BY <3>3, FS_CardinalityType
    <3>5. QED
      BY <2>3, <3>1, <3>2, <3>4 DEF LockHasOneHolder
  <2>5. CASE Unlocking # {}
    <3>1. Holders = {}
      BY <1>1, <2>5 DEF Holders, LockInv
    <3>2. PICK t \in Unlocking : Unlocking = {t}
      BY <1>1, <2>5 DEF LockInv
    <3>3. Cardinality(Holders) = 0 /\ Cardinality(Unlocking) = 1
      BY <3>1, <3>2, FS_EmptySet, FS_Singleton
    <3>4. QED
      BY <2>3, <3>3 DEF LockHasOneHolder
  <2>6. QED
    BY <2>4, <2>5
<1>2. QED
  BY <1>1, AlwaysIInv, PTL DEF IInv

\* However many uploads were given up before, no two TCP tasks connect or send at the
\* same time, unless an answer ended an upload whose task was about to connect.
THEOREM OneTaskSends == Spec => []OneSender
<1>1. ASSUME SenderInv PROVE OneSender
  <2>1. SUFFICES ASSUME ~orphaned PROVE Cardinality(Active) <= 1
    BY DEF OneSender, Active
  <2>2. CASE Active = {}
    BY <2>2, FS_EmptySet
  <2>3. CASE Active # {}
    <3>1. PICK t \in Active : TRUE
      BY <2>3
    <3>2. Active = {t}
      BY <1>1, <2>1, <3>1 DEF SenderInv
    <3>3. QED
      BY <3>2, FS_Singleton
  <2>4. QED
    BY <2>2, <2>3
<1>2. QED
  BY <1>1, AlwaysIInv, PTL DEF IInv

\* A user whose month is marked as done has a log that the server has, over lost
\* answers, deadlines, aborts and deleted configs, as long as uploads do not cross.
\* The two exceptions of the property stay: the user whose config moved to an index
\* stored for another one, and the log of which a cut-off file was taken.
THEOREM MarksAreTrue == Spec => []MonthlyMarksAreTrue
<1>1. ASSUME TypeOK, MarkInv PROVE MonthlyMarksAreTrue
  BY <1>1 DEF MarkInv, Exchange, Clean, MonthlyMarksAreTrue, TypeOK, TaskTypeOK
<1>2. QED
  BY <1>1, AlwaysIInv, PTL DEF IInv
=============================================================================
