------------------------- MODULE IoSchedulerProofs -------------------------
(***************************************************************************)
(* Proofs about the IO scheduler.                                          *)
(***************************************************************************)
EXTENDS IoScheduler, TLAPS

\* Which buffer of a round holds a Task object, and who works on it.
RoundInv ==
    /\ \A r \in Rounds : r \notin in_flight => during_io[r] = "free"
    /\ \A r \in Rounds :
          r \notin in_flight => after_io[r] = "free" \/ (main_round = r /\ main = "after_end")
    /\ \A r \in Rounds : during_io[r] = "current" <=> io_round = r
    /\ \A r \in Rounds : after_io[r] = "current" <=> main_round = r
    /\ io_round \in Rounds <=> io \in {"job", "post"}
    /\ main_round \in Rounds <=> main \in {"after", "after_end"}
    /\ \A r \in Rounds : during_io[r] = "queued" => after_io[r] = "free"
    /\ io = "job" => after_io[io_round] = "free"
    /\ main = "after" => during_io[main_round] = "free"

\* A request that the IO task can reach belongs to a caller that waits for it.
\* Only a caller that entered with a pending notification can have left, and
\* then the program has stopped.
RequestInv ==
    /\ \A c \in Callers :
          c \in {pending_await, io_request} =>
             cpc[c] \in {"wait", "timed_out"} \/ (halt # "no" /\ c \in entered_pending)
    /\ \A c \in Callers :
          cpc[c] \in {"wait", "timed_out"} /\ notify[c] # 0 /\ c \notin entered_pending =>
             c \notin {pending_await, io_request}
    /\ io_request # None => pending_await # io_request
    /\ \A c \in Callers : cpc[c] = "post" /\ c \notin entered_pending => notify[c] = 0
    /\ io_request # None <=> io \in {"invoke", "give"}

\* executed and the history variable ran agree while a caller is in await, and
\* a request that was not invoked yet has not run.
ResultInv ==
    /\ \A c \in Callers : cpc[c] # "idle" => (c \in executed <=> c \in ran)
    /\ \A c \in Callers : cpc[c] # "idle" => result[c] = "none"
    /\ \A c \in Callers : cpc[c] = "post" => c \notin ran
    /\ \A c \in Callers : pending_await = c => c \notin ran
    /\ \A c \in Callers : io_request = c /\ io = "invoke" => c \notin ran

IInv == TypeOK /\ RoundInv /\ RequestInv /\ RequestNotLost /\ ResultInv /\ IoAwaitIsHonest

LEMMA InitIInv == Init => IInv
<1> SUFFICES ASSUME Init PROVE IInv
  OBVIOUS
<1> USE CallersAssumption DEF Init
<1>1. TypeOK
  BY DEF TypeOK
<1>2. RoundInv
  BY DEF RoundInv
<1>3. RequestInv
  BY DEF RequestInv
<1>4. RequestNotLost
  BY DEF RequestNotLost
<1>5. ResultInv /\ IoAwaitIsHonest
  BY DEF ResultInv, IoAwaitIsHonest
<1> QED
  BY <1>1, <1>2, <1>3, <1>4, <1>5 DEF IInv

\* Every step keeps the types.
LEMMA TypeStep == TypeOK /\ RoundInv /\ RequestInv /\ [Next]_vars => TypeOK'
<1> SUFFICES ASSUME TypeOK, RoundInv, RequestInv, [Next]_vars PROVE TypeOK'
  OBVIOUS
<1> USE CallersAssumption DEF roundVars, mainVars, ioVars, callVars, TypeOK, RoundInv, RequestInv, Callers
<1>0. CASE UNCHANGED vars
  BY <1>0 DEF vars
<1>1. ASSUME NEW r \in Rounds, halt = "no", drive(r) PROVE TypeOK'
  BY <1>1 DEF drive, MainIsFree, MayDrive
<1>2. ASSUME NEW r \in Rounds, halt = "no", MainPopAfterIo(r) PROVE TypeOK'
  BY <1>2 DEF MainPopAfterIo, MainIsFree
<1>3. ASSUME halt = "no", MainRunAfterIo PROVE TypeOK'
  BY <1>3 DEF MainRunAfterIo
<1>4. ASSUME halt = "no", MainEndAfterIo PROVE TypeOK'
  BY <1>4 DEF MainEndAfterIo
<1>5. ASSUME halt = "no", pre_reboot PROVE TypeOK'
  BY <1>5 DEF pre_reboot, MainIsFree
<1>6. ASSUME NEW r \in Rounds, halt = "no", IoPop(r) PROVE TypeOK'
  BY <1>6 DEF IoPop
<1>7. ASSUME halt = "no", IoRunJob PROVE TypeOK'
  BY <1>7 DEF IoRunJob, ReportsBack
<1>8. ASSUME halt = "no", IoPost PROVE TypeOK'
  BY <1>8 DEF IoPost
<1>9. ASSUME halt = "no", IoTakeRequest PROVE TypeOK'
  BY <1>9 DEF IoTakeRequest, HasRequest
<1>10. ASSUME halt = "no", IoInvoke PROVE TypeOK'
  BY <1>10 DEF IoInvoke, MarksExecuted
<1>11. ASSUME halt = "no", IoGive PROVE TypeOK'
  BY <1>11 DEF IoGive, IoNotifies
<1>12. ASSUME NEW c \in Callers, halt = "no", AwaitStart(c) PROVE TypeOK'
  BY <1>12 DEF AwaitStart, Return
<1>13. ASSUME NEW c \in Callers, halt = "no", AwaitPost(c) PROVE TypeOK'
  BY <1>13 DEF AwaitPost
<1>14. ASSUME NEW c \in Callers, halt = "no", AwaitGiveUp(c) PROVE TypeOK'
  BY <1>14 DEF AwaitGiveUp, Return
<1>15. ASSUME NEW c \in Callers, halt = "no", AwaitTake(c) PROVE TypeOK'
  BY <1>15 DEF AwaitTake, Return
<1>16. ASSUME NEW c \in Callers, halt = "no", AwaitTimeout(c) PROVE TypeOK'
  BY <1>16 DEF AwaitTimeout
<1>17. ASSUME NEW c \in Callers, halt = "no", AwaitRevoke(c) PROVE TypeOK'
  BY <1>17 DEF AwaitRevoke, AwaitTooLate, Return
<1>18. ASSUME NEW c \in Callers, halt = "no", TaskSchedulerAwait(c) PROVE TypeOK'
  BY <1>18 DEF TaskSchedulerAwait
<1> QED
  BY <1>0, <1>1, <1>2, <1>3, <1>4, <1>5, <1>6, <1>7, <1>8, <1>9, <1>10, <1>11, <1>12, <1>13, <1>14, <1>15, <1>16, <1>17, <1>18 DEF Next, MainSteps, IoSteps, CallerSteps

\* Every step keeps the rounds in order.
LEMMA RoundStep == TypeOK /\ RoundInv /\ [Next]_vars => RoundInv'
<1> SUFFICES ASSUME TypeOK, RoundInv, [Next]_vars PROVE RoundInv'
  OBVIOUS
<1> USE CallersAssumption DEF roundVars, mainVars, ioVars, callVars, TypeOK, RoundInv, Callers, MainHasCore
<1>0. CASE UNCHANGED vars
  BY <1>0 DEF vars
<1>1. ASSUME NEW r \in Rounds, halt = "no", drive(r) PROVE RoundInv'
  BY <1>1 DEF drive, MainIsFree, MayDrive
<1>2. ASSUME NEW r \in Rounds, halt = "no", MainPopAfterIo(r) PROVE RoundInv'
  BY <1>2 DEF MainPopAfterIo, MainIsFree
<1>3. ASSUME halt = "no", MainRunAfterIo PROVE RoundInv'
  BY <1>3 DEF MainRunAfterIo
<1>4. ASSUME halt = "no", MainEndAfterIo PROVE RoundInv'
  BY <1>4 DEF MainEndAfterIo
<1>5. ASSUME halt = "no", pre_reboot PROVE RoundInv'
  BY <1>5 DEF pre_reboot, MainIsFree
<1>6. ASSUME NEW r \in Rounds, halt = "no", IoPop(r) PROVE RoundInv'
  BY <1>6 DEF IoPop
<1>7. ASSUME halt = "no", IoRunJob PROVE RoundInv'
  BY <1>7 DEF IoRunJob, ReportsBack
<1>8. ASSUME halt = "no", IoPost PROVE RoundInv'
  BY <1>8 DEF IoPost
<1>9. ASSUME halt = "no", IoTakeRequest PROVE RoundInv'
  BY <1>9 DEF IoTakeRequest, HasRequest
<1>10. ASSUME halt = "no", IoInvoke PROVE RoundInv'
  BY <1>10 DEF IoInvoke, MarksExecuted
<1>11. ASSUME halt = "no", IoGive PROVE RoundInv'
  BY <1>11 DEF IoGive, IoNotifies
<1>12. ASSUME NEW c \in Callers, halt = "no", AwaitStart(c) PROVE RoundInv'
  BY <1>12 DEF AwaitStart, Return
<1>13. ASSUME NEW c \in Callers, halt = "no", AwaitPost(c) PROVE RoundInv'
  BY <1>13 DEF AwaitPost
<1>14. ASSUME NEW c \in Callers, halt = "no", AwaitGiveUp(c) PROVE RoundInv'
  BY <1>14 DEF AwaitGiveUp, Return
<1>15. ASSUME NEW c \in Callers, halt = "no", AwaitTake(c) PROVE RoundInv'
  BY <1>15 DEF AwaitTake, Return
<1>16. ASSUME NEW c \in Callers, halt = "no", AwaitTimeout(c) PROVE RoundInv'
  BY <1>16 DEF AwaitTimeout
<1>17. ASSUME NEW c \in Callers, halt = "no", AwaitRevoke(c) PROVE RoundInv'
  BY <1>17 DEF AwaitRevoke, AwaitTooLate, Return
<1>18. ASSUME NEW c \in Callers, halt = "no", TaskSchedulerAwait(c) PROVE RoundInv'
  BY <1>18 DEF TaskSchedulerAwait
<1> QED
  BY <1>0, <1>1, <1>2, <1>3, <1>4, <1>5, <1>6, <1>7, <1>8, <1>9, <1>10, <1>11, <1>12, <1>13, <1>14, <1>15, <1>16, <1>17, <1>18 DEF Next, MainSteps, IoSteps, CallerSteps

\* Every step keeps requests with their callers.
LEMMA RequestStep == TypeOK /\ RequestInv /\ [Next]_vars => RequestInv'
<1> SUFFICES ASSUME TypeOK, RequestInv, [Next]_vars PROVE RequestInv'
  OBVIOUS
<1> USE CallersAssumption DEF roundVars, mainVars, ioVars, callVars, TypeOK, RequestInv
<1>0. CASE UNCHANGED vars
  BY <1>0 DEF vars
<1>1. ASSUME NEW r \in Rounds, halt = "no", drive(r) PROVE RequestInv'
  BY <1>1 DEF drive, MainIsFree, MayDrive
<1>2. ASSUME NEW r \in Rounds, halt = "no", MainPopAfterIo(r) PROVE RequestInv'
  BY <1>2 DEF MainPopAfterIo, MainIsFree
<1>3. ASSUME halt = "no", MainRunAfterIo PROVE RequestInv'
  BY <1>3 DEF MainRunAfterIo
<1>4. ASSUME halt = "no", MainEndAfterIo PROVE RequestInv'
  BY <1>4 DEF MainEndAfterIo
<1>5. ASSUME halt = "no", pre_reboot PROVE RequestInv'
  BY <1>5 DEF pre_reboot, MainIsFree
<1>6. ASSUME NEW r \in Rounds, halt = "no", IoPop(r) PROVE RequestInv'
  BY <1>6 DEF IoPop
<1>7. ASSUME halt = "no", IoRunJob PROVE RequestInv'
  BY <1>7 DEF IoRunJob, ReportsBack
<1>8. ASSUME halt = "no", IoPost PROVE RequestInv'
  BY <1>8 DEF IoPost
<1>9. ASSUME halt = "no", IoTakeRequest PROVE RequestInv'
  BY <1>9 DEF IoTakeRequest, HasRequest
<1>10. ASSUME halt = "no", IoInvoke PROVE RequestInv'
  BY <1>10 DEF IoInvoke, MarksExecuted
<1>11. ASSUME halt = "no", IoGive PROVE RequestInv'
  BY <1>11 DEF IoGive, IoNotifies
<1>12. ASSUME NEW c \in Callers, halt = "no", AwaitStart(c) PROVE RequestInv'
  BY <1>12 DEF AwaitStart, Return
<1>13. ASSUME NEW c \in Callers, halt = "no", AwaitPost(c) PROVE RequestInv'
  BY <1>13 DEF AwaitPost
<1>14. ASSUME NEW c \in Callers, halt = "no", AwaitGiveUp(c) PROVE RequestInv'
  BY <1>14 DEF AwaitGiveUp, Return
<1>15. ASSUME NEW c \in Callers, halt = "no", AwaitTake(c) PROVE RequestInv'
  BY <1>15 DEF AwaitTake, Return
<1>16. ASSUME NEW c \in Callers, halt = "no", AwaitTimeout(c) PROVE RequestInv'
  BY <1>16 DEF AwaitTimeout
<1>17. ASSUME NEW c \in Callers, halt = "no", AwaitRevoke(c) PROVE RequestInv'
  BY <1>17 DEF AwaitRevoke, AwaitTooLate, Return
<1>18. ASSUME NEW c \in Callers, halt = "no", TaskSchedulerAwait(c) PROVE RequestInv'
  BY <1>18 DEF TaskSchedulerAwait
<1> QED
  BY <1>0, <1>1, <1>2, <1>3, <1>4, <1>5, <1>6, <1>7, <1>8, <1>9, <1>10, <1>11, <1>12, <1>13, <1>14, <1>15, <1>16, <1>17, <1>18 DEF Next, MainSteps, IoSteps, CallerSteps

\* No step loses a request.
LEMMA NotLostStep == TypeOK /\ RequestInv /\ RequestNotLost /\ [Next]_vars => RequestNotLost'
<1> SUFFICES ASSUME TypeOK, RequestInv, RequestNotLost, [Next]_vars PROVE RequestNotLost'
  OBVIOUS
<1> USE CallersAssumption DEF roundVars, mainVars, ioVars, callVars, TypeOK, RequestInv, RequestNotLost
<1>0. CASE UNCHANGED vars
  BY <1>0 DEF vars
<1>1. ASSUME NEW r \in Rounds, halt = "no", drive(r) PROVE RequestNotLost'
  BY <1>1 DEF drive, MainIsFree, MayDrive
<1>2. ASSUME NEW r \in Rounds, halt = "no", MainPopAfterIo(r) PROVE RequestNotLost'
  BY <1>2 DEF MainPopAfterIo, MainIsFree
<1>3. ASSUME halt = "no", MainRunAfterIo PROVE RequestNotLost'
  BY <1>3 DEF MainRunAfterIo
<1>4. ASSUME halt = "no", MainEndAfterIo PROVE RequestNotLost'
  BY <1>4 DEF MainEndAfterIo
<1>5. ASSUME halt = "no", pre_reboot PROVE RequestNotLost'
  BY <1>5 DEF pre_reboot, MainIsFree
<1>6. ASSUME NEW r \in Rounds, halt = "no", IoPop(r) PROVE RequestNotLost'
  BY <1>6 DEF IoPop
<1>7. ASSUME halt = "no", IoRunJob PROVE RequestNotLost'
  BY <1>7 DEF IoRunJob, ReportsBack
<1>8. ASSUME halt = "no", IoPost PROVE RequestNotLost'
  BY <1>8 DEF IoPost
<1>9. ASSUME halt = "no", IoTakeRequest PROVE RequestNotLost'
  BY <1>9 DEF IoTakeRequest, HasRequest
<1>10. ASSUME halt = "no", IoInvoke PROVE RequestNotLost'
  BY <1>10 DEF IoInvoke, MarksExecuted
<1>11. ASSUME halt = "no", IoGive PROVE RequestNotLost'
  BY <1>11 DEF IoGive, IoNotifies
<1>12. ASSUME NEW c \in Callers, halt = "no", AwaitStart(c) PROVE RequestNotLost'
  BY <1>12 DEF AwaitStart, Return
<1>13. ASSUME NEW c \in Callers, halt = "no", AwaitPost(c) PROVE RequestNotLost'
  BY <1>13 DEF AwaitPost
<1>14. ASSUME NEW c \in Callers, halt = "no", AwaitGiveUp(c) PROVE RequestNotLost'
  BY <1>14 DEF AwaitGiveUp, Return
<1>15. ASSUME NEW c \in Callers, halt = "no", AwaitTake(c) PROVE RequestNotLost'
  BY <1>15 DEF AwaitTake, Return
<1>16. ASSUME NEW c \in Callers, halt = "no", AwaitTimeout(c) PROVE RequestNotLost'
  BY <1>16 DEF AwaitTimeout
<1>17. ASSUME NEW c \in Callers, halt = "no", AwaitRevoke(c) PROVE RequestNotLost'
  BY <1>17 DEF AwaitRevoke, AwaitTooLate, Return
<1>18. ASSUME NEW c \in Callers, halt = "no", TaskSchedulerAwait(c) PROVE RequestNotLost'
  BY <1>18 DEF TaskSchedulerAwait
<1> QED
  BY <1>0, <1>1, <1>2, <1>3, <1>4, <1>5, <1>6, <1>7, <1>8, <1>9, <1>10, <1>11, <1>12, <1>13, <1>14, <1>15, <1>16, <1>17, <1>18 DEF Next, MainSteps, IoSteps, CallerSteps

\* Every step keeps executed and ran in agreement.
LEMMA ResultStep == TypeOK /\ RequestInv /\ ResultInv /\ [Next]_vars => ResultInv'
<1> SUFFICES ASSUME TypeOK, RequestInv, ResultInv, [Next]_vars PROVE ResultInv'
  OBVIOUS
<1> USE CallersAssumption DEF roundVars, mainVars, ioVars, callVars, TypeOK, RequestInv, ResultInv
<1>0. CASE UNCHANGED vars
  BY <1>0 DEF vars
<1>1. ASSUME NEW r \in Rounds, halt = "no", drive(r) PROVE ResultInv'
  BY <1>1 DEF drive, MainIsFree, MayDrive
<1>2. ASSUME NEW r \in Rounds, halt = "no", MainPopAfterIo(r) PROVE ResultInv'
  BY <1>2 DEF MainPopAfterIo, MainIsFree
<1>3. ASSUME halt = "no", MainRunAfterIo PROVE ResultInv'
  BY <1>3 DEF MainRunAfterIo
<1>4. ASSUME halt = "no", MainEndAfterIo PROVE ResultInv'
  BY <1>4 DEF MainEndAfterIo
<1>5. ASSUME halt = "no", pre_reboot PROVE ResultInv'
  BY <1>5 DEF pre_reboot, MainIsFree
<1>6. ASSUME NEW r \in Rounds, halt = "no", IoPop(r) PROVE ResultInv'
  BY <1>6 DEF IoPop
<1>7. ASSUME halt = "no", IoRunJob PROVE ResultInv'
  BY <1>7 DEF IoRunJob, ReportsBack
<1>8. ASSUME halt = "no", IoPost PROVE ResultInv'
  BY <1>8 DEF IoPost
<1>9. ASSUME halt = "no", IoTakeRequest PROVE ResultInv'
  BY <1>9 DEF IoTakeRequest, HasRequest
<1>10. ASSUME halt = "no", IoInvoke PROVE ResultInv'
  BY <1>10 DEF IoInvoke, MarksExecuted
<1>11. ASSUME halt = "no", IoGive PROVE ResultInv'
  BY <1>11 DEF IoGive, IoNotifies
<1>12. ASSUME NEW c \in Callers, halt = "no", AwaitStart(c) PROVE ResultInv'
  BY <1>12 DEF AwaitStart, Return
<1>13. ASSUME NEW c \in Callers, halt = "no", AwaitPost(c) PROVE ResultInv'
  BY <1>13 DEF AwaitPost
<1>14. ASSUME NEW c \in Callers, halt = "no", AwaitGiveUp(c) PROVE ResultInv'
  BY <1>14 DEF AwaitGiveUp, Return
<1>15. ASSUME NEW c \in Callers, halt = "no", AwaitTake(c) PROVE ResultInv'
  BY <1>15 DEF AwaitTake, Return
<1>16. ASSUME NEW c \in Callers, halt = "no", AwaitTimeout(c) PROVE ResultInv'
  BY <1>16 DEF AwaitTimeout
<1>17. ASSUME NEW c \in Callers, halt = "no", AwaitRevoke(c) PROVE ResultInv'
  BY <1>17 DEF AwaitRevoke, AwaitTooLate, Return
<1>18. ASSUME NEW c \in Callers, halt = "no", TaskSchedulerAwait(c) PROVE ResultInv'
  BY <1>18 DEF TaskSchedulerAwait
<1> QED
  BY <1>0, <1>1, <1>2, <1>3, <1>4, <1>5, <1>6, <1>7, <1>8, <1>9, <1>10, <1>11, <1>12, <1>13, <1>14, <1>15, <1>16, <1>17, <1>18 DEF Next, MainSteps, IoSteps, CallerSteps

\* Every step keeps what await has returned true.
LEMMA HonestStep == TypeOK /\ RequestInv /\ ResultInv /\ IoAwaitIsHonest /\ [Next]_vars => IoAwaitIsHonest'
<1> SUFFICES ASSUME TypeOK, RequestInv, ResultInv, IoAwaitIsHonest, [Next]_vars PROVE IoAwaitIsHonest'
  OBVIOUS
<1> USE CallersAssumption DEF roundVars, mainVars, ioVars, callVars, TypeOK, RequestInv, ResultInv, IoAwaitIsHonest
<1>0. CASE UNCHANGED vars
  BY <1>0 DEF vars
<1>1. ASSUME NEW r \in Rounds, halt = "no", drive(r) PROVE IoAwaitIsHonest'
  BY <1>1 DEF drive, MainIsFree, MayDrive
<1>2. ASSUME NEW r \in Rounds, halt = "no", MainPopAfterIo(r) PROVE IoAwaitIsHonest'
  BY <1>2 DEF MainPopAfterIo, MainIsFree
<1>3. ASSUME halt = "no", MainRunAfterIo PROVE IoAwaitIsHonest'
  BY <1>3 DEF MainRunAfterIo
<1>4. ASSUME halt = "no", MainEndAfterIo PROVE IoAwaitIsHonest'
  BY <1>4 DEF MainEndAfterIo
<1>5. ASSUME halt = "no", pre_reboot PROVE IoAwaitIsHonest'
  BY <1>5 DEF pre_reboot, MainIsFree
<1>6. ASSUME NEW r \in Rounds, halt = "no", IoPop(r) PROVE IoAwaitIsHonest'
  BY <1>6 DEF IoPop
<1>7. ASSUME halt = "no", IoRunJob PROVE IoAwaitIsHonest'
  BY <1>7 DEF IoRunJob, ReportsBack
<1>8. ASSUME halt = "no", IoPost PROVE IoAwaitIsHonest'
  BY <1>8 DEF IoPost
<1>9. ASSUME halt = "no", IoTakeRequest PROVE IoAwaitIsHonest'
  BY <1>9 DEF IoTakeRequest, HasRequest
<1>10. ASSUME halt = "no", IoInvoke PROVE IoAwaitIsHonest'
  BY <1>10 DEF IoInvoke, MarksExecuted
<1>11. ASSUME halt = "no", IoGive PROVE IoAwaitIsHonest'
  BY <1>11 DEF IoGive, IoNotifies
<1>12. ASSUME NEW c \in Callers, halt = "no", AwaitStart(c) PROVE IoAwaitIsHonest'
  BY <1>12 DEF AwaitStart, Return
<1>13. ASSUME NEW c \in Callers, halt = "no", AwaitPost(c) PROVE IoAwaitIsHonest'
  BY <1>13 DEF AwaitPost
<1>14. ASSUME NEW c \in Callers, halt = "no", AwaitGiveUp(c) PROVE IoAwaitIsHonest'
  BY <1>14 DEF AwaitGiveUp, Return
<1>15. ASSUME NEW c \in Callers, halt = "no", AwaitTake(c) PROVE IoAwaitIsHonest'
  BY <1>15 DEF AwaitTake, Return
<1>16. ASSUME NEW c \in Callers, halt = "no", AwaitTimeout(c) PROVE IoAwaitIsHonest'
  BY <1>16 DEF AwaitTimeout
<1>17. ASSUME NEW c \in Callers, halt = "no", AwaitRevoke(c) PROVE IoAwaitIsHonest'
  BY <1>17 DEF AwaitRevoke, AwaitTooLate, Return
<1>18. ASSUME NEW c \in Callers, halt = "no", TaskSchedulerAwait(c) PROVE IoAwaitIsHonest'
  BY <1>18 DEF TaskSchedulerAwait
<1> QED
  BY <1>0, <1>1, <1>2, <1>3, <1>4, <1>5, <1>6, <1>7, <1>8, <1>9, <1>10, <1>11, <1>12, <1>13, <1>14, <1>15, <1>16, <1>17, <1>18 DEF Next, MainSteps, IoSteps, CallerSteps

LEMMA InductiveInvariant == Spec => []IInv
<1>1. IInv /\ [Next]_vars => IInv'
  BY TypeStep, RoundStep, RequestStep, NotLostStep, ResultStep, HonestStep DEF IInv
<1> QED
  BY InitIInv, <1>1, PTL DEF Spec

\* The variables keep their types for any rounds, threads and bounds.
THEOREM IoTypeCorrect == Spec => []TypeOK
<1>1. IInv => TypeOK
  BY DEF IInv
<1> QED
  BY InductiveInvariant, <1>1, PTL

\* Rounds never overlap and their Task buffers are only used again when free:
\* drive (io_scheduler.cpp) may place new Task objects in them.
THEOREM RoundsAreSerial == Spec => []RoundsSafe
<1>1. IInv => RoundBuffersFree
  BY CallersAssumption DEF IInv, RoundInv, RoundBuffersFree, TypeOK
<1>2. IInv => RoundSerial
  BY CallersAssumption DEF IInv, RoundInv, RoundSerial, TypeOK
<1>3. IInv => RoundsSafe
  BY <1>1, <1>2 DEF RoundsSafe
<1> QED
  BY InductiveInvariant, <1>3, PTL

\* await_impl (io_scheduler.cpp): a caller that entered without a pending
\* notification never leaves its request behind, what it returns is what
\* happened, and a caller that waits without a notification is never forgotten.
THEOREM IoAwaitIsSafe == Spec => []IoAwaitSafe
<1>1. IInv => RequestNotReachable
  BY DEF IInv, RequestInv, RequestNotReachable, TypeOK
<1>2. IInv => IoAwaitSafe
  BY <1>1 DEF IInv, IoAwaitSafe
<1> QED
  BY InductiveInvariant, <1>2, PTL

\* The steps of the IO scheduler that callers of await do not see.
LEMMA HiddenStep ==
  ASSUME TypeOK, UNCHANGED <<result, entered_pending, ran>>,
         \A c \in Callers : cpc'[c] = "idle" <=> cpc[c] = "idle"
  PROVE  UNCHANGED Call!vars
<1>1. {c \in Callers \ entered_pending : cpc[c] # "idle"}' = {c \in Callers \ entered_pending : cpc[c] # "idle"}
  OBVIOUS
<1> QED
  BY <1>1 DEF Call!vars

\* An await is refused, enters with a stale notification, or becomes a call.
LEMMA StartStep == ASSUME NEW c \in Callers, IInv, AwaitStart(c) PROVE [Call!Next]_(Call!vars)
<1> DEFINE calling == {x \in Callers \ entered_pending : cpc[x] # "idle"}
<1> DEFINE answer == [x \in Callers |-> IF x \in entered_pending THEN "false" ELSE result[x]]
<1> USE DEF IInv, TypeOK, AwaitStart, Return
<1>1. CASE rebooting \/ notify[c] # 0
  <2>1. CASE rebooting /\ c \in entered_pending
    BY <2>1 DEF Call!vars
  <2>2. CASE ~(rebooting /\ c \in entered_pending)
    <3>1. calling' = calling /\ c \notin calling
      BY <1>1, <2>2
    <3>2. (ran \ entered_pending)' = (ran \ entered_pending) \ {c}
      BY <1>1, <2>2
    <3>3. answer' = [answer EXCEPT ![c] = "false"]
      BY <1>1, <2>2
    <3>4. Call!Refuse(c)
      BY <3>1, <3>2, <3>3 DEF Call!Refuse
    <3> QED
      BY <3>4 DEF Call!Next
  <2> QED
    BY <2>1, <2>2
<1>2. CASE ~rebooting /\ notify[c] = 0
  <2>1. calling' = calling \cup {c} /\ c \notin calling
    BY <1>2
  <2>2. (ran \ entered_pending)' = (ran \ entered_pending) \ {c}
    BY <1>2
  <2>3. answer' = [answer EXCEPT ![c] = "none"]
    BY <1>2
  <2>4. Call!Call(c)
    BY <2>1, <2>2, <2>3 DEF Call!Call
  <2> QED
    BY <2>4 DEF Call!Next
<1> QED
  BY <1>1, <1>2

\* The IO task serves the call whose request it has taken.
LEMMA ServeStep == ASSUME IInv, halt = "no", IoInvoke PROVE [Call!Next]_(Call!vars)
<1> USE CallersAssumption DEF IInv, TypeOK, IoInvoke, MarksExecuted, RequestInv, ResultInv
<1>1. io_request \in Callers /\ cpc[io_request] # "idle" /\ io_request \notin ran
  OBVIOUS
<1>2. CASE rebooting \/ io_request \in entered_pending
  BY <1>1, <1>2 DEF callVars, Call!vars
<1>3. CASE ~rebooting /\ io_request \notin entered_pending
  BY <1>1, <1>3 DEF callVars, Call!Next, Call!Serve
<1> QED
  BY <1>2, <1>3

\* A caller leaves await with the answer that is due.
LEMMA AnswerStep ==
  ASSUME NEW c \in Callers, NEW r \in {"true", "false"}, IInv,
         cpc[c] # "idle", Return(c, r), UNCHANGED <<ran, entered_pending>>,
         c \notin entered_pending => (r = "true" <=> c \in ran)
  PROVE  [Call!Next]_(Call!vars)
<1> DEFINE calling == {x \in Callers \ entered_pending : cpc[x] # "idle"}
<1> DEFINE answer == [x \in Callers |-> IF x \in entered_pending THEN "false" ELSE result[x]]
<1> USE DEF IInv, TypeOK, Return
<1>1. CASE c \in entered_pending
  BY <1>1 DEF Call!vars
<1>2. CASE c \notin entered_pending
  <2>1. calling' = calling \ {c} /\ c \in calling
    BY <1>2
  <2>2. answer' = [answer EXCEPT ![c] = r]
    BY <1>2
  <2>3. Call!Answer(c, r)
    BY <1>2, <2>1, <2>2 DEF Call!Answer
  <2> QED
    BY <2>3 DEF Call!Next
<1> QED
  BY <1>1, <1>2

\* Every step of the IO scheduler is a step of a remote call or hidden.
LEMMA CallStep == IInv /\ [Next]_vars => [Call!Next]_(Call!vars)
<1> SUFFICES ASSUME IInv, [Next]_vars PROVE [Call!Next]_(Call!vars)
  OBVIOUS
<1>0. TypeOK /\ RequestInv /\ ResultInv
  BY DEF IInv
<1>1. CASE UNCHANGED vars
  BY <1>0, <1>1, HiddenStep DEF vars, callVars
<1>2. ASSUME NEW r \in Rounds, drive(r) PROVE [Call!Next]_(Call!vars)
  BY <1>0, <1>2, HiddenStep DEF drive, callVars, TypeOK
<1>3. ASSUME NEW r \in Rounds, MainPopAfterIo(r) PROVE [Call!Next]_(Call!vars)
  BY <1>0, <1>3, HiddenStep DEF MainPopAfterIo, callVars, TypeOK
<1>4. ASSUME MainRunAfterIo PROVE [Call!Next]_(Call!vars)
  BY <1>0, <1>4, HiddenStep DEF MainRunAfterIo, callVars, TypeOK
<1>5. ASSUME MainEndAfterIo PROVE [Call!Next]_(Call!vars)
  BY <1>0, <1>5, HiddenStep DEF MainEndAfterIo, callVars, TypeOK
<1>6. ASSUME pre_reboot PROVE [Call!Next]_(Call!vars)
  BY <1>0, <1>6, HiddenStep DEF pre_reboot, callVars, TypeOK
<1>7. ASSUME NEW r \in Rounds, IoPop(r) PROVE [Call!Next]_(Call!vars)
  BY <1>0, <1>7, HiddenStep DEF IoPop, callVars, TypeOK
<1>8. ASSUME IoRunJob PROVE [Call!Next]_(Call!vars)
  BY <1>0, <1>8, HiddenStep DEF IoRunJob, callVars, TypeOK
<1>9. ASSUME IoPost PROVE [Call!Next]_(Call!vars)
  BY <1>0, <1>9, HiddenStep DEF IoPost, callVars, TypeOK
<1>10. ASSUME IoTakeRequest PROVE [Call!Next]_(Call!vars)
  BY <1>0, <1>10, HiddenStep DEF IoTakeRequest, callVars, TypeOK
<1>11. ASSUME IoGive PROVE [Call!Next]_(Call!vars)
  BY <1>0, <1>11, HiddenStep DEF IoGive, callVars, TypeOK
<1>12. ASSUME NEW c \in Callers, AwaitPost(c) PROVE [Call!Next]_(Call!vars)
  BY <1>0, <1>12, HiddenStep DEF AwaitPost, callVars, TypeOK
<1>13. ASSUME NEW c \in Callers, AwaitTimeout(c) PROVE [Call!Next]_(Call!vars)
  BY <1>0, <1>13, HiddenStep DEF AwaitTimeout, callVars, TypeOK
<1>14. ASSUME NEW c \in Callers, TaskSchedulerAwait(c) PROVE [Call!Next]_(Call!vars)
  BY <1>0, <1>14, HiddenStep DEF TaskSchedulerAwait, callVars, TypeOK
<1>15. ASSUME NEW c \in Callers, AwaitStart(c) PROVE [Call!Next]_(Call!vars)
  BY <1>15, StartStep
<1>16. ASSUME halt = "no", IoInvoke PROVE [Call!Next]_(Call!vars)
  BY <1>16, ServeStep
<1>17. ASSUME NEW c \in Callers, AwaitGiveUp(c) PROVE [Call!Next]_(Call!vars)
  BY <1>0, <1>17, AnswerStep DEF AwaitGiveUp, ResultInv
<1>18. ASSUME NEW c \in Callers, AwaitTake(c) PROVE [Call!Next]_(Call!vars)
  BY <1>0, <1>18, AnswerStep DEF AwaitTake, ResultInv
<1>19. ASSUME NEW c \in Callers, AwaitRevoke(c), pending_await = c PROVE [Call!Next]_(Call!vars)
  BY <1>0, <1>19, AnswerStep DEF AwaitRevoke, ResultInv
<1>20. ASSUME NEW c \in Callers, AwaitRevoke(c), pending_await # c PROVE [Call!Next]_(Call!vars)
  BY <1>0, <1>20, HiddenStep DEF AwaitRevoke, AwaitTooLate
<1> QED
  BY <1>1, <1>2, <1>3, <1>4, <1>5, <1>6, <1>7, <1>8, <1>9, <1>10, <1>11, <1>12, <1>13, <1>14, <1>15, <1>16, <1>17, <1>18, <1>19, <1>20 DEF Next, MainSteps, IoSteps, CallerSteps

\* io_scheduler.h: "Runs fn on the IO task and blocks until it has completed."
\* For any number of rounds and callers await_impl and task_loop implement a
\* remote call, whatever times out and whenever the main task reboots.
THEOREM IoAwaitImplementsCall == Spec => IoAwaitIsRemoteCall
<1>1. Init => Call!Init
  BY DEF Init, Call!Init
<1> QED
  BY InductiveInvariant, <1>1, CallStep, PTL DEF Spec, IoAwaitIsRemoteCall, Call!Spec
=============================================================================
