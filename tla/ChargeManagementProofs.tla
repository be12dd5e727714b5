----------------------- MODULE ChargeManagementProofs -----------------------
(***************************************************************************)
(* Proofs about ChargeManagement, for any set of chargers, any currents    *)
(* and timeouts and any number of faults: a charger draws what some recent *)
(* command let it draw, a charger that was given up is off, manager and    *)
(* charger agree behind an exchange, a working charger is not blamed, and  *)
(* a hung EVSE stops everybody.                                            *)
(***************************************************************************)
EXTENDS ChargeManagement, FiniteSetTheorems, TLAPS

-----------------------------------------------------------------------------
(* Types. *)

\* What the age caps are for.
LEMMA CapType ==
    ASSUME NEW max \in Nat, NEW n \in 0 .. max
    PROVE  Cap(n + 1, max) \in 0 .. max
BY DEF Cap

LEMMA AgeCapType == AgeCap \in Nat /\ AgeCap > UnreachableTimeout /\ AgeCap >= ForgetTimeout
BY ChargeManagementAssumption DEF AgeCap

\* Late packets are among the bounded faults.
LEMMA FaultsType ==
    ASSUME NEW c, NEW k, NEW packet, NEW fate, faults \in 0 .. MaxFaults,
           Transmit(c, k, packet, fate)
    PROVE  faults' \in 0 .. MaxFaults
<1>1. faults' = faults \/ (faults < MaxFaults /\ faults' = faults + 1)
  BY DEF Transmit
<1> QED
  BY <1>1, ChargeManagementAssumption

\* What a packet that is sent leaves behind.
LEMMA TransmitType ==
    ASSUME NEW c \in Chargers, NEW k \in {"command", "state"}, NEW packet, NEW fate \in Fates,
           PacketTypeOK, Transmit(c, k, packet, fate),
           k = "command" => packet \in Command, k = "state" => packet \in Evse
    PROVE  PacketTypeOK'
<1> USE ChargeManagementAssumption
<1>1. turn' \in [Chargers -> [done : {"nothing", "command", "state"}, disturbed : BOOLEAN]]
  BY DEF PacketTypeOK, Transmit
<1> DEFINE Packets == LatePackets("command", Command) \cup LatePackets("state", Evse)
<1>3. ASSUME NEW q \in late
      PROVE  /\ q \in Packets
             /\ [q EXCEPT !.since = @ + 1] \in Packets
             /\ [q EXCEPT !.since = @ + 1, !.last = q.since + 1,
                          !.numbers = IF @ = "restart" THEN "other" ELSE @] \in Packets
  <2>1. /\ q \in Packets /\ q.since + 1 \in Nat
        /\ (IF q.numbers = "restart" THEN "other" ELSE q.numbers) \in {"same", "restart", "other"}
    BY <1>3 DEF PacketTypeOK, LatePackets
  <2>2. CASE q \in LatePackets("command", Command)
    BY <2>1, <2>2 DEF LatePackets
  <2>3. CASE q \in LatePackets("state", Evse)
    BY <2>1, <2>3 DEF LatePackets
  <2> QED
    BY <2>1, <2>2, <2>3
<1>4. [kind |-> k, to |-> c, body |-> packet, since |-> 0, last |-> 0,
       numbers |-> "same", old |-> FALSE] \in Packets
  BY DEF LatePackets
<1> HIDE DEF Packets
<1>5. late' \subseteq Packets
  BY <1>3, <1>4 DEF Transmit
<1> QED
  BY <1>1, <1>5 DEF PacketTypeOK, Packets

\* A state packet stores what it may.
LEMMA ReceiveStateType ==
    ASSUME NEW c \in Chargers, NEW p \in Evse, ManagerTypeOK, ReceiveState(c, p), mgr' = mgr
    PROVE  ManagerTypeOK'
<1> USE ChargeManagementAssumption
<1>1. view' \in [Chargers -> [allowed : Currents, car : BOOLEAN, hung : BOOLEAN, seen : BOOLEAN,
                              age : 0 .. UnreachableTimeout + 1, error : Errors]]
  <2> DEFINE V == [allowed : Currents, car : BOOLEAN, hung : BOOLEAN, seen : BOOLEAN,
                   age : 0 .. UnreachableTimeout + 1, error : Errors]
  <2>1. view \in [Chargers -> V]
    BY DEF ManagerTypeOK
  <2>2. Reported(c, p) \in V
    BY DEF Reported, Evse, Errors
  <2>3. [view[c] EXCEPT !.error = IF view[c].age > StaleTimeout THEN "EVSEUnreachable" ELSE @] \in V
    BY <2>1 DEF Errors
  <2>4. view' = [view EXCEPT ![c] = Reported(c, p)]
        \/ view' = [view EXCEPT ![c] = [view[c] EXCEPT !.error =
                      IF view[c].age > StaleTimeout THEN "EVSEUnreachable" ELSE @]]
    BY <2>1 DEF ReceiveState
  <2> HIDE DEF V
  <2>5. view' \in [Chargers -> V]
    BY <2>1, <2>2, <2>3, <2>4
  <2> QED
    BY <2>5 DEF V
<1>2. alloc' \in [Chargers -> [current : Currents, age : 0 .. UnreachableTimeout + 1,
                               set : BOOLEAN]]
  <2>1. 0 \in Currents /\ 0 \in 0 .. UnreachableTimeout + 1
    BY DEF Currents
  <2> DEFINE A == [Chargers -> [current : Currents, age : 0 .. UnreachableTimeout + 1,
                                set : BOOLEAN]]
  <2>2. alloc \in A /\ [alloc EXCEPT ![c].current = 0] \in A
    BY <2>1 DEF ManagerTypeOK
  <2>3. ASSUME NEW a \in A
        PROVE  WithLastSentConfig(a) \in A
    BY <2>1, <2>3 DEF WithLastSentConfig
  <2> HIDE DEF A
  <2>4. alloc' \in A
    BY <2>2, <2>3 DEF ReceiveState
  <2> QED
    BY <2>4 DEF A
<1> QED
  BY <1>1, <1>2 DEF ManagerTypeOK

\* A command stores what it may.
LEMMA ReceiveCommandType ==
    ASSUME NEW c \in Chargers, NEW p \in Command, ChargerTypeOK, ReceiveCommand(c, p)
    PROVE  ChargerTypeOK'
<1>1. evse' \in [Chargers -> Evse]
  <2>1. evse' = evse \/ evse' = [evse EXCEPT ![c].slot = p.current]
    BY DEF ReceiveCommand
  <2> QED
    BY <2>1 DEF ChargerTypeOK, Evse, Command
<1>2. client' \in [Chargers -> [age : 0 .. AgeCap, valid : BOOLEAN]]
  BY AgeCapType DEF ReceiveCommand, ChargerTypeOK
<1> QED
  BY <1>1, <1>2 DEF ChargerTypeOK

\* EVSEs and chargers.
LEMMA ChargerTypeStep == TypeOK /\ [Next]_vars => ChargerTypeOK'
<1> SUFFICES ASSUME TypeOK, [Next]_vars
             PROVE  ChargerTypeOK'
  OBVIOUS
<1> USE ChargeManagementAssumption DEF TypeOK
<1>1. ASSUME NEW c \in Chargers, NEW fate \in Fates, SendCommand(c, fate)
      PROVE  ChargerTypeOK'
  <2>1. [current |-> alloc[c].current, ignore |-> ~mgr.allSeen \/ ~view[c].seen] \in Command
    BY DEF ManagerTypeOK, Command
  <2>2. CASE fate = "arrives"
    BY <1>1, <2>1, <2>2, ReceiveCommandType DEF SendCommand
  <2>3. CASE fate # "arrives"
    BY <1>1, <2>3 DEF SendCommand, ChargerTypeOK
  <2> QED
    BY <2>2, <2>3
<1>2. ASSUME NEW c \in Chargers, NEW fate \in Fates, SendState(c, fate)
      PROVE  ChargerTypeOK'
  BY <1>2 DEF SendState, Transmit, ChargerTypeOK
<1>3. ASSUME NEW c \in Chargers, ForgetManager(c)
      PROVE  ChargerTypeOK'
  BY <1>3 DEF ForgetManager, mgrVars, ChargerTypeOK
<1>4. ASSUME NEW c \in Chargers, Plug(c)
      PROVE  ChargerTypeOK'
  <2>1. /\ evse \in [Chargers -> Evse] /\ evse[c] \in Evse
        /\ (~evse[c].car) \in BOOLEAN /\ FALSE \in BOOLEAN
    BY DEF ChargerTypeOK
  <2>2. (IF evse[c].car THEN 0 ELSE evse[c].slot) \in Currents
    BY <2>1 DEF Evse, Currents
  <2>3. [slot |-> IF evse[c].car THEN 0 ELSE evse[c].slot, car |-> ~evse[c].car, hung |-> FALSE] \in Evse
    BY <2>1, <2>2 DEF Evse
  <2>4. evse' \in [Chargers -> Evse]
    BY <1>4, <2>1, <2>3 DEF Plug
  <2> QED
    BY <1>4, <2>4 DEF Plug, ChargerTypeOK
<1>5. ASSUME NEW c \in Chargers, Hang(c)
      PROVE  ChargerTypeOK'
  BY <1>5 DEF Hang, Disturbed, mgrVars, ChargerTypeOK, Evse
<1>6. ASSUME NEW q \in late, ArriveLate(q)
      PROVE  ChargerTypeOK'
  <2>1. q.to \in Chargers /\ (q.kind = "command" => q.body \in Command)
    BY <1>6 DEF PacketTypeOK, LatePackets
  <2>2. CASE q.kind = "command" /\ ReceiveCommand(q.to, q.body)
    BY <2>1, <2>2, ReceiveCommandType
  <2>3. CASE UNCHANGED <<evse, client>>
    BY <2>3 DEF ChargerTypeOK
  <2> QED
    BY <1>6, <2>2, <2>3 DEF ArriveLate
<1>7. ASSUME AdoptAllocations
      PROVE  ChargerTypeOK'
  BY <1>7 DEF AdoptAllocations, ChargerTypeOK
<1>8. ASSUME RunAllocator
      PROVE  ChargerTypeOK'
  BY <1>8 DEF RunAllocator, ChargerTypeOK
<1>9. ASSUME Restart
      PROVE  ChargerTypeOK'
  BY <1>9 DEF Restart, NewView, NewAlloc, NewMgr, ChargerTypeOK
<1>10. ASSUME Tick
      PROVE  ChargerTypeOK'
  <2>1. \A c \in Chargers : Cap(client[c].age + 1, AgeCap) \in 0 .. AgeCap
    BY AgeCapType, CapType DEF ChargerTypeOK
  <2> QED
    <3>1. evse' \in [Chargers -> Evse]
      <4>1. 0 \in Currents /\ evse \in [Chargers -> Evse]
        BY DEF ChargerTypeOK, Currents
      <4>2. \A c \in Chargers : [evse[c] EXCEPT !.slot = 0] \in Evse
        BY <4>1 DEF Evse
      <4> QED
        BY <1>10, <4>1, <4>2 DEF Tick
    <3>2. client' \in [Chargers -> [age : 0 .. AgeCap, valid : BOOLEAN]]
      BY <1>10, <2>1 DEF Tick, ChargerTypeOK
    <3> QED
      BY <3>1, <3>2 DEF ChargerTypeOK
<1>11. CASE UNCHANGED vars
  BY <1>11 DEF vars, mgrVars, ChargerTypeOK
<1>12. QED
  BY <1>1, <1>2, <1>3, <1>4, <1>5, <1>6, <1>7, <1>8, <1>9, <1>10, <1>11 DEF Next

\* What the manager keeps.
LEMMA ManagerTypeStep == TypeOK /\ [Next]_vars => ManagerTypeOK'
<1> SUFFICES ASSUME TypeOK, [Next]_vars
             PROVE  ManagerTypeOK'
  OBVIOUS
<1> USE ChargeManagementAssumption DEF TypeOK
<1>1. ASSUME NEW c \in Chargers, NEW fate \in Fates, SendCommand(c, fate)
      PROVE  ManagerTypeOK'
  BY <1>1 DEF SendCommand, Transmit, ReceiveCommand, mgrVars, ManagerTypeOK
<1>2. ASSUME NEW c \in Chargers, NEW fate \in Fates, SendState(c, fate)
      PROVE  ManagerTypeOK'
  <2>1. CASE fate = "arrives"
    BY <1>2, <2>1, ReceiveStateType DEF SendState, ChargerTypeOK
  <2>2. CASE fate # "arrives"
    BY <1>2, <2>2 DEF SendState, ManagerTypeOK
  <2> QED
    BY <2>1, <2>2
<1>3. ASSUME NEW c \in Chargers, ForgetManager(c)
      PROVE  ManagerTypeOK'
  BY <1>3 DEF ForgetManager, mgrVars, ManagerTypeOK
<1>4. ASSUME NEW c \in Chargers, Plug(c)
      PROVE  ManagerTypeOK'
  BY <1>4 DEF Plug, Disturbed, mgrVars, ManagerTypeOK
<1>5. ASSUME NEW c \in Chargers, Hang(c)
      PROVE  ManagerTypeOK'
  BY <1>5 DEF Hang, Disturbed, mgrVars, ManagerTypeOK
<1>6. ASSUME NEW q \in late, ArriveLate(q)
      PROVE  ManagerTypeOK'
  <2>1. q.to \in Chargers /\ (q.kind = "state" => q.body \in Evse)
    BY <1>6 DEF PacketTypeOK, LatePackets
  <2>2. CASE q.kind = "state" /\ ReceiveState(q.to, q.body) /\ mgr' = mgr
    BY <2>1, <2>2, ReceiveStateType
  <2>3. CASE UNCHANGED <<view, alloc, mgr>>
    BY <2>3 DEF ManagerTypeOK
  <2> QED
    BY <1>6, <2>2, <2>3 DEF ArriveLate
<1>7. ASSUME AdoptAllocations
      PROVE  ManagerTypeOK'
  <2> USE DEF ManagerTypeOK
  <2>1. alloc' \in [Chargers -> [current : Currents, age : 0 .. UnreachableTimeout + 1,
                                 set : BOOLEAN]]
    BY <1>7 DEF AdoptAllocations
  <2>2. SeenAllChargers \in BOOLEAN
    BY DEF SeenAllChargers
  <2>3. mgr' \in [allSeen : BOOLEAN, uptime : 0 .. ClientTimeout + 1, ran : BOOLEAN]
    BY <1>7, <2>2 DEF AdoptAllocations
  <2> QED
    BY <1>7, <2>1, <2>3 DEF AdoptAllocations
<1>8. ASSUME RunAllocator
      PROVE  ManagerTypeOK'
  <2> USE DEF ManagerTypeOK
  <2>1. view' \in [Chargers -> [allowed : Currents, car : BOOLEAN, hung : BOOLEAN, seen : BOOLEAN,
                                age : 0 .. UnreachableTimeout + 1, error : Errors]]
    <3>1. ASSUME NEW c \in Chargers, NEW e \in Errors
          PROVE  [view[c] EXCEPT !.error = e]
                     \in [allowed : Currents, car : BOOLEAN, hung : BOOLEAN, seen : BOOLEAN,
                          age : 0 .. UnreachableTimeout + 1, error : Errors]
      OBVIOUS
    <3>2. ASSUME NEW c \in Chargers
          PROVE  (IF c \in Nonreactive THEN "EVSENonreactive"
                  ELSE IF c \in Unreachable THEN "ChargerUnreachable"
                  ELSE IF view[c].error = "EVSENonreactive" THEN "OK" ELSE view[c].error) \in Errors
      BY <3>2 DEF Errors
    <3> QED
      BY <1>8, <3>1, <3>2 DEF RunAllocator
  <2>2. PICK f \in [Chargers -> Currents] : alloc' = [c \in Chargers |-> Applied(c, f[c])]
    BY <1>8 DEF RunAllocator, Allocations
  <2>3. 0 \in 0 .. UnreachableTimeout + 1
    OBVIOUS
  <2>4. alloc' \in [Chargers -> [current : Currents, age : 0 .. UnreachableTimeout + 1,
                                 set : BOOLEAN]]
    BY <2>2, <2>3 DEF Applied
  <2> QED
    BY <1>8, <2>1, <2>4 DEF RunAllocator
<1>9. ASSUME Restart
      PROVE  ManagerTypeOK'
  BY <1>9 DEF Restart, NewView, NewAlloc, NewMgr, ManagerTypeOK, Currents, Errors
<1>10. ASSUME Tick
      PROVE  ManagerTypeOK'
  <2> USE DEF ManagerTypeOK
  <2>1. \A c \in Chargers : /\ Cap(view[c].age + 1, UnreachableTimeout + 1) \in 0 .. UnreachableTimeout + 1
                            /\ Cap(alloc[c].age + 1, UnreachableTimeout + 1) \in 0 .. UnreachableTimeout + 1
    BY CapType
  <2>2. Cap(mgr.uptime + 1, ClientTimeout + 1) \in 0 .. ClientTimeout + 1
    BY CapType
  <2>3. view' \in [Chargers -> [allowed : Currents, car : BOOLEAN, hung : BOOLEAN, seen : BOOLEAN,
                                age : 0 .. UnreachableTimeout + 1, error : Errors]]
    <3>1. view' = [c \in Chargers |-> [view[c] EXCEPT !.age = Cap(view[c].age + 1, UnreachableTimeout + 1)]]
      BY <1>10 DEF Tick
    <3>2. \A c \in Chargers : [view[c] EXCEPT !.age = Cap(view[c].age + 1, UnreachableTimeout + 1)]
             \in [allowed : Currents, car : BOOLEAN, hung : BOOLEAN, seen : BOOLEAN,
                  age : 0 .. UnreachableTimeout + 1, error : Errors]
      BY <2>1
    <3> QED
      BY <3>1, <3>2
  <2>4. alloc' \in [Chargers -> [current : Currents, age : 0 .. UnreachableTimeout + 1, set : BOOLEAN]]
    <3>1. alloc' = [c \in Chargers |-> [alloc[c] EXCEPT !.age = Cap(alloc[c].age + 1, UnreachableTimeout + 1)]]
      BY <1>10 DEF Tick
    <3>2. \A c \in Chargers : [alloc[c] EXCEPT !.age = Cap(alloc[c].age + 1, UnreachableTimeout + 1)]
             \in [current : Currents, age : 0 .. UnreachableTimeout + 1, set : BOOLEAN]
      BY <2>1
    <3> QED
      BY <3>1, <3>2
  <2>5. mgr' \in [allSeen : BOOLEAN, uptime : 0 .. ClientTimeout + 1, ran : BOOLEAN]
    BY <1>10, <2>2 DEF Tick
  <2> QED
    BY <2>3, <2>4, <2>5
<1>11. CASE UNCHANGED vars
  BY <1>11 DEF vars, mgrVars, ManagerTypeOK
<1>12. QED
  BY <1>1, <1>2, <1>3, <1>4, <1>5, <1>6, <1>7, <1>8, <1>9, <1>10, <1>11 DEF Next

\* Packets on their way, and the exchanges.
LEMMA PacketTypeStep == TypeOK /\ [Next]_vars => PacketTypeOK'
<1> SUFFICES ASSUME TypeOK, [Next]_vars
             PROVE  PacketTypeOK'
  OBVIOUS
<1> USE ChargeManagementAssumption DEF TypeOK
<1>1. ASSUME NEW c \in Chargers, NEW fate \in Fates, SendCommand(c, fate)
      PROVE  PacketTypeOK'
  <2>1. [current |-> alloc[c].current, ignore |-> ~mgr.allSeen \/ ~view[c].seen] \in Command
    BY DEF ManagerTypeOK, Command
  <2> QED
    BY <1>1, <2>1, TransmitType DEF SendCommand
<1>2. ASSUME NEW c \in Chargers, NEW fate \in Fates, SendState(c, fate)
      PROVE  PacketTypeOK'
  <2>1. evse[c] \in Evse
    BY DEF ChargerTypeOK
  <2> QED
    BY <1>2, <2>1, TransmitType DEF SendState
<1>3. ASSUME NEW c \in Chargers, ForgetManager(c)
      PROVE  PacketTypeOK'
  BY <1>3 DEF ForgetManager, mgrVars, PacketTypeOK
<1>4. ASSUME NEW c \in Chargers, Plug(c)
      PROVE  PacketTypeOK'
  BY <1>4 DEF Plug, Disturbed, mgrVars, PacketTypeOK
<1>5. ASSUME NEW c \in Chargers, Hang(c)
      PROVE  PacketTypeOK'
  BY <1>5 DEF Hang, Disturbed, mgrVars, PacketTypeOK
<1>6. ASSUME NEW q \in late, ArriveLate(q)
      PROVE  PacketTypeOK'
  <2>1. q.to \in Chargers
    BY <1>6 DEF PacketTypeOK, LatePackets
  <2> QED
    BY <1>6, <2>1 DEF ArriveLate, Disturbed, PacketTypeOK
<1>7. ASSUME AdoptAllocations
      PROVE  PacketTypeOK'
  BY <1>7 DEF AdoptAllocations, PacketTypeOK
<1>8. ASSUME RunAllocator
      PROVE  PacketTypeOK'
  BY <1>8 DEF RunAllocator, PacketTypeOK
<1>9. ASSUME Restart
      PROVE  PacketTypeOK'
  <2>1. turn' \in [Chargers -> [done : {"nothing", "command", "state"}, disturbed : BOOLEAN]]
    BY <1>9 DEF Restart, PacketTypeOK
  <2>2. late' \subseteq LatePackets("command", Command) \cup LatePackets("state", Evse)
    <3>1. ASSUME NEW q \in late, q.kind = "command"
          PROVE  [q EXCEPT !.numbers = "restart"] \in LatePackets("command", Command)
      <4>1. q \in LatePackets("command", Command)
        BY <3>1 DEF PacketTypeOK, LatePackets
      <4> QED
        BY <4>1 DEF LatePackets
    <3> QED
      BY <1>9, <3>1 DEF Restart
  <2> QED
    BY <2>1, <2>2 DEF PacketTypeOK
<1>10. ASSUME Tick
      PROVE  PacketTypeOK'
  <2>1. turn' \in [Chargers -> [done : {"nothing", "command", "state"}, disturbed : BOOLEAN]]
    BY <1>10 DEF Tick, NoTurn
  <2>2. late' \subseteq LatePackets("command", Command) \cup LatePackets("state", Evse)
    <3>1. ASSUME NEW k, NEW B, NEW q \in LatePackets(k, B)
          PROVE  [q EXCEPT !.old = TRUE] \in LatePackets(k, B)
      BY <3>1 DEF LatePackets
    <3>2. \A q \in late : q \in LatePackets("command", Command) \/ q \in LatePackets("state", Evse)
      BY DEF PacketTypeOK
    <3>3. \A q \in late : [q EXCEPT !.old = TRUE]
                              \in LatePackets("command", Command) \cup LatePackets("state", Evse)
      BY <3>1, <3>2
    <3> QED
      BY <1>10, <3>3 DEF Tick
  <2> QED
    BY <2>1, <2>2 DEF PacketTypeOK
<1>11. CASE UNCHANGED vars
  BY <1>11 DEF vars, mgrVars, PacketTypeOK
<1>12. QED
  BY <1>1, <1>2, <1>3, <1>4, <1>5, <1>6, <1>7, <1>8, <1>9, <1>10, <1>11 DEF Next

\* The history and the bound on faults.
LEMMA HistoryTypeStep == TypeOK /\ [Next]_vars => HistoryTypeOK'
<1> SUFFICES ASSUME TypeOK, [Next]_vars
             PROVE  HistoryTypeOK'
  OBVIOUS
<1> USE ChargeManagementAssumption DEF TypeOK, HistoryTypeOK, Settled
<1>1. ASSUME NEW c \in Chargers, NEW fate \in Fates, SendCommand(c, fate)
      PROVE  HistoryTypeOK'
  <2>1. faults' \in 0 .. MaxFaults
    BY <1>1, FaultsType DEF SendCommand
  <2>2. granted' \in [Chargers -> [1 .. MaxCurrent -> 0 .. ClientTimeout + 1]]
    BY SMTT(20), <1>1 DEF SendCommand
  <2> QED
    BY <1>1, <2>1, <2>2 DEF SendCommand, mgrVars
<1>2. ASSUME NEW c \in Chargers, NEW fate \in Fates, SendState(c, fate)
      PROVE  HistoryTypeOK'
  <2>1. faults' \in 0 .. MaxFaults
    BY <1>2, FaultsType DEF SendState
  <2> QED
    BY <1>2, <2>1 DEF SendState
<1>3. ASSUME NEW c \in Chargers, ForgetManager(c)
      PROVE  HistoryTypeOK'
  BY <1>3 DEF ForgetManager, mgrVars
<1>4. ASSUME NEW c \in Chargers, Plug(c)
      PROVE  HistoryTypeOK'
  BY <1>4 DEF Plug, Disturbed, mgrVars
<1>5. ASSUME NEW c \in Chargers, Hang(c)
      PROVE  HistoryTypeOK'
  BY SMTT(20), <1>5 DEF Hang, Disturbed, mgrVars
<1>6. ASSUME NEW q \in late, ArriveLate(q)
      PROVE  HistoryTypeOK'
  BY <1>6 DEF ArriveLate, Disturbed, mgrVars
<1>7. ASSUME AdoptAllocations
      PROVE  HistoryTypeOK'
  BY SMTT(20), <1>7 DEF AdoptAllocations
<1>8. ASSUME RunAllocator
      PROVE  HistoryTypeOK'
  BY <1>8 DEF RunAllocator, Found, Nonreactive, mgrVars
<1>9. ASSUME Restart
      PROVE  HistoryTypeOK'
  BY <1>9 DEF Restart, NewView, NewAlloc, NewMgr
<1>10. ASSUME Tick
      PROVE  HistoryTypeOK'
  <2>1. \A c \in Chargers, v \in 1 .. MaxCurrent :
           Cap(granted[c][v] + 1, ClientTimeout + 1) \in 0 .. ClientTimeout + 1
    BY CapType
  <2>2. \A c \in Chargers : Cap(calm[c] + 1, Settled) \in 0 .. Settled
    BY CapType
  <2>3. granted' \in [Chargers -> [1 .. MaxCurrent -> 0 .. ClientTimeout + 1]]
    BY <1>10, <2>1 DEF Tick
  <2>4. calm' \in [Chargers -> 0 .. Settled]
    BY SMTT(20), <1>10, <2>2 DEF Tick
  <2> QED
    BY <1>10, <2>3, <2>4 DEF Tick
<1>11. CASE UNCHANGED vars
  BY <1>11 DEF vars, mgrVars
<1>12. QED
  BY <1>1, <1>2, <1>3, <1>4, <1>5, <1>6, <1>7, <1>8, <1>9, <1>10, <1>11 DEF Next

\* They hold when manager and chargers start, and every step keeps them.
LEMMA InitType == Init => TypeOK
<1> SUFFICES ASSUME Init
             PROVE  TypeOK
  OBVIOUS
<1> USE ChargeManagementAssumption DEF Init
<1>1. ChargerTypeOK
  BY AgeCapType DEF ChargerTypeOK, Evse, Currents
<1>2. ManagerTypeOK
  BY DEF ManagerTypeOK, NewView, NewAlloc, NewMgr, Currents, Errors
<1>3. PacketTypeOK
  BY DEF PacketTypeOK, NoTurn
<1>4. HistoryTypeOK
  BY DEF HistoryTypeOK, Settled
<1> QED
  BY <1>1, <1>2, <1>3, <1>4 DEF TypeOK

LEMMA NextType == TypeOK /\ [Next]_vars => TypeOK'
BY ChargerTypeStep, ManagerTypeStep, PacketTypeStep, HistoryTypeStep DEF TypeOK

\* The types hold in every state: no allocation exceeds what a charger supports.
THEOREM ManagementTypeCorrect == Spec => []TypeOK
BY InitType, NextType, PTL DEF Spec

-----------------------------------------------------------------------------
(* What a charger draws, and when it is given up. *)

\* A charger is unreachable only as long as it has not been heard.
UnreachableInv ==
    \A c \in Chargers :
        view[c].error = "ChargerUnreachable" => view[c].age > UnreachableTimeout

\* A charger draws what it was told by a command no older than its timeout.
DrawInv ==
    \A c \in Chargers : ~evse[c].hung /\ evse[c].slot > 0 =>
        /\ client[c].age < ClientTimeout
        /\ granted[c][evse[c].slot] <= client[c].age + 1

\* So will it by every command that is still on its way.
GrantInv ==
    \A q \in late : q.kind = "command" =>
        \A v \in 1 .. MaxCurrent : q.body.ignore \/ v <= q.body.current =>
            granted[q.to][v] <= IF q.old THEN 1 ELSE 0

\* The late packets behind one that is sent: the numbers sent since, and since
\* the last one that arrived, grow.
LEMMA TransmitLate ==
    ASSUME NEW c \in Chargers, NEW k \in {"command", "state"}, NEW packet, NEW fate \in Fates,
           PacketTypeOK, Transmit(c, k, packet, fate), NEW r \in late'
    PROVE  \/ /\ fate = "late" /\ r.kind = k /\ r.to = c /\ r.body = packet
              /\ ~r.old /\ r.since = 0 /\ r.last = 0
           \/ \E q \in late :
                 /\ r.kind = q.kind /\ r.to = q.to /\ r.body = q.body /\ r.old = q.old
                 /\ r.since = IF q.kind = k /\ q.to = c THEN q.since + 1 ELSE q.since
                 /\ r.last = IF q.kind = k /\ q.to = c /\ fate = "arrives"
                             THEN q.since + 1 ELSE q.last
<1> DEFINE this == [kind |-> k, to |-> c, body |-> packet, since |-> 0, last |-> 0,
                    numbers |-> "same", old |-> FALSE]
           behind(q) == IF q.kind # k \/ q.to # c THEN q
                        ELSE IF fate # "arrives" THEN [q EXCEPT !.since = @ + 1]
                        ELSE [q EXCEPT !.since = @ + 1, !.last = q.since + 1,
                                       !.numbers = IF @ = "restart" THEN "other" ELSE @]
<1>1. CASE fate = "late" /\ r = this
  BY <1>1
<1>2. ASSUME NEW q \in late, r = behind(q)
      PROVE  /\ r.kind = q.kind /\ r.to = q.to /\ r.body = q.body /\ r.old = q.old
             /\ r.since = IF q.kind = k /\ q.to = c THEN q.since + 1 ELSE q.since
             /\ r.last = IF q.kind = k /\ q.to = c /\ fate = "arrives"
                         THEN q.since + 1 ELSE q.last
  <2>1. q \in [kind : {"command", "state"}, to : Chargers, body : Command \cup Evse, since : Nat,
                  last : Nat, numbers : {"same", "restart", "other"}, old : BOOLEAN]
    BY DEF PacketTypeOK, LatePackets
  <2>2. CASE q.kind # k \/ q.to # c
    BY <1>2, <2>2
  <2>3. CASE ~(q.kind # k \/ q.to # c) /\ fate # "arrives"
    BY <1>2, <2>1, <2>3
  <2>4. CASE ~(q.kind # k \/ q.to # c) /\ fate = "arrives"
    BY <1>2, <2>1, <2>4
  <2> QED
    BY <2>2, <2>3, <2>4
<1>3. (fate = "late" /\ r = this) \/ \E q \in late : r = behind(q)
  BY DEF Transmit
<1> QED
  BY <1>1, <1>2, <1>3

\* A tick makes every late packet an old one.
LEMMA TickLate ==
    ASSUME PacketTypeOK, Tick, NEW r \in late'
    PROVE  /\ r.old
           /\ \E q \in late : /\ ~q.old /\ r.kind = q.kind /\ r.to = q.to /\ r.body = q.body
                              /\ r.since = q.since /\ r.last = q.last
<1>1. PICK q \in late : r = [q EXCEPT !.old = TRUE]
  BY DEF Tick
<1>2. q \in [kind : {"command", "state"}, to : Chargers, body : Command \cup Evse, since : Nat,
                last : Nat, numbers : {"same", "restart", "other"}, old : BOOLEAN]
  BY DEF PacketTypeOK, LatePackets
<1>3. ~q.old
  BY DEF Tick
<1> QED
  BY <1>1, <1>2, <1>3

\* The commands of a manager that restarts are still on their way.
LEMMA RestartLate ==
    ASSUME PacketTypeOK, Restart, NEW r \in late'
    PROVE  \E q \in late : /\ r.kind = q.kind /\ r.to = q.to /\ r.body = q.body /\ r.old = q.old
                           /\ r.since = q.since /\ r.last = q.last
<1>1. PICK q \in late : r = [q EXCEPT !.numbers = "restart"]
  BY DEF Restart
<1>2. q \in [kind : {"command", "state"}, to : Chargers, body : Command \cup Evse, since : Nat,
                last : Nat, numbers : {"same", "restart", "other"}, old : BOOLEAN]
  BY DEF PacketTypeOK, LatePackets
<1> QED
  BY <1>1, <1>2

\* What is sent to a charger, and what that lets it draw.
LEMMA SentCommand ==
    ASSUME TypeOK, NEW c \in Chargers, NEW fate \in Fates, SendCommand(c, fate)
    PROVE  \E p \in Command :
              /\ p.current = alloc[c].current /\ p.ignore = (~mgr.allSeen \/ ~view[c].seen)
              /\ Transmit(c, "command", p, fate)
              /\ IF fate = "arrives" THEN ReceiveCommand(c, p) ELSE UNCHANGED <<evse, client>>
              /\ \A v \in 1 .. MaxCurrent :
                    p.ignore \/ v <= p.current => granted'[c][v] = 0
              /\ \A d \in Chargers : \A v \in 1 .. MaxCurrent :
                    granted'[d][v] \in Nat /\ granted'[d][v] <= granted[d][v]
<1> DEFINE p == [current |-> alloc[c].current, ignore |-> ~mgr.allSeen \/ ~view[c].seen]
<1>1. p \in Command /\ p.current = alloc[c].current /\ p.ignore = (~mgr.allSeen \/ ~view[c].seen)
  BY DEF TypeOK, ManagerTypeOK, Command
<1>2. /\ Transmit(c, "command", p, fate)
      /\ IF fate = "arrives" THEN ReceiveCommand(c, p) ELSE UNCHANGED <<evse, client>>
      /\ granted' = [granted EXCEPT ![c] = [v \in 1 .. MaxCurrent |->
                         IF p.ignore \/ v <= p.current THEN 0 ELSE granted[c][v]]]
  BY DEF SendCommand
<1> HIDE DEF p
<1>3. granted \in [Chargers -> [1 .. MaxCurrent -> 0 .. ClientTimeout + 1]]
  BY DEF TypeOK, HistoryTypeOK
<1>4. \A v \in 1 .. MaxCurrent : p.ignore \/ v <= p.current => granted'[c][v] = 0
  BY <1>2, <1>3
<1>5. ASSUME NEW d \in Chargers, NEW v \in 1 .. MaxCurrent
      PROVE  granted'[d][v] \in Nat /\ granted'[d][v] <= granted[d][v]
  <2>1. granted[d][v] \in 0 .. ClientTimeout + 1
    BY <1>3
  <2>2. granted'[d][v] = granted[d][v] \/ granted'[d][v] = 0
    BY <1>2, <1>3
  <2> QED
    BY <2>1, <2>2, ChargeManagementAssumption
<1> QED
  BY <1>1, <1>2, <1>4, <1>5

\* The types of a late packet.
LEMMA LateType ==
    ASSUME PacketTypeOK, NEW q \in late
    PROVE  /\ q.to \in Chargers /\ q.kind \in {"command", "state"} /\ q.old \in BOOLEAN
           /\ q.since \in Nat /\ q.last \in Nat
           /\ q.kind = "command" => q.body \in Command
           /\ q.kind = "state" => q.body \in Evse
BY DEF PacketTypeOK, LatePackets

\* An error of a charger is taken back when it is heard.
LEMMA UnreachableStep == TypeOK /\ UnreachableInv /\ [Next]_vars => UnreachableInv'
<1> SUFFICES ASSUME TypeOK, UnreachableInv, [Next]_vars
             PROVE  UnreachableInv'
  OBVIOUS
<1> USE ChargeManagementAssumption DEF UnreachableInv
<1>0. ManagerTypeOK /\ PacketTypeOK
  BY DEF TypeOK
<1> USE <1>0 DEF ManagerTypeOK
<1>1. ASSUME NEW c \in Chargers, NEW fate \in Fates, SendCommand(c, fate)
      PROVE  UnreachableInv'
  BY <1>1 DEF SendCommand, Transmit, ReceiveCommand, mgrVars
<1>2. ASSUME NEW c \in Chargers, NEW fate \in Fates, SendState(c, fate)
      PROVE  UnreachableInv'
  <2>1. CASE fate = "arrives"
    BY <1>2, <2>1 DEF SendState, ReceiveState, Reported
  <2>2. CASE fate # "arrives"
    BY <1>2, <2>2 DEF SendState
  <2> QED
    BY <2>1, <2>2
<1>3. ASSUME NEW c \in Chargers, ForgetManager(c)
      PROVE  UnreachableInv'
  BY <1>3 DEF ForgetManager, mgrVars
<1>4. ASSUME NEW c \in Chargers, Plug(c)
      PROVE  UnreachableInv'
  BY <1>4 DEF Plug, Disturbed, mgrVars
<1>5. ASSUME NEW c \in Chargers, Hang(c)
      PROVE  UnreachableInv'
  BY <1>5 DEF Hang, Disturbed, mgrVars
<1>6. ASSUME NEW q \in late, ArriveLate(q)
      PROVE  UnreachableInv'
  <2>1. CASE ReceiveState(q.to, q.body)
    BY <1>6, <2>1, LateType DEF ReceiveState, Reported
  <2>2. CASE UNCHANGED view
    BY <1>6, <2>2
  <2> QED
    BY <1>6, <2>1, <2>2 DEF ArriveLate
<1>7. ASSUME AdoptAllocations
      PROVE  UnreachableInv'
  BY <1>7 DEF AdoptAllocations
<1>8. ASSUME RunAllocator
      PROVE  UnreachableInv'
  BY <1>8 DEF RunAllocator, Unreachable
<1>9. ASSUME Restart
      PROVE  UnreachableInv'
  BY <1>9 DEF Restart, NewView, NewAlloc, NewMgr
<1>10. ASSUME Tick
      PROVE  UnreachableInv'
  <2>1. SUFFICES ASSUME NEW c \in Chargers, view'[c].error = "ChargerUnreachable"
                 PROVE  view'[c].age > UnreachableTimeout
    OBVIOUS
  <2>2. /\ view[c].error = "ChargerUnreachable" /\ view[c].age \in Nat
        /\ view'[c].age = Cap(view[c].age + 1, UnreachableTimeout + 1)
    BY SMTT(20), <1>10, <2>1 DEF Tick
  <2> QED
    BY <2>2 DEF Cap
<1>11. CASE UNCHANGED vars
  BY <1>11 DEF vars, mgrVars
<1>12. QED
  BY <1>1, <1>2, <1>3, <1>4, <1>5, <1>6, <1>7, <1>8, <1>9, <1>10, <1>11 DEF Next

\* A charger draws only what it was let draw lately, and shuts itself down in time.
LEMMA DrawStep == TypeOK /\ GrantInv /\ DrawInv /\ [Next]_vars => DrawInv'
<1> SUFFICES ASSUME TypeOK, GrantInv, DrawInv, [Next]_vars
             PROVE  DrawInv'
  OBVIOUS
<1> USE ChargeManagementAssumption DEF DrawInv
<1>0. ChargerTypeOK /\ ManagerTypeOK /\ PacketTypeOK /\ HistoryTypeOK
  BY DEF TypeOK
<1> SUFFICES ASSUME NEW d \in Chargers, ~evse'[d].hung, evse'[d].slot > 0
             PROVE  client'[d].age < ClientTimeout /\ granted'[d][evse'[d].slot] <= client'[d].age + 1
  OBVIOUS
<1>t. /\ evse \in [Chargers -> Evse] /\ evse[d].slot \in 0 .. MaxCurrent
      /\ client \in [Chargers -> [age : 0 .. AgeCap, valid : BOOLEAN]] /\ client[d].age \in Nat
      /\ granted \in [Chargers -> [1 .. MaxCurrent -> 0 .. ClientTimeout + 1]]
      /\ \A v \in 1 .. MaxCurrent : granted[d][v] \in Nat
  <2>1. evse \in [Chargers -> Evse] /\ evse[d].slot \in 0 .. MaxCurrent
    BY <1>0 DEF ChargerTypeOK, Evse, Currents
  <2>2. client \in [Chargers -> [age : 0 .. AgeCap, valid : BOOLEAN]] /\ client[d].age \in Nat
    BY <1>0, AgeCapType DEF ChargerTypeOK
  <2>3. /\ granted \in [Chargers -> [1 .. MaxCurrent -> 0 .. ClientTimeout + 1]]
        /\ \A v \in 1 .. MaxCurrent : granted[d][v] \in Nat
    BY <1>0 DEF HistoryTypeOK
  <2> QED
    BY <2>1, <2>2, <2>3
<1>1. ASSUME NEW c \in Chargers, NEW fate \in Fates, SendCommand(c, fate)
      PROVE  client'[d].age < ClientTimeout /\ granted'[d][evse'[d].slot] <= client'[d].age + 1
  <2>1. PICK p \in Command :
           /\ ReceiveCommand(c, p) \/ UNCHANGED <<evse, client>>
           /\ \A v \in 1 .. MaxCurrent : p.ignore \/ v <= p.current => granted'[c][v] = 0
           /\ \A v \in 1 .. MaxCurrent : granted'[d][v] \in Nat /\ granted'[d][v] <= granted[d][v]
    BY <1>1, SentCommand
  <2>2. \A v \in 1 .. MaxCurrent : granted'[d][v] \in Nat /\ granted'[d][v] <= granted[d][v]
    BY <2>1
  <2>3. p.current \in 0 .. MaxCurrent
    BY <2>1 DEF Command, Currents
  <2>4. CASE c = d /\ ReceiveCommand(c, p) /\ ~p.ignore
    <3>1. evse'[d].slot = p.current /\ client'[d].age = 0
      BY <2>4, <1>t DEF ReceiveCommand, Evse
    <3>2. granted'[d][p.current] = 0
      BY <2>1, <2>3, <2>4, <1>t, <3>1
    <3> QED
      BY <3>1, <3>2
  <2>5. CASE c = d /\ ReceiveCommand(c, p) /\ p.ignore
    <3>1. evse'[d] = evse[d] /\ client'[d].age = 0
      BY <2>5, <1>t DEF ReceiveCommand
    <3>2. granted'[d][evse[d].slot] = 0
      BY <2>1, <2>5, <1>t, <3>1
    <3> QED
      BY <3>1, <3>2
  <2>6. CASE c # d \/ UNCHANGED <<evse, client>>
    <3>1. evse'[d] = evse[d] /\ client'[d] = client[d]
      BY <2>1, <2>6, <1>t DEF ReceiveCommand
    <3>2. evse[d].slot \in 1 .. MaxCurrent
      BY <3>1, <1>t
    <3>3. client[d].age < ClientTimeout /\ granted[d][evse[d].slot] <= client[d].age + 1
      BY <3>1
    <3>4. /\ granted'[d][evse[d].slot] \in Nat /\ granted[d][evse[d].slot] \in Nat
          /\ granted'[d][evse[d].slot] <= granted[d][evse[d].slot]
      BY <2>2, <3>2, <1>t
    <3>5. granted'[d][evse[d].slot] <= client[d].age + 1
      BY SMTT(20), <3>3, <3>4, <1>t
    <3> QED
      BY <3>1, <3>3, <3>5
  <2> QED
    BY <2>1, <2>4, <2>5, <2>6
<1>2. ASSUME NEW c \in Chargers, NEW fate \in Fates, SendState(c, fate)
      PROVE  client'[d].age < ClientTimeout /\ granted'[d][evse'[d].slot] <= client'[d].age + 1
  BY <1>2, <1>t DEF SendState, Transmit
<1>3. ASSUME NEW c \in Chargers, ForgetManager(c)
      PROVE  client'[d].age < ClientTimeout /\ granted'[d][evse'[d].slot] <= client'[d].age + 1
  BY SMTT(20), <1>3, <1>t DEF ForgetManager, mgrVars
<1>4. ASSUME NEW c \in Chargers, Plug(c)
      PROVE  client'[d].age < ClientTimeout /\ granted'[d][evse'[d].slot] <= client'[d].age + 1
  BY SMTT(20), <1>4, <1>t DEF Plug, Disturbed, mgrVars
<1>5. ASSUME NEW c \in Chargers, Hang(c)
      PROVE  client'[d].age < ClientTimeout /\ granted'[d][evse'[d].slot] <= client'[d].age + 1
  BY <1>5, <1>t DEF Hang, Disturbed, mgrVars
<1>6. ASSUME NEW q \in late, ArriveLate(q)
      PROVE  client'[d].age < ClientTimeout /\ granted'[d][evse'[d].slot] <= client'[d].age + 1
  <2>1. CASE q.to = d /\ q.kind = "command" /\ ReceiveCommand(d, q.body) /\ granted' = granted
    <3>1. q.body \in Command
      BY <2>1, <1>0, LateType
    <3>2. client'[d].age = 0
      BY <2>1, <1>t DEF ReceiveCommand
    <3>3. CASE q.body.ignore
      <4>1. evse'[d] = evse[d]
        BY <2>1, <3>3, <1>t DEF ReceiveCommand
      <4>2. granted[d][evse[d].slot] <= 1
        <5>1. evse[d].slot \in 1 .. MaxCurrent
          BY <1>t, <4>1
        <5>2. granted[d][evse[d].slot] <= IF q.old THEN 1 ELSE 0
          BY <2>1, <3>3, <5>1 DEF GrantInv
        <5> QED
          BY <5>1, <5>2, <1>t
      <4> QED
        BY <2>1, <3>2, <4>1, <4>2
    <3>4. CASE ~q.body.ignore
      <4>1. evse'[d].slot = q.body.current /\ q.body.current \in 1 .. MaxCurrent
        BY SMTT(20), <2>1, <3>1, <3>4, <1>t DEF ReceiveCommand, Evse, Command, Currents
      <4>2. granted[d][q.body.current] <= 1
        <5>1. granted[d][q.body.current] <= IF q.old THEN 1 ELSE 0
          BY <2>1, <4>1 DEF GrantInv
        <5> QED
          BY <4>1, <5>1, <1>t
      <4> QED
        BY <2>1, <3>2, <4>1, <4>2
    <3> QED
      BY <3>3, <3>4
  <2>2. CASE evse'[d] = evse[d] /\ client'[d] = client[d] /\ granted' = granted
    BY <2>2, <1>t
  <2>3. CASE q.to # d /\ ReceiveCommand(q.to, q.body) /\ granted' = granted
    BY <2>2, <2>3, <1>t DEF ReceiveCommand
  <2> QED
    BY <1>6, <2>1, <2>2, <2>3 DEF ArriveLate
<1>7. ASSUME AdoptAllocations
      PROVE  client'[d].age < ClientTimeout /\ granted'[d][evse'[d].slot] <= client'[d].age + 1
  BY <1>7, <1>t DEF AdoptAllocations
<1>8. ASSUME RunAllocator
      PROVE  client'[d].age < ClientTimeout /\ granted'[d][evse'[d].slot] <= client'[d].age + 1
  BY <1>8, <1>t DEF RunAllocator
<1>9. ASSUME Restart
      PROVE  client'[d].age < ClientTimeout /\ granted'[d][evse'[d].slot] <= client'[d].age + 1
  BY <1>9, <1>t DEF Restart, NewView, NewAlloc, NewMgr
<1>10. ASSUME Tick
      PROVE  client'[d].age < ClientTimeout /\ granted'[d][evse'[d].slot] <= client'[d].age + 1
  <2>1. ~TimedOut(d) /\ evse'[d] = evse[d]
    BY <1>10, <1>t DEF Tick, Evse
  <2>2. client[d].age + 1 < ClientTimeout
    BY <2>1, <1>t DEF TimedOut
  <2>3. client'[d].age = client[d].age + 1
    BY <1>10, <2>2, <1>t, AgeCapType DEF Tick, Cap
  <2>4. granted'[d][evse[d].slot] <= granted[d][evse[d].slot] + 1
    <3>1. granted'[d][evse[d].slot] = Cap(granted[d][evse[d].slot] + 1, ClientTimeout + 1)
      BY <1>10, <2>1, <1>t DEF Tick
    <3> QED
      BY SMTT(20), <2>1, <3>1, <1>t DEF Cap
  <2>5. granted'[d][evse[d].slot] \in Nat
    <3>1. granted'[d][evse[d].slot] = Cap(granted[d][evse[d].slot] + 1, ClientTimeout + 1)
      BY <1>10, <2>1, <1>t DEF Tick
    <3> QED
      BY SMTT(20), <2>1, <3>1, <1>t DEF Cap
  <2>6. granted[d][evse[d].slot] \in Nat /\ granted[d][evse[d].slot] <= client[d].age + 1
    BY <2>1, <1>t
  <2>7. client[d].age \in Nat
    BY <1>t
  <2>8. granted'[d][evse[d].slot] <= (client[d].age + 1) + 1
    BY <2>4, <2>5, <2>6, <2>7
  <2> QED
    BY <2>1, <2>2, <2>3, <2>8
<1>11. CASE UNCHANGED vars
  BY <1>11, <1>t DEF vars, mgrVars
<1>12. QED
  BY <1>1, <1>2, <1>3, <1>4, <1>5, <1>6, <1>7, <1>8, <1>9, <1>10, <1>11 DEF Next

\* What a late command lets a charger draw was granted in this tick or the one before.
LEMMA GrantStep == TypeOK /\ GrantInv /\ [Next]_vars => GrantInv'
<1> SUFFICES ASSUME TypeOK, GrantInv, [Next]_vars
             PROVE  GrantInv'
  OBVIOUS
<1> USE ChargeManagementAssumption DEF GrantInv
<1>0. ManagerTypeOK /\ PacketTypeOK /\ HistoryTypeOK
  BY DEF TypeOK
<1>t. /\ granted \in [Chargers -> [1 .. MaxCurrent -> 0 .. ClientTimeout + 1]]
      /\ \A d \in Chargers : \A v \in 1 .. MaxCurrent : granted[d][v] \in Nat
      /\ \A q \in late : q.to \in Chargers
  BY <1>0, LateType DEF HistoryTypeOK
<1>1. ASSUME NEW c \in Chargers, NEW fate \in Fates, SendCommand(c, fate)
      PROVE  GrantInv'
  <2>1. PICK p \in Command :
           /\ Transmit(c, "command", p, fate)
           /\ \A v \in 1 .. MaxCurrent : p.ignore \/ v <= p.current => granted'[c][v] = 0
           /\ \A d \in Chargers : \A v \in 1 .. MaxCurrent :
                 granted'[d][v] \in Nat /\ granted'[d][v] <= granted[d][v]
    BY <1>1, SentCommand
  <2>2. \A d \in Chargers : \A v \in 1 .. MaxCurrent :
           granted'[d][v] \in Nat /\ granted'[d][v] <= granted[d][v]
    BY <2>1
  <2>3. SUFFICES ASSUME NEW r \in late', r.kind = "command", NEW v \in 1 .. MaxCurrent,
                        r.body.ignore \/ v <= r.body.current
                 PROVE  granted'[r.to][v] <= IF r.old THEN 1 ELSE 0
    OBVIOUS
  <2>4. CASE r.to = c /\ r.body = p /\ ~r.old
    BY <2>1, <2>3, <2>4, <1>t
  <2>5. ASSUME NEW q \in late, r.kind = q.kind, r.to = q.to, r.body = q.body, r.old = q.old
        PROVE  granted'[r.to][v] <= IF r.old THEN 1 ELSE 0
    <3>1. granted[q.to][v] <= IF q.old THEN 1 ELSE 0
      BY <2>3, <2>5
    <3> QED
      BY SMTT(20), <2>2, <2>5, <3>1, <1>t
  <2> QED
    BY <1>0, <2>1, <2>4, <2>5, TransmitLate
<1>2. ASSUME NEW c \in Chargers, NEW fate \in Fates, SendState(c, fate)
      PROVE  GrantInv'
  <2>1. Transmit(c, "state", evse[c], fate) /\ granted' = granted
    BY <1>2 DEF SendState
  <2>2. ASSUME NEW r \in late', r.kind = "command"
        PROVE  \E q \in late : r.kind = q.kind /\ r.to = q.to /\ r.body = q.body /\ r.old = q.old
    BY <1>0, <2>1, <2>2, TransmitLate
  <2> QED
    BY <2>1, <2>2
<1>3. ASSUME NEW c \in Chargers, ForgetManager(c)
      PROVE  GrantInv'
  BY <1>3, <1>t DEF ForgetManager, mgrVars
<1>4. ASSUME NEW c \in Chargers, Plug(c)
      PROVE  GrantInv'
  BY <1>4, <1>t DEF Plug, Disturbed, mgrVars
<1>5. ASSUME NEW c \in Chargers, Hang(c)
      PROVE  GrantInv'
  BY <1>5, <1>t DEF Hang, Disturbed, mgrVars
<1>6. ASSUME NEW q \in late, ArriveLate(q)
      PROVE  GrantInv'
  BY <1>6 DEF ArriveLate
<1>7. ASSUME AdoptAllocations
      PROVE  GrantInv'
  BY <1>7, <1>t DEF AdoptAllocations
<1>8. ASSUME RunAllocator
      PROVE  GrantInv'
  BY <1>8, <1>t DEF RunAllocator
<1>9. ASSUME Restart
      PROVE  GrantInv'
  BY <1>9, <1>0, RestartLate DEF Restart
<1>10. ASSUME Tick
      PROVE  GrantInv'
  <2>1. SUFFICES ASSUME NEW r \in late', r.kind = "command", NEW v \in 1 .. MaxCurrent,
                        r.body.ignore \/ v <= r.body.current
                 PROVE  granted'[r.to][v] <= IF r.old THEN 1 ELSE 0
    OBVIOUS
  <2>2. PICK q \in late : /\ ~q.old /\ r.kind = q.kind /\ r.to = q.to /\ r.body = q.body
    BY <1>10, <1>0, TickLate
  <2>3. r.old
    BY <1>10, <1>0, TickLate
  <2>4. granted[q.to][v] <= 0
    BY <2>1, <2>2
  <2>5. granted'[q.to][v] = Cap(granted[q.to][v] + 1, ClientTimeout + 1)
    BY <1>10, <1>t DEF Tick
  <2> QED
    BY <2>2, <2>3, <2>4, <2>5, <1>t DEF Cap
<1>11. CASE UNCHANGED vars
  BY <1>11, <1>t DEF vars, mgrVars
<1>12. QED
  BY <1>1, <1>2, <1>3, <1>4, <1>5, <1>6, <1>7, <1>8, <1>9, <1>10, <1>11 DEF Next

-----------------------------------------------------------------------------
(* Exchanges and late packets. *)

\* The exchange of this tick is past the packets of kind k.
Passed(c, k) == turn[c].done = "state" \/ turn[c].done = k

\* A packet that is late in this tick has disturbed it; one of the tick before
\* was overtaken by at most one packet, which was the last to arrive.
LateOK(q) ==
    /\ ~q.old => /\ q.since = 0 /\ q.last = 0
                 /\ Passed(q.to, q.kind) /\ turn[q.to].disturbed
    /\ q.old => /\ calm[q.to] = 0
                /\ ~Passed(q.to, q.kind) => q.since = 0 /\ q.last = 0
                /\ Passed(q.to, q.kind) /\ ~turn[q.to].disturbed => q.last = 1

LateInv == \A q \in late : LateOK(q)

\* An exchange that nothing came between follows a run of the manager's task
\* and reached the charger; then the charger was heard.
ExchangeOK(c) ==
    /\ turn[c].done # "nothing" /\ ~turn[c].disturbed =>
          mgr.ran /\ client[c].age = 0 /\ client[c].valid
    /\ calm[c] > 0 /\ turn[c].done = "nothing" => ~turn[c].disturbed
    /\ calm[c] > 0 /\ ~mgr.ran => turn[c].done = "nothing"
    /\ view[c].hung \/ calm[c] > 0 => view[c].seen
    /\ turn[c].done = "state" /\ ~turn[c].disturbed => view[c].seen

ExchangeInv == \A c \in Chargers : ExchangeOK(c)

\* What a packet that is sent does to the exchange.
LEMMA TransmitTurn ==
    ASSUME PacketTypeOK, NEW c \in Chargers, NEW k, NEW packet, NEW fate, Transmit(c, k, packet, fate)
    PROVE  /\ turn'[c].done = k
           /\ turn'[c].disturbed <=> turn[c].disturbed \/ fate # "arrives"
           /\ \A d \in Chargers \ {c} : turn'[d] = turn[d]
BY DEF Transmit, PacketTypeOK

\* What a state packet changes.
LEMMA ReceiveStateEffect ==
    ASSUME NEW c \in Chargers, NEW p \in Evse, ManagerTypeOK, ReceiveState(c, p), NEW d \in Chargers
    PROVE  /\ d # c => view'[d] = view[d] /\ alloc'[d].current = alloc[d].current
           /\ p.hung /\ view[c].hung =>
                 /\ view'[c].allowed = view[c].allowed /\ view'[c].car = view[c].car
                 /\ view'[c].hung /\ view'[c].seen = view[c].seen /\ view'[c].age = view[c].age
                 /\ view'[c].error =
                       IF view[c].age > StaleTimeout THEN "EVSEUnreachable" ELSE view[c].error
                 /\ alloc'[c].current = alloc[c].current
           /\ ~(p.hung /\ view[c].hung) =>
                 /\ view'[c] = Reported(c, p)
                 /\ alloc'[c].current = IF p.car THEN alloc[c].current ELSE 0
<1> USE DEF ManagerTypeOK
<1>1. CASE p.hung /\ view[c].hung
  BY <1>1 DEF ReceiveState, IsPacketStale
<1>2. CASE ~(p.hung /\ view[c].hung)
  <2>1. view' = [view EXCEPT ![c] = Reported(c, p)]
    BY <1>2 DEF ReceiveState, IsPacketStale
  <2> DEFINE a == IF p.car THEN alloc ELSE [alloc EXCEPT ![c].current = 0]
  <2>2. alloc' = WithLastSentConfig(a)
    BY <1>2 DEF ReceiveState, IsPacketStale
  <2>3. /\ a \in [Chargers -> [current : Currents \cup {0}, age : 0 .. UnreachableTimeout + 1,
                               set : BOOLEAN]]
        /\ a[c].current = IF p.car THEN alloc[c].current ELSE 0
        /\ d # c => a[d] = alloc[d]
    OBVIOUS
  <2> HIDE DEF a
  <2>4. \A e \in Chargers : alloc'[e].current = a[e].current
    BY <2>2, <2>3, ChargeManagementAssumption DEF WithLastSentConfig
  <2> QED
    BY <1>2, <2>1, <2>3, <2>4
<1> QED
  BY <1>1, <1>2

\* Every charger has a number, so there is at least one of them.
LEMMA SomeChargers == Cardinality(Chargers) \in Nat /\ Cardinality(Chargers) > 0
<1>1. Cardinality(Chargers) \in Nat
  BY ChargeManagementAssumption, FS_CardinalityType
<1>2. Cardinality(Chargers) # 0
  BY ChargeManagementAssumption, FS_EmptySet
<1> QED
  BY <1>1, <1>2

\* A packet that was overtaken by the one sent behind it is stale; with a large
\* number of chargers a command need not be.
LEMMA OvertakenIsStale ==
    ASSUME NEW q, q.last = 1, q.kind = "state" \/ Cardinality(Chargers) < Window
    PROVE  Stale(q)
BY SomeChargers, ChargeManagementAssumption DEF Stale, seq_num_invalid

\* What a late packet may change: nothing behind an exchange that it does not
\* disturb, except that many chargers may make an old command count as new.
LEMMA LateArrival ==
    ASSUME TypeOK, LateInv, NEW q \in late, ArriveLate(q), NEW d \in Chargers
    PROVE  /\ d # q.to => /\ evse'[d] = evse[d] /\ client'[d] = client[d] /\ view'[d] = view[d]
                          /\ turn'[d] = turn[d] /\ alloc'[d].current = alloc[d].current
           /\ d = q.to => calm[d] = 0 \/ (turn[d].done # "nothing" /\ turn[d].disturbed)
           /\ turn'[d].done = turn[d].done /\ (turn[d].disturbed => turn'[d].disturbed)
           /\ ~turn'[d].disturbed /\ turn[d].done = "state" =>
                 view'[d] = view[d] /\ alloc'[d].current = alloc[d].current
           /\ ~turn'[d].disturbed /\ turn[d].done # "nothing" /\ Cardinality(Chargers) < Window =>
                 evse'[d] = evse[d] /\ client'[d] = client[d]
           /\ evse'[d].car = evse[d].car /\ evse'[d].hung = evse[d].hung
           /\ evse[d].hung => evse'[d] = evse[d]
           /\ client'[d] = client[d] \/ client'[d] = [age |-> 0, valid |-> TRUE]
           /\ view'[d] = view[d] \/ view'[d].seen \/ (view[d].hung /\ view'[d].seen = view[d].seen)
           /\ alloc'[d].current = alloc[d].current \/ alloc'[d].current = 0
<1>0. ChargerTypeOK /\ ManagerTypeOK /\ PacketTypeOK
  BY DEF TypeOK
<1>1. /\ q.to \in Chargers /\ q.kind \in {"command", "state"} /\ q.old \in BOOLEAN
      /\ q.kind = "command" => q.body \in Command
      /\ q.kind = "state" => q.body \in Evse
  BY <1>0, LateType
<1>2. PICK stale \in TakenForStale(q) :
         /\ IF q.kind = "command" /\ ~stale
            THEN ReceiveCommand(q.to, q.body) ELSE UNCHANGED <<evse, client>>
         /\ IF q.kind = "state" /\ ~stale
            THEN ReceiveState(q.to, q.body) ELSE UNCHANGED <<view, alloc>>
  BY DEF ArriveLate
<1>3. /\ turn'[d].done = turn[d].done /\ (turn[d].disturbed => turn'[d].disturbed)
      /\ d # q.to => turn'[d] = turn[d]
      /\ d = q.to /\ ~turn'[d].disturbed => q.numbers # "other"
  BY <1>0, <1>1 DEF ArriveLate, Disturbed, PacketTypeOK
<1>4. d = q.to => calm[d] = 0 \/ (turn[d].done # "nothing" /\ turn[d].disturbed)
  BY <1>1 DEF LateInv, LateOK, Passed
<1>5. ASSUME d = q.to, ~turn'[d].disturbed, Passed(d, q.kind),
             q.kind = "state" \/ Cardinality(Chargers) < Window
      PROVE  stale
  <2>1. q.last = 1
    BY <1>1, <1>3, <1>5 DEF LateInv, LateOK
  <2>2. Stale(q)
    BY <1>5, <2>1, OvertakenIsStale
  <2> QED
    BY <1>2, <1>3, <1>5, <2>2 DEF TakenForStale
<1>6. CASE q.kind = "command" /\ ~stale
  <2>1. ReceiveCommand(q.to, q.body) /\ UNCHANGED <<view, alloc>>
    BY <1>2, <1>6
  <2>2. /\ evse \in [Chargers -> Evse] /\ evse[d].hung \in BOOLEAN
        /\ client \in [Chargers -> [age : 0 .. AgeCap, valid : BOOLEAN]]
    BY <1>0 DEF ChargerTypeOK, Evse
  <2>3. client'[q.to] = [age |-> 0, valid |-> TRUE]
    BY <1>1, <2>1, <2>2 DEF ReceiveCommand
  <2>4. d # q.to => evse'[d] = evse[d] /\ client'[d] = client[d]
    BY <1>1, <2>1, <2>2 DEF ReceiveCommand
  <2>5. /\ evse'[d].car = evse[d].car /\ evse'[d].hung = evse[d].hung
        /\ evse[d].hung => evse'[d] = evse[d]
    <3>1. CASE d # q.to
      BY <2>4, <3>1
    <3>2. CASE d = q.to /\ (q.body.ignore \/ evse[d].hung)
      BY <2>1, <3>2 DEF ReceiveCommand
    <3>3. CASE d = q.to /\ ~(q.body.ignore \/ evse[d].hung)
      <4>1. evse' = [evse EXCEPT ![d].slot = q.body.current]
        BY <2>1, <3>3 DEF ReceiveCommand
      <4> QED
        BY <4>1, <2>2, <3>3 DEF Evse
    <3> QED
      BY <3>1, <3>2, <3>3
  <2>6. ASSUME ~turn'[d].disturbed, turn[d].done # "nothing", Cardinality(Chargers) < Window,
               d = q.to
        PROVE  FALSE
    <3>1. Passed(d, "command")
      BY <1>0, <2>6 DEF Passed, PacketTypeOK
    <3> QED
      BY <1>5, <1>6, <2>6, <3>1
  <2> QED
    BY <1>3, <1>4, <2>1, <2>3, <2>4, <2>5, <2>6
<1>7. CASE q.kind = "state" /\ ~stale
  <2>1. ReceiveState(q.to, q.body) /\ UNCHANGED <<evse, client>> /\ q.body \in Evse
    BY <1>1, <1>2, <1>7
  <2>2. d # q.to => view'[d] = view[d] /\ alloc'[d].current = alloc[d].current
    BY <1>0, <1>1, <2>1, ReceiveStateEffect
  <2>3. ~(~turn'[d].disturbed /\ turn[d].done = "state" /\ d = q.to)
    BY <1>5, <1>7 DEF Passed
  <2>4. view'[d] = view[d] \/ view'[d].seen \/ (view[d].hung /\ view'[d].seen = view[d].seen)
    <3>1. CASE d = q.to /\ q.body.hung /\ view[d].hung
      <4>1. view'[d].seen = view[d].seen
        BY <1>0, <1>1, <2>1, <3>1, ReceiveStateEffect
      <4> QED
        BY <3>1, <4>1
    <3>2. CASE d = q.to /\ ~(q.body.hung /\ view[d].hung)
      <4>1. view'[d] = Reported(d, q.body)
        BY <1>0, <1>1, <2>1, <3>2, ReceiveStateEffect
      <4> QED
        BY <4>1 DEF Reported
    <3> QED
      BY <2>2, <3>1, <3>2
  <2>5. alloc'[d].current = alloc[d].current \/ alloc'[d].current = 0
    BY <1>0, <1>1, <2>1, <2>2, ReceiveStateEffect
  <2> QED
    BY <1>3, <1>4, <2>1, <2>2, <2>3, <2>4, <2>5
<1>8. CASE stale \/ q.kind \notin {"command", "state"}
  <2>1. UNCHANGED <<evse, client, view, alloc>>
    BY <1>2, <1>8, Zenon
  <2> QED
    BY <1>3, <1>4, <2>1
<1> QED
  BY <1>1, <1>6, <1>7, <1>8

\* The numbers that late packets carry.
LEMMA LateStep == TypeOK /\ LateInv /\ [Next]_vars => LateInv'
<1> SUFFICES ASSUME TypeOK, LateInv, [Next]_vars
             PROVE  LateInv'
  OBVIOUS
<1> USE ChargeManagementAssumption DEF LateInv
<1>0. PacketTypeOK /\ HistoryTypeOK
  BY DEF TypeOK
<1>t. turn \in [Chargers -> [done : {"nothing", "command", "state"}, disturbed : BOOLEAN]]
  BY <1>0 DEF PacketTypeOK
<1>c. calm \in [Chargers -> 0 .. Settled]
  BY <1>0 DEF HistoryTypeOK
<1> SUFFICES ASSUME NEW r \in late'
             PROVE  LateOK(r)'
  OBVIOUS
<1>q. \A q \in late : q.to \in Chargers /\ q.kind \in {"command", "state"} /\ q.old \in BOOLEAN
  BY <1>0, LateType
<1>1. ASSUME NEW c \in Chargers, NEW fate \in Fates, SendCommand(c, fate)
      PROVE  LateOK(r)'
  <2>1. PICK p : Transmit(c, "command", p, fate)
    BY <1>1 DEF SendCommand
  <2>2. turn[c].done = "nothing" /\ calm' = calm
    BY <1>1 DEF SendCommand
  <2>3. /\ turn'[c].done = "command" /\ (turn'[c].disturbed <=> turn[c].disturbed \/ fate # "arrives")
        /\ \A d \in Chargers \ {c} : turn'[d] = turn[d]
    BY <1>0, <2>1, TransmitTurn
  <2>4. CASE /\ fate = "late" /\ r.kind = "command" /\ r.to = c /\ ~r.old
             /\ r.since = 0 /\ r.last = 0
    BY <2>3, <2>4 DEF LateOK, Passed
  <2>5. ASSUME NEW q \in late,
               /\ r.kind = q.kind /\ r.to = q.to /\ r.old = q.old
               /\ r.since = IF q.kind = "command" /\ q.to = c THEN q.since + 1 ELSE q.since
               /\ r.last = IF q.kind = "command" /\ q.to = c /\ fate = "arrives"
                           THEN q.since + 1 ELSE q.last
        PROVE  LateOK(r)'
    <3>1. LateOK(q)
      OBVIOUS
    <3>2. CASE q.to # c
      <4>1. turn'[q.to] = turn[q.to]
        BY <2>3, <3>2, <1>q
      <4> QED
        BY <2>2, <2>5, <3>1, <3>2, <4>1 DEF LateOK, Passed
    <3>3. CASE q.to = c /\ q.kind = "command"
      BY <2>2, <2>3, <2>5, <3>1, <3>3, <1>q DEF LateOK, Passed
    <3>4. CASE q.to = c /\ q.kind = "state"
      BY <2>2, <2>3, <2>5, <3>1, <3>4, <1>q DEF LateOK, Passed
    <3> QED
      BY <3>2, <3>3, <3>4, <1>q
  <2> QED
    BY <1>0, <2>1, <2>4, <2>5, TransmitLate
<1>2. ASSUME NEW c \in Chargers, NEW fate \in Fates, SendState(c, fate)
      PROVE  LateOK(r)'
  <2>1. Transmit(c, "state", evse[c], fate) /\ turn[c].done = "command" /\ calm' = calm
    BY <1>2 DEF SendState
  <2>3. /\ turn'[c].done = "state" /\ (turn'[c].disturbed <=> turn[c].disturbed \/ fate # "arrives")
        /\ \A d \in Chargers \ {c} : turn'[d] = turn[d]
    BY <1>0, <2>1, TransmitTurn
  <2>4. CASE /\ fate = "late" /\ r.kind = "state" /\ r.to = c /\ ~r.old
             /\ r.since = 0 /\ r.last = 0
    BY <2>3, <2>4 DEF LateOK, Passed
  <2>5. ASSUME NEW q \in late,
               /\ r.kind = q.kind /\ r.to = q.to /\ r.old = q.old
               /\ r.since = IF q.kind = "state" /\ q.to = c THEN q.since + 1 ELSE q.since
               /\ r.last = IF q.kind = "state" /\ q.to = c /\ fate = "arrives"
                           THEN q.since + 1 ELSE q.last
        PROVE  LateOK(r)'
    <3>1. LateOK(q)
      OBVIOUS
    <3>2. CASE q.to # c
      <4>1. turn'[q.to] = turn[q.to]
        BY <2>3, <3>2, <1>q
      <4> QED
        BY <2>1, <2>5, <3>1, <3>2, <4>1 DEF LateOK, Passed
    <3>3. CASE q.to = c /\ q.kind = "state"
      BY <2>1, <2>3, <2>5, <3>1, <3>3, <1>q DEF LateOK, Passed
    <3>4. CASE q.to = c /\ q.kind = "command"
      BY <2>1, <2>3, <2>5, <3>1, <3>4, <1>q DEF LateOK, Passed
    <3> QED
      BY <3>2, <3>3, <3>4, <1>q
  <2> QED
    BY <1>0, <2>1, <2>4, <2>5, TransmitLate
<1>3. ASSUME NEW c \in Chargers, ForgetManager(c)
      PROVE  LateOK(r)'
  BY <1>3, <1>t, <1>c, <1>q DEF ForgetManager, mgrVars, LateOK, Passed
<1>4. ASSUME NEW c \in Chargers, Plug(c)
      PROVE  LateOK(r)'
  BY <1>4, <1>t, <1>c, <1>q DEF Plug, Disturbed, mgrVars, LateOK, Passed
<1>5. ASSUME NEW c \in Chargers, Hang(c)
      PROVE  LateOK(r)'
  BY <1>5, <1>t, <1>c, <1>q DEF Hang, Disturbed, mgrVars, LateOK, Passed
<1>6. ASSUME NEW q \in late, ArriveLate(q)
      PROVE  LateOK(r)'
  <2>1. r \in late /\ calm' = calm
    BY <1>6 DEF ArriveLate
  <2>2. turn'[r.to].done = turn[r.to].done /\ (turn[r.to].disturbed => turn'[r.to].disturbed)
    BY <1>6, <2>1, <1>q, LateArrival
  <2> QED
    BY <2>1, <2>2 DEF LateOK, Passed
<1>7. ASSUME AdoptAllocations
      PROVE  LateOK(r)'
  BY <1>7, <1>t, <1>c, <1>q DEF AdoptAllocations, LateOK, Passed
<1>8. ASSUME RunAllocator
      PROVE  LateOK(r)'
  BY <1>8, <1>t, <1>c, <1>q DEF RunAllocator, LateOK, Passed
<1>9. ASSUME Restart
      PROVE  LateOK(r)'
  <2>1. PICK q \in late : /\ r.kind = q.kind /\ r.to = q.to /\ r.old = q.old
                          /\ r.since = q.since /\ r.last = q.last
    BY <1>9, <1>0, RestartLate
  <2>2. turn'[q.to].done = turn[q.to].done /\ turn'[q.to].disturbed /\ calm'[q.to] = 0
    BY <1>9, <1>q, <1>t DEF Restart
  <2> QED
    BY <2>1, <2>2 DEF LateOK, Passed
<1>10. ASSUME Tick
      PROVE  LateOK(r)'
  <2>1. PICK q \in late : /\ ~q.old /\ r.kind = q.kind /\ r.to = q.to
                          /\ r.since = q.since /\ r.last = q.last
    BY <1>10, <1>0, TickLate
  <2>2. r.old
    BY <1>10, <1>0, TickLate
  <2>3. q.since = 0 /\ q.last = 0 /\ turn[q.to].disturbed
    BY <2>1 DEF LateOK
  <2>4. turn'[q.to].done = "nothing" /\ calm'[q.to] = 0
    BY <1>10, <1>q, <2>3 DEF Tick, NoTurn
  <2>5. r.kind \in {"command", "state"}
    BY <1>q, <2>1
  <2> QED
    BY <2>1, <2>2, <2>3, <2>4, <2>5 DEF LateOK, Passed
<1>11. CASE UNCHANGED vars
  BY <1>11, <1>t, <1>c, <1>q DEF vars, mgrVars, LateOK, Passed
<1>12. QED
  BY <1>1, <1>2, <1>3, <1>4, <1>5, <1>6, <1>7, <1>8, <1>9, <1>10, <1>11 DEF Next

\* What an exchange that nothing came between says.
LEMMA ExchangeStep == TypeOK /\ LateInv /\ ExchangeInv /\ [Next]_vars => ExchangeInv'
<1> SUFFICES ASSUME TypeOK, LateInv, ExchangeInv, [Next]_vars
             PROVE  ExchangeInv'
  OBVIOUS
<1> USE ChargeManagementAssumption DEF ExchangeInv
<1>0. ChargerTypeOK /\ ManagerTypeOK /\ PacketTypeOK /\ HistoryTypeOK
  BY DEF TypeOK
<1>t. turn \in [Chargers -> [done : {"nothing", "command", "state"}, disturbed : BOOLEAN]]
  BY <1>0 DEF PacketTypeOK
<1>c. calm \in [Chargers -> 0 .. Settled] /\ Settled \in Nat
  BY <1>0 DEF HistoryTypeOK, Settled
<1>e. evse \in [Chargers -> [slot : Currents, car : BOOLEAN, hung : BOOLEAN]]
  BY <1>0 DEF ChargerTypeOK, Evse
<1>l. client \in [Chargers -> [age : 0 .. AgeCap, valid : BOOLEAN]]
  BY <1>0 DEF ChargerTypeOK
<1>m. /\ view \in [Chargers -> [allowed : Currents, car : BOOLEAN, hung : BOOLEAN, seen : BOOLEAN,
                                age : 0 .. UnreachableTimeout + 1, error : Errors]]
      /\ alloc \in [Chargers -> [current : Currents, age : 0 .. UnreachableTimeout + 1,
                                 set : BOOLEAN]]
      /\ mgr \in [allSeen : BOOLEAN, uptime : 0 .. ClientTimeout + 1, ran : BOOLEAN]
  BY <1>0 DEF ManagerTypeOK
<1> SUFFICES ASSUME NEW d \in Chargers
             PROVE  ExchangeOK(d)'
  OBVIOUS
<1>x. ExchangeOK(d)
  OBVIOUS
<1>1. ASSUME NEW c \in Chargers, NEW fate \in Fates, SendCommand(c, fate)
      PROVE  ExchangeOK(d)'
  <2>1. PICK p \in Command :
           /\ Transmit(c, "command", p, fate)
           /\ IF fate = "arrives" THEN ReceiveCommand(c, p) ELSE UNCHANGED <<evse, client>>
    BY <1>1, SentCommand
  <2>2. UNCHANGED mgrVars /\ calm' = calm /\ mgr.ran
    BY <1>1 DEF SendCommand
  <2>3. /\ turn'[c].done = "command" /\ (turn'[c].disturbed <=> turn[c].disturbed \/ fate # "arrives")
        /\ \A e \in Chargers \ {c} : turn'[e] = turn[e]
    BY <1>0, <2>1, TransmitTurn
  <2>4. CASE d # c
    <3>1. client'[d] = client[d] /\ turn'[d] = turn[d]
      BY <2>1, <2>3, <2>4, <1>l DEF ReceiveCommand
    <3> QED
      BY <2>2, <3>1, <1>x DEF ExchangeOK, mgrVars
  <2>5. CASE d = c
    <3>1. fate = "arrives" => client'[d].age = 0 /\ client'[d].valid
      BY <2>1, <2>5, <1>l DEF ReceiveCommand
    <3> QED
      BY <2>2, <2>3, <2>5, <3>1, <1>x DEF ExchangeOK, mgrVars
  <2> QED
    BY <2>4, <2>5
<1>2. ASSUME NEW c \in Chargers, NEW fate \in Fates, SendState(c, fate)
      PROVE  ExchangeOK(d)'
  <2>1. Transmit(c, "state", evse[c], fate) /\ turn[c].done = "command"
    BY <1>2 DEF SendState
  <2>2. UNCHANGED <<evse, client, mgr, calm>>
    BY <1>2 DEF SendState
  <2>3. /\ turn'[c].done = "state" /\ (turn'[c].disturbed <=> turn[c].disturbed \/ fate # "arrives")
        /\ \A e \in Chargers \ {c} : turn'[e] = turn[e]
    BY <1>0, <2>1, TransmitTurn
  <2>4. CASE fate # "arrives"
    <3>1. view' = view
      BY <1>2, <2>4 DEF SendState
    <3>2. CASE d = c
      BY <2>1, <2>2, <2>3, <2>4, <3>1, <3>2, <1>x DEF ExchangeOK
    <3>3. CASE d # c
      BY <2>2, <2>3, <3>1, <3>3, <1>x DEF ExchangeOK
    <3> QED
      BY <3>2, <3>3
  <2>5. CASE fate = "arrives"
    <3>1. ReceiveState(c, evse[c]) /\ evse[c] \in Evse
      BY <1>2, <2>5, <1>0 DEF SendState, ChargerTypeOK
    <3>2. CASE d # c
      <4>1. view'[d] = view[d]
        BY <1>0, <3>1, <3>2, ReceiveStateEffect
      <4> QED
        BY <2>2, <2>3, <3>2, <4>1, <1>x DEF ExchangeOK
    <3>3. CASE d = c
      <4>1. view'[d].seen
        <5>1. CASE evse[c].hung /\ view[c].hung
          <6>1. view'[c].seen = view[c].seen
            BY <1>0, <3>1, <5>1, ReceiveStateEffect
          <6> QED
            BY <3>3, <5>1, <6>1, <1>m, <1>x DEF ExchangeOK
        <5>2. CASE ~(evse[c].hung /\ view[c].hung)
          <6>1. view'[c] = Reported(c, evse[c])
            BY <1>0, <3>1, <5>2, ReceiveStateEffect
          <6> QED
            BY <3>3, <6>1 DEF Reported
        <5> QED
          BY <5>1, <5>2
      <4> QED
        BY <2>1, <2>2, <2>3, <3>3, <4>1, <1>x DEF ExchangeOK
    <3> QED
      BY <3>2, <3>3
  <2> QED
    BY <2>4, <2>5
<1>3. ASSUME NEW c \in Chargers, ForgetManager(c)
      PROVE  ExchangeOK(d)'
  BY <1>3, <1>t, <1>c, <1>e, <1>l, <1>m, <1>x DEF ForgetManager, mgrVars, ExchangeOK
<1>4. ASSUME NEW c \in Chargers, Plug(c)
      PROVE  ExchangeOK(d)'
  BY <1>4, <1>t, <1>c, <1>e, <1>l, <1>m, <1>x DEF Plug, Disturbed, mgrVars, ExchangeOK
<1>5. ASSUME NEW c \in Chargers, Hang(c)
      PROVE  ExchangeOK(d)'
  BY <1>5, <1>t, <1>c, <1>e, <1>l, <1>m, <1>x DEF Hang, Disturbed, mgrVars, ExchangeOK
<1>6. ASSUME NEW q \in late, ArriveLate(q)
      PROVE  ExchangeOK(d)'
  <2>1. UNCHANGED <<mgr, calm>>
    BY <1>6 DEF ArriveLate
  <2>2. /\ d # q.to => client'[d] = client[d] /\ view'[d] = view[d] /\ turn'[d] = turn[d]
        /\ d = q.to => calm[d] = 0 \/ (turn[d].done # "nothing" /\ turn[d].disturbed)
        /\ turn'[d].done = turn[d].done /\ (turn[d].disturbed => turn'[d].disturbed)
        /\ client'[d] = client[d] \/ client'[d] = [age |-> 0, valid |-> TRUE]
        /\ view'[d] = view[d] \/ view'[d].seen \/ (view[d].hung /\ view'[d].seen = view[d].seen)
    BY <1>6, LateArrival
  <2>3. CASE d # q.to
    BY <2>1, <2>2, <2>3, <1>x DEF ExchangeOK
  <2>4. CASE d = q.to
    <3>1. /\ client[d].age = 0 /\ client[d].valid => client'[d].age = 0 /\ client'[d].valid
          /\ view[d].seen => view'[d].seen
      BY <2>2, <1>x DEF ExchangeOK
    <3>2. view'[d].hung => view'[d].seen
      BY <2>2, <1>x DEF ExchangeOK
    <3> QED
      BY <2>1, <2>2, <2>4, <3>1, <3>2, <1>c, <1>x DEF ExchangeOK
  <2> QED
    BY <2>3, <2>4
<1>7. ASSUME AdoptAllocations
      PROVE  ExchangeOK(d)'
  <2>1. mgr'.ran /\ ~mgr.ran /\ (calm'[d] = calm[d] \/ calm'[d] = 0)
    BY <1>7, <1>c, <1>m DEF AdoptAllocations
  <2> QED
    BY <1>7, <2>1, <1>x DEF AdoptAllocations, ExchangeOK
<1>8. ASSUME RunAllocator
      PROVE  ExchangeOK(d)'
  <2>1. mgr'.ran /\ view'[d].hung = view[d].hung /\ view'[d].seen = view[d].seen
    BY <1>8, <1>m DEF RunAllocator
  <2> QED
    BY <1>8, <2>1, <1>x DEF RunAllocator, ExchangeOK
<1>9. ASSUME Restart
      PROVE  ExchangeOK(d)'
  BY <1>9, <1>t, <1>c, <1>e, <1>l, <1>m, <1>x DEF Restart, NewView, NewAlloc, NewMgr,
      ExchangeOK
<1>10. ASSUME Tick
      PROVE  ExchangeOK(d)'
  <2>1. /\ turn'[d].done = "nothing" /\ ~turn'[d].disturbed
        /\ view'[d].hung = view[d].hung /\ view'[d].seen = view[d].seen
        /\ calm'[d] > 0 => ~turn[d].disturbed
    <3>1. turn' = [c \in Chargers |-> NoTurn]
      BY <1>10 DEF Tick
    <3>2. view'[d].hung = view[d].hung /\ view'[d].seen = view[d].seen
      <4>1. view' = [c \in Chargers |-> [view[c] EXCEPT !.age = Cap(view[c].age + 1, UnreachableTimeout + 1)]]
        BY <1>10 DEF Tick
      <4> QED
        BY <4>1, <1>m
    <3>3. calm'[d] = IF turn[d].disturbed THEN 0 ELSE Cap(calm[d] + 1, Settled)
      BY <1>10 DEF Tick
    <3> QED
      BY <3>1, <3>2, <3>3, <1>m DEF NoTurn
  <2>2. turn[d].done = "state" \/ (turn[d].done = "command" /\ ~client[d].valid)
    BY <1>10 DEF Tick
  <2> QED
    BY <2>1, <2>2, <1>x DEF ExchangeOK
<1>11. CASE UNCHANGED vars
  BY <1>11, <1>t, <1>c, <1>e, <1>l, <1>m, <1>x DEF vars, mgrVars, ExchangeOK
<1>12. QED
  BY <1>1, <1>2, <1>3, <1>4, <1>5, <1>6, <1>7, <1>8, <1>9, <1>10, <1>11 DEF Next

-----------------------------------------------------------------------------
(* What manager and charger know of each other. *)

\* A working charger, behind an exchange, in the beginning of the tick after
\* it, and after the manager's task has run.
SyncOK(c) == ~evse[c].hung =>
    /\ turn[c].done = "state" /\ ~turn[c].disturbed =>
          /\ Cardinality(Chargers) < Window \/ calm[c] > 0 => view[c].allowed = evse[c].slot
          /\ view[c].car = evse[c].car /\ view[c].error # "EVSEUnreachable"
    /\ turn[c].done = "nothing" /\ calm[c] > 0 =>
          view[c].car = evse[c].car /\ view[c].error # "EVSEUnreachable"
    /\ mgr.allSeen /\ calm[c] > 0 /\ ~turn[c].disturbed =>
          /\ mgr.ran /\ ~evse[c].car => alloc[c].current = 0
          /\ turn[c].done # "nothing" => evse[c].slot = alloc[c].current
    /\ mgr.allSeen /\ calm[c] > 1 /\ ~mgr.ran => alloc[c].current = view[c].allowed

SyncInv == \A c \in Chargers : SyncOK(c)

\* A hung EVSE is known after an exchange, and its packets grow stale.
HungOK(c) == evse[c].hung =>
    /\ turn[c].done = "state" /\ ~turn[c].disturbed => view[c].hung
    /\ calm[c] > 0 /\ ~turn[c].disturbed =>
          view[c].hung /\ view[c].age >= Cap(calm[c], UnreachableTimeout + 1)
    /\ calm[c] > StaleTimeout /\ turn[c].done = "state" /\ ~turn[c].disturbed =>
          view[c].error = "EVSEUnreachable"
    /\ calm[c] >= Settled /\ ~mgr.ran => view[c].error = "EVSEUnreachable"

HungInv == \A c \in Chargers : HungOK(c)

\* What a command changes.
LEMMA ReceiveCommandEffect ==
    ASSUME NEW c \in Chargers, NEW p \in Command, ChargerTypeOK, ReceiveCommand(c, p),
           NEW d \in Chargers
    PROVE  /\ d # c => evse'[d] = evse[d] /\ client'[d] = client[d]
           /\ evse'[d].car = evse[d].car /\ evse'[d].hung = evse[d].hung
           /\ ~p.ignore /\ ~evse[c].hung => evse'[c].slot = p.current
<1>1. /\ evse \in [Chargers -> Evse]
      /\ client \in [Chargers -> [age : 0 .. AgeCap, valid : BOOLEAN]]
  BY DEF ChargerTypeOK
<1>2. CASE p.ignore \/ evse[c].hung
  BY <1>1, <1>2 DEF ReceiveCommand
<1>3. CASE ~(p.ignore \/ evse[c].hung)
  <2>1. evse' = [evse EXCEPT ![c].slot = p.current]
    BY <1>3 DEF ReceiveCommand
  <2>2. d # c => client'[d] = client[d]
    BY <1>1 DEF ReceiveCommand
  <2> QED
    BY <1>1, <1>3, <2>1, <2>2 DEF Evse
<1> QED
  BY <1>2, <1>3

\* A command that is sent changes nothing but the slot of its charger.
LEMMA SendCommandEffect ==
    ASSUME TypeOK, NEW c \in Chargers, NEW fate \in Fates, SendCommand(c, fate), NEW d \in Chargers
    PROVE  /\ evse'[d].car = evse[d].car /\ evse'[d].hung = evse[d].hung
           /\ d # c => evse'[d] = evse[d] /\ turn'[d] = turn[d]
           /\ turn'[c].done = "command"
           /\ turn'[c].disturbed <=> turn[c].disturbed \/ fate # "arrives"
           /\ fate = "arrives" /\ ~evse[c].hung /\ mgr.allSeen /\ view[c].seen =>
                 evse'[c].slot = alloc[c].current
<1>1. PICK p \in Command :
         /\ p.current = alloc[c].current /\ p.ignore = (~mgr.allSeen \/ ~view[c].seen)
         /\ Transmit(c, "command", p, fate)
         /\ IF fate = "arrives" THEN ReceiveCommand(c, p) ELSE UNCHANGED <<evse, client>>
  BY SentCommand
<1>2. /\ turn'[c].done = "command"
      /\ turn'[c].disturbed <=> turn[c].disturbed \/ fate # "arrives"
      /\ d # c => turn'[d] = turn[d]
  BY <1>1, TransmitTurn DEF TypeOK
<1>3. CASE fate = "arrives"
  BY <1>1, <1>2, <1>3, ReceiveCommandEffect DEF TypeOK
<1>4. CASE fate # "arrives"
  BY <1>1, <1>2, <1>4
<1> QED
  BY <1>3, <1>4

\* How manager and charger come to agree.
LEMMA SyncStep == TypeOK /\ LateInv /\ ExchangeInv /\ SyncInv /\ [Next]_vars => SyncInv'
<1> SUFFICES ASSUME TypeOK, LateInv, ExchangeInv, SyncInv, [Next]_vars
             PROVE  SyncInv'
  OBVIOUS
<1> USE ChargeManagementAssumption DEF SyncInv
<1>0. ChargerTypeOK /\ ManagerTypeOK /\ PacketTypeOK /\ HistoryTypeOK
  BY DEF TypeOK
<1>t. turn \in [Chargers -> [done : {"nothing", "command", "state"}, disturbed : BOOLEAN]]
  BY <1>0 DEF PacketTypeOK
<1>c. calm \in [Chargers -> 0 .. Settled] /\ Settled \in Nat
  BY <1>0 DEF HistoryTypeOK, Settled
<1>e. evse \in [Chargers -> [slot : Currents, car : BOOLEAN, hung : BOOLEAN]]
  BY <1>0 DEF ChargerTypeOK, Evse
<1>l. client \in [Chargers -> [age : 0 .. AgeCap, valid : BOOLEAN]]
  BY <1>0 DEF ChargerTypeOK
<1>m. /\ view \in [Chargers -> [allowed : Currents, car : BOOLEAN, hung : BOOLEAN, seen : BOOLEAN,
                                age : 0 .. UnreachableTimeout + 1, error : Errors]]
      /\ alloc \in [Chargers -> [current : Currents, age : 0 .. UnreachableTimeout + 1,
                                 set : BOOLEAN]]
      /\ mgr \in [allSeen : BOOLEAN, uptime : 0 .. ClientTimeout + 1, ran : BOOLEAN]
  BY <1>0 DEF ManagerTypeOK
<1> SUFFICES ASSUME NEW d \in Chargers
             PROVE  SyncOK(d)'
  OBVIOUS
<1>x. SyncOK(d)
  OBVIOUS
<1>y. ExchangeOK(d)
  BY DEF ExchangeInv
<1>1. ASSUME NEW c \in Chargers, NEW fate \in Fates, SendCommand(c, fate)
      PROVE  SyncOK(d)'
  <2>1. UNCHANGED <<view, alloc, mgr, calm>> /\ mgr.ran /\ turn[c].done = "nothing"
    BY <1>1 DEF SendCommand, mgrVars
  <2>2. /\ evse'[d].car = evse[d].car /\ evse'[d].hung = evse[d].hung
        /\ d # c => evse'[d] = evse[d] /\ turn'[d] = turn[d]
        /\ turn'[c].done = "command"
        /\ turn'[c].disturbed <=> turn[c].disturbed \/ fate # "arrives"
        /\ fate = "arrives" /\ ~evse[c].hung /\ mgr.allSeen /\ view[c].seen =>
              evse'[c].slot = alloc[c].current
    BY <1>1, SendCommandEffect
  <2>3. CASE d # c
    BY <2>1, <2>2, <2>3, <1>x DEF SyncOK
  <2>4. CASE d = c
    BY <2>1, <2>2, <2>4, <1>x, <1>y DEF SyncOK, ExchangeOK
  <2> QED
    BY <2>3, <2>4
<1>2. ASSUME NEW c \in Chargers, NEW fate \in Fates, SendState(c, fate)
      PROVE  SyncOK(d)'
  <2>1. Transmit(c, "state", evse[c], fate) /\ turn[c].done = "command"
    BY <1>2 DEF SendState
  <2>2. UNCHANGED <<evse, client, mgr, calm>>
    BY <1>2 DEF SendState
  <2>3. /\ turn'[c].done = "state" /\ (turn'[c].disturbed <=> turn[c].disturbed \/ fate # "arrives")
        /\ \A e \in Chargers \ {c} : turn'[e] = turn[e]
    BY <1>0, <2>1, TransmitTurn
  <2>4. CASE fate # "arrives"
    <3>1. view' = view /\ alloc' = alloc
      BY <1>2, <2>4 DEF SendState
    <3>2. CASE d = c
      BY <2>1, <2>2, <2>3, <2>4, <3>1, <3>2, <1>c, <1>x, <1>y DEF SyncOK, ExchangeOK
    <3>3. CASE d # c
      BY <2>2, <2>3, <3>1, <3>3, <1>x DEF SyncOK
    <3> QED
      BY <3>2, <3>3
  <2>5. CASE fate = "arrives"
    <3>1. ReceiveState(c, evse[c]) /\ evse[c] \in Evse
      BY <1>2, <2>5, <1>0 DEF SendState, ChargerTypeOK
    <3>2. CASE d # c
      <4>1. view'[d] = view[d] /\ alloc'[d].current = alloc[d].current
        BY <1>0, <3>1, <3>2, ReceiveStateEffect
      <4> QED
        BY <2>2, <2>3, <3>2, <4>1, <1>x DEF SyncOK
    <3>3. CASE d = c
      <4>1. SUFFICES ASSUME ~evse[c].hung
                     PROVE  SyncOK(c)'
        BY <2>2, <3>3 DEF SyncOK
      <4>2. /\ view'[c].allowed = evse[c].slot /\ view'[c].car = evse[c].car
            /\ view'[c].error # "EVSEUnreachable"
            /\ alloc'[c].current = IF evse[c].car THEN alloc[c].current ELSE 0
        <5>1. view'[c] = Reported(c, evse[c])
          BY <1>0, <3>1, <4>1, ReceiveStateEffect
        <5>2. alloc'[c].current = IF evse[c].car THEN alloc[c].current ELSE 0
          BY <1>0, <3>1, <4>1, ReceiveStateEffect
        <5> QED
          BY <5>1, <5>2 DEF Reported
      <4>3. ~(calm[c] > 1 /\ ~mgr.ran)
        BY <2>1, <3>3, <1>y, <1>c DEF ExchangeOK
      <4> QED
        BY <2>1, <2>2, <2>3, <3>3, <4>1, <4>2, <4>3, <1>x, <1>y DEF SyncOK, ExchangeOK
    <3> QED
      BY <3>2, <3>3
  <2> QED
    BY <2>4, <2>5
<1>3. ASSUME NEW c \in Chargers, ForgetManager(c)
      PROVE  SyncOK(d)'
  BY <1>3, <1>t, <1>c, <1>e, <1>l, <1>m, <1>x, <1>y DEF ForgetManager, mgrVars, SyncOK
<1>4. ASSUME NEW c \in Chargers, Plug(c)
      PROVE  SyncOK(d)'
  BY <1>4, <1>t, <1>c, <1>e, <1>l, <1>m, <1>x, <1>y DEF Plug, Disturbed, mgrVars, SyncOK
<1>5. ASSUME NEW c \in Chargers, Hang(c)
      PROVE  SyncOK(d)'
  BY <1>5, <1>t, <1>c, <1>e, <1>l, <1>m, <1>x, <1>y DEF Hang, Disturbed, mgrVars, SyncOK
<1>6. ASSUME NEW q \in late, ArriveLate(q)
      PROVE  SyncOK(d)'
  <2>1. UNCHANGED <<mgr, calm>>
    BY <1>6 DEF ArriveLate
  <2>2. /\ d # q.to => /\ evse'[d] = evse[d] /\ view'[d] = view[d] /\ turn'[d] = turn[d]
                       /\ alloc'[d].current = alloc[d].current
        /\ d = q.to => calm[d] = 0 \/ (turn[d].done # "nothing" /\ turn[d].disturbed)
        /\ turn'[d].done = turn[d].done /\ (turn[d].disturbed => turn'[d].disturbed)
        /\ ~turn'[d].disturbed /\ turn[d].done = "state" =>
              view'[d] = view[d] /\ alloc'[d].current = alloc[d].current
        /\ ~turn'[d].disturbed /\ turn[d].done # "nothing" /\ Cardinality(Chargers) < Window =>
              evse'[d] = evse[d]
        /\ evse'[d].car = evse[d].car /\ evse'[d].hung = evse[d].hung
    BY <1>6, LateArrival
  <2>3. CASE d # q.to
    BY <2>1, <2>2, <2>3, <1>x DEF SyncOK
  <2>4. CASE d = q.to
    BY <2>1, <2>2, <2>4, <1>c, <1>x, <1>y DEF SyncOK, ExchangeOK
  <2> QED
    BY <2>3, <2>4
<1>7. ASSUME AdoptAllocations
      PROVE  SyncOK(d)'
  <2>1. UNCHANGED <<evse, view, turn>> /\ mgr'.ran
    BY <1>7, <1>m DEF AdoptAllocations
  <2>2. (calm' = calm /\ ~mgr'.allSeen) \/ calm'[d] = 0
    BY <1>7, <1>m DEF AdoptAllocations
  <2> QED
    BY <2>1, <2>2, <1>x DEF SyncOK
<1>8. ASSUME RunAllocator
      PROVE  SyncOK(d)'
  <2>1. /\ view'[d].allowed = view[d].allowed /\ view'[d].car = view[d].car
        /\ view'[d].hung = view[d].hung /\ view'[d].age = view[d].age
        /\ view'[d].error = "EVSEUnreachable" => view[d].error = "EVSEUnreachable"
    BY <1>8, <1>m DEF RunAllocator
  <2>2. UNCHANGED <<evse, turn, calm>> /\ mgr'.ran /\ mgr'.allSeen = mgr.allSeen /\ ~mgr.ran
    BY <1>8, <1>m DEF RunAllocator
  <2>3. ~view[d].car => alloc'[d].current = 0
    <3>1. PICK f \in [Chargers -> Currents] :
             /\ \A c \in Chargers : f[c] > 0 => c \notin Off /\ view[c].car
             /\ alloc' = [c \in Chargers |-> Applied(c, f[c])]
      BY <1>8 DEF RunAllocator, Allocations
    <3>2. alloc'[d].current = f[d]
      BY <3>1, <1>m DEF Applied
    <3> QED
      BY <3>1, <3>2 DEF Currents
  <2> QED
    BY <2>1, <2>2, <2>3, <1>c, <1>x, <1>y DEF SyncOK, ExchangeOK
<1>9. ASSUME Restart
      PROVE  SyncOK(d)'
  BY <1>9, <1>t, <1>c, <1>e, <1>l, <1>m, <1>x, <1>y DEF Restart, NewView, NewAlloc, NewMgr,
      SyncOK
<1>10. ASSUME Tick
      PROVE  SyncOK(d)'
  <2>1. turn'[d].done = "nothing" /\ ~turn'[d].disturbed /\ ~mgr'.ran
    BY <1>10, <1>m DEF Tick, NoTurn
  <2>2. evse'[d].car = evse[d].car /\ evse'[d].hung = evse[d].hung
    BY <1>10, <1>e DEF Tick
  <2>3. /\ view'[d].allowed = view[d].allowed /\ view'[d].car = view[d].car
        /\ view'[d].hung = view[d].hung /\ view'[d].error = view[d].error
        /\ view'[d].age = Cap(view[d].age + 1, UnreachableTimeout + 1)
    BY SMTT(20), <1>10, <1>m DEF Tick
  <2>4. calm'[d] = IF turn[d].disturbed THEN 0 ELSE Cap(calm[d] + 1, Settled)
    BY <1>10 DEF Tick
  <2>5. alloc'[d].current = alloc[d].current /\ mgr'.allSeen = mgr.allSeen
    BY <1>10, <1>m DEF Tick
  <2>6. calm'[d] > 0 => ~turn[d].disturbed /\ turn[d].done = "state"
    <3>1. turn[d].done = "state" \/ (turn[d].done = "command" /\ ~client[d].valid)
      BY <1>10 DEF Tick
    <3> QED
      BY <2>4, <3>1, <1>y DEF ExchangeOK
  <2>7. SUFFICES ASSUME ~evse[d].hung
                 PROVE  SyncOK(d)'
    BY <2>2 DEF SyncOK
  <2>8. calm'[d] > 1 => calm'[d] > 0 /\ calm[d] > 0
    BY <2>4, <1>c DEF Cap
  <2>9. calm'[d] > 0 => view[d].car = evse[d].car /\ view[d].error # "EVSEUnreachable"
    BY <2>6, <2>7, <1>x DEF SyncOK
  <2>10. mgr.allSeen /\ calm'[d] > 1 => alloc[d].current = view[d].allowed
    <3>1. SUFFICES ASSUME mgr.allSeen, calm'[d] > 1
                   PROVE  alloc[d].current = view[d].allowed
      OBVIOUS
    <3>2. calm'[d] > 0 /\ calm[d] > 0
      BY <2>8, <3>1
    <3>3. turn[d].done = "state" /\ ~turn[d].disturbed
      BY <2>6, <3>2
    <3>4. view[d].allowed = evse[d].slot
      BY <2>7, <3>2, <3>3, <1>x DEF SyncOK
    <3>5. evse[d].slot = alloc[d].current
      BY <2>7, <3>1, <3>2, <3>3, <1>x DEF SyncOK
    <3> QED
      BY <3>4, <3>5
  <2> QED
    BY <2>1, <2>2, <2>3, <2>5, <2>7, <2>9, <2>10 DEF SyncOK
<1>11. CASE UNCHANGED vars
  BY <1>11, <1>t, <1>c, <1>e, <1>l, <1>m, <1>x, <1>y DEF vars, mgrVars, SyncOK
<1>12. QED
  BY <1>1, <1>2, <1>3, <1>4, <1>5, <1>6, <1>7, <1>8, <1>9, <1>10, <1>11 DEF Next

\* How the manager learns that an EVSE is hung.
LEMMA HungStep == TypeOK /\ LateInv /\ ExchangeInv /\ HungInv /\ [Next]_vars => HungInv'
<1> SUFFICES ASSUME TypeOK, LateInv, ExchangeInv, HungInv, [Next]_vars
             PROVE  HungInv'
  OBVIOUS
<1> USE ChargeManagementAssumption DEF HungInv
<1>0. ChargerTypeOK /\ ManagerTypeOK /\ PacketTypeOK /\ HistoryTypeOK
  BY DEF TypeOK
<1>t. turn \in [Chargers -> [done : {"nothing", "command", "state"}, disturbed : BOOLEAN]]
  BY <1>0 DEF PacketTypeOK
<1>c. calm \in [Chargers -> 0 .. Settled] /\ Settled \in Nat
  BY <1>0 DEF HistoryTypeOK, Settled
<1>e. evse \in [Chargers -> [slot : Currents, car : BOOLEAN, hung : BOOLEAN]]
  BY <1>0 DEF ChargerTypeOK, Evse
<1>l. client \in [Chargers -> [age : 0 .. AgeCap, valid : BOOLEAN]]
  BY <1>0 DEF ChargerTypeOK
<1>m. /\ view \in [Chargers -> [allowed : Currents, car : BOOLEAN, hung : BOOLEAN, seen : BOOLEAN,
                                age : 0 .. UnreachableTimeout + 1, error : Errors]]
      /\ alloc \in [Chargers -> [current : Currents, age : 0 .. UnreachableTimeout + 1,
                                 set : BOOLEAN]]
      /\ mgr \in [allSeen : BOOLEAN, uptime : 0 .. ClientTimeout + 1, ran : BOOLEAN]
  BY <1>0 DEF ManagerTypeOK
<1> SUFFICES ASSUME NEW d \in Chargers
             PROVE  HungOK(d)'
  OBVIOUS
<1>x. HungOK(d)
  OBVIOUS
<1>y. ExchangeOK(d)
  BY DEF ExchangeInv
<1>1. ASSUME NEW c \in Chargers, NEW fate \in Fates, SendCommand(c, fate)
      PROVE  HungOK(d)'
  <2>1. UNCHANGED <<view, alloc, mgr, calm>> /\ mgr.ran /\ turn[c].done = "nothing"
    BY <1>1 DEF SendCommand, mgrVars
  <2>2. /\ evse'[d].car = evse[d].car /\ evse'[d].hung = evse[d].hung
        /\ d # c => evse'[d] = evse[d] /\ turn'[d] = turn[d]
        /\ turn'[c].done = "command"
        /\ turn'[c].disturbed <=> turn[c].disturbed \/ fate # "arrives"
        /\ fate = "arrives" /\ ~evse[c].hung /\ mgr.allSeen /\ view[c].seen =>
              evse'[c].slot = alloc[c].current
    BY <1>1, SendCommandEffect
  <2>3. CASE d # c
    BY <2>1, <2>2, <2>3, <1>x DEF HungOK
  <2>4. CASE d = c
    BY <2>1, <2>2, <2>4, <1>x, <1>y DEF HungOK, ExchangeOK
  <2> QED
    BY <2>3, <2>4
<1>2. ASSUME NEW c \in Chargers, NEW fate \in Fates, SendState(c, fate)
      PROVE  HungOK(d)'
  <2>1. Transmit(c, "state", evse[c], fate) /\ turn[c].done = "command"
    BY <1>2 DEF SendState
  <2>2. UNCHANGED <<evse, client, mgr, calm>>
    BY <1>2 DEF SendState
  <2>3. /\ turn'[c].done = "state" /\ (turn'[c].disturbed <=> turn[c].disturbed \/ fate # "arrives")
        /\ \A e \in Chargers \ {c} : turn'[e] = turn[e]
    BY <1>0, <2>1, TransmitTurn
  <2>4. CASE fate # "arrives"
    <3>1. view' = view /\ alloc' = alloc
      BY <1>2, <2>4 DEF SendState
    <3>2. CASE d = c
      BY <2>1, <2>2, <2>3, <2>4, <3>1, <3>2, <1>c, <1>x, <1>y DEF HungOK, ExchangeOK
    <3>3. CASE d # c
      BY <2>2, <2>3, <3>1, <3>3, <1>x DEF HungOK
    <3> QED
      BY <3>2, <3>3
  <2>5. CASE fate = "arrives"
    <3>1. ReceiveState(c, evse[c]) /\ evse[c] \in Evse
      BY <1>2, <2>5, <1>0 DEF SendState, ChargerTypeOK
    <3>2. CASE d # c
      <4>1. view'[d] = view[d] /\ alloc'[d].current = alloc[d].current
        BY <1>0, <3>1, <3>2, ReceiveStateEffect
      <4> QED
        BY <2>2, <2>3, <3>2, <4>1, <1>x DEF HungOK
    <3>3. CASE d = c
      <4>1. SUFFICES ASSUME evse[c].hung
                     PROVE  HungOK(c)'
        BY <2>2, <3>3 DEF HungOK
      <4>2. ~(calm[c] >= Settled /\ ~mgr.ran)
        BY <2>1, <3>3, <1>y, <1>c DEF ExchangeOK, Settled
      <4>3. CASE view[c].hung
        <5>1. /\ view'[c].hung /\ view'[c].age = view[c].age
              /\ view'[c].error =
                    IF view[c].age > StaleTimeout THEN "EVSEUnreachable" ELSE view[c].error
          BY <1>0, <3>1, <4>1, <4>3, ReceiveStateEffect
        <5>2. calm[c] > StaleTimeout /\ ~turn[c].disturbed => view[c].age > StaleTimeout
          <6>1. SUFFICES ASSUME calm[c] > StaleTimeout, ~turn[c].disturbed
                         PROVE  view[c].age > StaleTimeout
            OBVIOUS
          <6>2. calm[c] \in Nat /\ view[c].age \in Nat
            BY <1>c, <1>m
          <6>3. view[c].age >= Cap(calm[c], UnreachableTimeout + 1)
            BY <3>3, <4>1, <6>1, <6>2, <1>x DEF HungOK
          <6> QED
            BY <6>1, <6>2, <6>3 DEF Cap
        <5> QED
          BY <2>1, <2>2, <2>3, <3>3, <4>1, <4>2, <5>1, <5>2, <1>x DEF HungOK
      <4>4. CASE ~view[c].hung
        <5>1. view'[c].hung
          <6>1. view'[c] = Reported(c, evse[c])
            BY <1>0, <3>1, <4>1, <4>4, ReceiveStateEffect
          <6> QED
            BY <4>1, <6>1 DEF Reported
        <5>2. calm[c] > 0 => turn[c].disturbed
          BY <3>3, <4>1, <4>4, <1>x DEF HungOK
        <5> QED
          BY <2>1, <2>2, <2>3, <3>3, <4>1, <4>2, <5>1, <5>2, <1>c DEF HungOK
      <4> QED
        BY <4>3, <4>4
    <3> QED
      BY <3>2, <3>3
  <2> QED
    BY <2>4, <2>5
<1>3. ASSUME NEW c \in Chargers, ForgetManager(c)
      PROVE  HungOK(d)'
  BY <1>3, <1>t, <1>c, <1>e, <1>l, <1>m, <1>x, <1>y DEF ForgetManager, mgrVars, HungOK
<1>4. ASSUME NEW c \in Chargers, Plug(c)
      PROVE  HungOK(d)'
  BY <1>4, <1>t, <1>c, <1>e, <1>l, <1>m, <1>x, <1>y DEF Plug, Disturbed, mgrVars, HungOK,
      Settled
<1>5. ASSUME NEW c \in Chargers, Hang(c)
      PROVE  HungOK(d)'
  BY <1>5, <1>t, <1>c, <1>e, <1>l, <1>m, <1>x, <1>y DEF Hang, Disturbed, mgrVars, HungOK,
      Settled
<1>6. ASSUME NEW q \in late, ArriveLate(q)
      PROVE  HungOK(d)'
  <2>1. UNCHANGED <<mgr, calm>>
    BY <1>6 DEF ArriveLate
  <2>2. /\ d # q.to => /\ evse'[d] = evse[d] /\ view'[d] = view[d] /\ turn'[d] = turn[d]
                       /\ alloc'[d].current = alloc[d].current
        /\ d = q.to => calm[d] = 0 \/ (turn[d].done # "nothing" /\ turn[d].disturbed)
        /\ turn'[d].done = turn[d].done /\ (turn[d].disturbed => turn'[d].disturbed)
        /\ ~turn'[d].disturbed /\ turn[d].done = "state" =>
              view'[d] = view[d] /\ alloc'[d].current = alloc[d].current
        /\ ~turn'[d].disturbed /\ turn[d].done # "nothing" /\ Cardinality(Chargers) < Window =>
              evse'[d] = evse[d]
        /\ evse'[d].car = evse[d].car /\ evse'[d].hung = evse[d].hung
    BY <1>6, LateArrival
  <2>3. CASE d # q.to
    BY <2>1, <2>2, <2>3, <1>x DEF HungOK
  <2>4. CASE d = q.to
    BY <2>1, <2>2, <2>4, <1>c, <1>x, <1>y DEF HungOK, Settled, ExchangeOK
  <2> QED
    BY <2>3, <2>4
<1>7. ASSUME AdoptAllocations
      PROVE  HungOK(d)'
  <2>1. UNCHANGED <<evse, view, turn>> /\ mgr'.ran /\ (calm'[d] = calm[d] \/ calm'[d] = 0)
    BY <1>7, <1>m DEF AdoptAllocations
  <2> QED
    BY <2>1, <1>x DEF HungOK
<1>8. ASSUME RunAllocator
      PROVE  HungOK(d)'
  <2>1. /\ view'[d].allowed = view[d].allowed /\ view'[d].car = view[d].car
        /\ view'[d].hung = view[d].hung /\ view'[d].age = view[d].age
        /\ view'[d].error = "EVSEUnreachable" => view[d].error = "EVSEUnreachable"
    BY <1>8, <1>m DEF RunAllocator
  <2>2. UNCHANGED <<evse, turn, calm>> /\ mgr'.ran /\ mgr'.allSeen = mgr.allSeen /\ ~mgr.ran
    BY <1>8, <1>m DEF RunAllocator
  <2> QED
    BY <2>1, <2>2, <1>c, <1>x, <1>y DEF HungOK, ExchangeOK
<1>9. ASSUME Restart
      PROVE  HungOK(d)'
  BY <1>9, <1>t, <1>c, <1>e, <1>l, <1>m, <1>x, <1>y DEF Restart, NewView, NewAlloc, NewMgr,
      HungOK, Settled
<1>10. ASSUME Tick
      PROVE  HungOK(d)'
  <2>1. turn'[d].done = "nothing" /\ ~turn'[d].disturbed /\ ~mgr'.ran
    BY <1>10, <1>m DEF Tick, NoTurn
  <2>2. evse'[d].car = evse[d].car /\ evse'[d].hung = evse[d].hung
    BY <1>10, <1>e DEF Tick
  <2>3. /\ view'[d].allowed = view[d].allowed /\ view'[d].car = view[d].car
        /\ view'[d].hung = view[d].hung /\ view'[d].error = view[d].error
        /\ view'[d].age = Cap(view[d].age + 1, UnreachableTimeout + 1)
    BY SMTT(20), <1>10, <1>m DEF Tick
  <2>4. calm'[d] = IF turn[d].disturbed THEN 0 ELSE Cap(calm[d] + 1, Settled)
    BY <1>10 DEF Tick
  <2>5. alloc'[d].current = alloc[d].current /\ mgr'.allSeen = mgr.allSeen
    BY <1>10, <1>m DEF Tick
  <2>6. calm'[d] > 0 => ~turn[d].disturbed /\ turn[d].done = "state"
    <3>1. turn[d].done = "state" \/ (turn[d].done = "command" /\ ~client[d].valid)
      BY <1>10 DEF Tick
    <3> QED
      BY <2>4, <3>1, <1>y DEF ExchangeOK
  <2>7. SUFFICES ASSUME evse[d].hung
                 PROVE  HungOK(d)'
    BY <2>2 DEF HungOK
  <2>8. calm'[d] > 0 => view[d].hung
    BY <2>6, <2>7, <1>x DEF HungOK
  <2>9. calm'[d] > 0 => view'[d].age >= Cap(calm'[d], UnreachableTimeout + 1)
    <3>1. SUFFICES ASSUME calm'[d] > 0
                   PROVE  view'[d].age >= Cap(calm'[d], UnreachableTimeout + 1)
      OBVIOUS
    <3>2. calm[d] \in Nat /\ view[d].age \in Nat /\ calm'[d] \in Nat /\ calm'[d] <= calm[d] + 1
      BY <2>4, <1>c, <1>m DEF Cap
    <3>3. calm[d] > 0 => view[d].age >= Cap(calm[d], UnreachableTimeout + 1)
      BY <2>6, <2>7, <3>1, <1>x DEF HungOK
    <3> QED
      BY <2>3, <3>1, <3>2, <3>3 DEF Cap
  <2>10. calm'[d] >= Settled => view[d].error = "EVSEUnreachable"
    <3>1. SUFFICES ASSUME calm'[d] >= Settled
                   PROVE  view[d].error = "EVSEUnreachable"
      OBVIOUS
    <3>2. calm'[d] > 0 /\ calm[d] > StaleTimeout
      BY <2>4, <3>1, <1>c DEF Cap, Settled
    <3> QED
      BY <2>6, <2>7, <3>2, <1>x DEF HungOK
  <2> QED
    BY <2>1, <2>2, <2>3, <2>7, <2>8, <2>9, <2>10 DEF HungOK
<1>11. CASE UNCHANGED vars
  BY <1>11, <1>t, <1>c, <1>e, <1>l, <1>m, <1>x, <1>y DEF vars, mgrVars, HungOK
<1>12. QED
  BY <1>1, <1>2, <1>3, <1>4, <1>5, <1>6, <1>7, <1>8, <1>9, <1>10, <1>11 DEF Next

-----------------------------------------------------------------------------
(* Who is shut down. *)

\* Until the manager has taken over nobody is shut down.
CulpritInv == ~mgr.allSeen => culprits = {}

\* Only the allocator shuts down, and it runs only after the takeover.
LEMMA CulpritStep == TypeOK /\ CulpritInv /\ [Next]_vars => CulpritInv'
<1> SUFFICES ASSUME TypeOK, CulpritInv, [Next]_vars
             PROVE  CulpritInv'
  OBVIOUS
<1> USE ChargeManagementAssumption DEF CulpritInv
<1>m. mgr \in [allSeen : BOOLEAN, uptime : 0 .. ClientTimeout + 1, ran : BOOLEAN]
  BY DEF TypeOK, ManagerTypeOK
<1>1. ASSUME NEW c \in Chargers, NEW fate \in Fates, SendCommand(c, fate)
      PROVE  CulpritInv'
  BY <1>1, <1>m DEF SendCommand, mgrVars
<1>2. ASSUME NEW c \in Chargers, NEW fate \in Fates, SendState(c, fate)
      PROVE  CulpritInv'
  BY <1>2, <1>m DEF SendState
<1>3. ASSUME NEW c \in Chargers, ForgetManager(c)
      PROVE  CulpritInv'
  BY <1>3, <1>m DEF ForgetManager, mgrVars
<1>4. ASSUME NEW c \in Chargers, Plug(c)
      PROVE  CulpritInv'
  BY <1>4, <1>m DEF Plug, mgrVars
<1>5. ASSUME NEW c \in Chargers, Hang(c)
      PROVE  CulpritInv'
  BY <1>5, <1>m DEF Hang, mgrVars
<1>6. ASSUME NEW q \in late, ArriveLate(q)
      PROVE  CulpritInv'
  BY <1>6, <1>m DEF ArriveLate
<1>7. ASSUME AdoptAllocations
      PROVE  CulpritInv'
  BY <1>7, <1>m DEF AdoptAllocations
<1>8. ASSUME RunAllocator
      PROVE  CulpritInv'
  BY <1>8, <1>m DEF RunAllocator
<1>9. ASSUME Restart
      PROVE  CulpritInv'
  BY <1>9, <1>m DEF Restart, NewView, NewAlloc, NewMgr
<1>10. ASSUME Tick
      PROVE  CulpritInv'
  BY <1>10, <1>m DEF Tick
<1>11. CASE UNCHANGED vars
  BY <1>11, <1>m DEF vars, mgrVars
<1>12. QED
  BY <1>1, <1>2, <1>3, <1>4, <1>5, <1>6, <1>7, <1>8, <1>9, <1>10, <1>11 DEF Next

\* The allocator blames nobody who works.
LEMMA BlameStep == TypeOK /\ LateInv /\ ExchangeInv /\ SyncInv /\ CulpritInv /\
    HealthyNeverBlamed /\ [Next]_vars => HealthyNeverBlamed'
<1> SUFFICES ASSUME TypeOK, LateInv, ExchangeInv, SyncInv, CulpritInv, HealthyNeverBlamed,
    [Next]_vars
             PROVE  HealthyNeverBlamed'
  OBVIOUS
<1> USE ChargeManagementAssumption DEF HealthyNeverBlamed
<1>0. ChargerTypeOK /\ ManagerTypeOK /\ PacketTypeOK /\ HistoryTypeOK
  BY DEF TypeOK
<1>t. turn \in [Chargers -> [done : {"nothing", "command", "state"}, disturbed : BOOLEAN]]
  BY <1>0 DEF PacketTypeOK
<1>c. calm \in [Chargers -> 0 .. Settled] /\ Settled \in Nat
  BY <1>0 DEF HistoryTypeOK, Settled
<1>e. evse \in [Chargers -> [slot : Currents, car : BOOLEAN, hung : BOOLEAN]]
  BY <1>0 DEF ChargerTypeOK, Evse
<1>l. client \in [Chargers -> [age : 0 .. AgeCap, valid : BOOLEAN]]
  BY <1>0 DEF ChargerTypeOK
<1>m. /\ view \in [Chargers -> [allowed : Currents, car : BOOLEAN, hung : BOOLEAN, seen : BOOLEAN,
                                age : 0 .. UnreachableTimeout + 1, error : Errors]]
      /\ alloc \in [Chargers -> [current : Currents, age : 0 .. UnreachableTimeout + 1,
                                 set : BOOLEAN]]
      /\ mgr \in [allSeen : BOOLEAN, uptime : 0 .. ClientTimeout + 1, ran : BOOLEAN]
  BY <1>0 DEF ManagerTypeOK
<1> SUFFICES ASSUME mgr'.ran, NEW d \in culprits'
             PROVE  calm'[d] < Settled \/ evse'[d].hung
  OBVIOUS
<1>x. mgr.ran /\ d \in culprits => calm[d] < Settled \/ evse[d].hung
  OBVIOUS
<1>d. culprits \subseteq Chargers /\ d \in Chargers
  BY HistoryTypeStep, <1>0 DEF HistoryTypeOK
<1>1. ASSUME NEW c \in Chargers, NEW fate \in Fates, SendCommand(c, fate)
      PROVE  calm'[d] < Settled \/ evse'[d].hung
  <2>1. UNCHANGED <<mgr, culprits, calm>>
    BY <1>1 DEF SendCommand, mgrVars
  <2>2. evse'[d].hung = evse[d].hung
    BY <1>1, <1>d, SendCommandEffect
  <2> QED
    BY <2>1, <2>2, <1>x
<1>2. ASSUME NEW c \in Chargers, NEW fate \in Fates, SendState(c, fate)
      PROVE  calm'[d] < Settled \/ evse'[d].hung
  BY <1>2, <1>x DEF SendState
<1>3. ASSUME NEW c \in Chargers, ForgetManager(c)
      PROVE  calm'[d] < Settled \/ evse'[d].hung
  BY <1>3, <1>t, <1>c, <1>e, <1>l, <1>m, <1>x, <1>d DEF ForgetManager, mgrVars
<1>4. ASSUME NEW c \in Chargers, Plug(c)
      PROVE  calm'[d] < Settled \/ evse'[d].hung
  BY <1>4, <1>t, <1>c, <1>e, <1>l, <1>m, <1>x, <1>d DEF Plug, mgrVars, Settled
<1>5. ASSUME NEW c \in Chargers, Hang(c)
      PROVE  calm'[d] < Settled \/ evse'[d].hung
  BY <1>5, <1>t, <1>c, <1>e, <1>l, <1>m, <1>x, <1>d DEF Hang, mgrVars
<1>6. ASSUME NEW q \in late, ArriveLate(q)
      PROVE  calm'[d] < Settled \/ evse'[d].hung
  <2>1. UNCHANGED <<mgr, culprits, calm>>
    BY <1>6 DEF ArriveLate
  <2>2. evse'[d].hung = evse[d].hung
    BY <1>6, <1>d, LateArrival
  <2> QED
    BY <2>1, <2>2, <1>x
<1>7. ASSUME AdoptAllocations
      PROVE  calm'[d] < Settled \/ evse'[d].hung
  <2>1. culprits = {} /\ culprits' = culprits
    BY <1>7 DEF AdoptAllocations, CulpritInv
  <2> QED
    BY <2>1
<1>8. ASSUME RunAllocator
      PROVE  calm'[d] < Settled \/ evse'[d].hung
  <2>1. UNCHANGED <<evse, calm>> /\ d \in Found /\ mgr.allSeen /\ ~mgr.ran
    BY <1>8 DEF RunAllocator
  <2>2. SUFFICES ASSUME calm[d] >= Settled, ~evse[d].hung
                 PROVE  FALSE
    BY <2>1, <1>c, <1>d
  <2>3. calm[d] > 1
    BY <2>2, <1>c, <1>d DEF Settled
  <2>4. view[d].error # "EVSEUnreachable" /\ alloc[d].current = view[d].allowed
    <3>1. SyncOK(d) /\ ExchangeOK(d)
      BY <1>d DEF SyncInv, ExchangeInv
    <3>2. calm[d] > 0
      BY <2>3, <1>c, <1>d
    <3>3. turn[d].done = "nothing"
      BY <2>1, <3>1, <3>2 DEF ExchangeOK
    <3> QED
      BY <2>1, <2>2, <2>3, <3>1, <3>2, <3>3 DEF SyncOK
  <2>5. d \in Nonreactive
    BY <2>1, <2>4 DEF Found
  <2>6. alloc[d].current \in Nat
    BY <1>m, <1>d DEF Currents
  <2> QED
    BY <2>4, <2>5, <2>6 DEF Nonreactive
<1>9. ASSUME Restart
      PROVE  calm'[d] < Settled \/ evse'[d].hung
  BY <1>9, <1>t, <1>c, <1>e, <1>l, <1>m, <1>x, <1>d DEF Restart, NewView, NewAlloc, NewMgr,
      Settled
<1>10. ASSUME Tick
      PROVE  calm'[d] < Settled \/ evse'[d].hung
  BY <1>10, <1>m DEF Tick
<1>11. CASE UNCHANGED vars
  BY <1>11, <1>t, <1>c, <1>e, <1>l, <1>m, <1>x, <1>d DEF vars, mgrVars
<1>12. QED
  BY <1>1, <1>2, <1>3, <1>4, <1>5, <1>6, <1>7, <1>8, <1>9, <1>10, <1>11 DEF Next

\* The allocator stops everybody for a hung EVSE, and nobody starts before its next run.
LEMMA StopStep == TypeOK /\ LateInv /\ HungInv /\ HungStopsAll /\ [Next]_vars => HungStopsAll'
<1> SUFFICES ASSUME TypeOK, LateInv, HungInv, HungStopsAll, [Next]_vars
             PROVE  HungStopsAll'
  OBVIOUS
<1> USE ChargeManagementAssumption DEF HungStopsAll
<1>0. ChargerTypeOK /\ ManagerTypeOK /\ PacketTypeOK /\ HistoryTypeOK
  BY DEF TypeOK
<1>t. turn \in [Chargers -> [done : {"nothing", "command", "state"}, disturbed : BOOLEAN]]
  BY <1>0 DEF PacketTypeOK
<1>c. calm \in [Chargers -> 0 .. Settled] /\ Settled \in Nat
  BY <1>0 DEF HistoryTypeOK, Settled
<1>e. evse \in [Chargers -> [slot : Currents, car : BOOLEAN, hung : BOOLEAN]]
  BY <1>0 DEF ChargerTypeOK, Evse
<1>l. client \in [Chargers -> [age : 0 .. AgeCap, valid : BOOLEAN]]
  BY <1>0 DEF ChargerTypeOK
<1>m. /\ view \in [Chargers -> [allowed : Currents, car : BOOLEAN, hung : BOOLEAN, seen : BOOLEAN,
                                age : 0 .. UnreachableTimeout + 1, error : Errors]]
      /\ alloc \in [Chargers -> [current : Currents, age : 0 .. UnreachableTimeout + 1,
                                 set : BOOLEAN]]
      /\ mgr \in [allSeen : BOOLEAN, uptime : 0 .. ClientTimeout + 1, ran : BOOLEAN]
  BY <1>0 DEF ManagerTypeOK
<1> SUFFICES ASSUME NEW d \in Chargers, evse'[d].hung, calm'[d] >= Settled, mgr'.allSeen,
    mgr'.ran,
                    NEW e \in Chargers
             PROVE  alloc'[e].current = 0
  OBVIOUS
<1>x. evse[d].hung /\ calm[d] >= Settled /\ mgr.allSeen /\ mgr.ran => alloc[e].current = 0
  OBVIOUS
<1>1. ASSUME NEW c \in Chargers, NEW fate \in Fates, SendCommand(c, fate)
      PROVE  alloc'[e].current = 0
  <2>1. UNCHANGED <<mgr, alloc, calm>>
    BY <1>1 DEF SendCommand, mgrVars
  <2>2. evse'[d].hung = evse[d].hung
    BY <1>1, SendCommandEffect
  <2> QED
    BY <2>1, <2>2, <1>x
<1>2. ASSUME NEW c \in Chargers, NEW fate \in Fates, SendState(c, fate)
      PROVE  alloc'[e].current = 0
  <2>1. UNCHANGED <<evse, mgr, calm>>
    BY <1>2 DEF SendState
  <2>2. alloc' = alloc \/ (ReceiveState(c, evse[c]) /\ evse[c] \in Evse)
    BY <1>2, <1>0 DEF SendState, ChargerTypeOK
  <2>3. alloc'[e].current = alloc[e].current \/ alloc'[e].current = 0
    BY <1>0, <2>2, ReceiveStateEffect
  <2> QED
    BY <2>1, <2>3, <1>x
<1>3. ASSUME NEW c \in Chargers, ForgetManager(c)
      PROVE  alloc'[e].current = 0
  BY <1>3, <1>t, <1>c, <1>e, <1>l, <1>m, <1>x DEF ForgetManager, mgrVars
<1>4. ASSUME NEW c \in Chargers, Plug(c)
      PROVE  alloc'[e].current = 0
  BY <1>4, <1>t, <1>c, <1>e, <1>l, <1>m, <1>x DEF Plug, mgrVars, Settled
<1>5. ASSUME NEW c \in Chargers, Hang(c)
      PROVE  alloc'[e].current = 0
  BY <1>5, <1>t, <1>c, <1>e, <1>l, <1>m, <1>x DEF Hang, mgrVars, Settled
<1>6. ASSUME NEW q \in late, ArriveLate(q)
      PROVE  alloc'[e].current = 0
  <2>1. UNCHANGED <<mgr, calm>>
    BY <1>6 DEF ArriveLate
  <2>2. evse'[d].hung = evse[d].hung
    BY <1>6, LateArrival
  <2>3. alloc'[e].current = alloc[e].current \/ alloc'[e].current = 0
    BY <1>6, LateArrival
  <2> QED
    BY <2>1, <2>2, <2>3, <1>x
<1>7. ASSUME AdoptAllocations
      PROVE  alloc'[e].current = 0
  <2>1. calm'[d] = 0
    BY <1>7, <1>m DEF AdoptAllocations
  <2> QED
    BY <2>1 DEF Settled
<1>8. ASSUME RunAllocator
      PROVE  alloc'[e].current = 0
  <2>1. view[d].error = "EVSEUnreachable"
    <3>1. HungOK(d)
      BY DEF HungInv
    <3>2. UNCHANGED <<evse, calm>> /\ ~mgr.ran
      BY <1>8 DEF RunAllocator
    <3> QED
      BY <3>1, <3>2 DEF HungOK
  <2>2. Off = Chargers
    BY <2>1 DEF Off, Found
  <2>3. PICK f \in [Chargers -> Currents] :
           /\ \A c \in Chargers : f[c] > 0 => c \notin Off /\ view[c].car
           /\ alloc' = [c \in Chargers |-> Applied(c, f[c])]
    BY <1>8 DEF RunAllocator, Allocations
  <2>4. alloc'[e].current = f[e] /\ f[e] \in Nat
    BY <2>3, <1>m DEF Applied, Currents
  <2> QED
    BY <2>2, <2>3, <2>4
<1>9. ASSUME Restart
      PROVE  alloc'[e].current = 0
  BY <1>9 DEF Restart, NewMgr
<1>10. ASSUME Tick
      PROVE  alloc'[e].current = 0
  BY <1>10, <1>m DEF Tick
<1>11. CASE UNCHANGED vars
  BY <1>11, <1>t, <1>c, <1>e, <1>l, <1>m, <1>x DEF vars, mgrVars
<1>12. QED
  BY <1>1, <1>2, <1>3, <1>4, <1>5, <1>6, <1>7, <1>8, <1>9, <1>10, <1>11 DEF Next

-----------------------------------------------------------------------------
(* The inductive invariant, and what follows from it. *)

IInv ==
    /\ TypeOK
    /\ UnreachableInv /\ DrawInv /\ GrantInv
    /\ LateInv /\ ExchangeInv /\ SyncInv /\ HungInv
    /\ CulpritInv /\ HealthyNeverBlamed /\ HungStopsAll

\* It holds when manager and chargers start.
LEMMA InitIInv == Init => IInv
<1> SUFFICES ASSUME Init
             PROVE  IInv
  OBVIOUS
<1> USE ChargeManagementAssumption DEF Init
<1>1. TypeOK
  BY InitType
<1>2. UnreachableInv /\ DrawInv /\ GrantInv /\ LateInv
  BY DEF UnreachableInv, DrawInv, GrantInv, LateInv, NewView
<1>3. ExchangeInv
  BY DEF ExchangeInv, ExchangeOK, NoTurn, NewView
<1>4. SyncInv /\ HungInv
  BY DEF SyncInv, SyncOK, HungInv, HungOK, NoTurn, Settled
<1>5. CulpritInv /\ HealthyNeverBlamed /\ HungStopsAll
  BY DEF CulpritInv, HealthyNeverBlamed, HungStopsAll, NewMgr
<1> QED
  BY <1>1, <1>2, <1>3, <1>4, <1>5 DEF IInv

\* Every step keeps it.
LEMMA NextIInv == IInv /\ [Next]_vars => IInv'
BY NextType, UnreachableStep, DrawStep, GrantStep, LateStep, ExchangeStep, SyncStep,
    HungStep, CulpritStep, BlameStep, StopStep
   DEF IInv

\* It holds in every state.
LEMMA IInvHolds == Spec => []IInv
BY InitIInv, NextIInv, PTL DEF Spec

\* A charger that works draws no more than some command of the last ClientTimeout
\* let it draw, whatever is lost, late or restarted.
THEOREM DrawIsBounded == Spec => []OverdrawBounded
<1>1. IInv => OverdrawBounded
  <2> SUFFICES ASSUME IInv, NEW c \in Chargers, ~evse[c].hung, evse[c].slot > 0
               PROVE  granted[c][evse[c].slot] <= ClientTimeout
    BY DEF OverdrawBounded
  <2>1. client[c].age < ClientTimeout /\ granted[c][evse[c].slot] <= client[c].age + 1
    BY DEF IInv, DrawInv
  <2>2. client[c].age \in Nat
    BY AgeCapType DEF IInv, TypeOK, ChargerTypeOK
  <2>3. evse[c].slot \in 1 .. MaxCurrent
    BY ChargeManagementAssumption DEF IInv, TypeOK, ChargerTypeOK, Evse, Currents
  <2>4. granted[c][evse[c].slot] \in Nat
    BY SMTT(20), <2>3, ChargeManagementAssumption DEF IInv, TypeOK, HistoryTypeOK
  <2> QED
    BY <2>1, <2>2, <2>4, ChargeManagementAssumption
<1> QED
  BY <1>1, IInvHolds, PTL

\* A charger whose current is given to others, since it was not heard, is off
\* unless it was told something after it was heard last.
THEOREM GivenUpIsOff == Spec => []CutOffIsOff
<1>1. IInv => CutOffIsOff
  <2> SUFFICES ASSUME IInv, NEW c \in Chargers, view[c].error = "ChargerUnreachable",
                      client[c].age >= view[c].age, ~evse[c].hung
               PROVE  evse[c].slot = 0
    BY DEF CutOffIsOff
  <2>1. view[c].age > UnreachableTimeout
    BY DEF IInv, UnreachableInv
  <2>2. client[c].age \in Nat /\ view[c].age \in Nat
    BY AgeCapType, ChargeManagementAssumption DEF IInv, TypeOK, ChargerTypeOK, ManagerTypeOK
  <2>3. ~(client[c].age < ClientTimeout)
    BY <2>1, <2>2, ChargeManagementAssumption
  <2>4. evse[c].slot \in Nat
    BY ChargeManagementAssumption DEF IInv, TypeOK, ChargerTypeOK, Evse, Currents
  <2>5. ~(evse[c].slot > 0)
    BY <2>3 DEF IInv, DrawInv
  <2> QED
    BY <2>4, <2>5
<1> QED
  BY <1>1, IInvHolds, PTL

\* Behind an undisturbed exchange the manager knows what the charger draws, and
\* from the second one on the charger draws what it is allotted, unless there
\* are as many chargers as the window of sequence numbers is wide.
THEOREM ExchangeSynchronises == Spec => []InSync
<1>1. IInv => InSync
  <2> SUFFICES ASSUME IInv, Cardinality(Chargers) < Window, NEW c \in Chargers,
                      turn[c].done = "state", ~turn[c].disturbed, ~evse[c].hung
               PROVE  /\ view[c].allowed = evse[c].slot
                      /\ mgr.allSeen /\ calm[c] > 0 => evse[c].slot = alloc[c].current
    BY DEF InSync
  <2>1. SyncOK(c)
    BY DEF IInv, SyncInv
  <2> QED
    BY <2>1 DEF SyncOK
<1> QED
  BY <1>1, IInvHolds, PTL

\* No charger that works is the reason for a shutdown once it was left alone for
\* as long as packets may be stale, with any number of chargers and faults.
THEOREM HealthyIsNotBlamed == Spec => []HealthyNeverBlamed
BY IInvHolds, PTL DEF IInv

\* A hung EVSE of a charger that is still heard stops all chargers.
THEOREM HungChargerStopsAll == Spec => []HungStopsAll
BY IInvHolds, PTL DEF IInv

=============================================================================
