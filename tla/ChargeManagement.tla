-------------------------- MODULE ChargeManagement --------------------------
(***************************************************************************)
(* Charge management over UDP: a manager (charge_manager.cpp with the      *)
(* error handling of current_allocator.cpp) shares a current limit among   *)
(* chargers (evse_common.cpp), with cm_protocol.cpp between them.          *)
(*                                                                         *)
(* Time is discrete, a tick stands for the 10 s between two runs of the   *)
(* allocator.  In a tick the manager's task runs, then every charger is    *)
(* sent a command (in the code every second) and answers it (300 ms        *)
(* later): of all these the model keeps one exchange.  A packet arrives at *)
(* once, is lost, or is late: it then arrives any time before the end of   *)
(* the next tick.  Cars, EVSEs and restarts come in anywhere.              *)
(*                                                                         *)
(* The nine stages of the allocator are any distribution within the limit  *)
(* to chargers that are not off and want to charge.  Left out are phases,  *)
(* with the test for a charger that charges on none of them, the errors a  *)
(* charger reports of itself, which shut nobody down, those its packets    *)
(* show (wrong header, not managed), which shut all down as a hung EVSE    *)
(* does, and two managers that fight for one charger, which block it.      *)
(* granted, calm and culprits are history: no guard reads them.            *)
(***************************************************************************)
EXTENDS Integers, FiniteSets, FiniteSetsExt, Functions

CONSTANTS Chargers, First,      \* managed chargers, the one with index 0
          MaxCurrent, Limit,    \* what a charger supports, and all together
          ClientTimeout,        \* a charger without a manager: 30 s, in ticks
          ForgetTimeout,        \* and until it forgets the address: 60 s
          UnreachableTimeout,   \* CHARGER_UNREACHABLE_TIMEOUT
          StaleTimeout,         \* the 10 s of is_packet_stale
          Window,               \* window of stale sequence numbers
          Flaky,                \* bound: the chargers that something can happen to
          MaxFaults             \* bound: restarts, EVSEs that hang and late packets

ASSUME ChargeManagementAssumption ==
    /\ IsFiniteSet(Chargers) /\ First \in Chargers /\ Flaky \subseteq Chargers
    /\ MaxCurrent \in Nat /\ Limit \in Nat
    /\ ClientTimeout \in Nat /\ UnreachableTimeout \in Nat /\ StaleTimeout \in Nat
    /\ ForgetTimeout \in Nat \ {0} /\ ClientTimeout > 1
    /\ ClientTimeout <= UnreachableTimeout /\ StaleTimeout <= UnreachableTimeout
    /\ Window \in Nat /\ Window > 1 /\ MaxFaults \in Nat

VARIABLES
    evse,     \* the EVSE: managed slot, car plugged in, hung
    client,   \* the charger: age of last_current_update, manager_addr_valid
    view,     \* ChargerState and the error of ChargerAllocationState
    alloc,    \* ChargerAllocationState: current, age of last_sent_config
    mgr,      \* all_chargers_seen, uptime, whether its task ran in this tick
    late,     \* late packets
    turn,     \* per charger how far the exchange of this tick is, and if something came between
    granted,  \* how long ago a command last let a charger draw as much as this
    calm,     \* for how long nothing has happened to a charger or to all
    culprits, \* the chargers for which the last run shut everything down
    faults    \* how many of the bounded faults there were

mgrVars == <<view, alloc, mgr, culprits>>
vars == <<evse, client, mgrVars, late, turn, granted, calm, faults>>

Cap(n, max) == IF n < max THEN n ELSE max
AgeCap == IF ForgetTimeout > UnreachableTimeout THEN ForgetTimeout ELSE UnreachableTimeout + 1
Currents == 0 .. MaxCurrent
Settled == StaleTimeout + 2
Errors == {"OK", "EVSEUnreachable", "ChargerUnreachable", "EVSENonreactive"}
Fates == {"arrives", "lost", "late"}
Evse == [slot : Currents, car : BOOLEAN, hung : BOOLEAN]
Command == [current : Currents, ignore : BOOLEAN]
LatePackets(k, packets) ==
    [kind : {k}, to : Chargers, body : packets, since : Nat, last : Nat,
     numbers : {"same", "restart", "other"}, old : BOOLEAN]

\* The manager after a restart: everything is zero, time starts again.
NewView == [allowed |-> 0, car |-> FALSE, hung |-> FALSE, seen |-> FALSE, age |-> 0, error |-> "OK"]
NewAlloc == [current |-> 0, age |-> 0, set |-> FALSE]
NewMgr == [allSeen |-> FALSE, uptime |-> 0, ran |-> FALSE]

NoTurn == [done |-> "nothing", disturbed |-> FALSE]
Disturbed(c) == [turn EXCEPT ![c].disturbed = TRUE]

Init ==
    /\ view = [c \in Chargers |-> NewView] /\ alloc = [c \in Chargers |-> NewAlloc]
    /\ mgr = NewMgr /\ culprits = {}
    /\ evse = [c \in Chargers |-> [slot |-> 0, car |-> TRUE, hung |-> FALSE]]
    /\ client = [c \in Chargers |-> [age |-> 0, valid |-> FALSE]]
    /\ late = {} /\ turn = [c \in Chargers |-> NoTurn]
    /\ granted = [c \in Chargers |-> [v \in 1 .. MaxCurrent |-> ClientTimeout + 1]]
    /\ calm = [c \in Chargers |-> 0] /\ faults = 0

-----------------------------------------------------------------------------
(* Packets and sequence numbers. *)

\* Fault: no sequence number is stale.
FaultSeqNumInvalid(received_sn, last_seen_sn) == FALSE

seq_num_invalid(received_sn, last_seen_sn) ==
    received_sn <= last_seen_sn /\ last_seen_sn - received_sn < Window

\* A late packet q remembers how many packets were sent since, how many had been
\* when the last one arrived, and whether their numbers continue its own.  The
\* manager numbers the packets to all chargers with one counter.
Stale(q) ==
    LET stride == IF q.kind = "command" THEN Cardinality(Chargers) ELSE 1
    IN  seq_num_invalid(stride, IF q.last = 0 THEN 0 ELSE (q.last + 1) * stride)

\* A packet is sent: what becomes of it, and of the late ones before it.
Transmit(c, k, packet, fate) ==
    /\ fate # "arrives" => c \in Flaky
    /\ fate = "late" => faults < MaxFaults
    /\ faults' = IF fate = "late" THEN faults + 1 ELSE faults
    /\ turn' = [turn EXCEPT ![c] = [done |-> k, disturbed |-> @.disturbed \/ fate # "arrives"]]
    /\ LET behind == {IF q.kind # k \/ q.to # c THEN q
                      ELSE IF fate # "arrives" THEN [q EXCEPT !.since = @ + 1]
                      ELSE [q EXCEPT !.since = @ + 1, !.last = q.since + 1,
                                     !.numbers = IF @ = "restart" THEN "other" ELSE @] : q \in late}
           this == [kind |-> k, to |-> c, body |-> packet, since |-> 0, last |-> 0,
                    numbers |-> "same", old |-> FALSE]
       IN  late' = IF fate = "late" THEN behind \cup {this} ELSE behind

-----------------------------------------------------------------------------
(* A charger. *)

\* The receive task of register_client with the callback of EvseCommon.  There is
\* one manager, whose address does not change.
ReceiveCommand(c, p) ==
    /\ evse' = IF p.ignore \/ evse[c].hung THEN evse ELSE [evse EXCEPT ![c].slot = p.current]
    /\ client' = [client EXCEPT ![c] = [age |-> 0, valid |-> TRUE]]

\* No valid packet for 60 s: the address of the manager is forgotten.
ForgetManager(c) ==
    /\ client[c].valid /\ client[c].age >= ForgetTimeout
    /\ client' = [client EXCEPT ![c].valid = FALSE]
    /\ UNCHANGED <<evse, mgrVars, late, turn, granted, calm, faults>>

\* The car is unplugged, which clears the slot, or plugged in.
Plug(c) ==
    /\ c \in Flaky /\ ~evse[c].hung
    /\ evse' = [evse EXCEPT ![c] = [slot |-> IF @.car THEN 0 ELSE @.slot, car |-> ~@.car, hung |-> FALSE]]
    /\ turn' = Disturbed(c) /\ calm' = [calm EXCEPT ![c] = 0]
    /\ UNCHANGED <<client, mgrVars, late, granted, faults>>

\* The EVSE stops answering the charger.
Hang(c) ==
    /\ c \in Flaky /\ ~evse[c].hung /\ faults < MaxFaults
    /\ evse' = [evse EXCEPT ![c].hung = TRUE]
    /\ faults' = faults + 1
    /\ turn' = Disturbed(c) /\ calm' = [calm EXCEPT ![c] = 0]
    /\ UNCHANGED <<client, mgrVars, late, granted>>

\* Fault: a charger waits as long as the manager does, and longer.
FaultTimedOut(c) == client[c].age > UnreachableTimeout

\* The task of EvseCommon that shuts a charger down when no manager is heard.
TimedOut(c) == client[c].age + 1 >= ClientTimeout

-----------------------------------------------------------------------------
(* The manager. *)

\* Fault: every packet counts as news.
FaultIsPacketStale(c, p) == FALSE

\* is_packet_stale: the uptime of the EVSE has not changed.
IsPacketStale(c, p) == p.hung /\ view[c].hung

\* What update_from_client_packet does to last_sent_config: it looks at the
\* first charger's, whoever sent the packet.
WithLastSentConfig(a) ==
    IF a[First].set THEN a ELSE [a EXCEPT ![First].age = 0, ![First].set = TRUE]

\* Fault: without a car the rest of the packet is not looked at.
FaultReported(c, p) ==
    [view[c] EXCEPT !.car = p.car, !.seen = TRUE, !.age = 0,
                    !.allowed = IF p.car THEN p.slot ELSE @]

\* What the manager stores of a state packet of a charger without error_state.
Reported(c, p) ==
    [allowed |-> p.slot, car |-> p.car, hung |-> p.hung, seen |-> TRUE, age |-> 0, error |-> "OK"]

\* The receive task of register_manager with the callback of start_manager_task.
ReceiveState(c, p) ==
    IF IsPacketStale(c, p)
    THEN /\ view' = [view EXCEPT ![c].error =
                        IF view[c].age > StaleTimeout THEN "EVSEUnreachable" ELSE @]
         /\ alloc' = alloc
    ELSE /\ view' = [view EXCEPT ![c] = Reported(c, p)]
         /\ alloc' = WithLastSentConfig(
                        IF p.car THEN alloc ELSE [alloc EXCEPT ![c].current = 0])

\* send_client_packet and send_manager_update.
SendCommand(c, fate) ==
    /\ mgr.ran /\ turn[c].done = "nothing"
    /\ LET p == [current |-> alloc[c].current, ignore |-> ~mgr.allSeen \/ ~view[c].seen]
       IN  /\ Transmit(c, "command", p, fate)
           /\ IF fate = "arrives" THEN ReceiveCommand(c, p) ELSE UNCHANGED <<evse, client>>
           /\ granted' = [granted EXCEPT ![c] = [v \in 1 .. MaxCurrent |->
                             IF p.ignore \/ v <= p.current THEN 0 ELSE granted[c][v]]]
    /\ UNCHANGED <<mgrVars, calm>>

\* send_cm_client_update: what was read from the EVSE last.
SendState(c, fate) ==
    /\ client[c].valid /\ turn[c].done = "command"
    /\ Transmit(c, "state", evse[c], fate)
    /\ IF fate = "arrives" THEN ReceiveState(c, evse[c]) ELSE UNCHANGED <<view, alloc>>
    /\ UNCHANGED <<evse, client, mgr, culprits, granted, calm>>

\* Whether a late packet is taken for a stale one.  The numbers of a restarted
\* manager start again: what came before them may look newer.
TakenForStale(q) == IF q.numbers = "other" THEN BOOLEAN ELSE {Stale(q)}

\* A late packet arrives, and is looked at unless its number is stale.
ArriveLate(q) ==
    /\ late' = late \ {q}
    /\ \E stale \in TakenForStale(q) :
          /\ IF q.kind = "command" /\ ~stale
             THEN ReceiveCommand(q.to, q.body) ELSE UNCHANGED <<evse, client>>
          /\ IF q.kind = "state" /\ ~stale
             THEN ReceiveState(q.to, q.body) ELSE UNCHANGED <<view, alloc>>
    /\ turn' = IF q.numbers = "other" THEN Disturbed(q.to) ELSE turn
    /\ UNCHANGED <<mgr, culprits, granted, calm, faults>>

\* seen_all_chargers.
SeenAllChargers == mgr.uptime > ClientTimeout \/ \A c \in Chargers : view[c].seen

\* The task of setup that runs until all chargers were seen: the allocations
\* start as what the chargers report.
AdoptAllocations ==
    /\ ~mgr.allSeen /\ ~mgr.ran
    /\ mgr' = [mgr EXCEPT !.allSeen = SeenAllChargers, !.ran = TRUE]
    /\ alloc' = [c \in Chargers |-> [alloc[c] EXCEPT !.current = view[c].allowed]]
    /\ calm' = IF SeenAllChargers THEN [c \in Chargers |-> 0] ELSE calm
    /\ UNCHANGED <<evse, client, view, culprits, late, turn, granted, faults>>

Unreachable == {c \in Chargers : view[c].age > UnreachableTimeout}

Nonreactive == {c \in Chargers : /\ alloc[c].current < view[c].allowed
                                 /\ alloc[c].age > UnreachableTimeout}

\* unreachable_evse_found, for these.
Found == {c \in Chargers : view[c].error = "EVSEUnreachable"} \cup Nonreactive

Off == IF Found # {} THEN Chargers ELSE Unreachable

\* The stages: who may get how much.
Allocations ==
    {f \in [Chargers -> Currents] :
        /\ SumFunction(f) <= Limit
        /\ \A c \in Chargers : f[c] > 0 => c \notin Off /\ view[c].car}

\* The end of allocate_current, for one charger.
Applied(c, current) ==
    IF current = alloc[c].current \/ c \in Nonreactive
    THEN [alloc[c] EXCEPT !.current = current]
    ELSE [current |-> current, age |-> 0, set |-> TRUE]

\* run_allocator with allocate_current.
RunAllocator ==
    /\ mgr.allSeen /\ ~mgr.ran
    /\ mgr' = [mgr EXCEPT !.ran = TRUE]
    /\ culprits' = Found
    /\ view' = [c \in Chargers |-> [view[c] EXCEPT !.error =
                   IF c \in Nonreactive THEN "EVSENonreactive"
                   ELSE IF c \in Unreachable THEN "ChargerUnreachable"
                   ELSE IF @ = "EVSENonreactive" THEN "OK" ELSE @]]
    /\ \E f \in Allocations : alloc' = [c \in Chargers |-> Applied(c, f[c])]
    /\ UNCHANGED <<evse, client, late, turn, granted, calm, faults>>

\* The manager restarts; what was on the way to it is gone.
Restart ==
    /\ faults < MaxFaults
    /\ faults' = faults + 1
    /\ view' = [c \in Chargers |-> NewView] /\ alloc' = [c \in Chargers |-> NewAlloc]
    /\ mgr' = NewMgr /\ culprits' = {}
    /\ late' = {[q EXCEPT !.numbers = "restart"] : q \in {r \in late : r.kind = "command"}}
    /\ turn' = [c \in Chargers |-> [turn[c] EXCEPT !.disturbed = TRUE]]
    /\ calm' = [c \in Chargers |-> 0]
    /\ UNCHANGED <<evse, client, granted>>

-----------------------------------------------------------------------------
Tick ==
    /\ mgr.ran /\ \A q \in late : ~q.old
    /\ \A c \in Chargers : turn[c].done = "state" \/ (turn[c].done = "command" /\ ~client[c].valid)
    /\ evse' = [c \in Chargers |->
                  IF TimedOut(c) /\ ~evse[c].hung THEN [evse[c] EXCEPT !.slot = 0] ELSE evse[c]]
    /\ client' = [c \in Chargers |-> [client[c] EXCEPT !.age = Cap(@ + 1, AgeCap)]]
    /\ view' = [c \in Chargers |-> [view[c] EXCEPT !.age = Cap(@ + 1, UnreachableTimeout + 1)]]
    /\ alloc' = [c \in Chargers |-> [alloc[c] EXCEPT !.age = Cap(@ + 1, UnreachableTimeout + 1)]]
    /\ mgr' = [mgr EXCEPT !.uptime = Cap(@ + 1, ClientTimeout + 1), !.ran = FALSE]
    /\ late' = {[q EXCEPT !.old = TRUE] : q \in late}
    /\ turn' = [c \in Chargers |-> NoTurn]
    /\ granted' = [c \in Chargers |-> [v \in 1 .. MaxCurrent |->
                     Cap(granted[c][v] + 1, ClientTimeout + 1)]]
    /\ calm' = [c \in Chargers |-> IF turn[c].disturbed THEN 0 ELSE Cap(calm[c] + 1, Settled)]
    /\ UNCHANGED <<culprits, faults>>

Next ==
    \/ \E c \in Chargers, fate \in Fates : SendCommand(c, fate) \/ SendState(c, fate)
    \/ \E c \in Chargers : ForgetManager(c) \/ Plug(c) \/ Hang(c)
    \/ \E q \in late : ArriveLate(q)
    \/ AdoptAllocations \/ RunAllocator \/ Restart \/ Tick

Spec == Init /\ [][Next]_vars

-----------------------------------------------------------------------------
ChargerTypeOK ==
    /\ evse \in [Chargers -> Evse]
    /\ client \in [Chargers -> [age : 0 .. AgeCap, valid : BOOLEAN]]

ManagerTypeOK ==
    /\ view \in [Chargers -> [allowed : Currents, car : BOOLEAN, hung : BOOLEAN, seen : BOOLEAN,
                              age : 0 .. UnreachableTimeout + 1, error : Errors]]
    /\ alloc \in [Chargers -> [current : Currents, age : 0 .. UnreachableTimeout + 1, set : BOOLEAN]]
    /\ mgr \in [allSeen : BOOLEAN, uptime : 0 .. ClientTimeout + 1, ran : BOOLEAN]

PacketTypeOK ==
    /\ late \subseteq LatePackets("command", Command) \cup LatePackets("state", Evse)
    /\ turn \in [Chargers -> [done : {"nothing", "command", "state"}, disturbed : BOOLEAN]]

HistoryTypeOK ==
    /\ granted \in [Chargers -> [1 .. MaxCurrent -> 0 .. ClientTimeout + 1]]
    /\ calm \in [Chargers -> 0 .. Settled] /\ culprits \subseteq Chargers
    /\ faults \in 0 .. MaxFaults

\* The types.  That an allocation is never more than a charger supports and that
\* the errors are those of the allocator is what the stages and their checks make so.
TypeOK == ChargerTypeOK /\ ManagerTypeOK /\ PacketTypeOK /\ HistoryTypeOK

\* A charger whose EVSE works draws no more than some command of the last
\* ClientTimeout let it draw: it is told to draw less, or it shuts itself down,
\* whatever is lost or late and however often the allocation changes.
OverdrawBounded ==
    \A c \in Chargers :
        ~evse[c].hung /\ evse[c].slot > 0 => granted[c][evse[c].slot] <= ClientTimeout

\* A charger that has not been told anything since it was heard last has shut
\* itself down when the manager gives its current to others.
CutOffIsOff ==
    \A c \in Chargers :
        /\ view[c].error = "ChargerUnreachable"
        /\ client[c].age >= view[c].age
        /\ ~evse[c].hung
        => evse[c].slot = 0

\* After an exchange that nothing came between, the manager knows what the
\* charger does and, from the second one on, the charger does what the manager
\* allots, also when older packets arrive behind it.  With five chargers or more
\* the numbers of two commands differ by more than the window, and an old one
\* counts as new.
InSync ==
    Cardinality(Chargers) < Window => \A c \in Chargers :
        turn[c].done = "state" /\ ~turn[c].disturbed /\ ~evse[c].hung =>
            /\ view[c].allowed = evse[c].slot
            /\ mgr.allSeen /\ calm[c] > 0 => evse[c].slot = alloc[c].current

\* Nobody is shut down on account of a charger that works, once nothing has
\* happened to it for a while and the manager has not just taken over.
HealthyNeverBlamed ==
    mgr.ran => \A c \in culprits : calm[c] < Settled \/ evse[c].hung

\* A hung EVSE that is still connected stops everybody one tick after the time
\* in which its packets may be stale.
HungStopsAll ==
    \A c \in Chargers :
        evse[c].hung /\ calm[c] >= Settled /\ mgr.allSeen /\ mgr.ran =>
            \A d \in Chargers : alloc[d].current = 0

\* Not kept by the code, see section 6 of the README:
\* Current is taken from everybody only for a charger that is reachable; one that
\* is not is shut down alone.
OnlyUnreachableOff ==
    culprits # {} => \E c \in culprits : view[c].age <= UnreachableTimeout

\* Not kept by the code, see section 6 of the README:
\* A charger that the manager has not heard within 30 s of its start is not
\* charging.
UnseenHasStopped ==
    \A c \in Chargers : mgr.uptime > ClientTimeout /\ ~view[c].seen => evse[c].slot = 0
=============================================================================
