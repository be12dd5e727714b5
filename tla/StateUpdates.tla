---------------------------- MODULE StateUpdates ----------------------------
(***************************************************************************)
(* How a change of an API state reaches the event callbacks inside the     *)
(* firmware (event.cpp) and the MQTT broker (mqtt.cpp): every node of a    *)
(* config has an updated bit per backend, and push_state_updates (api.cpp) *)
(* hands the states whose bits are set to the backends every 250 ms.  The  *)
(* third backend, WebSockets, has a module of its own.                     *)
(*                                                                         *)
(* All of this runs on the main thread.  A push is cut into steps because  *)
(* the callbacks it calls may do almost anything in between: update        *)
(* states, register events, give up their own registration.  What they     *)
(* must not do is take another registration away (the firmware aborts)     *)
(* and, unless OwnUpdates, update the state they are called for.           *)
(* ESP-MQTT notices in its own thread that the connection is lost or back, *)
(* and schedules a task that tells the main thread.                        *)
(***************************************************************************)
EXTENDS Integers, Sequences, SequencesExt, FiniteSets

CONSTANTS N,                \* number of states
          Members, Root,    \* the nodes of a state, and its root
          LowLatency,       \* the states that are pushed every time
          Period,           \* the others are pushed every so many times: 4
          OwnUpdates,       \* callbacks may update the state they are called for
          MaxUpdates,       \* bound: updates
          MaxRegistrations, \* bound: registrations
          MaxLinkEvents     \* bound: times the connection is lost or comes back

ASSUME StateUpdatesAssumption ==
    /\ N \in Nat \ {0} /\ Period \in Nat \ {0} /\ LowLatency \subseteq 1 .. N /\ Root \notin Members
    /\ IsFiniteSet(Members) /\ Members # {} /\ OwnUpdates \in BOOLEAN
    /\ MaxUpdates \in Nat /\ MaxRegistrations \in Nat /\ MaxLinkEvents \in Nat

VARIABLES
    value,      \* per state and member, how often it was changed
    updated,    \* per state and backend, the nodes with the updated bit
    chain,      \* per state, its chain of StateUpdateRegistrations
    push,       \* how far push_state_updates is
    counter,    \* state_update_counter, modulo Period
    connected,  \* connection_state of mqtt is Connected
    due,        \* states whose send_interval has elapsed
    link,       \* ESP-MQTT has a connection
    events,     \* tasks with its news
    published,  \* per state, what the broker has
    updates, registrations, linkEvents

bounds == <<updates, registrations, linkEvents>>
mqtt == <<connected, due, link, events, published>>
vars == <<value, updated, chain, push, counter, mqtt, bounds>>

States == 1 .. N
Nodes == Members \cup {Root}
Backends == {"mqtt", "event"}
NotCalled == << >>

Idle == [at |-> 0, skip |-> FALSE, todo |-> {}, sent |-> {}, reg |-> 0]

\* Every bit of a new config is set.
Init ==
    /\ value = [s \in States |-> [m \in Members |-> 0]]
    /\ updated = [s \in States |-> [b \in Backends |-> Nodes]]
    /\ chain = [s \in States |-> << >>]
    /\ push = Idle /\ counter = 0
    /\ connected = FALSE /\ due = States /\ link = FALSE /\ events = << >>
    /\ published = [s \in States |-> NotCalled]
    /\ updates = 0 /\ registrations = 0 /\ linkEvents = 0

-----------------------------------------------------------------------------
(* Configs. *)

Under(node) == IF node = Root THEN Nodes ELSE {node}

\* Fault: only the bit of the node itself counts.
FaultWasUpdated(s, node, b) == node \in updated[s][b]

WasUpdated(s, node, b) == Under(node) \cap updated[s][b] # {}

ClearUpdated(s, bs) ==
    [updated EXCEPT ![s] = [b \in Backends |-> IF b \in bs THEN {} ELSE updated[s][b]]]

Content(s, node) == [m \in Under(node) \ {Root} |-> value[s][m]]

\* A member gets a new value.
Update(s, m) ==
    /\ updates < MaxUpdates /\ updates' = updates + 1
    /\ value' = [value EXCEPT ![s][m] = @ + 1]
    /\ updated' = [updated EXCEPT ![s] = [b \in Backends |-> updated[s][b] \cup {m}]]

-----------------------------------------------------------------------------
(* Registrations. *)

\* Fault: the callback is called at once in any case.
FaultFirstCallAlways(s, node) == Content(s, node)

\* What registerEvent does at once: the callback is called unless a push will.
FirstCall(s, node) == IF WasUpdated(s, node, "event") THEN NotCalled ELSE Content(s, node)

\* What it stores at the end of a chain, in these.
Registered(chains, s, node) ==
    [chains EXCEPT ![s] =
        Append(@, [id |-> registrations, node |-> node, seen |-> FirstCall(s, node)])]

\* registerEvent.  A callback that was called and wants no more is not stored.
RegisterEvent(s, node) ==
    /\ registrations < MaxRegistrations /\ registrations' = registrations + 1
    /\ \/ chain' = Registered(chain, s, node)
       \/ FirstCall(s, node) # NotCalled /\ UNCHANGED chain

\* A registration is taken out of these chains.
Unlinked(chains, s, i) == [chains EXCEPT ![s] = RemoveAt(@, i)]

\* Between two pushes.
Register ==
    /\ push = Idle
    /\ \E s \in States, node \in Nodes : RegisterEvent(s, node)
    /\ UNCHANGED <<value, updated, push, counter, mqtt, updates, linkEvents>>

DeregisterEvent ==
    /\ push = Idle
    /\ \E s \in States : \E i \in DOMAIN chain[s] : chain' = Unlinked(chain, s, i)
    /\ UNCHANGED <<value, updated, push, counter, mqtt, bounds>>

UpdateState ==
    /\ push = Idle
    /\ \E s \in States, m \in Members : Update(s, m)
    /\ UNCHANGED <<chain, push, counter, mqtt, registrations, linkEvents>>

-----------------------------------------------------------------------------
(* push_state_updates. *)

PushStart ==
    /\ push = Idle
    /\ push' = [Idle EXCEPT !.at = 1, !.skip = counter # 0]
    /\ counter' = (counter + 1) % Period
    /\ UNCHANGED <<value, updated, chain, mqtt, bounds>>

\* Behind a state comes the next one, or the end.
Behind(s) == IF s = N THEN Idle ELSE [Idle EXCEPT !.at = s + 1, !.skip = push.skip]

\* A state is passed over, or handed to the backends for which it was updated.
PushState ==
    /\ push.at > 0 /\ push.todo = {}
    /\ LET to_send == {b \in Backends : WasUpdated(push.at, Root, b)}
       IN  push' = IF (push.skip /\ push.at \notin LowLatency) \/ to_send = {}
                   THEN Behind(push.at) ELSE [push EXCEPT !.todo = to_send]
    /\ UNCHANGED <<value, updated, chain, counter, mqtt, bounds>>

\* It is this backend's turn: they are asked in the order of their registration.
Is(b) == b \in push.todo /\ (b = "event" => "mqtt" \notin push.todo)

\* A backend is done with, and has sent the state or not.  After the last one the
\* bits are cleared: clear_updated.
Handled(b, sent) ==
    LET all == IF sent THEN push.sent \cup {b} ELSE push.sent IN
    IF push.todo # {b}
    THEN push' = [push EXCEPT !.todo = @ \ {b}, !.sent = all] /\ UNCHANGED updated
    ELSE push' = Behind(push.at) /\ updated' = ClearUpdated(push.at, all)

\* Fault: while the interval has not elapsed the state counts as sent.
FaultMqttWants(s) == IF connected /\ s \in due THEN "AsString" ELSE "No"

\* Mqtt::wantsStateUpdate.
MqttWants(s) ==
    IF ~connected THEN "No" ELSE IF s \notin due THEN "Later" ELSE "AsString"

\* Mqtt::pushStateUpdate with publish_with_prefix.  Without a connection ESP-MQTT
\* may still take a message, which is then lost.
PushMqtt ==
    /\ Is("mqtt")
    /\ LET s == push.at IN
       \/ /\ MqttWants(s) # "AsString" /\ Handled("mqtt", MqttWants(s) = "No")
          /\ UNCHANGED <<due, published>>
       \/ /\ MqttWants(s) = "AsString" /\ Handled("mqtt", TRUE)
          /\ due' = due \ {s}
          /\ published' = IF link THEN [published EXCEPT ![s] = value[s]] ELSE published
       \/ /\ MqttWants(s) = "AsString" /\ ~link /\ Handled("mqtt", FALSE)
          /\ UNCHANGED <<due, published>>
    /\ UNCHANGED <<value, chain, counter, connected, link, events, bounds>>

\* Event::wantsStateUpdate is No, or pushStateUpdate has reached the end of the chain.
PushEventDone ==
    /\ Is("event") /\ push.reg = Len(chain[push.at])
    /\ Handled("event", TRUE)
    /\ UNCHANGED <<value, chain, counter, mqtt, bounds>>

\* A registration for another member is passed over.
PushEventSkip ==
    /\ Is("event") /\ push.reg < Len(chain[push.at])
    /\ ~WasUpdated(push.at, chain[push.at][push.reg + 1].node, "event")
    /\ push' = [push EXCEPT !.reg = @ + 1]
    /\ UNCHANGED <<value, updated, chain, counter, mqtt, bounds>>

\* Fault: the next registration is taken to be behind the removed one.
FaultNextReg(keep, i) == i

\* Where the loop goes on in the chain.
NextReg(keep, i) == IF keep THEN i ELSE i - 1

Called(s, i) == [chain EXCEPT ![s][i].seen = Content(s, chain[s][i].node)]

\* A callback is called.  It may update a state or register an event before it
\* keeps or gives up its registration.
PushEvent(keep) ==
    LET s == push.at
        i == push.reg + 1
        Left(chains) == IF keep THEN chains ELSE Unlinked(chains, s, i)
    IN
    /\ Is("event") /\ i <= Len(chain[s])
    /\ WasUpdated(s, chain[s][i].node, "event")
    /\ push' = [push EXCEPT !.reg = NextReg(keep, i)]
    /\ \/ chain' = Left(Called(s, i)) /\ UNCHANGED <<value, updated, updates, registrations>>
       \/ /\ \E u \in States, m \in Members : (u = s => OwnUpdates) /\ Update(u, m)
          /\ chain' = Left(Called(s, i)) /\ UNCHANGED registrations
       \/ /\ registrations < MaxRegistrations /\ registrations' = registrations + 1
          /\ \E u \in States, node \in Nodes : chain' = Left(Registered(Called(s, i), u, node))
          /\ UNCHANGED <<value, updated, updates>>
    /\ UNCHANGED <<counter, mqtt, linkEvents>>

Push ==
    \/ PushStart \/ PushState \/ PushMqtt \/ PushEventDone \/ PushEventSkip
    \/ \E keep \in BOOLEAN : PushEvent(keep)

-----------------------------------------------------------------------------
(* MQTT. *)

\* ESP-MQTT loses its connection or has one again, at any time.
LinkChanges ==
    /\ linkEvents < MaxLinkEvents /\ linkEvents' = linkEvents + 1
    /\ link' = ~link /\ events' = Append(events, link')
    /\ UNCHANGED <<value, updated, chain, push, counter, connected, due, published, updates, registrations>>

\* Fault: only what changed in the meantime is sent.
FaultOnMqttConnect == connected' = TRUE /\ UNCHANGED updated

OnMqttConnect ==
    /\ connected' = TRUE
    /\ updated' = [s \in States |-> [updated[s] EXCEPT !["mqtt"] = @ \cup {Root}]]

OnMqttDisconnect == connected' = FALSE /\ UNCHANGED updated

HandleLinkEvent ==
    /\ push = Idle /\ events # << >>
    /\ IF Head(events) THEN OnMqttConnect ELSE OnMqttDisconnect
    /\ events' = Tail(events)
    /\ UNCHANGED <<value, chain, push, counter, due, link, published, bounds>>

IntervalElapses(s) ==
    /\ s \notin due /\ due' = due \cup {s}
    /\ UNCHANGED <<value, updated, chain, push, counter, connected, link, events, published, bounds>>

Next ==
    \/ Register \/ DeregisterEvent \/ UpdateState \/ Push
    \/ LinkChanges \/ HandleLinkEvent \/ \E s \in States : IntervalElapses(s)

Spec == Init /\ [][Next]_vars

\* The task scheduler runs the task of API::setup again and again, and the tasks of
\* ESP-MQTT; intervals elapse.
Fairness ==
    /\ WF_vars(Push) /\ SF_vars(HandleLinkEvent)
    /\ \A s \in States : WF_vars(IntervalElapses(s))

LiveSpec == Spec /\ Fairness

-----------------------------------------------------------------------------
Regs == UNION {{<<s, i>> : i \in DOMAIN chain[s]} : s \in States}
Reg(r) == chain[r[1]][r[2]]

Seen == {NotCalled} \cup UNION {[Under(node) \ {Root} -> 0 .. MaxUpdates] : node \in Nodes}
Registration == [id : Nat, node : Nodes, seen : Seen]

StateTypeOK ==
    /\ updates \in 0 .. MaxUpdates /\ value \in [States -> [Members -> 0 .. updates]]
    /\ updated \in [States -> [Backends -> SUBSET Nodes]]

\* No two registrations share an id.
ChainTypeOK ==
    /\ chain \in [States -> Seq(Registration)] /\ registrations \in 0 .. MaxRegistrations
    /\ \A r, q \in Regs : Reg(r).id = Reg(q).id => r = q
    /\ \A r \in Regs : Reg(r).id < registrations

\* Nobody is called before it is the turn of the events, which are the last.
PushTypeOK ==
    /\ push \in [at : 0 .. N, skip : BOOLEAN, todo : SUBSET Backends, sent : SUBSET {"mqtt"}, reg : Nat]
    /\ push.at > 0 => push.reg <= Len(chain[push.at])
    /\ push.at = 0 => push = Idle
    /\ push.todo = {} => push.sent = {}
    /\ push.reg > 0 => push.todo = {"event"}
    /\ push.todo \cap push.sent = {}

MqttTypeOK ==
    /\ counter \in 0 .. Period - 1 /\ connected \in BOOLEAN /\ link \in BOOLEAN
    /\ events \in Seq(BOOLEAN) /\ due \subseteq States
    /\ published \in [States -> {NotCalled} \cup [Members -> 0 .. MaxUpdates]]

\* The types; the place of the push in a chain stays within the chain.
TypeOK == StateTypeOK /\ ChainTypeOK /\ PushTypeOK /\ MqttTypeOK

\* A callback that has not seen the newest content of its node will be called: the
\* bit is still there, whatever callbacks did during a push.
NoEventMissed ==
    \A r \in Regs : Reg(r).seen = Content(r[1], Reg(r).node) \/ WasUpdated(r[1], Reg(r).node, "event")

\* A callback that is called finds something new: nothing is delivered twice.
NothingTwice ==
    [][\A r \in Regs : push'.reg = r[2] /\ push.reg < r[2] /\ push.at = r[1] /\ push'.at = r[1]
            /\ WasUpdated(r[1], Reg(r).node, "event")
            => Reg(r).seen # Content(r[1], Reg(r).node)]_vars

\* When the connection is up, the main thread knows all about it, and nothing waits
\* to be sent, the broker has what the device has.
BrokerIsCurrent ==
    \A s \in States :
        link /\ events = << >> /\ ~WasUpdated(s, Root, "mqtt") => published[s] = value[s]

\* Every callback finally sees the newest content of its node.
EventsArrive == <>[](\A r \in Regs : Reg(r).seen = Content(r[1], Reg(r).node))

\* With a connection that stays the broker finally has every state.
BrokerCatchesUp == <>[]link => <>[](\A s \in States : published[s] = value[s])
=============================================================================
