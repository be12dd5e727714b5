----------------------------- MODULE RemoteCall -----------------------------
(***************************************************************************)
(* What await promises its callers, in the task scheduler and in the IO    *)
(* scheduler: a caller hands over a function and blocks; the function runs *)
(* at most once, only while its caller blocks, and the answer says whether *)
(* it ran.  Queues, notifications, timeouts and the threads that serve     *)
(* the calls are hidden.                                                   *)
(***************************************************************************)
CONSTANT Callers

VARIABLES
    calling, \* callers that are blocked
    served,  \* callers whose last function has run
    result,  \* the last answer of each caller
    down     \* a reboot was requested, answers may be cut short

vars == <<calling, served, result, down>>

Init ==
    /\ calling = {}
    /\ served = {}
    /\ result = [c \in Callers |-> "none"]
    /\ down = FALSE

Call(c) ==
    /\ c \notin calling
    /\ calling' = calling \cup {c}
    /\ served' = served \ {c}
    /\ result' = [result EXCEPT ![c] = "none"]
    /\ UNCHANGED down

\* The call is refused, the function does not run.
Refuse(c) ==
    /\ c \notin calling
    /\ served' = served \ {c}
    /\ result' = [result EXCEPT ![c] = "false"]
    /\ UNCHANGED <<calling, down>>

\* The function runs; it may request a reboot.
Serve(c) ==
    /\ c \in calling \ served
    /\ served' = served \cup {c}
    /\ down' \in {down, TRUE}
    /\ UNCHANGED <<calling, result>>

\* "true" only for a function that ran; once a reboot is requested the answer
\* may also be "false" for one that did.
Answer(c, r) ==
    /\ c \in calling
    /\ r = "true" => c \in served
    /\ r = "false" => c \notin served \/ down
    /\ calling' = calling \ {c}
    /\ result' = [result EXCEPT ![c] = r]
    /\ UNCHANGED <<served, down>>

ShutDown ==
    /\ down' = TRUE
    /\ UNCHANGED <<calling, served, result>>

Next ==
    \/ \E c \in Callers : Call(c) \/ Refuse(c) \/ Serve(c)
    \/ \E c \in Callers, r \in {"true", "false"} : Answer(c, r)
    \/ ShutDown

Spec == Init /\ [][Next]_vars
=============================================================================
