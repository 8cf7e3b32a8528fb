---------------------------- MODULE FlowLifecycle ----------------------------
(***************************************************************************)
(* What the flow table promises of each flow generation, and what the      *)
(* reply to DeleteFlow promises its caller: a generation is created once,  *)
(* is used only while it is open, is closed only with the timestamp its    *)
(* deleter observed, and never comes back; and a final reply is only given *)
(* for a generation that is closed.                                        *)
(***************************************************************************)
EXTENDS Integers

CONSTANTS Generations, Timestamps, Observations

VARIABLES
    phase,      \* of each generation: unborn, creating, open or closed
    lastUse,    \* when it was last used
    request,    \* the DeleteFlow call being served, if any
    answer      \* the outcome of the last call

lifecycleVars == <<phase, lastUse, request, answer>>

NoRequest == [key |-> 0, observed |-> 0, closed |-> FALSE]

Init ==
    /\ phase = [k \in Generations |-> "unborn"]
    /\ lastUse = [k \in Generations |-> 0]
    /\ request = NoRequest
    /\ answer = "none"

\* The generation's record comes into being.
Create(k, t) ==
    /\ phase[k] = "unborn"
    /\ phase' = [phase EXCEPT ![k] = "creating"]
    /\ lastUse' = [lastUse EXCEPT ![k] = t]
    /\ UNCHANGED <<request, answer>>

\* Its indexes are in place: packets may use it.
Open(k) ==
    /\ phase[k] = "creating"
    /\ phase' = [phase EXCEPT ![k] = "open"]
    /\ UNCHANGED <<lastUse, request, answer>>

\* Its creator gives up.
Abandon(k) ==
    /\ phase[k] = "creating"
    /\ phase' = [phase EXCEPT ![k] = "closed"]
    /\ lastUse' = [lastUse EXCEPT ![k] = 0]
    /\ UNCHANGED <<request, answer>>

\* A packet is rewritten.
Use(k, t) ==
    /\ phase[k] = "open"
    /\ lastUse' = [lastUse EXCEPT ![k] = t]
    /\ UNCHANGED <<phase, request, answer>>

\* A caller asks for deletion, with the timestamp it has observed or 0.
Ask(k, observed) ==
    /\ request = NoRequest
    /\ phase[k] # "unborn"
    /\ request' = [key |-> k, observed |-> observed, closed |-> FALSE]
    /\ answer' = "none"
    /\ UNCHANGED <<phase, lastUse>>

\* The generation is closed on behalf of the caller.
Close ==
    /\ request # NoRequest
    /\ phase[request.key] \in {"creating", "open"}
    /\ request.observed \in {0, lastUse[request.key]}
    /\ phase' = [phase EXCEPT ![request.key] = "closed"]
    /\ lastUse' = [lastUse EXCEPT ![request.key] = 0]
    /\ request' = [request EXCEPT !.closed = TRUE]
    /\ UNCHANGED answer

\* The caller is answered.
Answer(a) ==
    /\ request # NoRequest
    /\ a \in {"Complete", "AlreadyAbsent", "StaleGeneration"} => phase[request.key] = "closed"
    /\ a \in {"AlreadyAbsent", "StaleGeneration", "ObservationMismatch"} => ~request.closed
    /\ request' = NoRequest
    /\ answer' = a
    /\ UNCHANGED <<phase, lastUse>>

Next ==
    \/ \E k \in Generations :
         \/ Open(k) \/ Abandon(k)
         \/ \E t \in Timestamps : Create(k, t) \/ Use(k, t)
         \/ \E observed \in Observations : Ask(k, observed)
    \/ Close
    \/ \E a \in {"Complete", "AlreadyAbsent", "StaleGeneration", "Partial",
                 "ObservationMismatch", "Err"} : Answer(a)

Spec == Init /\ [][Next]_lifecycleVars
=============================================================================
