-------------------------- MODULE UdpAssociations --------------------------
(***************************************************************************)
(* The UDP side of the host proxy: the table of associations, the receive  *)
(* task that forwards one datagram at a time, and one relay task for each  *)
(* association.  Every await of the code at which another task may run is  *)
(* a boundary between two actions; the table's lock is held within one     *)
(* action only, and so is cancelling what has just left the table.         *)
(*                                                                         *)
(* The flows are the container's.  A flow's identity stands for the        *)
(* destination the workload contacted, which is what GetMapping answers.   *)
(***************************************************************************)
EXTENDS Naturals, FiniteSets

CONSTANTS
    Ids,            \* flow identities: natural numbers, in the scan's order
    SyntheticOf,    \* the synthetic tuple of a flow
    UdpIds,         \* the flows of protocol UDP
    MaxAssociations \* outbound sockets the host can open

ASSUME IdsAssumption ==
    Ids \subseteq Nat \ {0} /\ UdpIds \subseteq Ids /\ MaxAssociations \in Nat

VARIABLES
    flow,           \* the flows of the dataplane, by identity
    inbox,          \* the datagrams waiting at the proxy's UDP socket, by tuple
    entries,        \* the table: the association of a synthetic tuple, or None
    association,    \* every association made so far
    udp,            \* the run_udp task
    stop            \* the local shutdown fan-out

udpVars == <<entries, association, udp>>

None == 0
Associations == 1 .. MaxAssociations
Tuples == {SyntheticOf[i] : i \in UdpIds}

Present(i) == flow[i].generation # 0

\* An association that has not been made yet.  The incarnation it is born from is
\* history: the code knows flow_identity, what a scan last stamped on it.
Unmade == [key |-> None, destination |-> None, flow_identity |-> <<0, 0>>, born |-> <<0, 0>>,
           cancel |-> FALSE, relay |-> "none"]

\* new
AssociationsNew ==
    /\ entries = [t \in Tuples |-> None]
    /\ association = [a \in Associations |-> Unmade]

Receiving == [at |-> "recv", tuple |-> None, holds |-> None, victim |-> None, retried |-> FALSE]

UdpInit == AssociationsNew /\ udp = Receiving

-----------------------------------------------------------------------------
\* stop_association, up to its wait: the relay is told, unless it has ended.
Cancelled(a) == [association EXCEPT ![a].cancel = association[a].relay # "done"]

Stopped(a) == a # None => association[a].relay = "done"

\* A datagram is taken off the socket; an association of its exact tuple is reused.
Receive(t) ==
    /\ udp.at = "recv" /\ t \in inbox
    /\ inbox' = inbox \ {t}
    /\ udp' = [udp EXCEPT !.tuple = t, !.holds = entries[t],
                          !.at = IF entries[t] = None THEN "resolve" ELSE "send"]
    /\ UNCHANGED <<flow, entries, association, stop>>

SameDestination(a, b) == b # None /\ association[a].destination = association[b].destination

\* resolve_association, and insert_association up to its second hold of the table:
\* GetMapping answers with the destination of the tuple's flow, a candidate is built
\* around a socket connected to it, and its relay starts before anyone can find it
\* in the table.  This task alone inserts, so the first hold finds nothing to reuse.
Resolve ==
    /\ udp.at = "resolve"
    /\ \E a \in Associations, i \in UdpIds :
         /\ Present(i) /\ SyntheticOf[i] = udp.tuple
         /\ association[a].relay = "none"
         /\ \A b \in Associations : b < a => association[b].relay # "none"
         /\ association' = [association EXCEPT ![a] =
                [Unmade EXCEPT !.key = udp.tuple, !.destination = i, !.relay = "running",
                               !.born = <<i, flow[i].generation>>]]
         /\ udp' = [udp EXCEPT !.at = "spawned", !.holds = a]
    /\ UNCHANGED <<flow, inbox, entries, stop>>

\* The lookup failed, found nothing, or found a mapping of another protocol; or no
\* socket could be opened.
ResolveFails ==
    /\ udp.at = "resolve"
    /\ udp' = Receiving
    /\ UNCHANGED <<flow, inbox, entries, association, stop>>

\* insert_association, its second hold of the table: the candidate is published and
\* what it replaces is stopped, or the candidate is stopped and what is there is used.
Publish ==
    /\ udp.at = "spawned"
    /\ LET previous == entries[udp.tuple] IN
       \/ /\ SameDestination(udp.holds, previous)
          /\ association' = Cancelled(udp.holds)
          /\ udp' = [udp EXCEPT !.at = "stopping", !.victim = udp.holds, !.holds = previous]
          /\ UNCHANGED entries
       \/ /\ ~SameDestination(udp.holds, previous)
          /\ entries' = [entries EXCEPT ![udp.tuple] = udp.holds]
          /\ association' = IF previous = None THEN association ELSE Cancelled(previous)
          /\ udp' = [udp EXCEPT !.at = "stopping", !.victim = previous]
    /\ UNCHANGED <<flow, inbox, stop>>

\* stop_association: the relay has ended.  A refused send goes on to resolve again.
AwaitStopped ==
    /\ udp.at = "stopping" /\ Stopped(udp.victim)
    /\ udp' = [udp EXCEPT !.victim = None, !.at = IF udp.holds = None THEN "resolve" ELSE "send"]
    /\ UNCHANGED <<flow, inbox, entries, association, stop>>

\* The datagram is sent and the association touched.
SendSucceeds ==
    /\ udp.at = "send"
    /\ udp' = Receiving
    /\ UNCHANGED <<flow, inbox, entries, association, stop>>

\* The bug SendRefused guards against: what left the table keeps its relay.
SendRefusedKeepsRelay ==
    /\ udp.at = "send" /\ ~udp.retried
    /\ entries' = [entries EXCEPT ![udp.tuple] = None]
    /\ udp' = [udp EXCEPT !.at = "resolve", !.holds = None, !.retried = TRUE]
    /\ UNCHANGED <<flow, inbox, association, stop>>

\* The destination refused, timed out or is unreachable: whatever is cached for the tuple is removed and stopped, and the datagram
\* is resolved and sent once more.
SendRefused ==
    /\ udp.at = "send" /\ ~udp.retried
    /\ LET old == entries[udp.tuple] IN
         /\ entries' = [entries EXCEPT ![udp.tuple] = None]
         /\ association' = IF old = None THEN association ELSE Cancelled(old)
         /\ udp' = [udp EXCEPT !.at = "stopping", !.victim = old, !.holds = None, !.retried = TRUE]
    /\ UNCHANGED <<flow, inbox, stop>>

\* Any other error, or any error of the second send: the datagram is dropped and
\* the association stays.
SendFails ==
    /\ udp.at = "send"
    /\ udp' = Receiving
    /\ UNCHANGED <<flow, inbox, entries, association, stop>>

\* The receive task leaves at its next await, whatever it was forwarding.
UdpEnds ==
    /\ stop /\ udp.at # "ended"
    /\ udp' = [Receiving EXCEPT !.at = "ended"]
    /\ UNCHANGED <<flow, inbox, entries, association, stop>>

-----------------------------------------------------------------------------
\* finish_udp_relay: the relay removes its own association, if it is still cached,
\* and says that it is done.  What the association recorded goes with it, unless
\* someone may still find it.
FinishRelay(a) ==
    /\ association[a].relay = "running"
    /\ entries' = [entries EXCEPT ![association[a].key] = IF @ = a THEN None ELSE @]
    /\ association' = [association EXCEPT ![a] =
           [(IF udp.holds = a THEN @ ELSE Unmade) EXCEPT !.relay = "done"]]
    /\ UNCHANGED <<flow, inbox, udp, stop>>

\* A relay that listens to stop_association only.
RelayStopsCancelled(a) == association[a].cancel /\ FinishRelay(a)

\* spawn_udp_relay: the shutdown fan-out or stop_association reaches the relay.
RelayStops(a) == (stop \/ association[a].cancel) /\ FinishRelay(a)

\* spawn_udp_relay: the idle timeout since the last traffic, a receive error, or a
\* reply that could not be delivered.
RelayExpires(a) == FinishRelay(a)

-----------------------------------------------------------------------------
UdpTask ==
    \/ \E t \in Tuples : Receive(t)
    \/ Resolve \/ ResolveFails \/ Publish \/ AwaitStopped
    \/ SendSucceeds \/ SendRefused \/ SendFails \/ UdpEnds

Relay(a) == RelayStops(a) \/ RelayExpires(a)
=============================================================================
