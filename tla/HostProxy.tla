----------------------------- MODULE HostProxy -----------------------------
(***************************************************************************)
(* The running host proxy: UDP forwarding, TCP bridges, the maintenance    *)
(* task that retires flows by the host's retention policy, and run_bound,  *)
(* which starts and joins them.  The control service behind the RPCs is    *)
(* reduced to the flow a tuple has and the outcome of one DeleteFlow; a    *)
(* call the host gave up on may still be carried out later.                *)
(***************************************************************************)
EXTENDS UdpAssociations

CONSTANTS
    Sessions,       \* TCP sessions
    UdpIdle,        \* udp_idle_timeout, in units of age
    IdleTtl,        \* idle_ttl
    Grace,          \* tcp_terminal_grace
    MaxPackets,     \* packets of the workload
    MaxFaults       \* control operations that fail

ASSUME PolicyAssumption ==
    /\ UdpIdle \in Nat /\ IdleTtl \in Nat /\ Grace \in Nat
    /\ MaxPackets \in Nat /\ MaxFaults \in Nat

VARIABLES
    packets,        \* packets so far: the clock, and the source of generations
    maintenance,    \* the run_maintenance task
    late,           \* deletions the service carries out after the host gave up
    confirmed,      \* history: the flows whose deletion was confirmed
    session,        \* what each TCP session is doing
    tcp,            \* the accept task
    main,           \* run_bound
    faults          \* failed control operations so far

proxyVars == <<maintenance, session, tcp, main>>
serviceVars == <<packets, late, confirmed, faults>>
vars == <<flow, inbox, entries, association, udp, stop, proxyVars, serviceVars>>

NoFlow == [generation |-> 0, used |-> 0, age |-> 0, tcp |-> "open"]
MaxAge(i) == IF i \in UdpIds THEN UdpIdle ELSE IdleTtl

Asleep == [at |-> "sleep", cursor |-> 0, page |-> {}, pending |-> {}, queue |-> {},
           about |-> <<0, 0>>, holds |-> None]

Init ==
    /\ flow = [i \in Ids |-> NoFlow] /\ inbox = {} /\ packets = 0
    /\ UdpInit /\ stop = FALSE
    /\ maintenance = Asleep /\ late = {} /\ confirmed = {} /\ faults = 0
    /\ session = [s \in Sessions |-> "none"] /\ tcp = "accepting" /\ main = [at |-> "running", drains |-> {}]

-----------------------------------------------------------------------------
(* The dataplane and the clock.                                            *)

\* A packet from the workload makes a flow, unless its synthetic tuple belongs to
\* another one, or counts as a use of it.  A datagram may be lost on its way.  What
\* the dataplane does once the proxy is stopping no longer concerns the proxy.
Packet(i) ==
    /\ ~stop /\ packets < MaxPackets
    /\ packets' = packets + 1
    /\ \/ /\ \A j \in Ids : SyntheticOf[j] = SyntheticOf[i] => ~Present(j)
          /\ flow' = [flow EXCEPT ![i] = [NoFlow EXCEPT !.generation = packets', !.used = packets']]
       \/ /\ Present(i)
          /\ \E state \in {flow[i].tcp} \cup {"terminal", "reset"} :
               /\ state # flow[i].tcp => i \notin UdpIds /\ flow[i].tcp # "reset"
               /\ flow' = [flow EXCEPT ![i] = [@ EXCEPT !.used = packets', !.age = 0, !.tcp = state]]
    /\ inbox' \in {inbox} \cup {inbox \cup {SyntheticOf[i]} : j \in {i} \cap UdpIds}
    /\ UNCHANGED <<udpVars, stop, proxyVars, late, confirmed, faults>>

Tick(i) ==
    /\ ~stop /\ Present(i) /\ flow[i].age < MaxAge(i)
    /\ flow' = [flow EXCEPT ![i].age = @ + 1]
    /\ UNCHANGED <<inbox, udpVars, stop, proxyVars, serviceVars>>

-----------------------------------------------------------------------------
(* run_maintenance.                                                        *)

\* The retention policy, on what a page says of a flow: a reset, an idle flow, a
\* TCP flow that both sides have closed.
ExpiredRecord(i, r) ==
    \/ r.tcp = "reset"
    \/ r.tcp = "open" /\ r.age >= (IF i \in UdpIds THEN UdpIdle ELSE IdleTtl)
    \/ r.tcp = "terminal" /\ r.age >= Grace

Observation(i, r) == [id |-> i, generation |-> r.generation, used |-> r.used]

KeyOf(o) == <<o.id, o.generation>>

\* Between passes the task sleeps, and a shutdown wakes it first.
PassStarts ==
    /\ maintenance.at = "sleep" /\ ~stop
    /\ maintenance' = [maintenance EXCEPT !.at = "scan"]
    /\ UNCHANGED <<flow, inbox, udpVars, stop, session, tcp, main, serviceVars>>

\* EnumerateFlows with a batch of one: the next flow in the order of identities.
ReadPage ==
    /\ maintenance.at = "scan"
    /\ \E i \in Ids :
         /\ i > maintenance.cursor /\ Present(i)
         /\ \A j \in Ids : Present(j) /\ j > maintenance.cursor => i <= j
         /\ maintenance' = [maintenance EXCEPT !.at = "page", !.cursor = i, !.page = {<<i, flow[i]>>}]
    /\ UNCHANGED <<flow, inbox, udpVars, stop, session, tcp, main, serviceVars>>

\* observe_flow: the flow's incarnation is stamped on whatever is cached.
ObserveFlow(i, r) ==
    association' = [a \in Associations |->
        IF i \in UdpIds /\ a = entries[SyntheticOf[i]]
        THEN [association[a] EXCEPT !.flow_identity = <<i, r.generation>>]
        ELSE association[a]]

\* The newest observation of an incarnation replaces the old.
WithObservation(pending, i, r) ==
    IF ExpiredRecord(i, r)
    THEN {o \in pending : KeyOf(o) # <<i, r.generation>>} \cup {Observation(i, r)}
    ELSE pending

\* The records of a page.
ProcessPage ==
    /\ maintenance.at = "page"
    /\ \E p \in maintenance.page :
         /\ ObserveFlow(p[1], p[2])
         /\ maintenance' = [maintenance EXCEPT !.at = "scan", !.page = {},
                                               !.pending = WithObservation(@, p[1], p[2])]
    /\ UNCHANGED <<flow, inbox, entries, udp, stop, session, tcp, main, serviceVars>>

\* The last page was read, or the enumeration failed: either way the pending
\* deletions are tried.
ScanEnds ==
    /\ maintenance.at = "scan"
    /\ \/ (\A i \in Ids : Present(i) => i <= maintenance.cursor) /\ UNCHANGED faults
       \/ faults < MaxFaults /\ faults' = faults + 1
    /\ maintenance' = [maintenance EXCEPT !.at = "delete", !.queue = maintenance.pending]
    /\ UNCHANGED <<flow, inbox, udpVars, stop, session, tcp, main, packets, late, confirmed>>

\* DeleteFlow without its check that the flow was not used since.
DeleteOutcomeUnobserved(o) ==
    IF ~Present(o.id) THEN "already absent"
    ELSE IF flow[o.id].generation # o.generation THEN "stale generation"
    ELSE "complete"

\* DeleteFlow's answer to an observation.
DeleteOutcome(o) ==
    IF ~Present(o.id) THEN "already absent"
    ELSE IF flow[o.id].generation # o.generation THEN "stale generation"
    ELSE IF flow[o.id].used # o.used THEN "observation mismatch"
    ELSE "complete"

Deleted(o) == IF DeleteOutcome(o) = "complete" THEN [flow EXCEPT ![o.id] = NoFlow] ELSE flow

Gone(outcome) == outcome \in {"complete", "already absent"}

\* A host that takes only its own deletions for an end of the flow.
ConfirmsOwn(o) == o.id \in UdpIds /\ DeleteOutcome(o) = "complete"

\* A local association is invalidated when its flow is known to be gone.
Confirms(o) == o.id \in UdpIds /\ Gone(DeleteOutcome(o))

\* An answer in time: every outcome but a partial one settles the pending deletion.
DeleteFlow(o) ==
    /\ maintenance.at = "delete" /\ o \in maintenance.queue
    /\ flow' = Deleted(o)
    /\ maintenance' = [maintenance EXCEPT !.queue = @ \ {o}, !.pending = @ \ {o},
           !.about = IF Confirms(o) THEN KeyOf(o) ELSE @, !.at = IF Confirms(o) THEN "invalidate" ELSE @]
    /\ confirmed' = confirmed \cup {KeyOf(p) : p \in {q \in {o} : Gone(DeleteOutcome(q))}}
    /\ UNCHANGED <<inbox, udpVars, stop, session, tcp, main, packets, late, faults>>

\* Partial cleanup: retried on a later pass.
DeletePartial(o) ==
    /\ maintenance.at = "delete" /\ o \in maintenance.queue
    /\ DeleteOutcome(o) = "complete" /\ faults < MaxFaults
    /\ faults' = faults + 1
    /\ maintenance' = [maintenance EXCEPT !.queue = @ \ {o}]
    /\ UNCHANGED <<flow, inbox, udpVars, stop, session, tcp, main, packets, late, confirmed>>

\* Maintenance that ends with the first operation that fails.
DeleteTimesOutGivesUp(o) ==
    /\ maintenance.at = "delete" /\ o \in maintenance.queue
    /\ faults < MaxFaults
    /\ faults' = faults + 1
    /\ maintenance' = [maintenance EXCEPT !.at = "ended", !.queue = {}]
    /\ UNCHANGED <<flow, inbox, udpVars, stop, session, tcp, main, packets, late, confirmed>>

\* control_operation's deadline, or a lost connection: the request may have been
\* lost or may be carried out yet.
DeleteTimesOut(o) ==
    /\ maintenance.at = "delete" /\ o \in maintenance.queue
    /\ faults < MaxFaults
    /\ faults' = faults + 1
    /\ late' \in {late, late \cup {o}}
    /\ maintenance' = [maintenance EXCEPT !.queue = @ \ {o}]
    /\ UNCHANGED <<flow, inbox, udpVars, stop, session, tcp, main, packets, confirmed>>

LateDelete(o) ==
    /\ o \in late
    /\ late' = late \ {o}
    /\ flow' = Deleted(o)
    /\ UNCHANGED <<inbox, udpVars, stop, proxyVars, packets, confirmed, faults>>

Invalidated == [maintenance EXCEPT !.at = "delete", !.about = <<0, 0>>, !.holds = None]

\* invalidate: what is cached now is looked up and its stamp compared.
InvalidateFinds ==
    /\ maintenance.at = "invalidate"
    /\ LET a == entries[SyntheticOf[maintenance.about[1]]] IN
       \/ /\ a # None /\ association[a].flow_identity = maintenance.about
          /\ maintenance' = [maintenance EXCEPT !.at = "remove", !.holds = a]
       \/ /\ a # None => association[a].flow_identity # maintenance.about
          /\ maintenance' = Invalidated
    /\ UNCHANGED <<flow, inbox, udpVars, stop, session, tcp, main, serviceVars>>

\* It is removed only if it is still the one that was compared.
InvalidateRemoves ==
    /\ maintenance.at = "remove"
    /\ LET t == SyntheticOf[maintenance.about[1]]
           a == maintenance.holds
       IN  \/ /\ entries[t] = a
              /\ entries' = [entries EXCEPT ![t] = None]
              /\ association' = Cancelled(a)
              /\ maintenance' = [maintenance EXCEPT !.at = "await"]
           \/ /\ entries[t] # a
              /\ maintenance' = Invalidated
              /\ UNCHANGED <<entries, association>>
    /\ UNCHANGED <<flow, inbox, udp, stop, session, tcp, main, serviceVars>>

\* stop_association: not cut short by a shutdown.
InvalidateWaits ==
    /\ maintenance.at = "await" /\ Stopped(maintenance.holds)
    /\ maintenance' = Invalidated
    /\ UNCHANGED <<flow, inbox, udpVars, stop, session, tcp, main, serviceVars>>

\* The pass is over: the next one comes after the cleanup interval, or after the
\* retry delay when this one failed.
PassEnds ==
    /\ maintenance.at = "delete" /\ maintenance.queue = {}
    /\ maintenance' = [Asleep EXCEPT !.pending = maintenance.pending]
    /\ UNCHANGED <<flow, inbox, udpVars, stop, session, tcp, main, serviceVars>>

\* A shutdown interrupts the sleep and every control operation.
MaintenanceEnds ==
    /\ stop /\ maintenance.at \in {"sleep", "scan", "delete"}
    /\ maintenance' = [Asleep EXCEPT !.at = "ended"]
    /\ UNCHANGED <<flow, inbox, udpVars, stop, session, tcp, main, serviceVars>>

-----------------------------------------------------------------------------
(* run_tcp_tokio and bridge_tcp.                                           *)

SessionStep(s, from, to) ==
    /\ session[s] = from
    /\ session' = [session EXCEPT ![s] = to]
    /\ UNCHANGED <<flow, inbox, udpVars, stop, maintenance, tcp, main, serviceVars>>

Accept(s) == tcp = "accepting" /\ SessionStep(s, "none", "lookup")

\* The lookup found a TCP mapping of the connection's own family.
Mapped(s) == SessionStep(s, "lookup", "connect")

Connected(s) == SessionStep(s, "connect", "bridge")

\* A failed lookup or connection, or the end of either stream.
SessionEnds(s) == \E at \in {"lookup", "connect", "bridge"} : SessionStep(s, at, "none")

\* The shutdown fan-out, or a listener that fails as the conditional one may:
\* abort_all, and join_next until none is left.
AbortSessions ==
    /\ tcp = "accepting"
    /\ tcp' = "aborting"
    /\ UNCHANGED <<flow, inbox, udpVars, stop, maintenance, session, main, serviceVars>>

SessionAborted(s) ==
    /\ tcp = "aborting"
    /\ \E at \in {"lookup", "connect", "bridge"} : SessionStep(s, at, "none")

TcpEnds ==
    /\ tcp = "aborting" /\ \A s \in Sessions : session[s] = "none"
    /\ tcp' = "ended"
    /\ UNCHANGED <<flow, inbox, udpVars, stop, maintenance, session, main, serviceVars>>

-----------------------------------------------------------------------------
(* run_bound.                                                              *)

\* Ctrl-C, or the end of a sibling: everyone is told.
StopFanOut ==
    /\ main.at = "running"
    /\ stop' = TRUE
    /\ main' = [main EXCEPT !.at = "joining"]
    /\ UNCHANGED <<flow, inbox, udpVars, maintenance, session, tcp, serviceVars>>

SiblingEnded == (tcp = "ended" \/ udp.at = "ended") /\ StopFanOut

\* run_bound that drains the associations without waiting for maintenance.
DrainUnjoined ==
    /\ main.at = "joining"
    /\ tcp = "ended" /\ udp.at = "ended"
    /\ entries' = [t \in Tuples |-> None]
    /\ association' = [a \in Associations |->
           IF \E t \in Tuples : entries[t] = a THEN Cancelled(a)[a] ELSE association[a]]
    /\ main' = [at |-> "draining", drains |-> {entries[t] : t \in Tuples}]
    /\ UNCHANGED <<flow, inbox, udp, stop, maintenance, session, tcp, serviceVars>>

\* The siblings are joined; then the table is drained and what it held is cancelled.
Drain ==
    /\ main.at = "joining"
    /\ tcp = "ended" /\ udp.at = "ended" /\ maintenance.at = "ended"
    /\ entries' = [t \in Tuples |-> None]
    /\ association' = [a \in Associations |->
           IF \E t \in Tuples : entries[t] = a THEN Cancelled(a)[a] ELSE association[a]]
    /\ main' = [at |-> "draining", drains |-> {entries[t] : t \in Tuples}]
    /\ UNCHANGED <<flow, inbox, udp, stop, maintenance, session, tcp, serviceVars>>

Return ==
    /\ main.at = "draining" /\ \A a \in main.drains : Stopped(a)
    /\ main' = [at |-> "returned", drains |-> {}]
    /\ UNCHANGED <<flow, inbox, udpVars, stop, maintenance, session, tcp, serviceVars>>

-----------------------------------------------------------------------------
Maintenance ==
    \/ PassStarts \/ ReadPage \/ ProcessPage \/ ScanEnds
    \/ \E o \in maintenance.queue : DeleteFlow(o) \/ DeletePartial(o) \/ DeleteTimesOut(o)
    \/ InvalidateFinds \/ InvalidateRemoves \/ InvalidateWaits \/ PassEnds \/ MaintenanceEnds

Tcp ==
    \/ \E s \in Sessions : Accept(s) \/ Mapped(s) \/ Connected(s) \/ SessionEnds(s)
    \/ AbortSessions \/ (\E s \in Sessions : SessionAborted(s)) \/ TcpEnds

Next ==
    \/ \E i \in Ids : Packet(i) \/ Tick(i)
    \/ \E o \in late : LateDelete(o)
    \/ UdpTask /\ UNCHANGED <<proxyVars, serviceVars>>
    \/ \E a \in Associations : Relay(a) /\ UNCHANGED <<proxyVars, serviceVars>>
    \/ Maintenance
    \/ Tcp
    \/ StopFanOut \/ Drain \/ Return

Spec == Init /\ [][Next]_vars

\* The tasks are tokio's, which runs every task that can run; a control operation
\* ends by its deadline, and an aborted session at its next await.
FairSpec ==
    /\ Spec
    /\ WF_vars(UdpTask /\ UNCHANGED <<proxyVars, serviceVars>>)
    /\ WF_vars(Maintenance)
    /\ WF_vars((stop /\ AbortSessions) \/ (\E s \in Sessions : SessionAborted(s)) \/ TcpEnds)
    /\ WF_vars(SiblingEnded \/ Drain \/ Return)
    /\ \A a \in Associations : WF_vars(RelayStops(a) /\ UNCHANGED <<proxyVars, serviceVars>>)

-----------------------------------------------------------------------------
\* INV-010, while the proxy runs: a relay nobody told to stop is cached under its
\* tuple, where a deletion or a shutdown finds it, or is the one being published;
\* leaving the table never leaves a relay and its socket behind.
NoOrphanRelay ==
    \A a \in Associations :
        association[a].relay = "running" /\ ~association[a].cancel /\ ~stop =>
            entries[association[a].key] = a \/ (udp.at = "spawned" /\ udp.holds = a)

\* The flow is known to be gone and invalidate has run for it.
Settled(key) == key \in confirmed /\ (maintenance.about = key => maintenance.at = "await")

\* Nothing cached bears the identity of a flow that is settled, whatever was
\* forwarded, published or stamped in between, and whoever carried out the deletion.
SettledLeavesNoStamp ==
    \A t \in Tuples : entries[t] # None => ~Settled(association[entries[t]].flow_identity)

\* What the tasks of run_bound own is gone when it returns: no session, nothing
\* cached, no task that could put it back; only a relay that has been told to stop
\* may still be on its way out.
ReturnedMeansJoined ==
    main.at = "returned" =>
        /\ \A s \in Sessions : session[s] = "none"
        /\ \A t \in Tuples : entries[t] = None
        /\ udp.at = "ended" /\ maintenance.at = "ended" /\ tcp = "ended"

\* A flow goes only when the retention policy says so of the flow as it is at that
\* moment: neither a packet that came after the scan nor a request carried out late
\* makes maintenance remove a flow in use.
RemovesOnlyExpired ==
    [][\A i \in Ids : Present(i) /\ flow'[i].generation = 0 => ExpiredRecord(i, flow[i])]_vars

\* A shutdown, or a sibling that ended, is followed by run_bound's return and the
\* end of every relay: no task waits on one that waits on it.
ShutdownCompletes ==
    (stop \/ tcp = "ended") ~>
        (main.at = "returned" /\ \A a \in Associations : association[a].relay \in {"none", "done"})

\* A flow that stays expired is deleted while the proxy runs.
ExpiredGoes ==
    \A i \in Ids : (Present(i) /\ ExpiredRecord(i, flow[i])) ~> (stop \/ ~Present(i) \/ ~ExpiredRecord(i, flow[i]))

\* "Expiry, host-selected flow deletion, or a controlled outbound failure invalidates
\* the association": once the host's deletion of a flow is settled, the association
\* resolved from that flow is no longer cached.
DeletionInvalidates ==
    \A t \in Tuples : entries[t] # None => ~Settled(association[entries[t]].born)

-----------------------------------------------------------------------------
(* The inductive invariant behind the properties above.                    *)

FlowRecord == [generation : Nat, used : Nat, age : Nat, tcp : {"open", "terminal", "reset"}]
Observed == [id : Ids, generation : Nat \ {0}, used : Nat]
AssociationRecord ==
    [key : Tuples \cup {None}, destination : UdpIds \cup {None}, flow_identity : Nat \X Nat,
     born : Nat \X Nat, cancel : BOOLEAN, relay : {"none", "running", "done"}]
UdpRecord ==
    [at : {"recv", "resolve", "spawned", "stopping", "send", "ended"}, tuple : Tuples \cup {None},
     holds : Associations \cup {None}, victim : Associations \cup {None}, retried : BOOLEAN]
MaintenanceRecord ==
    [at : {"sleep", "scan", "page", "delete", "invalidate", "remove", "await", "ended"},
     cursor : Nat, page : SUBSET (Ids \X FlowRecord), pending : SUBSET Observed,
     queue : SUBSET Observed, about : Nat \X Nat, holds : Associations \cup {None}]

ProxyTypeOK ==
    /\ flow \in [Ids -> FlowRecord] /\ inbox \subseteq Tuples /\ packets \in Nat
    /\ entries \in [Tuples -> Associations \cup {None}]
    /\ association \in [Associations -> AssociationRecord]
    /\ udp \in UdpRecord /\ stop \in BOOLEAN
    /\ maintenance \in MaintenanceRecord
    /\ late \subseteq Observed /\ confirmed \subseteq Ids \X (Nat \ {0})
    /\ session \in [Sessions -> {"none", "lookup", "connect", "bridge"}]
    /\ tcp \in {"accepting", "aborting", "ended"}
    /\ main.at \in {"running", "joining", "draining", "returned"}

\* What the table holds was published under its own tuple, and what is being
\* published cannot be found in the table yet.
TableCoherent ==
    /\ \A t \in Tuples : entries[t] # None =>
           association[entries[t]].key = t /\ association[entries[t]].relay # "none"
    /\ \A a \in Associations : association[a].relay = "running" => association[a].key \in Tuples
    /\ udp.at \notin {"recv", "ended"} => udp.tuple \in Tuples
    /\ udp.at = "spawned" =>
           /\ udp.holds # None /\ association[udp.holds].key = udp.tuple
           /\ association[udp.holds].relay # "none"
           /\ association[udp.holds].flow_identity = <<0, 0>>
           /\ \A t \in Tuples : entries[t] # udp.holds

\* The shutdown fan-out has happened when run_bound is past it, a task that ended
\* owns nothing, and the table stays empty once it is drained.
JoinCoherent ==
    /\ main.at # "running" => stop
    /\ tcp = "ended" => \A s \in Sessions : session[s] = "none"
    /\ main.at \in {"draining", "returned"} =>
           /\ tcp = "ended" /\ udp.at = "ended" /\ maintenance.at = "ended"
           /\ \A t \in Tuples : entries[t] = None

\* Generations and uses come from the packets; an incarnation that was confirmed
\* gone never comes back, and a page in hand says nothing of one.
GenerationsPast ==
    /\ \A i \in Ids : flow[i].generation <= packets /\ flow[i].used <= packets
    /\ \A k \in confirmed : k[2] <= packets /\ flow[k[1]].generation # k[2]
    /\ \A o \in maintenance.pending \cup maintenance.queue \cup late :
           o.generation <= packets /\ o.used <= packets
    /\ maintenance.at # "page" => maintenance.page = {}
    /\ \A p \in maintenance.page :
           /\ p[2].generation \in 1 .. packets /\ p[2].used <= packets
           /\ <<p[1], p[2].generation>> \notin confirmed

\* A flow that is still as it was read only grows older.
ExpiryHolds ==
    /\ \A p \in maintenance.page :
           flow[p[1]].generation = p[2].generation /\ flow[p[1]].used = p[2].used =>
               flow[p[1]].tcp = p[2].tcp /\ flow[p[1]].age >= p[2].age
    /\ \A o \in maintenance.pending \cup maintenance.queue \cup late :
           flow[o.id].generation = o.generation /\ flow[o.id].used = o.used =>
               ExpiredRecord(o.id, flow[o.id])

\* A stamp is one of the tuple's own flows; while invalidate is between its two
\* looks at the table, only the association it found can bear the stamp.
StampsCoherent ==
    /\ \A a \in Associations : association[a].flow_identity # <<0, 0>> =>
           /\ association[a].flow_identity[1] \in UdpIds
           /\ association[a].key = SyntheticOf[association[a].flow_identity[1]]
    /\ IF maintenance.at \in {"invalidate", "remove", "await"}
       THEN maintenance.about[1] \in UdpIds
       ELSE maintenance.about = <<0, 0>>
    /\ maintenance.at = "remove" =>
           /\ maintenance.holds # None
           /\ \A t \in Tuples : entries[t] \notin {None, maintenance.holds} =>
                  association[entries[t]].flow_identity # maintenance.about

ProxyInv ==
    /\ ProxyTypeOK /\ TableCoherent /\ JoinCoherent /\ GenerationsPast /\ ExpiryHolds
    /\ StampsCoherent /\ NoOrphanRelay /\ SettledLeavesNoStamp

=============================================================================
