-------------------------- MODULE HostProxyProofs --------------------------
(***************************************************************************)
(* Proofs about the host proxy, for any flows, tuples, sessions, retention *)
(* policy and number of associations: that leaving the table never leaves  *)
(* a relay behind, that a settled deletion leaves nothing cached with its  *)
(* identity, that run_bound returns joined, and that maintenance removes   *)
(* only what its policy calls expired.  ProxyInv is proved one conjunct at *)
(* a time, and each conjunct one task at a time.                           *)
(***************************************************************************)
EXTENDS HostProxy, TLAPS

(* Types.                                                                  *)

\* A flow of the UDP protocol has its tuple in the table's domain.
LEMMA TupleOfFlow == \A i \in UdpIds : SyntheticOf[i] \in Tuples
BY DEF Tuples

\* No association is numbered None.
LEMMA AssociationIds == None \notin Associations /\ Associations \subseteq Nat
BY IdsAssumption DEF Associations, None

\* The record an association starts from.
LEMMA UnmadeType == Unmade \in AssociationRecord
BY DEF Unmade, AssociationRecord

\* Cancelling touches the token of one association.
LEMMA CancelledType ==
    ASSUME association \in [Associations -> AssociationRecord], NEW a \in Associations
    PROVE  /\ Cancelled(a) \in [Associations -> AssociationRecord]
           /\ \A b \in Associations :
                /\ Cancelled(a)[b].key = association[b].key
                /\ Cancelled(a)[b].relay = association[b].relay
                /\ Cancelled(a)[b].destination = association[b].destination
                /\ Cancelled(a)[b].flow_identity = association[b].flow_identity
                /\ b # a => Cancelled(a)[b].cancel = association[b].cancel
           /\ association[a].relay = "running" => Cancelled(a)[a].cancel
<1> DEFINE stops == association[a].relay # "done"
<1>1. Cancelled(a) = [association EXCEPT ![a] = [association[a] EXCEPT !.cancel = stops]]
  BY DEF Cancelled
<1>2. association[a] \in AssociationRecord /\ stops \in BOOLEAN
  OBVIOUS
<1> HIDE DEF stops
<1>3. [association[a] EXCEPT !.cancel = stops] \in AssociationRecord
  BY <1>2 DEF AssociationRecord
<1>4. /\ Cancelled(a)[a].key = association[a].key
      /\ Cancelled(a)[a].relay = association[a].relay
      /\ Cancelled(a)[a].destination = association[a].destination
      /\ Cancelled(a)[a].flow_identity = association[a].flow_identity
      /\ Cancelled(a)[a].cancel = stops
  BY <1>1, <1>2 DEF AssociationRecord
<1>5. \A b \in Associations : b # a => Cancelled(a)[b] = association[b]
  BY <1>1
<1>6. Cancelled(a) \in [Associations -> AssociationRecord]
  BY <1>1, <1>3
<1> QED
  BY ZenonT(30), <1>4, <1>5, <1>6 DEF stops

\* Init satisfies the types.
LEMMA TypeInit == Init => ProxyTypeOK
<1> SUFFICES ASSUME Init PROVE ProxyTypeOK
  OBVIOUS
<1>1. NoFlow \in FlowRecord
  BY DEF NoFlow, FlowRecord
<1>2. Asleep \in MaintenanceRecord
  BY DEF Asleep, MaintenanceRecord
<1>3. Receiving \in UdpRecord
  BY DEF Receiving, UdpRecord
<1> QED
  BY ZenonT(30), <1>1, <1>2, <1>3, UnmadeType DEF Init, UdpInit, AssociationsNew, ProxyTypeOK

\* The end of a relay keeps the types, and changes one entry and one record.
LEMMA FinishRelayType ==
    ASSUME ProxyTypeOK, TableCoherent, NEW a \in Associations, FinishRelay(a)
    PROVE  /\ entries' \in [Tuples -> Associations \cup {None}]
           /\ association' \in [Associations -> AssociationRecord]
           /\ association[a].key \in Tuples
           /\ \A t \in Tuples : entries'[t] = IF t = association[a].key /\ entries[t] = a
                                              THEN None ELSE entries[t]
           /\ \A b \in Associations : b # a => association'[b] = association[b]
           /\ association'[a].relay = "done"
           /\ udp.holds = a => /\ association'[a].key = association[a].key
                               /\ association'[a].flow_identity = association[a].flow_identity
           /\ udp.holds # a => association'[a].flow_identity = <<0, 0>>
<1>1. association[a].key \in Tuples
  BY DEF FinishRelay, TableCoherent
<1>2. /\ association \in [Associations -> AssociationRecord]
      /\ entries \in [Tuples -> Associations \cup {None}]
  BY DEF ProxyTypeOK
<1>3. association' = [association EXCEPT ![a] =
           [(IF udp.holds = a THEN association[a] ELSE Unmade) EXCEPT !.relay = "done"]]
  BY DEF FinishRelay
<1>4. entries' = [entries EXCEPT ![association[a].key] = IF @ = a THEN None ELSE @]
  BY DEF FinishRelay
<1> DEFINE old == IF udp.holds = a THEN association[a] ELSE Unmade
<1>o. old \in AssociationRecord
  BY <1>2, UnmadeType
<1>p. association' = [association EXCEPT ![a] = [old EXCEPT !.relay = "done"]]
  BY <1>3
<1> HIDE DEF old
<1>q. [old EXCEPT !.relay = "done"] \in AssociationRecord
  BY <1>o DEF AssociationRecord
<1>5. association' \in [Associations -> AssociationRecord]
  BY <1>2, <1>p, <1>q
<1>6. entries' \in [Tuples -> Associations \cup {None}]
  BY <1>1, <1>2, <1>4
<1>7. \A t \in Tuples : entries'[t] = IF t = association[a].key /\ entries[t] = a
                                      THEN None ELSE entries[t]
  BY <1>1, <1>2, <1>4
<1>8. CASE udp.holds = a
  BY <1>1, <1>2, <1>3, <1>5, <1>6, <1>7, <1>8 DEF AssociationRecord
<1>9. CASE udp.holds # a
  <2>1. association'[a] = [Unmade EXCEPT !.relay = "done"]
    BY <1>2, <1>3, <1>9
  <2>2. association'[a].relay = "done" /\ association'[a].flow_identity = <<0, 0>>
    BY <2>1 DEF Unmade
  <2>3. \A b \in Associations : b # a => association'[b] = association[b]
    BY <1>2, <1>3
  <2> QED
    BY <1>1, <1>5, <1>6, <1>7, <1>9, <2>2, <2>3
<1> QED
  BY <1>8, <1>9

\* The tasks of UDP keep the types.
LEMMA UdpType ==
    ASSUME ProxyTypeOK, TableCoherent, UdpTask, UNCHANGED <<proxyVars, serviceVars>>
    PROVE  ProxyTypeOK'
<1> USE DEF ProxyTypeOK, proxyVars, serviceVars
<1>r. Receiving \in UdpRecord /\ [Receiving EXCEPT !.at = "ended"] \in UdpRecord
  BY ZenonT(30) DEF Receiving, UdpRecord
<1>1. CASE \E t \in Tuples : Receive(t)
  <2> PICK t \in Tuples : Receive(t)
    BY <1>1
  <2>1. udp' \in UdpRecord
    BY ZenonT(30) DEF Receive, UdpRecord
  <2> QED
    BY <2>1 DEF Receive
<1>2. CASE Resolve
  <2> PICK a \in Associations, i \in UdpIds :
         /\ association' = [association EXCEPT ![a] =
                [Unmade EXCEPT !.key = udp.tuple, !.destination = i, !.relay = "running",
                               !.born = <<i, flow[i].generation>>]]
         /\ udp' = [udp EXCEPT !.at = "spawned", !.holds = a]
    BY ZenonT(30), <1>2 DEF Resolve
  <2>1. udp' \in UdpRecord
    BY ZenonT(30) DEF UdpRecord
  <2>2. <<i, flow[i].generation>> \in Nat \X Nat
    BY IdsAssumption DEF FlowRecord
  <2>3. udp.tuple \in Tuples \cup {None}
    BY DEF UdpRecord
  <2>4. [Unmade EXCEPT !.key = udp.tuple, !.destination = i, !.relay = "running",
                       !.born = <<i, flow[i].generation>>] \in AssociationRecord
    BY ZenonT(30), <2>2, <2>3 DEF Unmade, AssociationRecord
  <2>5. association' \in [Associations -> AssociationRecord]
    BY <2>4
  <2> QED
    BY <1>2, <2>1, <2>5 DEF Resolve
<1>3. CASE ResolveFails \/ SendSucceeds \/ SendFails \/ UdpEnds
  BY <1>3, <1>r DEF ResolveFails, SendSucceeds, SendFails, UdpEnds
<1>4. CASE Publish
  <2>1. udp.tuple \in Tuples /\ udp.holds \in Associations
    BY <1>4 DEF Publish, TableCoherent, UdpRecord
  <2>2. entries[udp.tuple] \in Associations \cup {None}
    BY <2>1
  <2>3. association' \in [Associations -> AssociationRecord]
    BY <1>4, <2>1, <2>2, CancelledType DEF Publish
  <2>4. entries' \in [Tuples -> Associations \cup {None}]
    BY <1>4, <2>1 DEF Publish
  <2>5. udp' \in UdpRecord
    BY ZenonT(30), <1>4, <2>1, <2>2 DEF Publish, UdpRecord
  <2> QED
    BY <1>4, <2>3, <2>4, <2>5 DEF Publish
<1>5. CASE AwaitStopped
  <2>1. udp' \in UdpRecord
    BY ZenonT(30), <1>5 DEF AwaitStopped, UdpRecord
  <2> QED
    BY <1>5, <2>1 DEF AwaitStopped
<1>6. CASE SendRefused
  <2>1. udp.tuple \in Tuples
    BY <1>6 DEF SendRefused, TableCoherent, UdpRecord
  <2>2. entries[udp.tuple] \in Associations \cup {None}
    BY <2>1
  <2>3. association' \in [Associations -> AssociationRecord]
    BY <1>6, <2>2, CancelledType DEF SendRefused
  <2>4. entries' \in [Tuples -> Associations \cup {None}]
    BY <1>6, <2>1 DEF SendRefused
  <2>5. udp' \in UdpRecord
    BY ZenonT(30), <1>6, <2>2 DEF SendRefused, UdpRecord
  <2> QED
    BY <1>6, <2>3, <2>4, <2>5 DEF SendRefused
<1> QED
  BY <1>1, <1>2, <1>3, <1>4, <1>5, <1>6 DEF UdpTask

\* The dataplane keeps the types.
LEMMA DataplaneType ==
    ASSUME ProxyTypeOK, NEW i \in Ids, Packet(i) \/ Tick(i)
    PROVE  ProxyTypeOK'
<1> USE DEF ProxyTypeOK, proxyVars, serviceVars, udpVars
<1>1. CASE Tick(i)
  <2>1. flow[i] \in FlowRecord
    OBVIOUS
  <2>2. [flow[i] EXCEPT !.age = @ + 1] \in FlowRecord
    BY <2>1 DEF FlowRecord
  <2>3. flow' = [flow EXCEPT ![i] = [flow[i] EXCEPT !.age = @ + 1]]
    BY <1>1 DEF Tick
  <2>4. flow' \in [Ids -> FlowRecord]
    BY <2>2, <2>3
  <2> QED
    BY <1>1, <2>4 DEF Tick
<1>2. CASE Packet(i)
  <2>1. packets' \in Nat
    BY <1>2 DEF Packet
  <2>2. [NoFlow EXCEPT !.generation = packets', !.used = packets'] \in FlowRecord
    BY ZenonT(30), <2>1 DEF NoFlow, FlowRecord
  <2>3. \A state \in {flow[i].tcp} \cup {"terminal", "reset"} :
           [flow[i] EXCEPT !.used = packets', !.age = 0, !.tcp = state] \in FlowRecord
    BY ZenonT(30), <2>1 DEF FlowRecord
  <2>4. \/ flow' = [flow EXCEPT ![i] = [NoFlow EXCEPT !.generation = packets', !.used = packets']]
        \/ \E state \in {flow[i].tcp} \cup {"terminal", "reset"} :
             flow' = [flow EXCEPT ![i] = [flow[i] EXCEPT !.used = packets', !.age = 0, !.tcp = state]]
    BY <1>2 DEF Packet
  <2>5. flow' \in [Ids -> FlowRecord]
    BY <2>2, <2>3, <2>4
  <2>6. inbox' \subseteq Tuples
    <3>1. inbox' = inbox \/ (i \in UdpIds /\ inbox' = inbox \cup {SyntheticOf[i]})
      BY <1>2 DEF Packet
    <3> QED
      BY <3>1, TupleOfFlow
  <2> QED
    BY <1>2, <2>1, <2>5, <2>6 DEF Packet
<1> QED
  BY <1>1, <1>2

\* Carrying out a deletion keeps the flows' type.
LEMMA DeletedType ==
    ASSUME ProxyTypeOK, NEW o \in Observed
    PROVE  Deleted(o) \in [Ids -> FlowRecord]
<1>1. NoFlow \in FlowRecord
  BY DEF NoFlow, FlowRecord
<1> QED
  BY <1>1 DEF Deleted, ProxyTypeOK, Observed

\* A request carried out late keeps the types.
LEMMA LateType ==
    ASSUME ProxyTypeOK, NEW o \in late, LateDelete(o)
    PROVE  ProxyTypeOK'
BY DeletedType DEF LateDelete, ProxyTypeOK, proxyVars, udpVars

\* The sessions and run_bound keep the types.
LEMMA TcpMainType ==
    ASSUME ProxyTypeOK, Tcp \/ StopFanOut \/ Return
    PROVE  ProxyTypeOK'
<1> USE DEF ProxyTypeOK, serviceVars, udpVars
<1>1. ASSUME NEW s \in Sessions, NEW from \in {"none", "lookup", "connect", "bridge"},
             NEW to \in {"none", "lookup", "connect", "bridge"}, SessionStep(s, from, to)
      PROVE  ProxyTypeOK'
  BY <1>1 DEF SessionStep
<1>2. CASE Tcp
  BY <1>1, <1>2 DEF Tcp, Accept, Mapped, Connected, SessionEnds, AbortSessions, SessionAborted, TcpEnds
<1>3. CASE StopFanOut
  BY <1>3 DEF StopFanOut
<1>4. CASE Return
  BY <1>4 DEF Return
<1> QED
  BY <1>2, <1>3, <1>4

\* The steps of maintenance that leave the table alone keep the types.
LEMMA ScanType ==
    ASSUME ProxyTypeOK,
           PassStarts \/ ReadPage \/ ScanEnds \/ PassEnds \/ MaintenanceEnds
    PROVE  ProxyTypeOK'
<1> USE DEF ProxyTypeOK, serviceVars, udpVars
<1>1. SUFFICES maintenance' \in MaintenanceRecord
  BY ZenonT(30) DEF PassStarts, ReadPage, ScanEnds, PassEnds, MaintenanceEnds
<1>2. CASE PassStarts
  BY <1>2 DEF PassStarts, MaintenanceRecord
<1>3. CASE ReadPage
  <2> PICK i \in Ids : maintenance' =
         [maintenance EXCEPT !.at = "page", !.cursor = i, !.page = {<<i, flow[i]>>}]
    BY ZenonT(30), <1>3 DEF ReadPage
  <2>1. {<<i, flow[i]>>} \in SUBSET (Ids \X FlowRecord) /\ i \in Nat
    BY IdsAssumption
  <2> QED
    BY ZenonT(30), <2>1 DEF MaintenanceRecord
<1>4. CASE ScanEnds
  BY ZenonT(30), <1>4 DEF ScanEnds, MaintenanceRecord
<1>5. CASE PassEnds
  BY <1>5 DEF PassEnds, Asleep, MaintenanceRecord
<1>6. CASE MaintenanceEnds
  BY <1>6 DEF MaintenanceEnds, Asleep, MaintenanceRecord
<1> QED
  BY <1>2, <1>3, <1>4, <1>5, <1>6

\* The records of a page keep the types.
LEMMA PageType ==
    ASSUME ProxyTypeOK, GenerationsPast, ProcessPage
    PROVE  /\ ProxyTypeOK'
           /\ \A a \in Associations :
                /\ association'[a].key = association[a].key
                /\ association'[a].relay = association[a].relay
                /\ association'[a].cancel = association[a].cancel
<1> USE DEF ProxyTypeOK, serviceVars
<1> PICK p \in maintenance.page :
       /\ ObserveFlow(p[1], p[2])
       /\ maintenance' = [maintenance EXCEPT !.at = "scan", !.page = {},
                                             !.pending = WithObservation(@, p[1], p[2])]
  BY ZenonT(30) DEF ProcessPage
<1>1. p[1] \in Ids /\ p[2] \in FlowRecord /\ p[2].generation \in Nat \ {0}
  <2>1. p \in Ids \X FlowRecord
    BY DEF MaintenanceRecord
  <2>2. p[2].generation \in 1 .. packets
    BY ZenonT(30) DEF GenerationsPast
  <2> QED
    BY <2>1, <2>2
<1>2. WithObservation(maintenance.pending, p[1], p[2]) \in SUBSET Observed
  <2>1. Observation(p[1], p[2]) \in Observed
    BY <1>1 DEF Observation, Observed, FlowRecord
  <2> QED
    BY <2>1 DEF WithObservation, MaintenanceRecord
<1>3. maintenance' \in MaintenanceRecord
  BY ZenonT(30), <1>2 DEF MaintenanceRecord
<1>4. <<p[1], p[2].generation>> \in Nat \X Nat
  BY <1>1, IdsAssumption
<1>5. \A a \in Associations :
         /\ [association[a] EXCEPT !.flow_identity = <<p[1], p[2].generation>>] \in AssociationRecord
         /\ [association[a] EXCEPT !.flow_identity = <<p[1], p[2].generation>>].key = association[a].key
         /\ [association[a] EXCEPT !.flow_identity = <<p[1], p[2].generation>>].relay = association[a].relay
         /\ [association[a] EXCEPT !.flow_identity = <<p[1], p[2].generation>>].cancel = association[a].cancel
  <2> TAKE a \in Associations
  <2>1. association[a] \in AssociationRecord
    OBVIOUS
  <2> QED
    BY <1>4, <2>1 DEF AssociationRecord
<1>6. association' \in [Associations -> AssociationRecord]
  BY <1>5 DEF ObserveFlow
<1>7. \A a \in Associations :
         /\ association'[a].key = association[a].key
         /\ association'[a].relay = association[a].relay
         /\ association'[a].cancel = association[a].cancel
  BY <1>5 DEF ObserveFlow
<1> QED
  BY <1>3, <1>6, <1>7 DEF ProcessPage

\* The answers to a deletion keep the types.
LEMMA DeleteType ==
    ASSUME ProxyTypeOK, NEW o \in maintenance.queue,
           DeleteFlow(o) \/ DeletePartial(o) \/ DeleteTimesOut(o)
    PROVE  ProxyTypeOK'
<1> USE DEF ProxyTypeOK, serviceVars, udpVars
<1>1. o \in Observed /\ KeyOf(o) \in Ids \X (Nat \ {0}) /\ KeyOf(o) \in Nat \X Nat
  BY ZenonT(30), IdsAssumption DEF MaintenanceRecord, KeyOf, Observed
<1>2. CASE DeleteFlow(o)
  <2>1. flow' \in [Ids -> FlowRecord]
    BY <1>1, <1>2, DeletedType DEF DeleteFlow
  <2>2. confirmed' \subseteq Ids \X (Nat \ {0})
    BY <1>1, <1>2 DEF DeleteFlow
  <2>3. maintenance' \in MaintenanceRecord
    BY ZenonT(30), <1>1, <1>2 DEF DeleteFlow, MaintenanceRecord
  <2> QED
    BY <1>2, <2>1, <2>2, <2>3 DEF DeleteFlow
<1>3. CASE DeletePartial(o)
  <2>1. maintenance' \in MaintenanceRecord
    BY <1>3 DEF DeletePartial, MaintenanceRecord
  <2> QED
    BY <1>3, <2>1 DEF DeletePartial
<1>4. CASE DeleteTimesOut(o)
  <2>1. maintenance' \in MaintenanceRecord
    BY <1>4 DEF DeleteTimesOut, MaintenanceRecord
  <2>2. late' \subseteq Observed
    BY <1>1, <1>4 DEF DeleteTimesOut
  <2> QED
    BY <1>4, <2>1, <2>2 DEF DeleteTimesOut
<1> QED
  BY <1>2, <1>3, <1>4

\* Where an invalidation ends.
LEMMA InvalidatedType ==
    ASSUME ProxyTypeOK
    PROVE  /\ Invalidated \in MaintenanceRecord
           /\ Invalidated.at = "delete" /\ Invalidated.about = <<0, 0>>
           /\ Invalidated.page = maintenance.page
           /\ Invalidated.pending = maintenance.pending
           /\ Invalidated.queue = maintenance.queue
BY ZenonT(30) DEF ProxyTypeOK, Invalidated, MaintenanceRecord, None

\* The steps of invalidate keep the types.
LEMMA InvalidateType ==
    ASSUME ProxyTypeOK, StampsCoherent,
           InvalidateFinds \/ InvalidateRemoves \/ InvalidateWaits
    PROVE  ProxyTypeOK'
<1> USE DEF ProxyTypeOK, serviceVars, udpVars
<1> DEFINE t == SyntheticOf[maintenance.about[1]]
<1>1. t \in Tuples
  BY ZenonT(30), TupleOfFlow DEF StampsCoherent, InvalidateFinds, InvalidateRemoves, InvalidateWaits
<1>2. CASE InvalidateFinds
  <2>1. entries[t] \in Associations \cup {None}
    BY <1>1
  <2>2. [maintenance EXCEPT !.at = "remove", !.holds = entries[t]] \in MaintenanceRecord
    BY ZenonT(30), <2>1 DEF MaintenanceRecord
  <2>3. maintenance' \in MaintenanceRecord
    BY ZenonT(30), <1>2, <2>2, InvalidatedType DEF InvalidateFinds
  <2> QED
    BY ZenonT(30), <1>2, <2>3 DEF InvalidateFinds
<1>3. CASE InvalidateRemoves
  <2>1. maintenance.holds \in Associations
    BY <1>3 DEF InvalidateRemoves, StampsCoherent, MaintenanceRecord
  <2>2. association' \in [Associations -> AssociationRecord]
    BY <1>3, <2>1, CancelledType DEF InvalidateRemoves
  <2>3. entries' \in [Tuples -> Associations \cup {None}]
    BY <1>1, <1>3 DEF InvalidateRemoves
  <2>4. [maintenance EXCEPT !.at = "await"] \in MaintenanceRecord
    BY DEF MaintenanceRecord
  <2>5. maintenance' \in MaintenanceRecord
    BY <1>3, <2>4, InvalidatedType DEF InvalidateRemoves
  <2> QED
    BY <1>3, <2>2, <2>3, <2>5 DEF InvalidateRemoves
<1>4. CASE InvalidateWaits
  BY <1>4, InvalidatedType DEF InvalidateWaits
<1> QED
  BY <1>2, <1>3, <1>4

\* Draining empties the table, and touches tokens only.
LEMMA DrainType ==
    ASSUME ProxyTypeOK, Drain
    PROVE  /\ ProxyTypeOK'
           /\ \A a \in Associations :
                /\ association'[a].key = association[a].key
                /\ association'[a].relay = association[a].relay
                /\ association'[a].flow_identity = association[a].flow_identity
<1> USE DEF ProxyTypeOK, serviceVars
<1>1. \A a \in Associations :
         /\ Cancelled(a)[a] \in AssociationRecord
         /\ Cancelled(a)[a].key = association[a].key
         /\ Cancelled(a)[a].relay = association[a].relay
         /\ Cancelled(a)[a].flow_identity = association[a].flow_identity
  BY CancelledType
<1>2. association' \in [Associations -> AssociationRecord]
  BY <1>1 DEF Drain
<1>3. \A a \in Associations :
         /\ association'[a].key = association[a].key
         /\ association'[a].relay = association[a].relay
         /\ association'[a].flow_identity = association[a].flow_identity
  BY <1>1 DEF Drain
<1>4. entries' \in [Tuples -> Associations \cup {None}]
  BY DEF Drain
<1>5. main'.at \in {"running", "joining", "draining", "returned"}
  BY DEF Drain
<1> QED
  BY <1>2, <1>3, <1>4, <1>5 DEF Drain

-----------------------------------------------------------------------------
(* The table and the relays.                                               *)

\* Neither stamps nor tokens disturb what is cached and what is being published.
LEMMA TableFrame ==
    ASSUME ProxyTypeOK, TableCoherent, UNCHANGED <<entries, udp>>,
           \A a \in Associations :
               /\ association'[a].key = association[a].key
               /\ association'[a].relay = association[a].relay
               /\ (\A t \in Tuples : entries[t] # a) =>
                      association'[a].flow_identity = association[a].flow_identity
    PROVE  TableCoherent'
<1> USE DEF ProxyTypeOK, UdpRecord
<1>1. \A t \in Tuples : entries[t] # None => entries[t] \in Associations
  OBVIOUS
<1>2. udp.holds # None => udp.holds \in Associations
  OBVIOUS
<1> QED
  BY <1>1, <1>2 DEF TableCoherent

\* A relay that is found, or told to stop, stays so while the table stays.
LEMMA OrphanFrame ==
    ASSUME ProxyTypeOK, NoOrphanRelay, UNCHANGED <<entries, udp>>, stop => stop',
           \A a \in Associations :
               /\ association'[a].key = association[a].key
               /\ association'[a].relay = association[a].relay
               /\ association[a].cancel => association'[a].cancel
    PROVE  NoOrphanRelay'
BY DEF NoOrphanRelay

\* The receive task, up to the candidate's relay.
LEMMA ResolveTable ==
    ASSUME ProxyTypeOK, TableCoherent, NoOrphanRelay, Resolve
    PROVE  TableCoherent' /\ NoOrphanRelay'
<1> USE DEF ProxyTypeOK
<1> PICK a \in Associations, i \in UdpIds :
       /\ association[a].relay = "none"
       /\ association' = [association EXCEPT ![a] =
              [Unmade EXCEPT !.key = udp.tuple, !.destination = i, !.relay = "running",
                             !.born = <<i, flow[i].generation>>]]
       /\ udp' = [udp EXCEPT !.at = "spawned", !.holds = a]
  BY ZenonT(30) DEF Resolve
<1>1. udp.tuple \in Tuples
  BY DEF Resolve, TableCoherent
<1>2. /\ association'[a].key = udp.tuple /\ association'[a].relay = "running"
      /\ association'[a].flow_identity = <<0, 0>>
      /\ \A b \in Associations : b # a => association'[b] = association[b]
  BY DEF Unmade
<1>3. udp'.at = "spawned" /\ udp'.holds = a /\ udp'.tuple = udp.tuple
  BY DEF UdpRecord
<1>4. entries' = entries /\ stop' = stop /\ udp.at # "spawned"
  BY DEF Resolve
<1>5. \A t \in Tuples : entries[t] # a
  BY AssociationIds DEF TableCoherent
<1>6. \A t \in Tuples : entries[t] # None => entries[t] \in Associations
  OBVIOUS
<1>7. TableCoherent'
  BY <1>1, <1>2, <1>3, <1>4, <1>5, <1>6, AssociationIds DEF TableCoherent
<1>8. NoOrphanRelay'
  BY <1>2, <1>3, <1>4 DEF NoOrphanRelay
<1> QED
  BY <1>7, <1>8

\* Publication: what is replaced is told to stop in the same hold of the table.
LEMMA PublishTable ==
    ASSUME ProxyTypeOK, TableCoherent, NoOrphanRelay, Publish
    PROVE  TableCoherent' /\ NoOrphanRelay'
<1> USE DEF ProxyTypeOK
<1> DEFINE c == udp.holds
           previous == entries[udp.tuple]
<1>1. /\ udp.at = "spawned" /\ udp.tuple \in Tuples /\ c \in Associations
      /\ association[c].key = udp.tuple /\ association[c].relay # "none"
      /\ \A t \in Tuples : entries[t] # c
  BY DEF Publish, TableCoherent, UdpRecord
<1>2. previous \in Associations \cup {None} /\ stop' = stop
  BY <1>1 DEF Publish
<1>3. udp'.at = "stopping" /\ udp'.tuple = udp.tuple
  BY ZenonT(30) DEF Publish, UdpRecord
<1>4. \A t \in Tuples : entries[t] # None => entries[t] \in Associations
  OBVIOUS
<1>5. CASE SameDestination(c, previous)
  <2>1. association' = Cancelled(c) /\ entries' = entries
    BY <1>5 DEF Publish
  <2>2. /\ \A a \in Associations : /\ association'[a].key = association[a].key
                                   /\ association'[a].relay = association[a].relay
                                   /\ a # c => association'[a].cancel = association[a].cancel
        /\ association[c].relay = "running" => association'[c].cancel
    BY <1>1, <2>1, CancelledType
  <2> HIDE DEF c
  <2>3. TableCoherent'
    BY <1>1, <1>3, <1>4, <2>1, <2>2 DEF TableCoherent
  <2>4. NoOrphanRelay'
    BY <1>1, <1>2, <2>1, <2>2 DEF NoOrphanRelay, c
  <2> QED
    BY <2>3, <2>4
<1>6. CASE ~SameDestination(c, previous)
  <2>1. /\ entries' = [entries EXCEPT ![udp.tuple] = c]
        /\ association' = IF previous = None THEN association ELSE Cancelled(previous)
    BY <1>6 DEF Publish
  <2>2. /\ \A a \in Associations : /\ association'[a].key = association[a].key
                                   /\ association'[a].relay = association[a].relay
                                   /\ a # previous => association'[a].cancel = association[a].cancel
        /\ previous # None /\ association[previous].relay = "running" => association'[previous].cancel
    BY <1>2, <2>1, CancelledType
  <2>3. entries'[udp.tuple] = c /\ \A t \in Tuples : t # udp.tuple => entries'[t] = entries[t]
    BY <1>1, <2>1
  <2> HIDE DEF c, previous
  <2>4. TableCoherent'
    BY <1>1, <1>3, <1>4, <2>2, <2>3 DEF TableCoherent
  <2>5. ASSUME NEW a \in Associations, association'[a].relay = "running", ~association'[a].cancel, ~stop'
        PROVE  entries'[association'[a].key] = a
    <3>1. a # previous
      BY <1>2, <2>2, <2>5, AssociationIds
    <3>2. entries[association[a].key] = a \/ a = c
      BY <1>2, <2>2, <2>5, <3>1 DEF NoOrphanRelay, c
    <3>3. association[a].key \in Tuples
      BY <2>2, <2>5 DEF TableCoherent
    <3>4. CASE a = c
      BY <1>1, <2>2, <2>3, <3>4
    <3>5. CASE a # c
      BY <2>2, <2>3, <3>1, <3>2, <3>3, <3>5 DEF previous
    <3> QED
      BY <3>4, <3>5
  <2> QED
    BY <2>4, <2>5 DEF NoOrphanRelay
<1> QED
  BY <1>5, <1>6

\* What a step takes out of the table and tells to stop, with nothing else touched,
\* leaves the table coherent and no relay behind.
LEMMA RemovalTable ==
    ASSUME ProxyTypeOK, TableCoherent, NoOrphanRelay, NEW t \in Tuples,
           entries' = [entries EXCEPT ![t] = None],
           association' = IF entries[t] = None THEN association ELSE Cancelled(entries[t]),
           stop' = stop, udp'.at = "spawned" => udp' = udp,
           udp.at = "spawned" => udp' = udp, udp'.at \notin {"recv", "ended"} => udp'.tuple \in Tuples
    PROVE  TableCoherent' /\ NoOrphanRelay'
<1> USE DEF ProxyTypeOK
<1> DEFINE old == entries[t]
<1>1. old \in Associations \cup {None}
  OBVIOUS
<1>2. /\ \A a \in Associations : /\ association'[a].key = association[a].key
                                 /\ association'[a].relay = association[a].relay
                                 /\ association'[a].flow_identity = association[a].flow_identity
                                 /\ a # old => association'[a].cancel = association[a].cancel
      /\ old # None /\ association[old].relay = "running" => association'[old].cancel
  BY <1>1, CancelledType
<1>3. entries'[t] = None /\ \A s \in Tuples : s # t => entries'[s] = entries[s]
  OBVIOUS
<1>4. \A s \in Tuples : entries[s] # None => entries[s] \in Associations
  OBVIOUS
<1>5. udp.holds # None => udp.holds \in Associations
  BY DEF UdpRecord
<1>6. TableCoherent'
  <2> HIDE DEF ProxyTypeOK
  <2>1. CASE udp'.at = "spawned"
    <3>1. udp' = udp
      BY <2>1
    <3>2. udp.holds \in Associations /\ \A s \in Tuples : entries'[s] # udp.holds
      BY <1>3, <1>5, <2>1, <3>1, AssociationIds DEF TableCoherent
    <3> QED
      BY <1>2, <1>3, <1>4, <2>1, <3>1, <3>2 DEF TableCoherent
  <2>2. CASE udp'.at # "spawned"
    BY <1>2, <1>3, <1>4, <2>2 DEF TableCoherent
  <2> QED
    BY <2>1, <2>2
<1>7. ASSUME NEW a \in Associations, association'[a].relay = "running", ~association'[a].cancel, ~stop'
      PROVE  entries'[association'[a].key] = a \/ (udp'.at = "spawned" /\ udp'.holds = a)
  <2>1. a # old
    BY <1>1, <1>2, <1>7, AssociationIds
  <2>2. entries[association[a].key] = a \/ (udp.at = "spawned" /\ udp.holds = a)
    BY <1>2, <1>7, <2>1 DEF NoOrphanRelay
  <2>3. association[a].key \in Tuples
    BY <1>2, <1>7 DEF TableCoherent
  <2> QED
    BY <1>2, <1>3, <2>1, <2>2, <2>3
<1> QED
  BY <1>6, <1>7 DEF NoOrphanRelay

\* The receive task keeps the table coherent and leaves no relay behind.
LEMMA UdpTable ==
    ASSUME ProxyTypeOK, TableCoherent, NoOrphanRelay, UdpTask
    PROVE  TableCoherent' /\ NoOrphanRelay'
<1>1. ASSUME UNCHANGED <<entries, association, stop>>, udp'.at # "spawned",
             udp.at # "spawned" \/ stop, udp'.at \notin {"recv", "ended"} => udp'.tuple \in Tuples
      PROVE  TableCoherent' /\ NoOrphanRelay'
  BY <1>1 DEF TableCoherent, NoOrphanRelay
<1>2. CASE \E t \in Tuples : Receive(t)
  <2> PICK t \in Tuples : Receive(t)
    BY <1>2
  <2>1. udp'.at \in {"resolve", "send"} /\ udp'.tuple = t
    BY DEF Receive, ProxyTypeOK, UdpRecord
  <2> QED
    BY <1>1, <2>1 DEF Receive
<1>3. CASE ResolveFails \/ SendSucceeds \/ SendFails \/ UdpEnds
  <2>1. udp'.at \in {"recv", "ended"}
    BY <1>3 DEF ResolveFails, SendSucceeds, SendFails, UdpEnds, Receiving
  <2> QED
    BY <1>1, <1>3, <2>1 DEF ResolveFails, SendSucceeds, SendFails, UdpEnds
<1>4. CASE AwaitStopped
  <2>1. udp'.at \in {"resolve", "send"} /\ udp'.tuple = udp.tuple /\ udp.tuple \in Tuples
    BY <1>4 DEF AwaitStopped, ProxyTypeOK, UdpRecord, TableCoherent
  <2> QED
    BY <1>1, <1>4, <2>1 DEF AwaitStopped
<1>5. CASE SendRefused
  <2>1. udp.tuple \in Tuples /\ udp'.tuple = udp.tuple /\ udp'.at = "stopping" /\ udp.at = "send"
    BY <1>5 DEF SendRefused, ProxyTypeOK, UdpRecord, TableCoherent
  <2>2. /\ entries' = [entries EXCEPT ![udp.tuple] = None] /\ stop' = stop
        /\ association' = IF entries[udp.tuple] = None THEN association ELSE Cancelled(entries[udp.tuple])
    BY <1>5 DEF SendRefused
  <2> QED
    BY ZenonT(30), <2>1, <2>2, RemovalTable
<1> QED
  BY <1>2, <1>3, <1>4, <1>5, ResolveTable, PublishTable DEF UdpTask

\* A relay that ends takes its own association out of the table, and only that one.
LEMMA FinishRelayTable ==
    ASSUME ProxyTypeOK, TableCoherent, NoOrphanRelay, NEW a \in Associations, FinishRelay(a)
    PROVE  TableCoherent' /\ NoOrphanRelay'
<1>1. /\ association[a].key \in Tuples
      /\ \A t \in Tuples : entries'[t] = IF t = association[a].key /\ entries[t] = a
                                         THEN None ELSE entries[t]
      /\ \A b \in Associations : b # a => association'[b] = association[b]
      /\ association'[a].relay = "done"
      /\ udp.holds = a => /\ association'[a].key = association[a].key
                          /\ association'[a].flow_identity = association[a].flow_identity
  BY FinishRelayType
<1>2. udp' = udp /\ stop' = stop /\ association[a].relay = "running"
  BY DEF FinishRelay
<1>3. \A t \in Tuples : entries[t] = a => entries'[t] = None
  BY <1>1, AssociationIds DEF TableCoherent
<1>4. \A t \in Tuples : entries[t] # None => entries[t] \in Associations
  BY DEF ProxyTypeOK
<1>5. udp.holds # None => udp.holds \in Associations
  BY DEF ProxyTypeOK, UdpRecord
<1>6. \A t \in Tuples : entries'[t] # None =>
         entries'[t] = entries[t] /\ entries[t] # a /\ association'[entries[t]] = association[entries[t]]
  BY <1>1, <1>3, <1>4
<1>7. TableCoherent'
  <2>1. \A t \in Tuples : entries'[t] # None =>
           association'[entries'[t]].key = t /\ association'[entries'[t]].relay # "none"
    BY <1>6 DEF TableCoherent
  <2>2. \A b \in Associations : association'[b].relay = "running" => association'[b].key \in Tuples
    BY <1>1 DEF TableCoherent
  <2>3. udp'.at \notin {"recv", "ended"} => udp'.tuple \in Tuples
    BY <1>2 DEF TableCoherent
  <2>4. udp'.at = "spawned" =>
           /\ udp'.holds # None /\ association'[udp'.holds].key = udp'.tuple
           /\ association'[udp'.holds].relay # "none"
           /\ association'[udp'.holds].flow_identity = <<0, 0>>
           /\ \A t \in Tuples : entries'[t] # udp'.holds
    BY <1>1, <1>2, <1>5, <1>6 DEF TableCoherent
  <2> QED
    BY <2>1, <2>2, <2>3, <2>4 DEF TableCoherent
<1>8. NoOrphanRelay'
  <2> SUFFICES ASSUME NEW b \in Associations, association'[b].relay = "running", ~association'[b].cancel, ~stop'
               PROVE  entries'[association'[b].key] = b \/ (udp'.at = "spawned" /\ udp'.holds = b)
    BY DEF NoOrphanRelay
  <2>1. b # a /\ association'[b] = association[b]
    BY <1>1
  <2>2. entries[association[b].key] = b \/ (udp.at = "spawned" /\ udp.holds = b)
    BY <1>2, <2>1 DEF NoOrphanRelay
  <2>3. association[b].key \in Tuples
    BY <2>1 DEF TableCoherent
  <2> QED
    BY <1>1, <1>2, <2>1, <2>2, <2>3
<1> QED
  BY <1>7, <1>8

\* Maintenance keeps the table coherent and leaves no relay behind.
LEMMA MaintenanceTable ==
    ASSUME ProxyTypeOK, TableCoherent, NoOrphanRelay, GenerationsPast, StampsCoherent, Maintenance
    PROVE  TableCoherent' /\ NoOrphanRelay'
<1>1. CASE UNCHANGED <<udpVars, stop>>
  BY <1>1, TableFrame, OrphanFrame DEF udpVars
<1>2. CASE ProcessPage
  <2>1. UNCHANGED <<entries, udp, stop>>
    BY <1>2 DEF ProcessPage
  <2>2. \A a \in Associations :
           /\ association'[a].key = association[a].key
           /\ association'[a].relay = association[a].relay
           /\ association'[a].cancel = association[a].cancel
    BY <1>2, PageType
  <2>3. \A a \in Associations : (\A t \in Tuples : entries[t] # a) =>
           association'[a].flow_identity = association[a].flow_identity
    BY <1>2, TupleOfFlow DEF ProcessPage, ObserveFlow
  <2> QED
    BY <2>1, <2>2, <2>3, TableFrame, OrphanFrame
<1>3. CASE InvalidateRemoves
  <2> DEFINE t == SyntheticOf[maintenance.about[1]]
  <2>1. t \in Tuples
    BY <1>3, TupleOfFlow DEF InvalidateRemoves, StampsCoherent
  <2>2. maintenance.holds # None /\ udp' = udp /\ stop' = stop
    BY <1>3 DEF InvalidateRemoves, StampsCoherent
  <2>3. \/ /\ entries[t] = maintenance.holds /\ entries' = [entries EXCEPT ![t] = None]
           /\ association' = Cancelled(entries[t])
        \/ UNCHANGED <<udpVars, stop>>
    BY <1>3 DEF InvalidateRemoves, udpVars
  <2>4. udp.at \notin {"recv", "ended"} => udp.tuple \in Tuples
    BY DEF TableCoherent
  <2> HIDE DEF t
  <2> QED
    BY <1>1, <2>1, <2>2, <2>3, <2>4, RemovalTable
<1> QED
  BY ZenonT(30), <1>1, <1>2, <1>3
     DEF Maintenance, PassStarts, ReadPage, ScanEnds, DeleteFlow, DeletePartial, DeleteTimesOut,
     InvalidateFinds, InvalidateWaits, PassEnds, MaintenanceEnds

\* The other steps: what is cached and what is running stays, or run_bound drains.
LEMMA OtherTable ==
    ASSUME ProxyTypeOK, TableCoherent, NoOrphanRelay, JoinCoherent,
           \/ \E i \in Ids : Packet(i) \/ Tick(i)
           \/ \E o \in late : LateDelete(o)
           \/ Tcp \/ StopFanOut \/ Drain \/ Return
    PROVE  TableCoherent' /\ NoOrphanRelay'
<1>1. CASE UNCHANGED udpVars /\ (stop => stop')
  BY <1>1, TableFrame, OrphanFrame DEF udpVars
<1>2. CASE Drain
  <2>1. stop' /\ udp' = udp /\ udp.at = "ended" /\ \A t \in Tuples : entries'[t] = None
    BY <1>2 DEF Drain, JoinCoherent
  <2>2. \A a \in Associations :
           /\ association'[a].key = association[a].key
           /\ association'[a].relay = association[a].relay
    BY <1>2, DrainType
  <2> QED
    BY SMTT(30), <2>1, <2>2 DEF TableCoherent, NoOrphanRelay
<1>3. CASE \E i \in Ids : Packet(i) \/ Tick(i)
  BY ZenonT(30), <1>1, <1>3 DEF Packet, Tick
<1>4. CASE \E o \in late : LateDelete(o)
  BY SMTT(30), <1>1, <1>4 DEF LateDelete
<1>5. CASE Tcp
  BY <1>1, <1>5 DEF Tcp, Accept, Mapped, Connected, SessionEnds, SessionStep, AbortSessions, SessionAborted, TcpEnds
<1> QED
  BY <1>1, <1>2, <1>3, <1>4, <1>5 DEF StopFanOut, Return

-----------------------------------------------------------------------------
(* run_bound.                                                              *)

\* A step that neither moves run_bound nor revives a task keeps what it has joined.
LEMMA JoinFrame ==
    ASSUME JoinCoherent, UNCHANGED <<main, stop, session, tcp>>,
           udp.at = "ended" => udp' = udp, maintenance.at = "ended" => maintenance' = maintenance,
           \A t \in Tuples : entries[t] = None /\ udp.at = "ended" => entries'[t] = None
    PROVE  JoinCoherent'
BY DEF JoinCoherent

\* The receive task and the relays put nothing back once the task has ended.
LEMMA UdpJoin ==
    ASSUME ProxyTypeOK, TableCoherent, JoinCoherent, UNCHANGED <<proxyVars, serviceVars>>,
           UdpTask \/ \E a \in Associations : FinishRelay(a)
    PROVE  JoinCoherent'
<1>1. CASE UdpTask
  <2>1. udp.at # "ended" /\ stop' = stop
    BY ZenonT(30), <1>1 DEF UdpTask, Receive, Resolve, ResolveFails, Publish, AwaitStopped, SendSucceeds,
       SendRefused, SendFails, UdpEnds
  <2> QED
    BY <2>1, JoinFrame DEF proxyVars
<1>2. CASE \E a \in Associations : FinishRelay(a)
  <2> PICK a \in Associations : FinishRelay(a)
    BY <1>2
  <2>1. \A t \in Tuples : entries[t] = None => entries'[t] = None
    BY FinishRelayType
  <2>2. udp' = udp /\ stop' = stop
    BY DEF FinishRelay
  <2> QED
    BY <2>1, <2>2, JoinFrame DEF proxyVars
<1> QED
  BY <1>1, <1>2

\* Maintenance never runs again once it has ended, and fills no entry of the table.
LEMMA MaintenanceJoin ==
    ASSUME ProxyTypeOK, JoinCoherent, StampsCoherent, Maintenance
    PROVE  JoinCoherent'
<1>1. maintenance.at # "ended"
  BY ZenonT(30)
     DEF Maintenance, PassStarts, ReadPage, ProcessPage, ScanEnds, DeleteFlow, DeletePartial, DeleteTimesOut,
     InvalidateFinds, InvalidateRemoves, InvalidateWaits, PassEnds, MaintenanceEnds
<1>2. main.at \notin {"draining", "returned"}
  BY <1>1 DEF JoinCoherent
<1>3. UNCHANGED <<main, stop, session, tcp>>
  BY ZenonT(30)
     DEF Maintenance, PassStarts, ReadPage, ProcessPage, ScanEnds, DeleteFlow, DeletePartial, DeleteTimesOut,
     InvalidateFinds, InvalidateRemoves, InvalidateWaits, PassEnds, MaintenanceEnds
<1> QED
  BY <1>2, <1>3 DEF JoinCoherent

\* The sessions, the dataplane and run_bound itself.
LEMMA OtherJoin ==
    ASSUME ProxyTypeOK, JoinCoherent,
           \/ \E i \in Ids : Packet(i) \/ Tick(i)
           \/ \E o \in late : LateDelete(o)
           \/ Tcp \/ StopFanOut \/ Drain \/ Return
    PROVE  JoinCoherent'
<1>1. CASE (\E i \in Ids : Packet(i) \/ Tick(i)) \/ (\E o \in late : LateDelete(o))
  <2>1. UNCHANGED <<main, stop, session, tcp, udp, maintenance, entries>>
    BY ZenonT(30), <1>1 DEF Packet, Tick, LateDelete, udpVars, proxyVars
  <2> QED
    BY <2>1, JoinFrame
<1>2. CASE Tcp
  <2>1. UNCHANGED <<main, stop, udp, maintenance, entries>>
    BY <1>2 DEF Tcp, Accept, Mapped, Connected, SessionEnds, SessionStep, AbortSessions, SessionAborted,
       TcpEnds, udpVars
  <2>2. tcp' = "ended" => \A s \in Sessions : session'[s] = "none"
    <3>1. CASE \E s \in Sessions : Accept(s) \/ Mapped(s) \/ Connected(s) \/ SessionEnds(s) \/ SessionAborted(s)
      <4>1. tcp' = tcp
        BY <3>1 DEF Accept, Mapped, Connected, SessionEnds, SessionStep, SessionAborted
      <4>2. tcp # "ended"
        BY <3>1 DEF Accept, Mapped, Connected, SessionEnds, SessionStep, SessionAborted, JoinCoherent
      <4> QED
        BY <4>1, <4>2
    <3>2. CASE AbortSessions \/ TcpEnds
      BY SMTT(30), <3>2 DEF AbortSessions, TcpEnds
    <3> QED
      BY <1>2, <3>1, <3>2 DEF Tcp
  <2>3. tcp = "ended" => tcp' = "ended"
    BY <1>2 DEF Tcp, Accept, Mapped, Connected, SessionEnds, SessionStep, AbortSessions, SessionAborted, TcpEnds
  <2> QED
    BY SMTT(30), <2>1, <2>2, <2>3 DEF JoinCoherent
<1>3. CASE StopFanOut
  <2>1. main'.at = "joining" \/ main' = main
    BY SMTT(30), <1>3 DEF StopFanOut
  <2> QED
    BY <1>3, <2>1 DEF StopFanOut, JoinCoherent
<1>4. CASE Drain
  BY <1>4 DEF Drain, JoinCoherent
<1>5. CASE Return
  BY <1>5 DEF Return, JoinCoherent, udpVars
<1> QED
  BY <1>1, <1>2, <1>3, <1>4, <1>5

-----------------------------------------------------------------------------
(* Generations and the retention policy.                                   *)

\* The policy only grows firmer with age.
LEMMA ExpiryGrows ==
    ASSUME NEW i \in Ids, NEW r \in FlowRecord, NEW q \in FlowRecord,
           ExpiredRecord(i, r), q.tcp = r.tcp, q.age >= r.age
    PROVE  ExpiredRecord(i, q)
BY PolicyAssumption DEF ExpiredRecord, FlowRecord

\* What a page, a pending deletion, a request and the flows say, in one place.
LEMMA RecordTypes ==
    ASSUME ProxyTypeOK
    PROVE  /\ \A j \in Ids : flow[j] \in FlowRecord
           /\ \A o \in maintenance.pending \cup maintenance.queue \cup late : o \in Observed
           /\ \A p \in maintenance.page : p[1] \in Ids /\ p[2] \in FlowRecord
           /\ \A k \in confirmed : k[1] \in Ids /\ k[2] \in Nat \ {0}
<1>1. \A p \in maintenance.page : p \in Ids \X FlowRecord
  BY DEF ProxyTypeOK, MaintenanceRecord
<1>2. \A p \in Ids \X FlowRecord : p[1] \in Ids /\ p[2] \in FlowRecord
  OBVIOUS
<1>3. \A k \in confirmed : k[1] \in Ids /\ k[2] \in Nat \ {0}
  BY DEF ProxyTypeOK
<1>4. \A o \in maintenance.pending \cup maintenance.queue \cup late : o \in Observed
  BY DEF ProxyTypeOK, MaintenanceRecord
<1> QED
  BY <1>1, <1>2, <1>3, <1>4 DEF ProxyTypeOK

\* What a packet does to the flows: a new incarnation and a use are both new.
LEMMA PacketFlows ==
    ASSUME ProxyTypeOK, NEW i \in Ids, Packet(i)
    PROVE  /\ packets' = packets + 1
           /\ \A j \in Ids :
                \/ flow'[j] = flow[j]
                \/ /\ flow'[j].used = packets'
                   /\ flow'[j].generation \in {flow[j].generation, packets'}
<1>1. packets' = packets + 1
  BY DEF Packet
<1>2. CASE flow' = [flow EXCEPT ![i] = [NoFlow EXCEPT !.generation = packets', !.used = packets']]
  <2>1. flow'[i] = [NoFlow EXCEPT !.generation = packets', !.used = packets']
    BY <1>2 DEF ProxyTypeOK
  <2>2. flow'[i].used = packets' /\ flow'[i].generation = packets'
    BY <2>1 DEF NoFlow
  <2> QED
    BY <1>1, <1>2, <2>2 DEF ProxyTypeOK
<1>3. ASSUME NEW state \in {flow[i].tcp} \cup {"terminal", "reset"},
             flow' = [flow EXCEPT ![i] = [@ EXCEPT !.used = packets', !.age = 0, !.tcp = state]]
      PROVE  \A j \in Ids : \/ flow'[j] = flow[j]
                            \/ flow'[j].used = packets' /\ flow'[j].generation = flow[j].generation
  <2>1. flow'[i].used = packets' /\ flow'[i].generation = flow[i].generation
    BY <1>3 DEF ProxyTypeOK, FlowRecord
  <2> QED
    BY <1>3, <2>1 DEF ProxyTypeOK
<1> QED
  BY <1>1, <1>2, <1>3 DEF Packet

\* What a deletion does to the flows: the one it names goes, as it was observed.
LEMMA DeletedFlows ==
    ASSUME ProxyTypeOK, NEW o \in Observed, flow' = Deleted(o)
    PROVE  /\ \A j \in Ids : flow'[j] = flow[j] \/ (flow'[j].generation = 0 /\ flow'[j].used = 0)
           /\ \A j \in Ids : flow'[j] # flow[j] =>
                  j = o.id /\ flow[j].generation = o.generation /\ flow[j].used = o.used
           /\ Gone(DeleteOutcome(o)) => flow'[o.id].generation = 0
<1>0. o.id \in Ids /\ flow \in [Ids -> FlowRecord]
  BY DEF ProxyTypeOK, Observed
<1>1. CASE DeleteOutcome(o) = "complete"
  <2>1. flow' = [flow EXCEPT ![o.id] = NoFlow]
    BY <1>1 DEF Deleted
  <2>2. flow'[o.id].generation = 0 /\ flow'[o.id].used = 0
    BY <1>0, <2>1 DEF NoFlow
  <2>3. \A j \in Ids : j # o.id => flow'[j] = flow[j]
    BY <1>0, <2>1
  <2>4. flow[o.id].generation = o.generation /\ flow[o.id].used = o.used
    BY <1>1 DEF DeleteOutcome
  <2> QED
    BY <2>2, <2>3, <2>4
<1>2. CASE DeleteOutcome(o) # "complete"
  <2>1. flow' = flow
    BY <1>2 DEF Deleted
  <2>2. Gone(DeleteOutcome(o)) => flow[o.id].generation = 0
    BY <1>2 DEF Gone, DeleteOutcome, Present
  <2> QED
    BY <2>1, <2>2
<1> QED
  BY <1>1, <1>2

\* A packet.
LEMMA PacketPast ==
    ASSUME ProxyTypeOK, GenerationsPast, ExpiryHolds, NEW i \in Ids, Packet(i)
    PROVE  GenerationsPast' /\ ExpiryHolds'
<1>1. UNCHANGED <<maintenance, late, confirmed>> /\ packets \in Nat
  BY DEF Packet, proxyVars, ProxyTypeOK
<1>2. /\ packets' = packets + 1
      /\ \A j \in Ids :
           \/ flow'[j] = flow[j]
           \/ /\ flow'[j].used = packets'
              /\ flow'[j].generation \in {flow[j].generation, packets'}
  BY PacketFlows
<1>3. \A j \in Ids : flow[j].generation \in Nat /\ flow[j].used \in Nat
  BY RecordTypes DEF FlowRecord
<1>4. \A o \in maintenance.pending \cup maintenance.queue \cup late :
         o.id \in Ids /\ o.generation \in Nat /\ o.used \in Nat
  BY RecordTypes DEF Observed
<1>5. \A p \in maintenance.page : p[1] \in Ids /\ p[2].generation \in Nat /\ p[2].used \in Nat
  BY RecordTypes DEF FlowRecord
<1>6. \A k \in confirmed : k[1] \in Ids /\ k[2] \in Nat
  BY RecordTypes
<1>7. GenerationsPast'
  <2>1. \A j \in Ids : flow'[j].generation <= packets' /\ flow'[j].used <= packets'
    <3>1. \A j \in Ids : flow[j].generation <= packets /\ flow[j].used <= packets
      BY SMTT(30) DEF GenerationsPast
    <3> QED
      BY <1>1, <1>2, <1>3, <3>1
  <2>2. \A k \in confirmed : k[2] <= packets' /\ flow'[k[1]].generation # k[2]
    BY <1>1, <1>2, <1>3, <1>6 DEF GenerationsPast
  <2>3. \A o \in maintenance.pending \cup maintenance.queue \cup late :
           o.generation <= packets' /\ o.used <= packets'
    <3>1. \A o \in maintenance.pending \cup maintenance.queue \cup late :
             o.generation <= packets /\ o.used <= packets
      BY DEF GenerationsPast
    <3> QED
      BY <1>1, <1>2, <1>4, <3>1
  <2>4. \A p \in maintenance.page : p[2].generation \in 1 .. packets' /\ p[2].used <= packets'
    <3> TAKE p \in maintenance.page
    <3>1. p[2].generation \in 1 .. packets /\ p[2].used <= packets
      BY ZenonT(30) DEF GenerationsPast
    <3> QED
      BY <1>1, <1>2, <1>5, <3>1
  <2> QED
    BY <1>1, <2>1, <2>2, <2>3, <2>4 DEF GenerationsPast
<1>8. ExpiryHolds'
  <2>1. \A p \in maintenance.page : flow'[p[1]] = flow[p[1]] \/ flow'[p[1]].used # p[2].used
    <3> TAKE p \in maintenance.page
    <3>1. p[2].used <= packets
      BY ZenonT(30) DEF GenerationsPast
    <3> QED
      BY <1>1, <1>2, <1>5, <3>1
  <2>2. \A o \in maintenance.pending \cup maintenance.queue \cup late :
           flow'[o.id] = flow[o.id] \/ flow'[o.id].used # o.used
    <3> TAKE o \in maintenance.pending \cup maintenance.queue \cup late
    <3>1. o.used <= packets
      BY SMTT(30) DEF GenerationsPast
    <3> QED
      BY <1>1, <1>2, <1>4, <3>1
  <2> QED
    BY <1>1, <2>1, <2>2 DEF ExpiryHolds
<1> QED
  BY <1>7, <1>8

\* A unit of age.
LEMMA TickPast ==
    ASSUME ProxyTypeOK, GenerationsPast, ExpiryHolds, NEW i \in Ids, Tick(i)
    PROVE  GenerationsPast' /\ ExpiryHolds'
<1>1. UNCHANGED <<maintenance, late, confirmed, packets>>
  BY DEF Tick, proxyVars, serviceVars
<1>2. \A j \in Ids : /\ flow'[j].generation = flow[j].generation /\ flow'[j].used = flow[j].used
                     /\ flow'[j].tcp = flow[j].tcp /\ flow'[j].age \in {flow[j].age, flow[j].age + 1}
  BY DEF Tick, ProxyTypeOK, FlowRecord
<1>3. \A j \in Ids : flow[j].age \in Nat /\ flow[j] \in FlowRecord /\ flow'[j] \in FlowRecord
  BY DataplaneType DEF ProxyTypeOK, FlowRecord
<1>4. \A j \in Ids : flow'[j].age >= flow[j].age
  BY <1>2, <1>3
<1>5. GenerationsPast'
  BY SMTT(30), <1>1, <1>2, RecordTypes DEF GenerationsPast
<1>6. \A p \in maintenance.page :
         flow'[p[1]].generation = p[2].generation /\ flow'[p[1]].used = p[2].used =>
             flow'[p[1]].tcp = p[2].tcp /\ flow'[p[1]].age >= p[2].age
  <2> TAKE p \in maintenance.page
  <2>1. p[1] \in Ids /\ p[2].age \in Nat
    BY RecordTypes DEF FlowRecord
  <2>2. flow'[p[1]].age \in Nat
    BY <1>3, <2>1 DEF FlowRecord
  <2>3. flow[p[1]].generation = p[2].generation /\ flow[p[1]].used = p[2].used =>
            flow[p[1]].tcp = p[2].tcp /\ flow[p[1]].age >= p[2].age
    BY ZenonT(30) DEF ExpiryHolds
  <2>4. /\ flow'[p[1]].generation = flow[p[1]].generation /\ flow'[p[1]].used = flow[p[1]].used
        /\ flow'[p[1]].tcp = flow[p[1]].tcp /\ flow'[p[1]].age >= flow[p[1]].age /\ flow[p[1]].age \in Nat
    BY ZenonT(30), <1>2, <1>3, <1>4, <2>1
  <2> QED
    BY <2>1, <2>2, <2>3, <2>4
<1>7. \A o \in maintenance.pending \cup maintenance.queue \cup late :
         flow'[o.id].generation = o.generation /\ flow'[o.id].used = o.used =>
             ExpiredRecord(o.id, flow'[o.id])
  <2> TAKE o \in maintenance.pending \cup maintenance.queue \cup late
  <2>1. o.id \in Ids
    BY RecordTypes DEF Observed
  <2> QED
    BY SMTT(30), <1>2, <1>3, <1>4, <2>1, ExpiryGrows DEF ExpiryHolds
<1> QED
  BY <1>1, <1>5, <1>6, <1>7 DEF ExpiryHolds, ExpiredRecord

\* A request carried out late, or DeleteFlow's part in the flows.
LEMMA DeletedPast ==
    ASSUME ProxyTypeOK, GenerationsPast, ExpiryHolds, NEW o \in Observed, flow' = Deleted(o)
    PROVE  /\ \A j \in Ids : flow'[j].generation <= packets /\ flow'[j].used <= packets
           /\ \A k \in confirmed : flow'[k[1]].generation # k[2]
           /\ \A p \in maintenance.page :
                flow'[p[1]].generation = p[2].generation /\ flow'[p[1]].used = p[2].used =>
                    flow'[p[1]].tcp = p[2].tcp /\ flow'[p[1]].age >= p[2].age
           /\ \A q \in maintenance.pending \cup maintenance.queue \cup late :
                flow'[q.id].generation = q.generation /\ flow'[q.id].used = q.used =>
                    ExpiredRecord(q.id, flow'[q.id])
<1>1. \A j \in Ids : flow'[j] = flow[j] \/ (flow'[j].generation = 0 /\ flow'[j].used = 0)
  BY DeletedFlows
<1>2. packets \in Nat
  BY DEF ProxyTypeOK
<1>3. \A j \in Ids : flow'[j].generation <= packets /\ flow'[j].used <= packets
  <2>1. \A j \in Ids : flow[j].generation <= packets /\ flow[j].used <= packets
    BY DEF GenerationsPast
  <2> QED
    BY <1>1, <1>2, <2>1
<1>4. \A k \in confirmed : flow'[k[1]].generation # k[2]
  BY <1>1, RecordTypes DEF GenerationsPast
<1>5. \A p \in maintenance.page :
         flow'[p[1]].generation = p[2].generation => flow'[p[1]] = flow[p[1]]
  <2> TAKE p \in maintenance.page
  <2>0. p[2].generation \in 1 .. packets
    BY ZenonT(30) DEF GenerationsPast
  <2>1. p[1] \in Ids /\ p[2].generation # 0
    BY <1>2, <2>0, RecordTypes
  <2> QED
    BY <1>1, <2>1
<1>6. \A q \in maintenance.pending \cup maintenance.queue \cup late :
         flow'[q.id].generation = q.generation => flow'[q.id] = flow[q.id]
  BY <1>1, RecordTypes DEF Observed
<1>7. \A p \in maintenance.page :
         flow'[p[1]].generation = p[2].generation /\ flow'[p[1]].used = p[2].used =>
             flow'[p[1]].tcp = p[2].tcp /\ flow'[p[1]].age >= p[2].age
  BY <1>5 DEF ExpiryHolds
<1>8. \A q \in maintenance.pending \cup maintenance.queue \cup late :
         flow'[q.id].generation = q.generation /\ flow'[q.id].used = q.used =>
             ExpiredRecord(q.id, flow'[q.id])
  BY <1>6 DEF ExpiryHolds
<1> QED
  BY SMTT(30), <1>3, <1>4, <1>7, <1>8

\* A request carried out late.
LEMMA LatePast ==
    ASSUME ProxyTypeOK, GenerationsPast, ExpiryHolds, NEW o \in late, LateDelete(o)
    PROVE  GenerationsPast' /\ ExpiryHolds'
<1>1. o \in Observed /\ flow' = Deleted(o) /\ late' \subseteq late
  BY RecordTypes DEF LateDelete
<1>2. UNCHANGED <<maintenance, confirmed, packets>>
  BY DEF LateDelete, proxyVars
<1>3. GenerationsPast'
  BY ZenonT(30), <1>1, <1>2, DeletedPast DEF GenerationsPast
<1>4. ExpiryHolds'
  BY ZenonT(30), <1>1, <1>2, DeletedPast DEF ExpiryHolds, ExpiredRecord
<1> QED
  BY <1>3, <1>4

\* A page: what it says is true of the flow when it is read, and of an incarnation
\* that is not confirmed gone.
LEMMA ReadPagePast ==
    ASSUME ProxyTypeOK, GenerationsPast, ExpiryHolds, ReadPage
    PROVE  GenerationsPast' /\ ExpiryHolds'
<1> PICK i \in Ids :
       /\ Present(i)
       /\ maintenance' = [maintenance EXCEPT !.at = "page", !.cursor = i, !.page = {<<i, flow[i]>>}]
  BY ZenonT(30) DEF ReadPage
<1>1. UNCHANGED <<flow, packets, late, confirmed>>
  BY DEF ReadPage, serviceVars
<1>2. /\ maintenance'.at = "page" /\ maintenance'.page = {<<i, flow[i]>>}
      /\ maintenance'.pending = maintenance.pending /\ maintenance'.queue = maintenance.queue
  BY DEF ProxyTypeOK, MaintenanceRecord
<1>3. flow[i].generation \in Nat \ {0} /\ flow[i].used \in Nat /\ flow[i].age \in Nat /\ packets \in Nat
  BY DEF ProxyTypeOK, FlowRecord, Present
<1>4. flow[i].generation \in 1 .. packets /\ flow[i].used <= packets
  BY <1>3 DEF GenerationsPast
<1>5. <<i, flow[i].generation>> \notin confirmed
  BY DEF GenerationsPast
<1>6. GenerationsPast'
  BY <1>1, <1>2, <1>4, <1>5 DEF GenerationsPast
<1>7. ExpiryHolds'
  BY <1>1, <1>2, <1>3 DEF ExpiryHolds, ExpiredRecord
<1> QED
  BY <1>6, <1>7

\* The records of a page become observations that hold of the flow as it is.
LEMMA ProcessPagePast ==
    ASSUME ProxyTypeOK, GenerationsPast, ExpiryHolds, ProcessPage
    PROVE  GenerationsPast' /\ ExpiryHolds'
<1> PICK p \in maintenance.page :
       maintenance' = [maintenance EXCEPT !.at = "scan", !.page = {},
                                          !.pending = WithObservation(@, p[1], p[2])]
  BY ZenonT(30) DEF ProcessPage
<1> DEFINE new == Observation(p[1], p[2])
<1>1. UNCHANGED <<flow, packets, late, confirmed>>
  BY DEF ProcessPage, serviceVars
<1>2. /\ maintenance'.at = "scan" /\ maintenance'.page = {} /\ maintenance'.queue = maintenance.queue
      /\ maintenance'.pending = WithObservation(maintenance.pending, p[1], p[2])
  BY DEF ProxyTypeOK, MaintenanceRecord
<1>3. p[1] \in Ids /\ p[2] \in FlowRecord
  BY RecordTypes
<1>4. \A o \in maintenance'.pending :
         o \in maintenance.pending \/ (o = new /\ ExpiredRecord(p[1], p[2]))
  BY <1>2 DEF WithObservation
<1>5. new.id = p[1] /\ new.generation = p[2].generation /\ new.used = p[2].used
  BY DEF Observation
<1>6. new.generation <= packets /\ new.used <= packets
  <2>1. p[2].generation \in 1 .. packets /\ p[2].used <= packets
    BY ZenonT(30) DEF GenerationsPast
  <2> QED
    BY <1>5, <2>1
<1>7. ExpiredRecord(p[1], p[2]) =>
         (flow[new.id].generation = new.generation /\ flow[new.id].used = new.used =>
             ExpiredRecord(new.id, flow[new.id]))
  <2> HAVE ExpiredRecord(p[1], p[2])
  <2> HAVE flow[new.id].generation = new.generation /\ flow[new.id].used = new.used
  <2>1. flow[p[1]].tcp = p[2].tcp /\ flow[p[1]].age >= p[2].age
    BY <1>5 DEF ExpiryHolds
  <2>2. flow[p[1]] \in FlowRecord
    BY <1>3 DEF ProxyTypeOK
  <2>3. ExpiredRecord(p[1], flow[p[1]])
    BY <1>3, <2>1, <2>2, ExpiryGrows
  <2> QED
    BY SMTT(30), <1>5, <2>3
<1> HIDE DEF new
<1>8. GenerationsPast'
  BY <1>1, <1>2, <1>4, <1>6 DEF GenerationsPast
<1>9. ExpiryHolds'
  <2>1. \A o \in maintenance'.pending \cup maintenance'.queue \cup late' :
           flow'[o.id].generation = o.generation /\ flow'[o.id].used = o.used =>
               ExpiredRecord(o.id, flow'[o.id])
    BY <1>1, <1>2, <1>4, <1>7 DEF ExpiryHolds
  <2> QED
    BY <1>2, <2>1 DEF ExpiryHolds, ExpiredRecord
<1> QED
  BY <1>8, <1>9

\* DeleteFlow's answer: what it confirms is gone, and stays gone.
LEMMA DeleteFlowPast ==
    ASSUME ProxyTypeOK, GenerationsPast, ExpiryHolds, NEW o \in maintenance.queue, DeleteFlow(o)
    PROVE  GenerationsPast' /\ ExpiryHolds'
<1>1. o \in Observed /\ flow' = Deleted(o) /\ UNCHANGED <<packets, late>>
  BY RecordTypes DEF DeleteFlow
<1>2. /\ maintenance'.page = maintenance.page /\ maintenance.page = {}
      /\ maintenance'.pending \subseteq maintenance.pending
      /\ maintenance'.queue \subseteq maintenance.queue
  BY DEF DeleteFlow, GenerationsPast, ProxyTypeOK, MaintenanceRecord
<1>3. confirmed' = confirmed \/ (confirmed' = confirmed \cup {KeyOf(o)} /\ Gone(DeleteOutcome(o)))
  BY DEF DeleteFlow
<1>4. Gone(DeleteOutcome(o)) => flow'[o.id].generation = 0
  BY <1>1, DeletedFlows
<1>5. o.generation \in Nat \ {0} /\ o.generation <= packets
  BY <1>1 DEF Observed, GenerationsPast
<1>6. \A k \in confirmed' : k[2] <= packets /\ flow'[k[1]].generation # k[2]
  <2>1. \A k \in confirmed : k[2] <= packets /\ flow'[k[1]].generation # k[2]
    BY <1>1, DeletedPast DEF GenerationsPast
  <2>2. KeyOf(o)[1] = o.id /\ KeyOf(o)[2] = o.generation
    BY SMTT(30) DEF KeyOf
  <2> QED
    BY SMTT(30), <1>3, <1>4, <1>5, <2>1, <2>2
<1>7. GenerationsPast'
  BY SMTT(30), <1>1, <1>2, <1>6, DeletedPast DEF GenerationsPast
<1>8. ExpiryHolds'
  BY <1>1, <1>2, DeletedPast DEF ExpiryHolds, ExpiredRecord
<1> QED
  BY <1>7, <1>8

\* The other steps of maintenance only move or forget observations.
LEMMA PastFrame ==
    ASSUME GenerationsPast, ExpiryHolds, UNCHANGED <<flow, packets, confirmed>>,
           maintenance'.page = {} \/ (maintenance'.page = maintenance.page /\ maintenance'.at = maintenance.at),
           maintenance'.pending \cup maintenance'.queue \cup late'
               \subseteq maintenance.pending \cup maintenance.queue \cup late
    PROVE  GenerationsPast' /\ ExpiryHolds'
<1>1. GenerationsPast'
  BY ZenonT(30) DEF GenerationsPast
<1>2. ExpiryHolds'
  BY SMTT(30) DEF ExpiryHolds, ExpiredRecord
<1> QED
  BY <1>1, <1>2

\* Maintenance keeps what is known of generations and expiry.
LEMMA MaintenancePast ==
    ASSUME ProxyTypeOK, GenerationsPast, ExpiryHolds, Maintenance
    PROVE  GenerationsPast' /\ ExpiryHolds'
<1>0. /\ Invalidated.page = maintenance.page /\ Invalidated.pending = maintenance.pending
      /\ Invalidated.queue = maintenance.queue
  BY InvalidatedType
<1>1. CASE PassStarts \/ ScanEnds
  <2>1. /\ maintenance'.page = maintenance.page /\ maintenance.page = {}
        /\ maintenance'.pending = maintenance.pending
        /\ maintenance'.queue \in {maintenance.queue, maintenance.pending}
    BY ZenonT(30), <1>1 DEF PassStarts, ScanEnds, ProxyTypeOK, MaintenanceRecord, GenerationsPast
  <2>2. UNCHANGED <<flow, packets, late, confirmed>>
    BY <1>1 DEF PassStarts, ScanEnds, serviceVars
  <2> QED
    BY <2>1, <2>2, PastFrame
<1>2. CASE PassEnds \/ MaintenanceEnds
  <2>1. /\ maintenance'.page = {} /\ maintenance'.queue = {}
        /\ maintenance'.pending \in {maintenance.pending, {}}
    BY <1>2 DEF PassEnds, MaintenanceEnds, Asleep
  <2>2. UNCHANGED <<flow, packets, late, confirmed>>
    BY <1>2 DEF PassEnds, MaintenanceEnds, serviceVars
  <2> QED
    BY <2>1, <2>2, PastFrame
<1>3. CASE \E o \in maintenance.queue : DeletePartial(o) \/ DeleteTimesOut(o)
  <2> PICK o \in maintenance.queue : DeletePartial(o) \/ DeleteTimesOut(o)
    BY <1>3
  <2>1. /\ maintenance'.page = maintenance.page /\ maintenance'.at = maintenance.at
        /\ maintenance'.pending = maintenance.pending /\ maintenance'.queue \subseteq maintenance.queue
    BY DEF DeletePartial, DeleteTimesOut, ProxyTypeOK, MaintenanceRecord
  <2>2. UNCHANGED <<flow, packets, confirmed>> /\ late' \subseteq late \cup {o}
    BY DEF DeletePartial, DeleteTimesOut
  <2> QED
    BY <2>1, <2>2, PastFrame
<1>4. CASE InvalidateFinds \/ InvalidateRemoves \/ InvalidateWaits
  <2>1. maintenance.page = {}
    BY <1>4 DEF InvalidateFinds, InvalidateRemoves, InvalidateWaits, GenerationsPast
  <2>2. /\ maintenance'.page = maintenance.page
        /\ maintenance'.pending = maintenance.pending /\ maintenance'.queue = maintenance.queue
    BY ZenonT(30), <1>0, <1>4
       DEF InvalidateFinds, InvalidateRemoves, InvalidateWaits, ProxyTypeOK, MaintenanceRecord
  <2>3. UNCHANGED <<flow, packets, late, confirmed>>
    BY <1>4 DEF InvalidateFinds, InvalidateRemoves, InvalidateWaits, serviceVars
  <2> QED
    BY SMTT(30), <2>1, <2>2, <2>3, PastFrame
<1> QED
  BY <1>1, <1>2, <1>3, <1>4, ReadPagePast, ProcessPagePast, DeleteFlowPast DEF Maintenance

\* The tasks of UDP, TCP and run_bound.
LEMMA OtherPast ==
    ASSUME GenerationsPast, ExpiryHolds, UNCHANGED <<flow, maintenance, serviceVars>>
    PROVE  GenerationsPast' /\ ExpiryHolds'
BY PastFrame DEF serviceVars

-----------------------------------------------------------------------------
(* Stamps.                                                                 *)

\* What a step leaves cached and stamped as it was stays settled or not.
LEMMA StampFrame ==
    ASSUME ProxyTypeOK, StampsCoherent, SettledLeavesNoStamp,
           UNCHANGED <<maintenance, confirmed>>,
           \A a \in Associations : association'[a].flow_identity # <<0, 0>> =>
               /\ association'[a].flow_identity = association[a].flow_identity
               /\ association'[a].key = association[a].key,
           \A t \in Tuples : entries'[t] \in Associations \cup {None},
           \A t \in Tuples : entries'[t] # None /\ entries'[t] # entries[t] =>
               association'[entries'[t]].flow_identity = <<0, 0>>
    PROVE  StampsCoherent' /\ SettledLeavesNoStamp'
<1>1. <<0, 0>> \notin confirmed
  BY DEF ProxyTypeOK
<1>2. maintenance.at = "remove" => maintenance.about # <<0, 0>>
  BY IdsAssumption DEF StampsCoherent
<1>3. ASSUME NEW t \in Tuples, entries'[t] # None
      PROVE  LET stamp == association'[entries'[t]].flow_identity IN
             \/ stamp = <<0, 0>>
             \/ entries'[t] = entries[t] /\ stamp = association[entries[t]].flow_identity
  BY <1>3
<1>4. SettledLeavesNoStamp'
  BY <1>1, <1>3 DEF SettledLeavesNoStamp, Settled
<1>5. maintenance'.at = "remove" =>
         /\ maintenance'.holds # None
         /\ \A t \in Tuples : entries'[t] \notin {None, maintenance'.holds} =>
                association'[entries'[t]].flow_identity # maintenance'.about
  BY SMTT(30), <1>2, <1>3 DEF StampsCoherent
<1> QED
  BY SMTT(30), <1>4, <1>5 DEF StampsCoherent

\* Nothing touches the table, the stamps or what is confirmed.
LEMMA StampSame ==
    ASSUME ProxyTypeOK, StampsCoherent, SettledLeavesNoStamp,
           UNCHANGED <<entries, association, maintenance, confirmed>>
    PROVE  StampsCoherent' /\ SettledLeavesNoStamp'
BY StampFrame DEF ProxyTypeOK

\* Publishing brings nothing stamped into the table, and a relay's end takes its
\* own stamp with it.
LEMMA UdpStamps ==
    ASSUME ProxyTypeOK, ProxyTypeOK', TableCoherent, StampsCoherent, SettledLeavesNoStamp,
           UNCHANGED <<proxyVars, serviceVars>>,
           UdpTask \/ \E a \in Associations : FinishRelay(a)
    PROVE  StampsCoherent' /\ SettledLeavesNoStamp'
<1>0. UNCHANGED <<maintenance, confirmed>> /\ \A t \in Tuples : entries'[t] \in Associations \cup {None}
  BY DEF proxyVars, serviceVars, ProxyTypeOK
<1>a. association \in [Associations -> AssociationRecord]
  BY DEF ProxyTypeOK
<1>1. CASE (\E t \in Tuples : Receive(t)) \/ ResolveFails \/ AwaitStopped \/ SendSucceeds \/ SendFails \/ UdpEnds
  BY ZenonT(30), <1>0, <1>1, StampSame DEF Receive, ResolveFails, AwaitStopped, SendSucceeds, SendFails, UdpEnds
<1>2. CASE Resolve
  <2> PICK a \in Associations, i \in UdpIds :
         association' = [association EXCEPT ![a] =
              [Unmade EXCEPT !.key = udp.tuple, !.destination = i, !.relay = "running",
                             !.born = <<i, flow[i].generation>>]]
    BY ZenonT(30), <1>2 DEF Resolve
  <2>1. association'[a].flow_identity = <<0, 0>> /\ \A b \in Associations : b # a => association'[b] = association[b]
    BY <1>a DEF Unmade
  <2>2. entries' = entries
    BY <1>2 DEF Resolve
  <2> QED
    BY <1>0, <2>1, <2>2, StampFrame
<1>3. CASE Publish
  <2>1. /\ udp.tuple \in Tuples /\ udp.holds \in Associations
        /\ association[udp.holds].flow_identity = <<0, 0>>
    BY SMTT(30), <1>3 DEF Publish, TableCoherent, ProxyTypeOK, UdpRecord
  <2>2. entries[udp.tuple] \in Associations \cup {None}
    BY <2>1 DEF ProxyTypeOK
  <2>3. \A b \in Associations : /\ association'[b].flow_identity = association[b].flow_identity
                                /\ association'[b].key = association[b].key
    BY <1>3, <1>a, <2>1, <2>2, CancelledType DEF Publish
  <2>4. \A t \in Tuples : entries'[t] # entries[t] => entries'[t] = udp.holds
    BY SMTT(30), <1>3, <2>1 DEF Publish, ProxyTypeOK
  <2> QED
    BY ZenonT(30), <1>0, <2>1, <2>3, <2>4, StampFrame
<1>4. CASE SendRefused
  <2>1. udp.tuple \in Tuples
    BY <1>4 DEF SendRefused, TableCoherent, ProxyTypeOK, UdpRecord
  <2>2. entries[udp.tuple] \in Associations \cup {None}
    BY <2>1 DEF ProxyTypeOK
  <2>3. \A b \in Associations : /\ association'[b].flow_identity = association[b].flow_identity
                                /\ association'[b].key = association[b].key
    BY <1>4, <1>a, <2>2, CancelledType DEF SendRefused
  <2>4. \A t \in Tuples : entries'[t] # entries[t] => entries'[t] = None
    BY <1>4, <2>1 DEF SendRefused, ProxyTypeOK
  <2> QED
    BY <1>0, <2>3, <2>4, StampFrame
<1>5. CASE \E a \in Associations : FinishRelay(a)
  <2> PICK a \in Associations : FinishRelay(a)
    BY SMTT(30), <1>5
  <2>1. \A b \in Associations : association'[b].flow_identity # <<0, 0>> =>
           /\ association'[b].flow_identity = association[b].flow_identity
           /\ association'[b].key = association[b].key
    BY FinishRelayType
  <2>2. \A t \in Tuples : entries'[t] # entries[t] => entries'[t] = None
    BY SMTT(30), FinishRelayType
  <2> QED
    BY ZenonT(30), <1>0, <2>1, <2>2, StampFrame
<1> QED
  BY <1>1, <1>2, <1>3, <1>4, <1>5 DEF UdpTask

\* An entry that bears the stamp of a flow is the one of the flow's own tuple.
LEMMA StampedEntry ==
    ASSUME ProxyTypeOK, TableCoherent, StampsCoherent, NEW t \in Tuples, entries[t] # None,
           association[entries[t]].flow_identity # <<0, 0>>
    PROVE  /\ association[entries[t]].flow_identity[1] \in UdpIds
           /\ t = SyntheticOf[association[entries[t]].flow_identity[1]]
<1>1. entries[t] \in Associations
  BY DEF ProxyTypeOK
<1> QED
  BY <1>1 DEF TableCoherent, StampsCoherent

\* The scan stamps only incarnations that are not confirmed gone.
LEMMA PageStamps ==
    ASSUME ProxyTypeOK, TableCoherent, GenerationsPast, StampsCoherent, SettledLeavesNoStamp, ProcessPage
    PROVE  StampsCoherent' /\ SettledLeavesNoStamp'
<1> PICK p \in maintenance.page :
       /\ ObserveFlow(p[1], p[2])
       /\ maintenance' = [maintenance EXCEPT !.at = "scan", !.page = {},
                                             !.pending = WithObservation(@, p[1], p[2])]
  BY ZenonT(30) DEF ProcessPage
<1> DEFINE stamp == <<p[1], p[2].generation>>
<1>1. stamp \notin confirmed
  BY DEF GenerationsPast
<1>2. /\ maintenance'.at = "scan" /\ maintenance'.about = maintenance.about /\ maintenance.about = <<0, 0>>
      /\ UNCHANGED <<entries, confirmed>>
  BY DEF ProcessPage, StampsCoherent, ProxyTypeOK, MaintenanceRecord, serviceVars
<1>3. \A a \in Associations :
         \/ association'[a] = association[a]
         \/ /\ p[1] \in UdpIds /\ a = entries[SyntheticOf[p[1]]]
            /\ association'[a].flow_identity = stamp /\ association'[a].key = association[a].key
  BY DEF ObserveFlow, ProxyTypeOK, AssociationRecord
<1>4. stamp[1] = p[1]
  OBVIOUS
<1> HIDE DEF stamp
<1>5. \A a \in Associations : association'[a].flow_identity # <<0, 0>> =>
         /\ association'[a].flow_identity[1] \in UdpIds
         /\ association'[a].key = SyntheticOf[association'[a].flow_identity[1]]
  <2> SUFFICES ASSUME NEW a \in Associations, association'[a].flow_identity # <<0, 0>>
               PROVE  /\ association'[a].flow_identity[1] \in UdpIds
                      /\ association'[a].key = SyntheticOf[association'[a].flow_identity[1]]
    OBVIOUS
  <2>1. CASE association'[a] = association[a]
    BY <2>1 DEF StampsCoherent
  <2>2. CASE association'[a] # association[a]
    <3>1. /\ p[1] \in UdpIds /\ a = entries[SyntheticOf[p[1]]]
          /\ association'[a].flow_identity = stamp /\ association'[a].key = association[a].key
      BY <1>3, <2>2
    <3>2. association[a].key = SyntheticOf[p[1]]
      BY <3>1, TupleOfFlow, AssociationIds DEF TableCoherent
    <3> QED
      BY <1>4, <3>1, <3>2
  <2> QED
    BY <2>1, <2>2
<1>6. SettledLeavesNoStamp'
  <2> SUFFICES ASSUME NEW t \in Tuples, entries'[t] # None
               PROVE  ~Settled(association[entries[t]].flow_identity)'
    BY DEF SettledLeavesNoStamp
  <2>1. entries[t] \in Associations
    BY <1>2 DEF ProxyTypeOK
  <2>2. association'[entries[t]].flow_identity \in {stamp, association[entries[t]].flow_identity}
    BY <1>3, <2>1
  <2>3. association[entries[t]].flow_identity \notin confirmed
    BY <1>2, <2>1 DEF SettledLeavesNoStamp, Settled, StampsCoherent, ProxyTypeOK
  <2> QED
    BY <1>1, <1>2, <2>2, <2>3 DEF Settled
<1> QED
  BY <1>2, <1>5, <1>6 DEF StampsCoherent

\* A confirmed deletion is settled only once invalidate has run for it.
LEMMA DeleteStamps ==
    ASSUME ProxyTypeOK, TableCoherent, StampsCoherent, SettledLeavesNoStamp,
           NEW o \in maintenance.queue, DeleteFlow(o)
    PROVE  StampsCoherent' /\ SettledLeavesNoStamp'
<1>1. UNCHANGED <<entries, association>> /\ maintenance.at = "delete" /\ maintenance.about = <<0, 0>>
  BY DEF DeleteFlow, udpVars, StampsCoherent
<1>2. confirmed' = confirmed \/ (confirmed' = confirmed \cup {KeyOf(o)} /\ Gone(DeleteOutcome(o)))
  BY DEF DeleteFlow
<1>3. <<0, 0>> \notin confirmed /\ KeyOf(o) # <<0, 0>> /\ KeyOf(o)[1] = o.id
  BY SMTT(30), RecordTypes DEF ProxyTypeOK, KeyOf, Observed
<1>4. CASE Confirms(o)
  <2>1. maintenance'.at = "invalidate" /\ maintenance'.about = KeyOf(o) /\ o.id \in UdpIds
    BY SMTT(30), <1>4 DEF DeleteFlow, Confirms, ProxyTypeOK, MaintenanceRecord
  <2>2. \A k : Settled(k)' => Settled(k)
    BY SMTT(30), <1>1, <1>2, <1>3, <2>1 DEF Settled
  <2>3. SettledLeavesNoStamp'
    BY <1>1, <2>2 DEF SettledLeavesNoStamp
  <2> QED
    BY <1>1, <1>3, <2>1, <2>3 DEF StampsCoherent
<1>5. CASE ~Confirms(o)
  <2>1. maintenance'.at = "delete" /\ maintenance'.about = <<0, 0>>
    BY <1>1, <1>5 DEF DeleteFlow, ProxyTypeOK, MaintenanceRecord
  <2>2. KeyOf(o) \in confirmed' => KeyOf(o) \in confirmed \/ o.id \notin UdpIds
    BY <1>2, <1>5 DEF Confirms
  <2>3. SettledLeavesNoStamp'
    <3> SUFFICES ASSUME NEW t \in Tuples, entries[t] # None
                 PROVE  ~Settled(association[entries[t]].flow_identity)'
      BY <1>1 DEF SettledLeavesNoStamp
    <3> DEFINE stamp == association[entries[t]].flow_identity
    <3>1. stamp \notin confirmed
      BY <1>1, <1>3 DEF SettledLeavesNoStamp, Settled
    <3>2. stamp = <<0, 0>> \/ stamp[1] \in UdpIds
      BY SMTT(30), StampedEntry
    <3>3. stamp \notin confirmed'
      BY <1>2, <1>3, <2>2, <3>1, <3>2
    <3> QED
      BY <1>1, <3>3 DEF Settled
  <2> QED
    BY <1>1, <2>1, <2>3 DEF StampsCoherent
<1> QED
  BY <1>4, <1>5

\* invalidate's two looks at the table leave nothing with the stamp.
LEMMA InvalidateStamps ==
    ASSUME ProxyTypeOK, TableCoherent, StampsCoherent, SettledLeavesNoStamp,
           InvalidateFinds \/ InvalidateRemoves \/ InvalidateWaits
    PROVE  StampsCoherent' /\ SettledLeavesNoStamp'
<1> DEFINE about == maintenance.about
           t0 == SyntheticOf[about[1]]
           Bearer(t) == entries[t] # None /\ association[entries[t]].flow_identity = about
<1>0. /\ about[1] \in UdpIds /\ about # <<0, 0>> /\ t0 \in Tuples /\ <<0, 0>> \notin confirmed
      /\ confirmed' = confirmed
  <2>1. maintenance.at \in {"invalidate", "remove", "await"} /\ confirmed' = confirmed
    BY ZenonT(30) DEF InvalidateFinds, InvalidateRemoves, InvalidateWaits, serviceVars
  <2>2. about[1] \in UdpIds
    BY <2>1 DEF StampsCoherent
  <2>3. about # <<0, 0>>
    BY <2>2, IdsAssumption
  <2>4. <<0, 0>> \notin confirmed
    BY SMTT(30), IdsAssumption DEF ProxyTypeOK
  <2> QED
    BY ZenonT(30), <2>1, <2>2, <2>3, <2>4, TupleOfFlow
<1>1. \A t \in Tuples : Bearer(t) => t = t0
  BY <1>0, StampedEntry
<1>2. Invalidated.at = "delete" /\ Invalidated.about = <<0, 0>>
  BY SMTT(30), InvalidatedType
<1>3. ASSUME maintenance' = Invalidated, UNCHANGED <<entries, association>>,
             \A t \in Tuples : ~Bearer(t)
      PROVE  StampsCoherent' /\ SettledLeavesNoStamp'
  <2>1. SettledLeavesNoStamp'
    BY <1>0, <1>2, <1>3 DEF SettledLeavesNoStamp, Settled
  <2> QED
    BY SMTT(30), <1>2, <1>3, <2>1 DEF StampsCoherent
<1>4. CASE InvalidateFinds
  <2>1. UNCHANGED <<entries, association>>
    BY <1>4 DEF InvalidateFinds, udpVars
  <2>2. CASE Bearer(t0)
    <3>1. maintenance' = [maintenance EXCEPT !.at = "remove", !.holds = entries[t0]]
      BY <1>4, <2>2 DEF InvalidateFinds
    <3>2. maintenance'.at = "remove" /\ maintenance'.holds = entries[t0] /\ maintenance'.about = about
      BY SMTT(30), <3>1 DEF ProxyTypeOK, MaintenanceRecord
    <3>3. SettledLeavesNoStamp'
      BY <1>0, <1>4, <2>1, <3>2 DEF SettledLeavesNoStamp, Settled, InvalidateFinds
    <3>4. \A t \in Tuples : entries[t] \notin {None, entries[t0]} =>
             association[entries[t]].flow_identity # about
      BY <1>1
    <3> QED
      BY ZenonT(30), <1>0, <2>1, <2>2, <3>2, <3>3, <3>4 DEF StampsCoherent
  <2>3. CASE ~Bearer(t0)
    <3>1. maintenance' = Invalidated
      BY <1>4, <2>3 DEF InvalidateFinds
    <3> QED
      BY SMTT(30), <1>1, <1>3, <2>1, <2>3, <3>1
  <2> QED
    BY ZenonT(30), <2>2, <2>3
<1>5. CASE InvalidateRemoves
  <2> DEFINE a == maintenance.holds
  <2>1. /\ maintenance.at = "remove" /\ a \in Associations /\ a # None
        /\ \A t \in Tuples : entries[t] \notin {None, a} => association[entries[t]].flow_identity # about
    BY <1>5 DEF InvalidateRemoves, StampsCoherent, ProxyTypeOK, MaintenanceRecord
  <2>2. CASE entries[t0] = a
    <3>1. /\ entries' = [entries EXCEPT ![t0] = None] /\ association' = Cancelled(a)
          /\ maintenance' = [maintenance EXCEPT !.at = "await"]
      BY <1>5, <2>2 DEF InvalidateRemoves
    <3>2. maintenance'.at = "await" /\ maintenance'.about = about
      BY <3>1 DEF ProxyTypeOK, MaintenanceRecord
    <3>3. \A b \in Associations : /\ association'[b].flow_identity = association[b].flow_identity
                                  /\ association'[b].key = association[b].key
      BY <2>1, <3>1, CancelledType DEF ProxyTypeOK
    <3>4. \A t \in Tuples : entries'[t] # None => entries'[t] = entries[t] /\ t # t0
      BY <1>0, <3>1 DEF ProxyTypeOK
    <3>5. \A t \in Tuples : entries[t] # None => entries[t] \in Associations
      BY DEF ProxyTypeOK
    <3>6. SettledLeavesNoStamp'
      <4> SUFFICES ASSUME NEW t \in Tuples, entries'[t] # None
                   PROVE  ~Settled(association[entries[t]].flow_identity)'
        BY DEF SettledLeavesNoStamp
      <4>1. association'[entries'[t]].flow_identity = association[entries[t]].flow_identity
        BY <3>3, <3>4, <3>5
      <4>2. association[entries[t]].flow_identity # about
        BY <1>1, <3>4
      <4>3. association[entries[t]].flow_identity \notin confirmed
        BY SMTT(30), <3>4, <4>2 DEF SettledLeavesNoStamp, Settled
      <4> QED
        BY <1>0, <4>1, <4>3 DEF Settled
    <3> QED
      BY <1>0, <3>2, <3>3, <3>6 DEF StampsCoherent
  <2>3. CASE entries[t0] # a
    <3>1. maintenance' = Invalidated /\ UNCHANGED <<entries, association>>
      BY SMTT(30), <1>5, <2>3 DEF InvalidateRemoves
    <3> QED
      BY <1>1, <1>3, <2>1, <2>3, <3>1
  <2> QED
    BY <2>2, <2>3
<1>6. CASE InvalidateWaits
  <2>1. maintenance' = Invalidated /\ UNCHANGED <<entries, association>> /\ maintenance.at = "await"
    BY <1>6 DEF InvalidateWaits, udpVars
  <2>2. SettledLeavesNoStamp'
    BY <1>0, <1>2, <2>1 DEF SettledLeavesNoStamp, Settled
  <2> QED
    BY <1>2, <2>1, <2>2 DEF StampsCoherent
<1> QED
  BY <1>4, <1>5, <1>6

\* Maintenance leaves no stamp of a settled flow.
LEMMA MaintenanceStamps ==
    ASSUME ProxyTypeOK, TableCoherent, GenerationsPast, StampsCoherent, SettledLeavesNoStamp, Maintenance
    PROVE  StampsCoherent' /\ SettledLeavesNoStamp'
<1>1. ASSUME UNCHANGED <<udpVars, confirmed>>,
             maintenance.at \notin {"invalidate", "remove", "await"},
             maintenance'.at \notin {"invalidate", "remove", "await"}, maintenance'.about = <<0, 0>>
      PROVE  StampsCoherent' /\ SettledLeavesNoStamp'
  <2>1. maintenance.about = <<0, 0>>
    BY <1>1 DEF StampsCoherent
  <2>2. SettledLeavesNoStamp'
    BY ZenonT(30), <1>1, <2>1 DEF SettledLeavesNoStamp, Settled, udpVars, ProxyTypeOK
  <2> QED
    BY SMTT(30), <1>1, <2>2 DEF StampsCoherent, udpVars
<1>2. CASE PassStarts \/ ReadPage \/ ScanEnds \/ (\E o \in maintenance.queue : DeletePartial(o) \/ DeleteTimesOut(o))
  <2>1. /\ maintenance'.at \in {"scan", "page", "delete"} /\ maintenance'.about = maintenance.about
        /\ maintenance.at \in {"sleep", "scan", "delete"}
    BY ZenonT(30), <1>2
       DEF PassStarts, ReadPage, ScanEnds, DeletePartial, DeleteTimesOut, ProxyTypeOK, MaintenanceRecord
  <2>2. UNCHANGED <<udpVars, confirmed>>
    BY ZenonT(30), <1>2 DEF PassStarts, ReadPage, ScanEnds, DeletePartial, DeleteTimesOut, serviceVars
  <2>3. maintenance.about = <<0, 0>>
    BY <2>1 DEF StampsCoherent
  <2> QED
    BY <1>1, <2>1, <2>2, <2>3
<1>3. CASE PassEnds \/ MaintenanceEnds
  <2>1. /\ maintenance'.at \in {"sleep", "ended"} /\ maintenance'.about = <<0, 0>>
        /\ maintenance.at \in {"sleep", "scan", "delete"}
    BY <1>3 DEF PassEnds, MaintenanceEnds, Asleep
  <2>2. UNCHANGED <<udpVars, confirmed>>
    BY <1>3 DEF PassEnds, MaintenanceEnds, serviceVars
  <2> QED
    BY <1>1, <2>1, <2>2
<1> QED
  BY SMTT(30), <1>2, <1>3, PageStamps, DeleteStamps, InvalidateStamps DEF Maintenance

\* Draining, and the steps that touch neither the table nor maintenance.
LEMMA OtherStamps ==
    ASSUME ProxyTypeOK, StampsCoherent, SettledLeavesNoStamp,
           \/ \E i \in Ids : Packet(i) \/ Tick(i)
           \/ \E o \in late : LateDelete(o)
           \/ Tcp \/ StopFanOut \/ Drain \/ Return
    PROVE  StampsCoherent' /\ SettledLeavesNoStamp'
<1>1. CASE UNCHANGED <<entries, association, maintenance, confirmed>>
  BY SMTT(30), <1>1, StampSame
<1>2. CASE Drain
  <2>1. UNCHANGED <<maintenance, confirmed>> /\ \A t \in Tuples : entries'[t] = None
    BY <1>2 DEF Drain, serviceVars
  <2>2. \A a \in Associations :
           /\ association'[a].key = association[a].key
           /\ association'[a].flow_identity = association[a].flow_identity
    BY <1>2, DrainType
  <2> QED
    BY SMTT(30), <2>1, <2>2, StampFrame
<1>3. CASE (\E i \in Ids : Packet(i) \/ Tick(i)) \/ (\E o \in late : LateDelete(o)) \/ StopFanOut \/ Return
  BY ZenonT(30), <1>1, <1>3 DEF Packet, Tick, LateDelete, StopFanOut, Return, udpVars, proxyVars, serviceVars
<1>4. CASE Tcp
  BY ZenonT(30), <1>1, <1>4
     DEF Tcp, Accept, Mapped, Connected, SessionEnds, SessionStep, AbortSessions, SessionAborted,
     TcpEnds, udpVars, serviceVars
<1> QED
  BY <1>2, <1>3, <1>4

-----------------------------------------------------------------------------
(* The invariant.                                                          *)

\* Every step keeps the invariant.
LEMMA ProxyStep ==
    ASSUME ProxyInv, [Next]_vars
    PROVE  ProxyInv'
<1> USE DEF ProxyInv
<1>1. CASE UNCHANGED vars
  <2>1. /\ UNCHANGED <<flow, inbox, entries, association, udp, stop, maintenance, session, tcp, main>>
        /\ UNCHANGED <<packets, late, confirmed, faults>>
    BY <1>1 DEF vars, proxyVars, serviceVars
  <2>2. ProxyTypeOK'
    BY SMTT(30), <2>1 DEF ProxyTypeOK
  <2>3. TableCoherent' /\ JoinCoherent' /\ NoOrphanRelay'
    BY <2>1 DEF TableCoherent, JoinCoherent, NoOrphanRelay
  <2>4. GenerationsPast' /\ ExpiryHolds'
    BY <2>1, OtherPast DEF serviceVars
  <2> QED
    BY <2>1, <2>2, <2>3, <2>4, StampSame
<1>2. CASE \E i \in Ids : Packet(i) \/ Tick(i)
  <2>1. ProxyTypeOK'
    BY <1>2, DataplaneType
  <2>2. GenerationsPast' /\ ExpiryHolds'
    BY <1>2, PacketPast, TickPast
  <2> QED
    BY <1>2, <2>1, <2>2, OtherTable, OtherJoin, OtherStamps
<1>3. CASE \E o \in late : LateDelete(o)
  <2>1. ProxyTypeOK'
    BY <1>3, LateType
  <2>2. GenerationsPast' /\ ExpiryHolds'
    BY <1>3, LatePast
  <2> QED
    BY <1>3, <2>1, <2>2, OtherTable, OtherJoin, OtherStamps
<1>4. CASE UdpTask /\ UNCHANGED <<proxyVars, serviceVars>>
  <2>1. ProxyTypeOK'
    BY <1>4, UdpType
  <2>2. flow' = flow
    BY ZenonT(30), <1>4
       DEF UdpTask, Receive, Resolve, ResolveFails, Publish, AwaitStopped, SendSucceeds, SendRefused,
       SendFails, UdpEnds
  <2>3. GenerationsPast' /\ ExpiryHolds'
    BY <1>4, <2>2, OtherPast DEF proxyVars
  <2> QED
    BY <1>4, <2>1, <2>3, UdpTable, UdpJoin, UdpStamps
<1>5. CASE \E a \in Associations : Relay(a) /\ UNCHANGED <<proxyVars, serviceVars>>
  <2> PICK a \in Associations : FinishRelay(a) /\ UNCHANGED <<proxyVars, serviceVars>>
    BY <1>5 DEF Relay, RelayStops, RelayExpires
  <2>1. ProxyTypeOK'
    BY ZenonT(30), FinishRelayType DEF ProxyTypeOK, FinishRelay, proxyVars, serviceVars
  <2>2. flow' = flow
    BY DEF FinishRelay
  <2>3. GenerationsPast' /\ ExpiryHolds'
    BY <2>2, OtherPast DEF proxyVars
  <2> QED
    BY <2>1, <2>3, FinishRelayTable, UdpJoin, UdpStamps
<1>6. CASE Maintenance
  <2>1. ProxyTypeOK'
    BY <1>6, ScanType, PageType, DeleteType, InvalidateType DEF Maintenance
  <2> QED
    BY <1>6, <2>1, MaintenanceTable, MaintenanceJoin, MaintenancePast, MaintenanceStamps
<1>7. CASE Tcp \/ StopFanOut \/ Drain \/ Return
  <2>1. ProxyTypeOK'
    BY <1>7, TcpMainType, DrainType
  <2>2. UNCHANGED <<flow, maintenance, serviceVars>>
    BY <1>7 DEF Tcp, Accept, Mapped, Connected, SessionEnds, SessionStep, AbortSessions, SessionAborted,
       TcpEnds, StopFanOut, Drain, Return
  <2>3. GenerationsPast' /\ ExpiryHolds'
    BY <2>2, OtherPast
  <2> QED
    BY <1>7, <2>1, <2>3, OtherTable, OtherJoin, OtherStamps
<1> QED
  BY <1>1, <1>2, <1>3, <1>4, <1>5, <1>6, <1>7 DEF Next

\* The proxy starts in the invariant.
LEMMA ProxyStarts == Init => ProxyInv
<1> SUFFICES ASSUME Init PROVE ProxyInv
  OBVIOUS
<1>1. ProxyTypeOK
  BY SMTT(30), TypeInit
<1>2. /\ \A t \in Tuples : entries[t] = None
      /\ \A a \in Associations : association[a].relay = "none" /\ association[a].flow_identity = <<0, 0>>
      /\ udp.at = "recv" /\ main.at = "running" /\ tcp = "accepting"
  BY DEF Init, UdpInit, AssociationsNew, Unmade, Receiving
<1>3. \A i \in Ids : flow[i].generation = 0 /\ flow[i].used = 0
  BY SMTT(30) DEF Init, NoFlow
<1>4. /\ maintenance.at = "sleep" /\ maintenance.page = {} /\ maintenance.pending = {}
      /\ maintenance.queue = {} /\ maintenance.about = <<0, 0>>
      /\ late = {} /\ confirmed = {} /\ packets = 0
  BY DEF Init, Asleep
<1>5. TableCoherent /\ JoinCoherent /\ NoOrphanRelay
  BY ZenonT(30), <1>2 DEF TableCoherent, JoinCoherent, NoOrphanRelay
<1>6. GenerationsPast /\ ExpiryHolds
  <2>1. \A i \in Ids : flow[i].generation <= packets /\ flow[i].used <= packets
    BY <1>3, <1>4
  <2>2. /\ \A o : o \notin maintenance.pending \cup maintenance.queue \cup late
        /\ \A p : p \notin maintenance.page
        /\ \A k : k \notin confirmed
    BY <1>4
  <2> QED
    BY <1>4, <2>1, <2>2, ZenonT(30) DEF GenerationsPast, ExpiryHolds
<1>7. StampsCoherent /\ SettledLeavesNoStamp
  BY <1>2, <1>4 DEF StampsCoherent, SettledLeavesNoStamp
<1> QED
  BY <1>1, <1>5, <1>6, <1>7 DEF ProxyInv

\* The inductive invariant of the host proxy: the table and the tasks of run_bound
\* are coherent, generations are never reused, observations hold of the flows as
\* they are, and stamps belong to the tuple's own flows.
THEOREM ProxyInvariant == Spec => []ProxyInv
<1>1. Init => ProxyInv
  BY ProxyStarts
<1>2. ProxyInv /\ [Next]_vars => ProxyInv'
  BY ProxyStep
<1> QED
  BY <1>1, <1>2, PTL DEF Spec

\* Leaving the table of associations never leaves a relay and its socket behind:
\* publication, refused sends, invalidation and the relays' own ends, in any order.
THEOREM NoRelayIsOrphaned == Spec => []NoOrphanRelay
<1>1. ProxyInv => NoOrphanRelay
  BY DEF ProxyInv
<1> QED
  BY <1>1, ProxyInvariant, PTL

\* Once invalidate has run for a flow that is known to be gone, nothing cached bears
\* the flow's identity, whatever was forwarded, published or scanned meanwhile.
THEOREM SettledDeletionsLeaveNoStamp == Spec => []SettledLeavesNoStamp
<1>1. ProxyInv => SettledLeavesNoStamp
  BY DEF ProxyInv
<1> QED
  BY <1>1, ProxyInvariant, PTL

\* run_bound returns with its tasks joined, no session left and an empty table.
THEOREM RunBoundJoins == Spec => []ReturnedMeansJoined
<1>1. ProxyInv => ReturnedMeansJoined
  BY DEF ProxyInv, JoinCoherent, ReturnedMeansJoined
<1> QED
  BY <1>1, ProxyInvariant, PTL

\* Maintenance removes a flow only while its retention policy calls the flow, as it
\* is then, expired: neither a packet after the scan nor a late request changes that.
THEOREM OnlyExpiredRemoved == Spec => RemovesOnlyExpired
<1> DEFINE Removal == \A i \in Ids : Present(i) /\ flow'[i].generation = 0 => ExpiredRecord(i, flow[i])
<1>1. ASSUME ProxyInv, [Next]_vars
      PROVE  [Removal]_vars
  <2> USE <1>1 DEF ProxyInv
  <2>1. CASE flow' = flow
    BY <2>1 DEF Present
  <2>2. ASSUME NEW o \in maintenance.queue \cup late, flow' = Deleted(o)
        PROVE  Removal
    <3>1. o \in Observed
      BY SMTT(30), RecordTypes
    <3>2. \A i \in Ids : flow'[i] # flow[i] =>
             i = o.id /\ flow[i].generation = o.generation /\ flow[i].used = o.used
      BY <2>2, <3>1, DeletedFlows
    <3> QED
      BY <3>2 DEF ExpiryHolds, Present
  <2>3. CASE \E i \in Ids : Packet(i)
    <3>1. packets \in Nat /\ packets' = packets + 1
      BY <2>3, PacketFlows DEF ProxyTypeOK
    <3>2. \A j \in Ids : flow'[j] = flow[j] \/ flow'[j].generation \in {flow[j].generation, packets'}
      BY <2>3, PacketFlows
    <3> QED
      BY SMTT(30), <3>1, <3>2 DEF Present
  <2>4. CASE \E i \in Ids : Tick(i)
    <3>1. \A j \in Ids : flow'[j].generation = flow[j].generation
      BY <2>4 DEF Tick, ProxyTypeOK, FlowRecord
    <3> QED
      BY <3>1 DEF Present
  <2>5. CASE UNCHANGED vars
    BY <2>5
  <2>6. CASE UdpTask \/ \E a \in Associations : Relay(a)
    BY ZenonT(30), <2>1, <2>6
       DEF UdpTask, Receive, Resolve, ResolveFails, Publish, AwaitStopped, SendSucceeds, SendRefused,
       SendFails, UdpEnds, Relay, RelayStops, RelayExpires, FinishRelay
  <2>7. CASE Maintenance
    <3>1. flow' = flow \/ \E o \in maintenance.queue : flow' = Deleted(o)
      BY ZenonT(30), <2>7
         DEF Maintenance, PassStarts, ReadPage, ProcessPage, ScanEnds, DeleteFlow, DeletePartial,
         DeleteTimesOut, InvalidateFinds, InvalidateRemoves, InvalidateWaits, PassEnds, MaintenanceEnds
    <3> QED
      BY <2>1, <2>2, <3>1
  <2>8. CASE Tcp \/ StopFanOut \/ Drain \/ Return
    BY <2>1, <2>8 DEF Tcp, Accept, Mapped, Connected, SessionEnds, SessionStep, AbortSessions, SessionAborted,
       TcpEnds, StopFanOut, Drain, Return
  <2>9. CASE \E o \in late : LateDelete(o)
    BY <2>2, <2>9 DEF LateDelete
  <2> HIDE DEF Removal
  <2> QED
    BY <1>1, <2>3, <2>4, <2>5, <2>6, <2>7, <2>8, <2>9 DEF Next
<1>2. ProxyInv /\ [Next]_vars => [Removal]_vars
  BY <1>1
<1>3. Spec => [][Removal]_vars
  BY <1>2, ProxyInvariant, PTL DEF Spec
<1> QED
  BY <1>3 DEF RemovesOnlyExpired

=============================================================================
