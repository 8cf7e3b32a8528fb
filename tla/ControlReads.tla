---------------------------- MODULE ControlReads ----------------------------
(***************************************************************************)
(* The read side of the control service over the classifiers' maps: the    *)
(* mapping lookup and the paged enumeration the host proxy makes, through   *)
(* the map values, the protobuf messages and the client's conversions; and  *)
(* the log ring.                                                            *)
(*                                                                         *)
(* A handler holds the adapter's lock while it reads the maps, so each is a *)
(* single step; what happens between two of a client's requests is          *)
(* everything in Classifier.                                                *)
(***************************************************************************)
EXTENDS Classifier

CONSTANTS
    Initial,        \* the configuration the service starts with
    PageLimit,      \* records in a page of EnumerateFlows
    PullLimit,      \* records in a page of PullLogs
    TokenTtl        \* age up to which a continuation token is accepted

VARIABLES
    scan,           \* a client's enumeration: its token, what it was given, what
                    \* was in the map when it began
    logs,           \* LogRing
    reader          \* a client of PullLogs: its cursor, what it read, what it was
                    \* told it missed

vars == <<packetVars, scan, logs, reader>>

-----------------------------------------------------------------------------
(* Tuples on the wire between the service and its client.                  *)

ProtoBytes(address) == [length |-> IF address.family = 4 THEN 4 ELSE 16, host |-> address.host]

TupleToProto(tuple) ==
    [family |-> IF tuple.source.family = tuple.destination.family THEN tuple.source.family ELSE 0,
     source_address |-> ProtoBytes(tuple.source),
     destination_address |-> ProtoBytes(tuple.destination),
     protocol |-> tuple.protocol,
     source_port |-> tuple.source_port, destination_port |-> tuple.destination_port]

\* The client's tuple_from_proto.
TupleFromProto(proto) ==
    IF proto.source_port >= 2^16 \/ proto.destination_port >= 2^16 THEN Err
    ELSE NewTuple(ProtoAddress(proto.family, proto.source_address),
                  ProtoAddress(proto.family, proto.destination_address),
                  proto.protocol, proto.source_port, proto.destination_port)

\* The service's tuple_from_proto, which also validates.
RequestedTuple(proto) ==
    LET tuple == TupleFromProto(proto)
    IN  IF tuple # Err /\ ValidTuple(tuple) THEN tuple ELSE Err

-----------------------------------------------------------------------------
(* GetMapping.                                                             *)

StateKeys == [g \in DOMAIN flows |->
    Packed(FlowIdentity, [version |-> 1, flow_id |-> flows[g].flow_id, generation |-> g])]

Stored(g) == DecodeFlowState(Packed(FlowStateValue, flows[g]))

\* get_entry: the index, the record it names, and the mapping made of that.
ActiveEntry(state) == IF state = Err \/ state.lifecycle # 2 THEN Err ELSE EncodeValue(state)

GetEntry(key) ==
    LET identity == DecodeFlowIndex(index[key])
        named    == {g \in DOMAIN flows :
                        StateKeys[g] = EncodeFlowStateKey(identity.flow_id, identity.generation)}
    IN  IF key \notin DOMAIN index \/ named = {} THEN Err
        ELSE ActiveEntry(Stored(CHOOSE g \in named : TRUE))

\* The service's get_mapping, with mapping_to_proto.
MappingToProto(mapping) ==
    IF mapping = Err THEN Err
    ELSE [synthetic |-> TupleToProto(mapping.synthetic), original |-> TupleToProto(mapping.original)]

Mapping(key, entry) == IF entry = Err THEN Err ELSE DecodeValue(key, entry)

Lookup(request) ==
    IF request = Err THEN Err ELSE Mapping(EncodeKey(request), GetEntry(EncodeKey(request)))

ServedMapping(proto) == MappingToProto(Lookup(RequestedTuple(proto)))

\* The client's get_mapping around it: where to connect for a packet that reached
\* the proxy with this tuple.
Destination(tuple, synthetic, original) ==
    IF \/ synthetic # tuple \/ original.protocol # tuple.protocol
       \/ Unspecified(original.destination) \/ original.destination_port = 0
       \/ original.destination.family # tuple.destination.family
    THEN Err
    ELSE [address |-> original.destination, port |-> original.destination_port]

Resolved(tuple, served) ==
    IF served = Err THEN Err
    ELSE Destination(tuple, TupleFromProto(served.synthetic), TupleFromProto(served.original))

GetMapping(tuple) == Resolved(tuple, ServedMapping(TupleToProto(tuple)))

-----------------------------------------------------------------------------
(* EnumerateFlows and a client that follows its tokens.                    *)

NoToken == [issued_ns |-> 0]
NoScan  == [at |-> "paging", token |-> NoToken, given |-> <<>>, began |-> {}]
Absent  == [at |-> "absent"]

\* list_flow_states decodes every record and fails on the first it cannot.
ListFlowStates == {Stored(g) : g \in DOMAIN flows}

Refused(token) ==
    token # NoToken /\ (token.issued_ns > events \/ events - token.issued_ns > TokenTtl)

\* The order of enumeration.
Before(a, b) == a.flow_id < b.flow_id \/ (a.flow_id = b.flow_id /\ a.generation < b.generation)

\* A cursor that is off by one.
BeyondId(token, flow) == token # NoToken => token.flow_id + 1 < flow.flow_id

Beyond(token, flow) == token # NoToken => Before(token, flow)

\* What a flow's packets change is left out.
FlowToProto(flow) ==
    [flow_id |-> flow.flow_id, generation |-> flow.generation, protocol |-> flow.original.protocol,
     synthetic |-> TupleToProto(flow.target), original |-> TupleToProto(flow.original)]

\* The client's record of it, or an error for the whole page.
FlowRecord(proto) ==
    LET synthetic == TupleFromProto(proto.synthetic)
        original  == TupleFromProto(proto.original)
    IN  IF Err \in {synthetic, original} \/ {synthetic.protocol, original.protocol} # {proto.protocol}
        THEN Err
        ELSE [flow_id |-> proto.flow_id, generation |-> proto.generation,
              synthetic |-> synthetic, original |-> original]

\* The walk over the kernel's map starts again when a classifier takes back the
\* record it stands on, and gives the records before it a second time.
Listed(states, again) ==
    FoldLeft(LAMBDA sorted, flow : sorted \o (IF flow \in again THEN <<flow, flow>> ELSE <<flow>>),
             <<>>, SetToSortSeq(states, Before))

\* History: the flows a finished scan should have given and did not.
Missed(given, began) ==
    {g \in began \cap DOMAIN flows :
        ~\E i \in DOMAIN given :
            /\ given[i].generation = g
            /\ given[i].original = truth[g].original
            /\ EncodeKey(given[i].synthetic) = flows[g].target}

InOrder(given) == \A i, j \in DOMAIN given : i < j => ~Before(given[j], given[i])

\* The client with one more page: it goes on with the token, or is done.
Scanned(listed, given, began) ==
    IF Len(listed) > PageLimit
    THEN [at |-> "paging", given |-> given, began |-> began,
          token |-> [issued_ns |-> IF scan.token = NoToken THEN events ELSE scan.token.issued_ns,
                     flow_id |-> listed[PageLimit].flow_id, generation |-> listed[PageLimit].generation]]
    ELSE [at |-> "done", missed |-> Missed(given, began), ordered |-> InOrder(given)]

Page(listed) ==
    Scanned(listed,
            scan.given \o [i \in 1 .. (IF Len(listed) > PageLimit THEN PageLimit ELSE Len(listed)) |->
                              FlowRecord(FlowToProto(listed[i]))],
            IF scan.token = NoToken THEN DOMAIN flows ELSE scan.began)

ScanPage ==
    /\ scan.at = "paging" /\ ~Refused(scan.token)
    /\ Err \notin ListFlowStates
    /\ LET rest == {flow \in ListFlowStates : Beyond(scan.token, flow)}
       IN  \E again \in SUBSET rest : scan' = Page(Listed(rest, again))
    /\ UNCHANGED <<packetVars, logs, reader>>

ScanFails ==
    /\ scan.at = "paging"
    /\ Refused(scan.token) \/ Err \in ListFlowStates
    /\ scan' = [at |-> "failed"]
    /\ UNCHANGED <<packetVars, logs, reader>>

-----------------------------------------------------------------------------
(* LogRing and a client of PullLogs.                                       *)

NewRing(capacity) == [capacity |-> capacity, next_sequence |-> 1, records |-> <<>>]

\* The newest records, as many as the capacity keeps.
Kept(records, capacity) ==
    IF Len(records) > capacity THEN SubSeq(records, Len(records) - capacity + 1, Len(records))
    ELSE records

Appended(ring) == [ring EXCEPT !.next_sequence = @ + 1,
                              !.records = Kept(Append(@, ring.next_sequence), ring.capacity)]

SetCapacity(ring, capacity) ==
    LET kept == IF capacity > 1 THEN capacity ELSE 1
    IN  [ring EXCEPT !.capacity = kept, !.records = Kept(@, kept)]

\* An attach that fails, or is rejected and rolled back, leaves a record in the log.
AttachFails ==
    /\ pending = <<>> /\ Happens
    /\ logs' = Appended(logs)
    /\ UNCHANGED <<configVars, flowVars, cpu, networkVars, truth, scan, reader>>

\* Reporting a gap only when more than one record is missing.
CursorExpiredLate(cursor) == logs.records # <<>> /\ cursor + 2 < logs.records[1]

CursorExpired(cursor) == logs.records # <<>> /\ cursor + 1 < logs.records[1]

PullLogs ==
    LET newer == SelectSeq(logs.records, LAMBDA sequence : sequence > reader.cursor)
        page  == SubSeq(newer, 1, IF Len(newer) < PullLimit THEN Len(newer) ELSE PullLimit)
    IN  /\ scan = Absent /\ ~CursorExpired(reader.cursor) /\ page # <<>>
        /\ reader' = [reader EXCEPT !.cursor = page[Len(page)], !.pulled = @ \o page]
        /\ UNCHANGED <<packetVars, scan, logs>>

\* The error names the oldest record, from which the client goes on.
PullExpired ==
    /\ scan = Absent /\ CursorExpired(reader.cursor)
    /\ reader' = [reader EXCEPT !.cursor = logs.records[1] - 1,
                                !.missed = @ \cup (reader.cursor + 1 .. logs.records[1] - 1)]
    /\ UNCHANGED <<packetVars, scan, logs>>

-----------------------------------------------------------------------------
\* A client follows the flows or the logs; reading changes nothing the other sees.
Init ==
    /\ PacketInit(RuntimeConfigFromProto(Initial))
    /\ scan \in {NoScan, Absent}
    /\ logs = NewRing(Initial.log_capacity)
    /\ reader = [cursor |-> 0, pulled |-> <<>>, missed |-> {}]

\* SetConfig ends by resizing the log ring.
SetConfigReturns ==
    SetConfigWritten /\ logs' = SetCapacity(logs, pending[1].log_capacity) /\ UNCHANGED <<scan, reader>>

Next ==
    \/ PacketNext /\ UNCHANGED <<scan, logs, reader>>
    \/ SetConfigReturns
    \/ ScanPage \/ ScanFails
    \/ AttachFails \/ PullLogs \/ PullExpired

Spec == Init /\ [][Next]_vars

-----------------------------------------------------------------------------
\* INV-TC-002 and INV-TC-003: whatever SetConfig does meanwhile, the packets of one
\* flow all go to the target it was created with, and what the workload gets back
\* on it comes from where the workload had sent.
Transparent ==
    /\ \A a, b \in arrived : a.flow = b.flow /\ a.flow # 0 =>
          a.tuple.destination = b.tuple.destination /\ a.tuple.destination_port = b.tuple.destination_port
    /\ \A d \in delivered : d.flow # 0 => Swapped(d.tuple) = truth[d.flow].original

\* INV-TC-003: every packet leaves a classifier with checksums over the header it
\* then has, whatever part of the transport checksum is in the packet already, but
\* for the two cases in which update_l4_checksum's flags are not the ones that the
\* packet calls for.  Over IPv4 the address is replaced without BPF_F_PSEUDO_HDR,
\* so a checksum that the device has still to finish keeps the old address; and
\* nothing is replaced with BPF_F_MARK_MANGLED_0, so a UDP datagram sent without a
\* checksum gets a wrong one.
FlagsMissing(packet) ==
    packet.flow # 0 /\ packet.tuple.source.family = 4 /\ packet.checksum \in {"partial", "spoilt"}

ChecksumsFollow ==
    \A packet \in arrived \cup delivered :
        /\ \A name \in DOMAIN packet.ip_checksum : packet.ip_checksum[name] = packet.tuple[name]
        /\ \/ FlagsMissing(packet)
           \/ /\ packet.checksum # "spoilt"
              /\ \A name \in DOMAIN packet.l4_checksum : packet.l4_checksum[name] = packet.tuple[name]

\* What the descriptor means, the bytes of the runtime map aside.
ForListener(tuple) ==
    /\ tuple.protocol = "tcp" /\ tuple.destination_port = Listener.port
    /\ tuple.destination.family = Listener.address.family
    /\ Listener.address.host # 0 => tuple.destination = Listener.address

\* Control connections are left alone in both directions, also while a SetConfig
\* is rewriting the map that says where the listener is.
ControlUntouched ==
    /\ \A g \in DOMAIN truth : ~ForListener(truth[g].original)
    /\ \A d \in delivered : ForListener(Swapped(d.tuple)) => d.flow = 0

\* A client that looks up the tuple a packet of a live flow arrived with is told
\* the destination the workload had sent it to, and is refused only what the
\* service calls an invalid tuple.
ResolvesToContacted ==
    \A a \in arrived :
        a.flow \in DOMAIN flows /\ ValidTuple(truth[a.flow].original) =>
            GetMapping(a.tuple) = [address |-> truth[a.flow].original.destination,
                                   port    |-> truth[a.flow].original.destination_port]

\* The masks by which the host retires a TCP flow claim no FIN that was not sent,
\* whatever updates were lost between CPUs, and no acknowledgement of a FIN but for
\* one that was sent or for a segment that crossed the FIN: update_tcp_state does
\* not look at the acknowledgement number, so an ACK sent before the peer's FIN
\* arrived counts when the classifiers see it after that FIN.
Closed(g, d) == d \in truth[g].fin
Answered(g, d) == d \in truth[g].ack \cup truth[g].crossed

TerminalIsTrue ==
    \A g \in DOMAIN flows : \A flow \in {Stored(g)} \ {Err} : \A d \in {0, 1} :
        /\ Bit(flow.fin_seen_mask, 1 + d) => Closed(g, d)
        /\ Bit(flow.fin_ack_seen_mask, 1 + d) => Closed(g, 1 - d) /\ Answered(g, d)
        /\ flow.terminal_deadline_ns # 0 => Closed(g, d) /\ Answered(g, d)

\* As long as its packets do not overlap, a flow's record is the one that
\* FlowState::observe_tcp makes of them.
SerialMatchesReference ==
    \A g \in DOMAIN flows :
        (/\ truth[g].reference # Overlapped
         /\ \A c \in CPUs : cpu[c].at # "idle" => cpu[c].flow # g) =>
            \A name \in DOMAIN truth[g].reference : flows[g][name] = truth[g].reference[name]

\* A scan that completes has given, in order, every flow that was there all the
\* time, with the tuples it has, however many were created and deleted between its
\* pages and however often the walk over the map started again.
ScanComplete == scan.at = "done" => scan.missed = {} /\ scan.ordered

\* INV-007: up to its cursor a client has read every record once, in order, or was
\* told that it is gone, whatever was evicted by new records or a smaller capacity.
LogsWithoutGap ==
    /\ \A i, j \in DOMAIN reader.pulled : i < j => reader.pulled[i] < reader.pulled[j]
    /\ 1 .. reader.cursor = Range(reader.pulled) \cup reader.missed

\* "Target address and port are encoded atomically as one complete runtime record":
\* the target of a flow is one that some SetConfig carried.
FlowTargetsConfigured ==
    \A g \in DOMAIN flows :
        \E config \in {RuntimeConfigFromProto(proto) : proto \in Proposals \cup {Initial}} \ {Err} :
            \E target \in {config.ipv4_target, config.ipv6_target} :
                target = [family |-> NativeAddress(flows[g].target, "destination").family,
                          host   |-> NativeAddress(flows[g].target, "destination").host,
                          port   |-> Field(TupleKey, flows[g].target, "destination_port")]
=============================================================================
