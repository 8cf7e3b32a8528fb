----------------------------- MODULE Classifier -----------------------------
(***************************************************************************)
(* The two TC classifiers as they see whole packets: what is parsed, what  *)
(* is bypassed, which target a new flow is given, what is rewritten, and   *)
(* what is recorded of a TCP conversation; with the SetConfig that writes  *)
(* the runtime map they read.                                              *)
(*                                                                         *)
(* Creating and deleting a flow are single steps here: FlowTable has their *)
(* map accesses.  What is not a single step is what no lock and no guard   *)
(* covers: the write of the runtime map's value, which the kernel copies   *)
(* over the old one word by word, and update_tcp_state, which loads and    *)
(* stores plain fields of a record that other CPUs update.                 *)
(*                                                                         *)
(* Time is the number of events so far.                                    *)
(***************************************************************************)
EXTENDS MapAbi, Integers

CONSTANTS
    CPUs,
    Workload,        \* the packets the workload may send
    Hash,            \* tuple_hash of their tuples
    Listener,        \* the control listener's descriptor
    Proposals,       \* the configurations a SetConfig may carry
    Cuts,            \* where a classifier may find the runtime value half written
    MaxEvents        \* bound on the packets, requests and log records of a behaviour

VARIABLES
    snapshot,        \* ConfigStore::current
    runtime,         \* the value of ssp_runtime_config_v3
    pending,         \* the configuration a SetConfig is copying there
    index,           \* ssp_flow_index_v1
    flows,           \* ssp_flow_state_v1, by generation
    generation,      \* ssp_flow_generation_v1
    cpu,             \* the packet each CPU is processing
    arrived,         \* the packets that went on from the forward hook
    delivered,       \* the packets that went on from the reverse hook
    truth,           \* history: what really happened to each generation
    events

configVars  == <<snapshot, runtime, pending>>
networkVars == <<arrived, delivered>>
flowVars    == <<index, flows, generation>>
packetVars  == <<configVars, flowVars, cpu, networkVars, truth, events>>

Idle == [at |-> "idle"]

\* An event happens.
Happens == events < MaxEvents /\ events' = events + 1

-----------------------------------------------------------------------------
(* SetConfig: protobuf, validation, the runtime map's value.               *)

NoTarget == [family |-> 0, host |-> 0, port |-> 0]

\* service.rs's parse_address: the family and the number of bytes must agree.
ProtoAddress(family, bytes) ==
    IF <<family, bytes.length>> \in {<<4, 4>>, <<6, 16>>}
    THEN [family |-> family, host |-> bytes.host] ELSE Err

ParseTarget(family, bytes, port) ==
    LET address == ProtoAddress(family, bytes)
    IN  IF bytes.length = 0 /\ port = 0 THEN NoTarget
        ELSE IF bytes.length = 0 \/ port = 0 \/ port >= 2^16 \/ address = Err THEN Err
        ELSE [family |-> family, host |-> address.host, port |-> port]

RuntimeConfigFromProto(proto) ==
    LET next == [schema_version       |-> proto.schema_version,
                 idle_ttl             |-> proto.idle_ttl_ms,
                 tcp_terminal_grace   |-> proto.tcp_terminal_grace_ms,
                 active_flow_capacity |-> proto.active_flow_capacity,
                 log_capacity         |-> proto.log_capacity,
                 ipv4_target |-> ParseTarget(4, proto.ipv4_target_address, proto.ipv4_target_port),
                 ipv6_target |-> ParseTarget(6, proto.ipv6_target_address, proto.ipv6_target_port),
                 listener    |-> proto.listener]
    IN  IF proto.schema_version # 3 \/ Err \in {next.ipv4_target, next.ipv6_target} THEN Err
        ELSE next

\* RuntimeConfig::validate_with_maxima, the map's capacity apart.
ValidTarget(target) == target # NoTarget => target.port # 0 /\ target.host # 0

ValidConfig(config) ==
    /\ config.schema_version = 3
    /\ config.idle_ttl # 0 /\ config.tcp_terminal_grace # 0 /\ config.active_flow_capacity # 0
    /\ config.log_capacity \in 1 .. 100000
    /\ config.listener.port # 0
    /\ config.listener.ipv4_wildcard
         = (config.listener.address.host = 0 /\ config.listener.address.family = 4)
    /\ config.listener.ipv6_wildcard
         = (config.listener.address.host = 0 /\ config.listener.address.family = 6)
    /\ ValidTarget(config.ipv4_target) /\ ValidTarget(config.ipv6_target)

\* set_runtime_config: a target that is not set leaves its bytes zero, and an
\* IPv4 listener is stored where an IPv4-mapped address has its last four bytes.
EncodeRuntimeConfig(config) ==
    LET v4 == config.ipv4_target
        v6 == config.ipv6_target
        listener == config.listener
    IN  <<0, 2>> :> config.schema_version
        @@ <<2, 1>> :> (IF v4 = NoTarget THEN 0 ELSE 1)
        @@ <<4, 4>> :> v4.host @@ <<8, 2>> :> v4.port
        @@ <<3, 1>> :> (IF v6 = NoTarget THEN 0 ELSE 1)
        @@ <<10, 16>> :> v6.host @@ <<26, 2>> :> v6.port
        @@ <<28, 1>> :> listener.address.family
        @@ <<29, 1>> :> (IF listener.ipv4_wildcard THEN 1 ELSE 0)
                          + (IF listener.ipv6_wildcard THEN 2 ELSE 0)
        @@ (IF listener.address.family = 4 THEN <<42, 4>> ELSE <<30, 16>>)
              :> listener.address.host
        @@ <<46, 2>> :> listener.port
        @@ <<48, 8>> :> config.idle_ttl @@ <<56, 8>> :> config.tcp_terminal_grace
        @@ <<64, 4>> :> config.active_flow_capacity

\* The transaction's lock is held from the check to the publication, so there is
\* one writer; the classifiers read while it copies.
SetConfigWrites(proto, cut) ==
    LET next  == RuntimeConfigFromProto(proto)
        value == EncodeRuntimeConfig(next)
    IN  /\ pending = <<>> /\ Happens
        /\ next # Err /\ ValidConfig(next) /\ next.listener = snapshot.listener
        /\ pending' = <<next>>
        /\ runtime' = [range \in DOMAIN value |->
                          IF range[1] < cut THEN value[range] ELSE runtime[range]]
        /\ UNCHANGED <<snapshot, flowVars, cpu, networkVars, truth>>

SetConfigWritten ==
    /\ pending # <<>>
    /\ pending' = <<>>
    /\ runtime' = EncodeRuntimeConfig(pending[1]) /\ snapshot' = pending[1]
    /\ UNCHANGED <<flowVars, cpu, networkVars, truth, events>>

-----------------------------------------------------------------------------
(* parse_packet, is_control_packet and target_for_packet.                  *)

Swapped(tuple) == [source |-> tuple.destination, destination |-> tuple.source,
                   protocol |-> tuple.protocol, source_port |-> tuple.destination_port,
                   destination_port |-> tuple.source_port]

\* Whole TCP and UDP packets, and an IPv4 datagram's first fragment; an IPv6
\* fragment has another next header.
ParsePacket(packet) ==
    /\ packet.tuple.protocol \in {"tcp", "udp"}
    /\ packet.shape \in (IF packet.tuple.source.family = 4 THEN {"whole", "first"} ELSE {"whole"})

MakeTupleKey(tuple) ==
    Packed(TupleKey, [version |-> 1, family |-> tuple.source.family, protocol |-> tuple.protocol,
                      source |-> AddressBytes(tuple.source),
                      destination |-> AddressBytes(tuple.destination),
                      source_port |-> tuple.source_port,
                      destination_port |-> tuple.destination_port])

Config(name) == Field(RuntimeConfigValue, runtime, name)

\* The listener's IPv4 address looked for at the start of the field.
ListenerAddressUnmapped(family) ==
    Slice(runtime, RuntimeConfigValue.range["listener_address"][1], IF family = 4 THEN 4 ELSE 16)

ListenerAddress(family) ==
    LET first == RuntimeConfigValue.range["listener_address"][1]
    IN  IF family = 4 THEN Slice(runtime, first + 12, 4) ELSE Slice(runtime, first, 16)

IsControlPacket(tuple, ingress) ==
    LET endpoint == IF ingress THEN tuple.destination ELSE tuple.source
        port     == IF ingress THEN tuple.destination_port ELSE tuple.source_port
        wildcard == Config("listener_wildcard_flags")
    IN  /\ Config("schema_version") = 3
        /\ tuple.protocol = "tcp" /\ port = Config("listener_port")
        /\ Config("listener_family") = endpoint.family
        /\ \/ (IF endpoint.family = 4 THEN wildcard % 2 ELSE wildcard \div 2) = 1
           \/ ListenerAddress(endpoint.family) = endpoint.host

TargetForPacket(family) ==
    LET set  == Config(IF family = 4 THEN "v4_target_set" ELSE "v6_target_set")
        host == Config(IF family = 4 THEN "v4_target" ELSE "v6_target")
        port == Config(IF family = 4 THEN "v4_target_port" ELSE "v6_target_port")
    IN  IF Config("schema_version") = 3 /\ set = 1 /\ port # 0 /\ host # 0
        THEN [family |-> family, host |-> host, port |-> port] ELSE NoTarget

-----------------------------------------------------------------------------
(* rewrite_destination and rewrite_source.                                 *)

\* An incremental update corrects a checksum that covers the old value.
Replaced(covered, old, new) == IF covered = old THEN new ELSE covered

\* The address of a packed key, as the packet has it.
NativeAddress(key, name) ==
    ParseAddress(Field(TupleKey, key, "family"), Field(TupleKey, key, name))

\* bpf_l4_csum_replace, told that a field of the header changes.  The field of a
\* packet whose device is to finish the checksum covers the addresses only, and
\* is touched for a change of the pseudo-header only.  A UDP datagram without a
\* checksum is left without one only if the program says that zero is special.
L4CsumReplace(packet, name, new, flags) ==
    IF packet.checksum = "none" /\ "BPF_F_MARK_MANGLED_0" \notin flags
    THEN [packet EXCEPT !.checksum = "spoilt"]
    ELSE IF \/ packet.checksum = "partial" /\ "BPF_F_PSEUDO_HDR" \notin flags
            \/ name \notin DOMAIN packet.l4_checksum THEN packet
    ELSE [packet EXCEPT !.l4_checksum[name] = Replaced(@, packet.tuple[name], new)]

\* The change of an IPv6 address reported like that of a port.
UpdateL4ChecksumUnflagged(packet, address_field, address, port_field, port) ==
    L4CsumReplace(L4CsumReplace(packet, address_field, address, {}), port_field, port, {})

UpdateL4Checksum(packet, address_field, address, port_field, port) ==
    LET flags == IF packet.tuple.source.family = 4 THEN {} ELSE {"BPF_F_PSEUDO_HDR"}
    IN  L4CsumReplace(L4CsumReplace(packet, address_field, address, flags), port_field, port, {})

Rewritten(packet, g, address, port, address_field, port_field) ==
    [UpdateL4Checksum(packet, address_field, address, port_field, port) EXCEPT
        !.flow = g,
        !.tuple[address_field] = address,
        !.tuple[port_field]    = port,
        !.ip_checksum[address_field] = Replaced(@, packet.tuple[address_field], address)]

\* The target of the moment instead of the flow's own.
RewriteDestinationRetargeted(packet, g) ==
    LET target == TargetForPacket(packet.tuple.source.family)
    IN  Rewritten(packet, g, [family |-> target.family, host |-> target.host], target.port,
                  "destination", "destination_port")

RewriteDestination(packet, g) ==
    Rewritten(packet, g, NativeAddress(flows[g].target, "destination"),
              Field(TupleKey, flows[g].target, "destination_port"),
              "destination", "destination_port")

RewriteSource(packet, g) ==
    Rewritten(packet, g, NativeAddress(flows[g].original, "destination"),
              Field(TupleKey, flows[g].original, "destination_port"),
              "source", "source_port")

\* A packet goes on from the hook it was classified at.
GoesOn(packet, ingress) ==
    LET left == [packet EXCEPT !.flags = {}]
    IN  /\ arrived'   = IF ingress THEN arrived \cup {left} ELSE arrived
        /\ delivered' = IF ingress THEN delivered ELSE delivered \cup {left}

-----------------------------------------------------------------------------
(* process_packet.                                                         *)

Bit(mask, b) == (mask \div b) % 2 = 1
WithBit(mask, b) == IF Bit(mask, b) THEN mask ELSE mask + b

\* FlowState::observe_tcp, on the fields it concerns.
ObserveTcp(state, direction, flags, now, grace) ==
    LET acks  == "ACK" \in flags /\ Bit(state.fin_seen_mask, 2 - direction)
        fin   == "FIN" \in flags
        bits  == (IF "SYN" \in flags THEN {1 + direction} ELSE {}) \cup (IF acks THEN {4} ELSE {})
                   \cup (IF fin THEN {8} ELSE {}) \cup (IF "RST" \in flags THEN {16} ELSE {})
        seen  == IF fin THEN WithBit(state.fin_seen_mask, 1 + direction) ELSE state.fin_seen_mask
        acked == IF acks THEN WithBit(state.fin_ack_seen_mask, 1 + direction)
                         ELSE state.fin_ack_seen_mask
    IN  [last_used_ns         |-> now,
         tcp_state_flags      |-> FoldSet(LAMBDA b, mask : WithBit(mask, b), state.tcp_state_flags, bits),
         fin_seen_mask        |-> seen,
         fin_ack_seen_mask    |-> acked,
         terminal_deadline_ns |-> IF seen = 3 /\ acked = 3 /\ state.terminal_deadline_ns = 0
                                  THEN now + grace ELSE state.terminal_deadline_ns]

Fresh(now) == [last_used_ns |-> now, tcp_state_flags |-> 0, fin_seen_mask |-> 0,
               fin_ack_seen_mask |-> 0, terminal_deadline_ns |-> 0]

Overlapped == [overlapped |-> TRUE]

Grace == IF Config("terminal_grace_ns") # 0 THEN Config("terminal_grace_ns") ELSE 30

\* What the conversation has really sent, and what observe_tcp would make of it
\* as long as no two of its packets are processed at once.
Witness(told, g, direction, flags, now) ==
    [told EXCEPT
        !.fin = IF "FIN" \in flags THEN @ \cup {direction} ELSE @,
        !.reference =
            IF @ = Overlapped \/ \E c \in CPUs : cpu[c].at # "idle" /\ cpu[c].flow = g
            THEN Overlapped
            ELSE ObserveTcp(@, direction, flags, now, Grace)]

\* The packet enters its flow's section; a UDP packet only moves the timestamp.
\* A segment acknowledges the peer's FIN only if that had reached its sender,
\* which it may not have when the segment was sent.
Enter(c, packet, ingress, g, state, told) ==
    LET now == events + 1
        tcp == packet.tuple.protocol = "tcp"
        direction == IF ingress THEN 0 ELSE 1
    IN  /\ \E acknowledges \in (IF "ACK" \in packet.flags /\ 1 - direction \in told.heard
                                 THEN BOOLEAN ELSE {FALSE}) :
              cpu' = [cpu EXCEPT ![c] =
                         [at |-> IF tcp THEN "load" ELSE "rewrite", packet |-> packet,
                          direction |-> direction, flow |-> g, now |-> now,
                          acknowledges |-> acknowledges, seen |-> 0, acked |-> 0, bits |-> 0]]
        /\ flows' = g :> [state EXCEPT !.last_used_ns = now] @@ flows
        /\ truth' = g :> (IF tcp THEN Witness(told, g, direction, packet.flags, now)
                                 ELSE [told EXCEPT !.reference = Fresh(now)]) @@ truth
        /\ UNCHANGED <<configVars, networkVars>>

\* A packet no flow is made for: unsupported, for the control listener, or of no
\* known flow where there is no target or at the reverse hook.
PassUnchanged(c, packet, ingress) ==
    /\ cpu[c].at = "idle" /\ Happens
    /\ \/ ~ParsePacket(packet)
       \/ IsControlPacket(packet.tuple, ingress)
       \/ /\ MakeTupleKey(packet.tuple) \notin DOMAIN index
          /\ ingress => TargetForPacket(packet.tuple.source.family) = NoTarget
    /\ GoesOn(packet, ingress)
    /\ UNCHANGED <<configVars, flowVars, cpu, truth>>

Claims(packet, ingress) == ParsePacket(packet) /\ ~IsControlPacket(packet.tuple, ingress)

HitFlow(c, packet, ingress) ==
    LET key == MakeTupleKey(packet.tuple)
        g   == Field(FlowIdentity, index[key], "generation")
    IN  /\ cpu[c].at = "idle" /\ Happens
        /\ Claims(packet, ingress) /\ key \in DOMAIN index
        /\ Enter(c, packet, ingress, g, flows[g], truth[g])
        /\ UNCHANGED <<index, generation>>

\* The three keys of a new flow and its record, from the target of the moment.
Candidate(tuple, target, g) ==
    LET address == [family |-> target.family, host |-> target.host]
        towards == [tuple EXCEPT !.destination = address, !.destination_port = target.port]
    IN  [original |-> MakeTupleKey(tuple), target |-> MakeTupleKey(towards),
         reverse  |-> MakeTupleKey(Swapped(towards)),
         protocol_flags |-> IF tuple.protocol = "tcp" THEN 1 ELSE 2,
         lifecycle |-> 2, flow_id |-> Hash[tuple], generation |-> g] @@ Fresh(0)

\* The first packet of a flow; it is dropped when the capacity is used up, when a
\* key of the flow belongs to another one, and when it is sent to the target itself.
Insert(c, packet, new) ==
    LET g      == new.generation
        keys   == {new.original, new.target, new.reverse}
        room   == Config("active_flow_capacity") = 0
                    \/ Cardinality(DOMAIN flows) < Config("active_flow_capacity")
        fits   == room /\ Cardinality(keys) = 3 /\ keys \cap DOMAIN index = {}
        identity == Packed(FlowIdentity, [version |-> 1, flow_id |-> new.flow_id, generation |-> g])
    IN  /\ new.original \notin DOMAIN index
        /\ generation' = g
        /\ \/ /\ fits
              /\ index' = [key \in keys |-> identity] @@ index
              /\ Enter(c, packet, TRUE, g, new,
                       [original |-> packet.tuple, fin |-> {}, heard |-> {}, ack |-> {},
                        crossed |-> {}, reference |-> Fresh(0)])
           \/ /\ ~fits
              /\ UNCHANGED <<index, flows, configVars, cpu, networkVars, truth>>

CreateFlow(c, packet) ==
    /\ cpu[c].at = "idle" /\ Happens
    /\ Claims(packet, TRUE)
    /\ \E target \in {TargetForPacket(packet.tuple.source.family)} \ {NoTarget} :
          Insert(c, packet, Candidate(packet.tuple, target, generation + 1))

-----------------------------------------------------------------------------
(* update_tcp_state.  Its fields are plain memory: what it loads may be old *)
(* when it stores, and the compiler may keep a value or load it again.      *)

TcpLoad(c) ==
    LET p == cpu[c] IN
    /\ p.at = "load"
    /\ cpu' = [cpu EXCEPT ![c].at = "ack", ![c].seen = flows[p.flow].fin_seen_mask,
                          ![c].acked = flows[p.flow].fin_ack_seen_mask,
                          ![c].bits = flows[p.flow].tcp_state_flags]
    /\ truth' = [truth EXCEPT
          ![p.flow].ack     = IF p.acknowledges THEN @ \cup {p.direction} ELSE @,
          ![p.flow].crossed = IF /\ "ACK" \in p.packet.flags /\ ~p.acknowledges
                                 /\ 1 - p.direction \in truth[p.flow].fin
                              THEN @ \cup {p.direction} ELSE @]
    /\ UNCHANGED <<configVars, flowVars, networkVars, events>>

\* Counting every acknowledgement as one of the peer's FIN.
AcksAny(p) == "ACK" \in p.packet.flags

Acks(p) == "ACK" \in p.packet.flags /\ Bit(p.seen, 2 - p.direction)

TcpAck(c) ==
    LET p == cpu[c] IN
    /\ p.at = "ack"
    /\ cpu' = [cpu EXCEPT ![c].at = "fin", ![c].acked = IF Acks(p) THEN WithBit(@, 1 + p.direction) ELSE @]
    /\ flows' = IF Acks(p) THEN [flows EXCEPT ![p.flow].fin_ack_seen_mask = WithBit(p.acked, 1 + p.direction)]
                           ELSE flows
    /\ UNCHANGED <<configVars, index, generation, networkVars, truth, events>>

TcpBits(p) ==
    (IF "SYN" \in p.packet.flags THEN {1 + p.direction} ELSE {}) \cup (IF Acks(p) THEN {4} ELSE {})
      \cup (IF "FIN" \in p.packet.flags THEN {8} ELSE {}) \cup (IF "RST" \in p.packet.flags THEN {16} ELSE {})

\* A FIN that is recorded for the other direction.
TcpFinSwapped(c, again) ==
    LET p == cpu[c] IN
    /\ p.at = "fin"
    /\ cpu' = [cpu EXCEPT ![c].at = "rewrite"]
    /\ flows' = IF "FIN" \in p.packet.flags
                THEN [flows EXCEPT ![p.flow].fin_seen_mask = WithBit(@, 2 - p.direction)] ELSE flows
    /\ UNCHANGED <<configVars, index, generation, networkVars, truth, events>>

TcpFin(c, again) ==
    LET p    == cpu[c]
        old  == flows[p.flow]
        seen == IF again THEN old.fin_seen_mask ELSE p.seen
        bits == IF again THEN old.tcp_state_flags ELSE p.bits
        fin  == IF "FIN" \in p.packet.flags THEN WithBit(seen, 1 + p.direction) ELSE seen
    IN  /\ p.at = "fin"
        /\ cpu' = [cpu EXCEPT ![c].at = "rewrite", ![c].seen = fin]
        /\ flows' = [flows EXCEPT
                ![p.flow].fin_seen_mask = IF "FIN" \in p.packet.flags THEN fin ELSE @,
                ![p.flow].tcp_state_flags =
                    IF TcpBits(p) = {} THEN @
                    ELSE FoldSet(LAMBDA b, mask : WithBit(mask, b), bits, TcpBits(p))]
        /\ UNCHANGED <<configVars, index, generation, networkVars, truth, events>>

\* The deadline of a conversation that is over, the rewrite, and out of the section.
Rewrite(c, again) ==
    LET p     == cpu[c]
        old   == flows[p.flow]
        masks == IF again THEN <<old.fin_seen_mask, old.fin_ack_seen_mask>> ELSE <<p.seen, p.acked>>
        over  == p.packet.tuple.protocol = "tcp" /\ masks = <<3, 3>> /\ old.terminal_deadline_ns = 0
    IN  /\ p.at = "rewrite"
        /\ flows' = IF over THEN [flows EXCEPT ![p.flow].terminal_deadline_ns = p.now + Grace] ELSE flows
        /\ GoesOn(IF p.direction = 0 THEN RewriteDestination(p.packet, p.flow)
                                     ELSE RewriteSource(p.packet, p.flow), p.direction = 0)
        /\ truth' = [truth EXCEPT ![p.flow].heard =
                        IF "FIN" \in p.packet.flags THEN @ \cup {p.direction} ELSE @]
        /\ cpu' = [cpu EXCEPT ![c] = Idle]
        /\ UNCHANGED <<configVars, index, generation, events>>

\* The host deletes a flow, record and indexes (HostDeletion has the steps).
DeleteFlow(g) ==
    /\ Happens /\ g \in DOMAIN flows
    /\ \A c \in CPUs : cpu[c].at # "idle" => cpu[c].flow # g
    /\ flows' = [k \in DOMAIN flows \ {g} |-> flows[k]]
    /\ index' = [key \in {key \in DOMAIN index :
                             Field(FlowIdentity, index[key], "generation") # g} |-> index[key]]
    /\ UNCHANGED <<configVars, generation, cpu, networkVars, truth>>

-----------------------------------------------------------------------------
\* A packet as its sender makes it: no flow, and checksums over its own header.
\* The device may be left to finish the transport checksum, and over IPv4 UDP may
\* do without.
Covered(tuple, names) == [name \in names |-> tuple[name]]

Made(tuple, flags, shape, checksum) ==
    [tuple |-> tuple, flags |-> flags, shape |-> shape, flow |-> 0, checksum |-> checksum,
     ip_checksum |-> Covered(tuple, {"source", "destination"}),
     l4_checksum |-> Covered(tuple,
         CASE checksum = "full"    -> {"source", "destination", "source_port", "destination_port"}
           [] checksum = "partial" -> {"source", "destination"}
           [] checksum = "none"    -> {})]

Classify(c, packet, ingress) ==
    \/ PassUnchanged(c, packet, ingress)
    \/ HitFlow(c, packet, ingress)
    \/ ingress /\ CreateFlow(c, packet)

\* The workload sends, and whoever a packet went on to answers it.
Send(c) ==
    \E packet \in Workload :
        Classify(c, Made(packet.tuple, packet.flags, packet.shape, packet.checksum), TRUE)

Answer(c) ==
    \E packet \in arrived :
        \E flags \in (IF packet.tuple.protocol = "tcp" THEN {{"ACK"}, {"FIN", "ACK"}, {"RST", "ACK"}} ELSE {{}}) :
            \E checksum \in {"full", "partial"} :
                Classify(c, Made(Swapped(packet.tuple), flags, "whole", checksum), FALSE)

PacketInit(config) ==
    /\ snapshot = config /\ runtime = EncodeRuntimeConfig(config) /\ pending = <<>>
    /\ index = <<>> /\ flows = <<>> /\ generation = 0
    /\ cpu = [c \in CPUs |-> Idle]
    /\ arrived = {} /\ delivered = {} /\ truth = <<>> /\ events = 0

PacketNext ==
    \/ \E proto \in Proposals, cut \in Cuts : SetConfigWrites(proto, cut)
    \/ \E c \in CPUs : Send(c) \/ Answer(c)
    \/ \E c \in CPUs : TcpLoad(c) \/ TcpAck(c)
    \/ \E c \in CPUs, again \in BOOLEAN : TcpFin(c, again) \/ Rewrite(c, again)
    \/ \E g \in DOMAIN flows : DeleteFlow(g)
=============================================================================
