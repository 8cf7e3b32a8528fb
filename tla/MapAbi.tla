------------------------------- MODULE MapAbi -------------------------------
(***************************************************************************)
(* The fixed-width values the classifiers and the control service exchange *)
(* through BPF maps.  The classifiers lay them out as packed C structs, the *)
(* service reads and writes explicit byte ranges; nothing but agreement     *)
(* keeps the two the same.                                                  *)
(*                                                                         *)
(* A map value is a function from the byte ranges that were written, as     *)
(* <<first byte, number of bytes>>, to what each holds; every other range   *)
(* reads as zero.  Both ends order the bytes of a number the same way on    *)
(* the little-endian hosts the service is built for.                        *)
(***************************************************************************)
EXTENDS Naturals, Sequences, FiniteSets, SequencesExt

\* An operation that returns an error.
Err == [error |-> TRUE]

Slice(bytes, first, length) ==
    IF <<first, length>> \in DOMAIN bytes THEN bytes[<<first, length>>] ELSE 0

-----------------------------------------------------------------------------
(* Packed C structs: fields in order, each with its size.                  *)

\* The field of each byte range and the range of each field: a field begins after
\* all the fields before it.
Layout(fields) ==
    LET first(i) == FoldLeft(LAMBDA sum, field : sum + field[2], 0, SubSeq(fields, 1, i - 1))
        range(i) == <<first(i), fields[i][2]>>
    IN  [name  |-> [r \in {range(i) : i \in DOMAIN fields} |->
                       fields[CHOOSE i \in DOMAIN fields : range(i) = r][1]],
         range |-> [n \in {fields[i][1] : i \in DOMAIN fields} |->
                       range(CHOOSE i \in DOMAIN fields : fields[i][1] = n)]]

TupleKey == Layout(
    << <<"version", 2>>, <<"family", 1>>, <<"protocol", 1>>, <<"source", 16>>,
       <<"destination", 16>>, <<"source_port", 2>>, <<"destination_port", 2>> >>)

FlowIdentity == Layout(
    << <<"version", 2>>, <<"reserved", 2>>, <<"flow_id", 8>>, <<"generation", 4>> >>)

FlowStateValue == Layout(
    << <<"original", 40>>, <<"target", 40>>, <<"reverse", 40>>, <<"last_used_ns", 8>>,
       <<"protocol_flags", 4>>, <<"tcp_state_flags", 4>>, <<"fin_seen_mask", 1>>,
       <<"fin_ack_seen_mask", 1>>, <<"lifecycle", 1>>, <<"reserved", 1>>,
       <<"terminal_deadline_ns", 8>>, <<"flow_id", 8>>, <<"generation", 4>> >>)

RuntimeConfigValue == Layout(
    << <<"schema_version", 2>>, <<"v4_target_set", 1>>, <<"v6_target_set", 1>>,
       <<"v4_target", 4>>, <<"v4_target_port", 2>>, <<"v6_target", 16>>,
       <<"v6_target_port", 2>>, <<"listener_family", 1>>, <<"listener_wildcard_flags", 1>>,
       <<"listener_address", 16>>, <<"listener_port", 2>>, <<"idle_ttl_ns", 8>>,
       <<"terminal_grace_ns", 8>>, <<"active_flow_capacity", 4>> >>)

\* The bytes of a struct, from those of its fields a record gives.
Packed(struct, value) ==
    [r \in {r \in DOMAIN struct.name : struct.name[r] \in DOMAIN value} |-> value[struct.name[r]]]

Field(struct, bytes, name) == Slice(bytes, struct.range[name][1], struct.range[name][2])

-----------------------------------------------------------------------------
(* Addresses and tuples, as mapping.rs has them.                           *)

Unspecified(address) == address.host = 0

\* IPv4 addresses travel in IPv4-mapped form; read as IPv6, that form is an
\* address of its own.
AddressBytes(address) == [mapped |-> address.family = 4, host |-> address.host]

ParseAddress(family, bytes) ==
    CASE family = 4 -> [family |-> 4, host |-> bytes.host]
      [] family = 6 -> [family |-> 6, host |-> bytes.host + IF bytes.mapped THEN 1000 ELSE 0]
      [] OTHER      -> Err

ValidTuple(tuple) ==
    /\ tuple.source.family = tuple.destination.family
    /\ tuple.protocol \in {"tcp", "udp"}
    /\ tuple.source_port # 0 /\ tuple.destination_port # 0
    /\ ~Unspecified(tuple.source) /\ ~Unspecified(tuple.destination)

EncodeKey(tuple) ==
    <<0, 2>> :> 1 @@ <<2, 1>> :> tuple.source.family @@ <<3, 1>> :> tuple.protocol
    @@ <<4, 16>> :> AddressBytes(tuple.source) @@ <<20, 16>> :> AddressBytes(tuple.destination)
    @@ <<36, 2>> :> tuple.source_port @@ <<38, 2>> :> tuple.destination_port

\* TupleKey, unless one of its addresses was an error.
NewTuple(source, destination, protocol, source_port, destination_port) ==
    IF Err \in {source, destination} THEN Err
    ELSE [source |-> source, destination |-> destination, protocol |-> protocol,
          source_port |-> source_port, destination_port |-> destination_port]

DecodeKey(bytes) ==
    IF Slice(bytes, 0, 2) # 1 THEN Err
    ELSE NewTuple(ParseAddress(Slice(bytes, 2, 1), Slice(bytes, 4, 16)),
                  ParseAddress(Slice(bytes, 2, 1), Slice(bytes, 20, 16)),
                  Slice(bytes, 3, 1), Slice(bytes, 36, 2), Slice(bytes, 38, 2))

-----------------------------------------------------------------------------
(* Flow identities, flow states and the mappings made from them.           *)

\* A key without the two reserved bytes of the C struct.
EncodeFlowStateKeyUnpadded(id, generation) ==
    <<0, 2>> :> 1 @@ <<2, 8>> :> id @@ <<10, 4>> :> generation

EncodeFlowStateKey(id, generation) ==
    <<0, 2>> :> 1 @@ <<4, 8>> :> id @@ <<12, 4>> :> generation

DecodeFlowIndex(bytes) ==
    IF Slice(bytes, 0, 2) # 1 THEN Err
    ELSE [flow_id |-> Slice(bytes, 4, 8), generation |-> Slice(bytes, 12, 4)]

\* FlowLifecycle::try_from: creating and active.
Lifecycles == {1, 2}

\* FlowState::validate.
ValidFlow(state) ==
    /\ \A tuple \in {state.original, state.target, state.reverse} :
          tuple # Err /\ ValidTuple(tuple)
    /\ state.original.protocol = state.target.protocol
    /\ state.target.protocol = state.reverse.protocol
    /\ state.original.destination.family = state.target.destination.family
    /\ state.target.destination.family = state.reverse.destination.family
    /\ state.lifecycle = 1 => state.terminal_deadline_ns = 0

Validated(state) == IF state.lifecycle \in Lifecycles /\ ValidFlow(state) THEN state ELSE Err

DecodeFlowState(bytes) ==
    Validated([original             |-> DecodeKey(Slice(bytes, 0, 40)),
               target               |-> DecodeKey(Slice(bytes, 40, 40)),
               reverse              |-> DecodeKey(Slice(bytes, 80, 40)),
               last_used_ns         |-> Slice(bytes, 120, 8),
               protocol_flags       |-> Slice(bytes, 128, 4),
               tcp_state_flags      |-> Slice(bytes, 132, 4),
               fin_seen_mask        |-> Slice(bytes, 136, 1),
               fin_ack_seen_mask    |-> Slice(bytes, 137, 1),
               lifecycle            |-> Slice(bytes, 138, 1),
               terminal_deadline_ns |-> Slice(bytes, 140, 8),
               flow_id              |-> Slice(bytes, 148, 8),
               generation           |-> Slice(bytes, 156, 4)])

\* FlowState::mapping and encode_value.
EncodeValue(state) ==
    <<0, 40>> :> EncodeKey(state.original) @@ <<40, 8>> :> state.last_used_ns
    @@ <<48, 4>> :> state.protocol_flags @@ <<52, 4>> :> state.tcp_state_flags

DecodeValue(key, value) ==
    LET synthetic == DecodeKey(key)
        original  == DecodeKey(Slice(value, 0, 40))
    IN  IF Err \in {synthetic, original} THEN Err
        ELSE [synthetic |-> synthetic, original |-> original,
              last_seen_ns |-> Slice(value, 40, 8), protocol_flags |-> Slice(value, 48, 4),
              tcp_state_flags |-> Slice(value, 52, 4)]
=============================================================================
