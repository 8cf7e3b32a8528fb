# ShadowSocketProxy in TLA+

ShadowSocketProxy sends the connections a container opens to a proxy on the
host, which opens them again from there. This directory models the parts that
have to agree for that: the TC classifiers, the control service that shares BPF
maps with them, and the host proxy. TLC checks small instances; TLAPS proves the
safety of the flow table, of the control service, of its transport, of the host
proxy and of its conditional listener for every size. Paths are below `src/`.

## The system and its models

| Part | Code | Modules |
|---|---|---|
| TC classifiers: flow table | `crates/bpf/shadow-socket-proxy.bpf.c` | `FlowMaps`, `PacketPath` |
| Flow deletion by the service | `control-service/src/bpf.rs` (`delete_flow`) | `HostDeletion` |
| The two over the same maps | both | `FlowTable`, abstract: `FlowLifecycle` |
| TC classifiers: packets | `shadow-socket-proxy.bpf.c` | `Classifier` |
| Values in the maps | the C structs, `control-service/src/mapping.rs` | `MapAbi` |
| Lookups, enumeration, logs | `service.rs`, `bpf.rs`, `logs.rs`, `rustls_client.rs` | `ControlReads` |
| Attach, Detach, configuration | `service.rs`, `bpf.rs`, `config.rs`, `lifecycle.rs` | `ControlService` |
| Start-up, handshakes, exit of the service | `control-service/src/transport.rs`, `lifecycle.rs`, both `main.rs`, `tls-rustls` | `ControlTransport` |
| Activation by the host | `host-proxy/src/rustls_client.rs`, `main.rs` | `HostActivation` |
| UDP associations | `host-proxy/src/lib.rs` | `UdpAssociations` |
| Maintenance, bridges, shutdown | `host-proxy/src/lib.rs` | `HostProxy` |
| Windows conditional accept | `host-proxy/src/lib.rs` | `ConditionalAccept` |

`MC*` modules and `*.cfg` files are the instances; the `*Proofs` modules
hold the proofs. `PROJECT.json` gives for
every definition the lines it stands for, the mutation of the code each property
detects, and the hazards of the code with the properties that cover them.

A packet of the workload meets the forward classifier, which creates a flow
(a state record, three tuple indexes and an in-flight counter, all BPF map
entries) and rewrites the destination to the configured target, the host proxy.
The proxy asks the service for the mapping of the tuple it sees, connects to the
original destination and relays. Answers are rewritten back by the reverse
classifier. Nothing in the dataplane expires a flow: the host enumerates flows
and asks for the deletion of those its retention policy calls expired.

### Flow table (`FlowMaps`, `PacketPath`, `HostDeletion`, `FlowTable`)

No lock is shared by classifiers and service, so one action is one access to
one map. `pc[c]` is the next access of the packet on CPU `c` in
`process_packet`: reserving a slot (`pop` ... `undo`), inserting the record, its
indexes and counter, publication or roll-back, and for a known flow the guard
check, entering the section, the update and leaving it. `hpc` is the next access
of `delete_flow`: guard, drain, re-read, commit, drain, re-read, journal, remove
the record, indexes and counter, push the release, clear guard and outcome.
There is one such call at a time, because the backend's `operation_lock` and
the adapter's mutex are held from beginning to end. Every map operation the code
checks may fail, up to `MaxFaults` times, the claim of a popped release and the
publication of a record included, and an insertion into a full map does
(`GuardsFull`, `QueueCapacity`). A key `(flow_id, generation)` is the
generation alone, which one counter hands out.

The kernel may give a removed in-flight element to another flow while a CPU still
holds a pointer to it: the map is a preallocated hash map. Three history variables
say what has happened so far: `recycled` (an element was taken while a pointer
to it was held), `gaveUp` (how often `release_flow_slot` gave up) and `leftover`
(what a failure the code does not report has left in a map: a release that was
popped and not claimed, a guard of a generation without a record).
`EarlyDelete` says whether a flow is deleted while its creator is still at work:
the RPC allows it, the host proxy never asks for it.

`FlowLifecycle` is what the table promises: a generation is created once, used
only while open, closed only at the timestamp its deleter observed, never comes
back, and a final reply to DeleteFlow is given only for a closed generation.

### Packets and reads (`MapAbi`, `Classifier`, `ControlReads`)

The same classifiers, seen from their packets: parsing, fragments, the bypass
for the control listener, the choice of a target, both rewrites with what the
checksums cover, and `update_tcp_state`. A packet's transport checksum is complete
(`full`), left to the device but for the pseudo-header (`partial`) or absent
(`none`, UDP over IPv4), and what an incremental update does to it depends on the
flags the program passes. `truth` records what was really sent: a segment
acknowledges the peer's FIN only if that had reached its sender. Creating and deleting are single
steps here, the races inside them being `FlowTable`'s. What no lock and no guard
protects stays apart: a SetConfig's copy into the runtime value, which a
classifier may see half done (`Cuts`: where), and the plain loads and stores of
`update_tcp_state` on two CPUs. A map value is a function from byte ranges
to contents; the C side computes its ranges from the struct, the Rust side has
the offsets its codec writes down. On top are GetMapping, EnumerateFlows with
its continuation token, DeleteFlow, PullLogs and the client's conversions.

### Control service (`ControlService`, `HostActivation`)

A handler yields, and can be dropped at its deadline, only where it waits for
`config_transaction` or `operation_lock`; in between it is one action. The state
is what each side believes of the attachments: the service's report, the
adapter's links, the links the programs hold and the classifiers in the kernel;
and the runtime map, the published snapshot and readiness. Attach, roll-back and
detach fail where the kernel may refuse. `ElfMax` is the capacity of the loaded
object's maps, `StoreMax` the default maxima `ConfigStore::update` validates
against; nothing relates the two. `HostActivation` adds the host proxy's
activation, with its own timeouts, and an operator that uses the same RPCs.

### Transport (`ControlTransport`)

The service from start-up to exit and its peers, over either TLS feature (`build`).
Start-up succeeds or ends in an exit status; how settings resolve is left out. A
connection goes through the backlog,
a pool of `MaxHandshakes` handshakes with a time-out, the verification of each side
as that side does it, and serving. Ctrl-C drains the calls in progress; the owned
attachments are released and the exit status says whether that worked. `owned` is
what the backend has on record; `stranded` is what a failed attach could not take
back and never recorded, which the exit does not see. Certificates
and secrets are values that are equal or not: TLS itself is external.

### Host proxy (`UdpAssociations`, `HostProxy`, `ConditionalAccept`)

Each await at which another task may run bounds two actions. `run_udp` forwards
one datagram at a time: it looks up, connects, spawns the relay, publishes.
Maintenance scans page by page, stamps cached associations with the
identity of their flow, deletes what is expired and invalidates. A control call
may fail, or be given up by the host and carried out later (`late`). `run_bound`
starts, stops and joins everything. In `ConditionalAccept` the threads are the
condition callback (inside the coordinator's `WSAAccept`), the coordinator, the
worker and the owner; a critical section on the attempt's mutex is one step.
Winsock's queue and `WSAAccept` are external, modelled from their use.

## Runs

| Run | Instance | Shows |
|---|---|---|
| `delete` | 2 CPUs, 1 flow, 2 guard elements, 3 timestamps, any observation | `NoUseAfterDelete`, `InFlightExact`, `DeletedAsObserved`, the inductive invariant `FlowTableInv`, and `RefinesLifecycle` |
| `shared` | 3 CPUs, 2 destinations with common target tuples, capacity 2, 1 fault | the loser of a creation takes back what is its own (`ActiveOwnsIndexes`, `OnlyOwnerRemovesIndex`), `WithinCapacity`, `SlotAccounting` |
| `reuse` | 1 CPU, 2 generations in turn, capacity 1, queue of 1, 1 fault anywhere | a slot comes back once (`SlotAccounting`), `FinalReplyMeansGone`; with fairness `DeleteReturns`, `GuardThaws`, `CommitUnblocks` |
| `recycled` | 2 CPUs, 2 generations, 2 in-flight elements | violation of `NoUseAfterDelete` |
| `dataplane` | 2 CPUs, 6 conversations, 3 requests to SetConfig | `Transparent`, `ChecksumsFollow`, `ControlUntouched`, `ResolvesToContacted`, `TerminalIsTrue`, `SerialMatchesReference`, `ScanComplete`, `LogsWithoutGap` |
| `torn_config` | the same with 2 events | violation of `FlowTargetsConfigured` |
| `transport` | the right host, one with the wrong pin, one with the wrong certificate, a stray; pool of 2 | `MutuallyPinned`, `ExitReleases`, `BacklogDrains` |
| `control` | a host and an operator on one interface, an object with larger maps than the store's maxima | `ReportedInstalled`, `OwnershipExact`, `MapMatchesSnapshot`, `RpcReturns` |
| `udp` | 2 flows of one synthetic tuple, 2 associations | `NoOrphanRelay`, `SettledLeavesNoStamp`, `RemovesOnlyExpired` |
| `stop` | 1 flow, 1 TCP session, failure or shutdown anywhere | `ReturnedMeansJoined`, `ShutdownCompletes`, `ExpiredGoes` |
| `stale_association` | as `udp` | violation of `DeletionInvalidates` |
| `conditional` | 2 clients of one tuple | `PairedByRequest`, `ReservationsExact`, `NoClaimAfterStop`, `StopCompletes`, `HeadLeaves` |

Deadlock is checked in the flow-table runs, where a packet can always arrive.
The others may stop: processes end there, or the bound on events is reached.

### Where code and documents disagree

- `recycled`: `enter_flow_packet` (`shadow-socket-proxy.bpf.c:892`) counts
  through a pointer it looked up before. When the flow has been deleted since and
  the element taken by a newer one, the drained counter no longer proves what
  `bpf.rs:1302` says it does.
- `torn_config`: the design calls the runtime record atomic
  (`specs/tc-bpf-rewrite/design.md:50`). It is copied in place, and
  `target_for_packet` reads address and port from different words. A flow
  created meanwhile keeps the mixture.
- `stale_association`: a host-selected deletion shall invalidate the association
  (`design.md:227`). `invalidate` recognises it only by the stamp of a scan, and
  an association published after the scan passed its record has none.

Four more disagreements are exceptions that the passing properties name:

- `ChecksumsFollow`: rewritten packets shall have correct checksums
  (`specs/tc-bpf-rewrite/requirements.md:461`, INV-TC-003 in `design.md:351`).
  `update_l4_checksum` passes `BPF_F_PSEUDO_HDR` for IPv6 addresses and not for
  IPv4 ones (`shadow-socket-proxy.bpf.c:665`), so an IPv4 checksum that the device
  finishes keeps the old address; and it never passes `BPF_F_MARK_MANGLED_0`
  (`:665`, `:672`), so a UDP datagram without a checksum gets a wrong one.
- `TerminalIsTrue`: the mask of acknowledged FINs
  (`shadow-socket-proxy.bpf.c:202`, `control-service/src/mapping.rs:217`) is set by
  any segment with ACK that is seen after the peer's FIN (`:945`), also by one that
  crossed the FIN. The property says that nothing else sets it.
- `MapMatchesSnapshot`: map and snapshot "cannot expose different revisions"
  (`service.rs`, `config_transaction`). `set_config` validates against the loaded
  maps (`service.rs:709`) and writes the map; `ConfigStore::update` then validates
  against the defaults (`config.rs:233`). With larger maps a configuration the
  store refuses stays in the map until the next write.
- `ExitReleases`: `shutdown` detaches what is on record. A classifier whose
  roll-back failed inside `attach` (`bpf.rs:1767`) is not, and the service exits
  with status 0 while it is installed. The property says that this happens only
  for a host that was told its activation failed.

### Bounds

- `MaxGeneration`, `MaxClock`, `MaxFaults`, `MaxEvents`, `MaxPackets` bound
  counters; `MaxAssociations`, `CPUs`, `Guards`, `Cells` bound sets.
- Two CPUs and one flow suffice for every race of a packet with a deletion and of
  two packets in one section; the proofs cover more. Two timestamps besides zero
  make an observation current, stale or absent. One generation in `delete` means
  that no in-flight element is reused there: that case is `recycled`.
- Three CPUs in `shared` are two creators and a third that finds what the loser
  leaves; capacity 2 is reached. In `reuse` the second generation can be created
  only with the slot that came back from the first.
- `CounterMax` stands for the value an unsigned counter wraps to below zero.
- `dataplane`: with three events a behaviour has a flow and two packets of it on
  two CPUs, or two flows on a page limit of one, a retarget between two packets,
  or a ring that evicts at capacity 1 or 2. One cut, at byte 8, lies
  between the address and the port of the IPv4 target. Symmetry is over the CPUs,
  which are interchangeable; the run has no liveness property.
- `delete`, `shared` and `recycled` use symmetry over CPUs and map elements and a
  view that hides what no step reads; `reuse`, with its liveness, does not.
- `transport`: four peers make a backlog behind a pool of two.
- `udp` is cut off where a shutdown begins (`MCRunning`), which `stop` covers.

### Fairness

- Flow table: a classifier runs to completion, the adapter's thread is
  scheduled, and every deadline passes. `GuardThaws` also needs packets of the
  flow to keep arriving (`Traffic`), since a guard expires only in the packet
  path. Strong fairness says that traffic does not stop because single packets
  find the CPU busy or the flow guarded. `CommitUnblocks` assumes maintenance
  (`run_maintenance` repeats each interval) and says so in its statement.
- `transport`: the service's tasks are polled and its time-outs fire. Nothing is
  assumed of peers, which may stay silent.
- `control`: a handler that can go on does. Nothing is assumed of clients.
- `stop`: each task is polled by the runtime, a cancelled relay ends, an aborted
  session ends. Faults are finitely many, which is what "in the end" needs.
- `conditional`: the three threads run; their waits are bounded by 10 ms.
  Nothing is assumed of clients or the network.

## Proofs

Every theorem holds for all values of the constants that satisfy the named
assumptions of the models: `TupleAssumption`, `BoundAssumption` and
`EarlyDeleteAssumption` (flow table), `ElfAssumption` (control service: capacities
are numbers, every client names an object) and
`TransportAssumption` (transport: a stray peer has neither the pinned certificate
nor the secret), `IdsAssumption` and `PolicyAssumption` (host proxy: flow identities
are numbers, as are the ages its policy calls expired). The runs evaluate them.

| Module | Theorems | Further assumption |
|---|---|---|
| `FlowTableProofs` | `TypeInvariant`, `TableInvariant` | |
| `DeletionProofs` | `DeletionInvariant`, `NoUseAfterDeleteHolds`, `InFlightExactHolds`, `DeletedAsObservedHolds`, `ImplementsLifecycle` | up to `recycled` |
| `IndexProofs` | `IndexInvariant`, `ActiveOwnsIndexesHolds`, `OnlyOwnerRemovesIndexHolds` | `~EarlyDelete` |
| `SlotProofs` | `SlotInvariant`, `SlotAccountingHolds`, `WithinCapacityHolds`, `FinalReplyMeansGoneHolds` | `~EarlyDelete` |
| `ControlProofs` | `ControlInvariant`, `ReportedInstalledHolds`, `OwnershipExactHolds`, `MapMatchesSnapshotHolds` | |
| `TransportProofs` | `TransportInvariant`, `MutuallyPinnedHolds`, `ExitReleasesHolds` | |
| `HostProxyProofs` | `ProxyInvariant`, `NoRelayIsOrphaned`, `SettledDeletionsLeaveNoStamp`, `RunBoundJoins`, `OnlyExpiredRemoved` | |
| `AcceptProofs` | `AcceptInvariant`, `PairedByRequestHolds`, `ReservationsExactHolds`, `NoClaimAfterStopHolds` | |

### Flow table

`TypeOK` is not inductive: a packet stores under its `key`, so one has to know
that the key was handed out and that what it holds fits its step. `TableInv` adds
that keys in use are allocated, a record has its tuple and an ACTIVE one its
counter, a creator is alone with its generation until it publishes it, what a
packet holds at each step, and what `delete_flow` knows. `FlowTableProofs` also has
what single steps do, which all later modules cite.

`NoUseAfterDelete` needs three facts that are invariant only together. A
pointer a packet holds leads to its own generation's counter (`CellsOwned`). That
counter is the number of packets inside (`InFlightExact`). And after the
second drain nobody is past the final check or can get there, because COMMITTED
is visible before the drain and a packet looks again after it has counted itself
(`Quiescent`); from then on the record stays as it was re-read. The theorems
hold of the map as it is declared, up to the step in which an element is recycled
under a held pointer: `recycled` is what happens after it. They show that nothing
else in the protocol endangers these properties.

With the same invariants the table implements `FlowLifecycle` (`ImplementsLifecycle`):
a generation's phase is read off its record (`PhaseOf`), and each step of a packet or
of `delete_flow` is one lifecycle step or none. `ReportInv` adds what a call has noted
when it answers, so that a final reply is one for a closed generation.

Indexes, slots and final replies assume `~EarlyDelete`, which is how the host
proxy uses the RPC: it asks only for flows long idle. A creator's roll-back and
`delete_flow` each read an index entry's owner in one map access and delete the
entry in the next. That is safe because an entry is inserted once, by its
generation's creator, and only that creator or, when it has returned, the
deletion of that generation removes it (`IndexInv`: what a creator has inserted is
still its own, an entry's owner has the tuple among its three, the entry about to
be removed is the deletion's). With it an ACTIVE flow keeps its three indexes.

`SlotAccounting` is an equation about cardinalities of sets that change by one element per
step; the lemmas from `SizeFollows` to `SlotMoved` say so once for every kind of
step. The step that could count a slot twice is a release that is claimed again,
or claimed while its record lives: `ReleaseInv` says that a release in the queue
or in a CPU's hand is that of a removed record, that a journaled one is that of a
flow whose creator has returned, and what `delete_flow` has done and noted at
each of its steps. `WithinCapacity` also needs that the releases under way count
against the capacity (`SlotsWithin`). `FinalReplyMeansGone` is the end of
`CleanProgress` and `GuardProgress`, which say what a call without an error in its
report has left of the generation at each step. An outcome is not among what is
gone: a packet that found the guard may still write ABORTED after the reply, where
nobody will read it. Two failures the code ignores are the exceptions: the claim of
a popped release, whose journal entry then stays, and the removal of the guard of a
generation without a record.

### Control service, transport, conditional accept

`ControlInv`: a handler between the two awaits of a transaction is at the head of
the queue for `config_transaction` (`Serialised`), a client sends each request
once (`SentOnce`), the map is what readers see, what the SetConfig in the
transaction is about to offer to the store, or what the store refused
(`Published`), and whatever is tracked or
reported is in the kernel (`OwnershipInv`). A handler dropped at its deadline
leaves the queue and nothing else, which is where each conjunct could break.

`TransportInv`: what each side has verified at each stage of a connection
(`Pinned`), and what is gone at each stage of the service (`Released`).

`AcceptInv`: admissions and hand-off reservations each have one holder among slot,
threads, callback context and channel (`Counted`); what a stop leaves to whom
(`Stopped`); the client at the head of Winsock's queue is the one the slot was
admitted for, and every pair is of one request (`Requests`).

### Host proxy

`ProxyInv` has beside the types and the properties themselves: what the table holds was
published under its own tuple with a relay, and what is being published is not in the
table yet (`TableCoherent`); the fan-out of the stop has happened and nothing is owned
by a task that ended at each later stage of `run_bound` (`JoinCoherent`); generations
and uses come from packets, and an incarnation that was confirmed gone does not come
back (`GenerationsPast`); a flow that is still as it was read has only grown older, so
what was expired still is (`ExpiryHolds`); a stamp on an association is that of a flow
of its tuple, and between the two looks `invalidate` takes at the table only the
association it found can bear the stamp (`StampsCoherent`). `GenerationsPast` and
`ExpiryHolds` are needed because a request the host has given up may be carried out
late, when the flow was used again or another took its place.

### What is only model-checked

- All liveness properties: the prover has no fairness and no ENABLED.
- `ControlReads`: inductive invariants for every number of packets and flows have
  not been worked out yet.

## Not modelled

- Packet counters and GetStatus, which report and decide nothing; Health;
  ListMappings, which pages by offset for inspection.
- `CHECKSUM_COMPLETE`, where a sum that no longer fits makes the receiver verify in
  software. How settings of command line and environment resolve.
- The byte order of numbers in the maps; both sides are built for little-endian
  hosts. The wrap of the 32-bit generation, which takes 2^32 flows.
- The in-memory backend of the tests.
- Ciphers, certificate encodings and the byte stream, which are the TLS libraries';
  `parse_sha256_pin` and address resolution, which parse input. The calls of the PSK
  client in `host-proxy/src/lib.rs` repeat the modelled ones.
- A restart of the service: it keeps nothing. A client with a log cursor of the
  previous life is answered with nothing until the sequence passes it.
- Byte copying in `bridge_tcp_streams`.
- `e2e-runner`, `bpf/fixture-runner`, build scripts and generated code.

## Keeping it up

    tlasany FlowTable.tla
    tlc -workers 2 -config FlowTable_delete.cfg MCFlowTable
    tlapm DeletionProofs.tla

A change to `process_packet` or `delete_flow` changes an action of `PacketPath`
or `HostDeletion` and the step of the same name in the proofs. tlapm slows down
with the length of a module: a proof module should stay below 2000 lines. Next in
line are an inductive invariant of `ControlReads`, and ListMappings.
