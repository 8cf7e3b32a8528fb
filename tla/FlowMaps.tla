------------------------------- MODULE FlowMaps -------------------------------
(***************************************************************************)
(* The BPF maps through which the TC classifiers and the control service   *)
(* share the flow table (maps of shadow-socket-proxy.bpf.c), and the clock *)
(* both sides read.                                                        *)
(*                                                                         *)
(* A flow generation is the key of five maps: state, in-flight counter,    *)
(* deletion guard, deletion outcome and release journal.  The code's key   *)
(* is the pair (flow_id, generation); generation comes from one shared     *)
(* counter, so that below its 32-bit wrap the generation alone identifies  *)
(* the pair, and flow_id is FlowId[original tuple].                        *)
(***************************************************************************)
EXTENDS Integers, Sequences, FiniteSets

CONSTANTS
    CPUs,           \* CPUs running the TC classifiers
    Guards,         \* elements of the guard map, recycled when a guard is removed
    Cells,          \* elements of the in-flight map, recycled when a counter is removed
    Tuples,         \* keys of the tuple index map
    Eligible,       \* tuples of ingress packets for which a target is configured
    TargetOf,       \* Eligible -> Tuples: the same source, the target as destination
    ReverseOf,      \* Eligible -> Tuples: the target as source, the client as destination
    FlowId,         \* Eligible -> flow id: tuple_hash of the original tuple
    Observations,   \* timestamps a caller of DeleteFlow may pass; 0 is "not observed"
    Capacity,       \* active_flow_capacity; 0 is "no limit", as in the runtime record
    QueueCapacity,  \* max_entries of the release queue (65536 in the code)
    CounterMax,     \* stands for 2^64 - 1, what a u64 below zero wraps to
    MaxGeneration,  \* bound: generations the packet path may allocate
    MaxClock,       \* bound: distinct timestamps
    MaxFaults       \* bound: map operations that fail for a reason of the kernel's

Generations == 1 .. MaxGeneration
Ages        == {"before", "at", "after"}
NoEntry     == 0       \* a map without an entry for the key

ASSUME TupleAssumption ==
    /\ NoEntry \notin Tuples \cup Guards \cup Cells
    /\ Eligible \subseteq Tuples
    /\ TargetOf \in [Eligible -> Tuples]
    /\ ReverseOf \in [Eligible -> Tuples]

ASSUME BoundAssumption ==
    /\ IsFiniteSet(CPUs)
    /\ Observations \subseteq 0 .. MaxClock
    /\ Capacity \in Nat
    /\ QueueCapacity \in Nat
    /\ MaxGeneration \in Nat
    /\ MaxClock \in Nat \ {0}
    /\ MaxFaults \in Nat
    /\ CounterMax \in Nat \ {0}
    /\ CounterMax > Cardinality(CPUs)

VARIABLES
    index,      \* ssp_flow_index_v1: tuple -> generation
    life,       \* ssp_flow_state_v1: lifecycle of the generation's record, "none" if absent
    used,       \* its last_used_ns
    orig,       \* its original tuple (target and reverse follow from it); kept when
                \* the record is removed, since flow_id is a function of it
    inflight,   \* ssp_flow_packet_inflight_v1: the element that holds the counter
    tally,      \* what each of these elements holds
    guard,      \* ssp_flow_delete_guard_v1: the element that holds the deadline
    outcome,    \* ssp_flow_delete_outcome_v1
    count,      \* ssp_tc_active_flows_v1
    queue,      \* ssp_tc_active_flow_releases_v1
    journal,    \* ssp_tc_active_flow_release_pending_v1
    generation, \* ssp_flow_generation_v1
    clock,      \* CLOCK_MONOTONIC, coarsened to the timestamps that are compared
    age,        \* of a guard element: is the clock before, at or after its deadline
    faults      \* map operations that have failed so far

\* What has happened, for the properties alone: no step depends on it.
VARIABLES
    recycled,   \* an in-flight element was taken while a CPU held a pointer to it
    gaveUp,     \* how often release_flow_slot gave up
    leftover    \* entries left behind by operations whose failure is ignored

stateMap == <<life, used, orig>>
entered  == <<inflight, tally, recycled>>
slots    == <<count, queue, journal, gaveUp, leftover>>
time     == <<clock, age>>
maps     == <<index, life, used, orig, inflight, tally, guard, outcome, count, queue,
              journal, generation, clock, age, faults, recycled, gaveUp, leftover>>

MapsTypeOK ==
    /\ index \in [Tuples -> Generations \cup {NoEntry}]
    /\ life \in [Generations -> {"none", "CREATING", "ACTIVE"}]
    /\ used \in [Generations -> 0 .. MaxClock]
    /\ orig \in [Generations -> Eligible \cup {NoEntry}]
    /\ inflight \in [Generations -> Cells \cup {NoEntry}]
    /\ tally \in [Cells -> 0 .. CounterMax]
    /\ guard \in [Generations -> Guards \cup {NoEntry}]
    /\ outcome \in [Generations -> {"none", "ABORTED", "COMMITTED"}]
    /\ count \in Nat
    /\ queue \in Seq(Generations)
    /\ journal \subseteq Generations
    /\ generation \in 0 .. MaxGeneration
    /\ clock \in 1 .. MaxClock
    /\ age \in [Guards -> Ages]
    /\ faults \in 0 .. MaxFaults
    /\ recycled \in BOOLEAN
    /\ gaveUp \in Nat
    /\ leftover \subseteq {"guard", "release"} \X Generations

MapsInit ==
    /\ index = [t \in Tuples |-> NoEntry]
    /\ life = [k \in Generations |-> "none"]
    /\ used = [k \in Generations |-> 0]
    /\ orig = [k \in Generations |-> NoEntry]
    /\ inflight = [k \in Generations |-> NoEntry]
    /\ tally = [e \in Cells |-> 0]
    /\ guard = [k \in Generations |-> NoEntry]
    /\ outcome = [k \in Generations |-> "none"]
    /\ count = 0
    /\ queue = << >>
    /\ journal = {}
    /\ generation = 0
    /\ clock = 1
    /\ age = [d \in Guards |-> "before"]
    /\ faults = 0
    /\ recycled = FALSE
    /\ gaveUp = 0
    /\ leftover = {}

-----------------------------------------------------------------------------
\* The three tuples that index a flow whose original tuple is t, in the order
\* in which process_packet inserts them.
IndexTuples(t) == <<t, TargetOf[t], ReverseOf[t]>>

\* __sync_fetch_and_add(&n, 1) and __sync_fetch_and_sub(&n, 1) on an unsigned counter.
Plus1(n)  == IF n = CounterMax THEN 0 ELSE n + 1
Minus1(n) == IF n = 0 THEN CounterMax ELSE n - 1

\* An operation fails although its key would allow it to succeed: the map is
\* full, a bucket is busy, a system call is interrupted, a race is lost.
Fault == /\ faults < MaxFaults
         /\ faults' = faults + 1

\* release_flow_slot: the compare-and-swap loop never goes below zero, and gives
\* up when eight attempts in a row lose against other CPUs.
ReleaseFlowSlot ==
    \/ /\ count' = IF count = 0 THEN 0 ELSE count - 1
       /\ UNCHANGED <<gaveUp, faults>>
    \/ /\ count # 0
       /\ Fault
       /\ gaveUp' = gaveUp + 1
       /\ UNCHANGED count

\* A map operation fails: because of cond, or by a fault.
FailsIf(cond) == \/ cond /\ UNCHANGED faults
                 \/ ~cond /\ Fault

\* The clock advances.
Tick == /\ clock < MaxClock
        /\ clock' = clock + 1
        /\ UNCHANGED <<index, stateMap, entered, guard, outcome, slots, generation,
                       age, faults>>

\* The clock reaches and then passes the deadline held by guard element d.
DeadlinePasses(d) ==
    /\ age[d] # "after"
    /\ age' = [age EXCEPT ![d] = IF @ = "before" THEN "at" ELSE "after"]
    /\ UNCHANGED <<index, stateMap, entered, guard, outcome, slots, generation,
                   clock, faults>>
=============================================================================
