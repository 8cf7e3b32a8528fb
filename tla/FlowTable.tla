------------------------------ MODULE FlowTable ------------------------------
(***************************************************************************)
(* The flow table: the packet path on every CPU and the control service's  *)
(* delete_flow, interleaved at the grain of single map accesses.           *)
(***************************************************************************)
EXTENDS PacketPath, HostDeletion

CONSTANT
    EarlyDelete     \* may a flow be deleted while its creator is still at work?

ASSUME EarlyDeleteAssumption == EarlyDelete \in BOOLEAN

vars == <<maps, cpuVars, hostVars>>

TypeOK == MapsTypeOK /\ PacketTypeOK /\ HostTypeOK

Init == MapsInit /\ PacketInit /\ HostInit

\* Some CPU is creating generation k, or undoing its creation.
BeingCreated(k) == \E c \in CPUs : key[c] = k /\ pc[c] \in Creating

\* DeleteFlow is called for a pair that EnumerateFlows has shown, with any
\* timestamp.  The host proxy asks only for flows idle for longer than their
\* TTL, whose creator has long returned: EarlyDelete = FALSE.  The RPC accepts
\* any pair: EarlyDelete = TRUE.
CallDeleteFlow(k, observed) ==
    /\ orig[k] # NoEntry
    /\ EarlyDelete \/ ~BeingCreated(k)
    /\ DeleteFlow(k, observed)

Packets == \E c \in CPUs : PacketArrives(c) \/ PacketStep(c)

Host == \/ \E k \in Generations, observed \in Observations : CallDeleteFlow(k, observed)
        \/ HostStep

\* Guard element d holds a deadline that a packet or the host may still compare.
InUse(d) == \/ \E k \in Generations : guard[k] = d
            \/ \E c \in CPUs : seen[c] = d

Time == Tick \/ \E d \in Guards : InUse(d) /\ DeadlinePasses(d)

Next == \/ Packets /\ UNCHANGED hostVars
        \/ Host /\ UNCHANGED cpuVars
        \/ Time /\ UNCHANGED <<cpuVars, hostVars>>

Spec == Init /\ [][Next]_vars

\* What the platform provides: a classifier runs to completion, the adapter's
\* thread is scheduled, the clock passes every deadline.
Fairness ==
    /\ \A c \in CPUs : WF_vars(PacketStep(c) /\ UNCHANGED hostVars)
    /\ WF_vars(HostStep /\ UNCHANGED cpuVars)
    /\ \A d \in Guards :
         WF_vars(InUse(d) /\ DeadlinePasses(d) /\ UNCHANGED <<cpuVars, hostVars>>)

\* A flow whose traffic continues: its packets keep arriving, on every CPU.
Traffic == \A c \in CPUs, t \in Tuples : SF_vars(PacketHit(c, t) /\ UNCHANGED hostVars)

\* The host proxy's maintenance keeps asking for what it still enumerates, each
\* record in its turn whatever else it asks for.
Maintenance ==
    \A k \in Generations :
      SF_vars(\E observed \in Observations : CallDeleteFlow(k, observed) /\ UNCHANGED cpuVars)

TrafficSpec == Spec /\ Fairness /\ Traffic

-----------------------------------------------------------------------------
\* The packet on CPU c has incremented its generation's counter and has not yet
\* decremented it.
InSection(c) == \/ pc[c] \in GuardCheck /\ second[c]
                \/ pc[c] \in {"resolve", "touch", "leave", "backout"}

Inside(k) == {c \in CPUs : key[c] = k /\ InSection(c)}

\* A packet that is about to update a flow record, or has just done so, finds
\* it ACTIVE: delete_flow never removes a record under a packet that passed
\* enter_flow_packet.
NoUseAfterDelete ==
    \A c \in CPUs : pc[c] \in {"touch", "leave"} => life[key[c]] = "ACTIVE"

\* The in-flight counter of a generation is exactly the number of packets in
\* its critical section: no exit of enter_flow_packet and leave_flow_packet
\* loses or doubles a decrement, so a drained section reads as zero.
InFlightExact ==
    \A k \in Generations : inflight[k] # NoEntry => tally[inflight[k]] = Cardinality(Inside(k))

\* delete_flow removes a record only with the last_used_ns its caller observed:
\* a packet that was processed meanwhile saves the flow.
DeletedAsObserved ==
    [][\A k \in Generations :
         hpc = "remove_state" /\ hkey = k /\ life[k] # "none" /\ life'[k] = "none"
           => hobs \in {0, used[k]}]_vars

\* Every ACTIVE flow is reachable through all three of its tuples: no rollback
\* and no deletion of another generation takes an index away from it.
ActiveOwnsIndexes ==
    \A k \in Generations : life[k] = "ACTIVE" =>
        \A i \in 1 .. 3 : index[IndexTuples(orig[k])[i]] = k

\* An index entry is removed only by the creator that rolls its own generation
\* back or by the deletion of its own generation, although delete_owned_index
\* and delete_flow check the owner and delete the entry in two accesses.
OnlyOwnerRemovesIndex ==
    [][\A t \in Tuples :
         index[t] # NoEntry /\ index'[t] # index[t] =>
           \/ hpc = "remove_index" /\ hkey = index[t]
           \/ \E c \in CPUs : pc[c] = "drop_index" /\ key[c] = index[t]]_vars

\* CPUs that hold a slot for which there is no state record (yet, or any more),
\* that exceeded the capacity and have not taken the slot back yet, or that
\* have claimed a release and not credited it yet.
HoldingSlot == {c \in CPUs : pc[c] \in {"insert_state", "undo", "credit", "release"}}

Live == {k \in Generations : life[k] # "none"}

\* The active-flow counter is the records, the releases journaled for removed
\* records, and the slots CPUs hold in between: a slot is released once and only
\* once, whatever insertion, deletion, journal write or publication fails, is
\* retried or is duplicated.  Only a release_flow_slot that gave up leaves the
\* counter too high, by exactly one each.
SlotAccounting ==
    count = Cardinality(Live) + Cardinality(journal \ Live) + Cardinality(HoldingSlot) + gaveUp

\* The table never holds more flows than its capacity.
WithinCapacity == Capacity # 0 => Cardinality(Live) <= Capacity

\* The release of generation k is in the queue, or a packet has taken it from there.
Published(k) == \/ \E i \in 1 .. Len(queue) : queue[i] = k
                \/ \E c \in CPUs : popped[c] = k

\* The release of generation k is not journaled without being published, unless
\* reserve_flow_slot dropped it: it popped the release and could not claim it.
ReleaseSettled(k) == k \in journal => Published(k) \/ <<"release", k>> \in leftover

\* Generation k has no guard, unless delete_flow found it without a record: then
\* it does not look whether the guard could be removed.
GuardSettled(k) == guard[k] # NoEntry => <<"guard", k>> \in leftover

\* Nothing is left of generation k, but for what those two ignored failures
\* leave behind.
Gone(k) ==
    /\ life[k] = "none"
    /\ \A t \in Tuples : index[t] # k
    /\ inflight[k] = NoEntry
    /\ ReleaseSettled(k)
    /\ GuardSettled(k)

\* The host proxy forgets a flow for good when it is told Complete,
\* AlreadyAbsent or StaleGeneration: nothing of that generation is left that
\* only another delete_flow would clean up, but for the two failures the code
\* ignores.  An outcome may be left: a packet that found the guard before
\* delete_flow removed it may write ABORTED after the reply.  Nobody reads it,
\* since the generation has no record and never gets one again.
FinalReplyMeansGone ==
    reply.outcome \in {"Complete", "AlreadyAbsent", "StaleGeneration"} => Gone(reply.key)

-----------------------------------------------------------------------------
\* The inductive invariants.  TableInv holds of the code as it is.

\* The packet has seen its generation ACTIVE.
PastLookup(c) == pc[c] \in GuardCheck \cup {"inflight", "enter", "resolve", "touch",
                                            "leave", "backout"}

\* Keys in use have been allocated; later generations have left no trace.
AllocatedKeys ==
    /\ \A c \in CPUs : /\ key[c] <= generation
                       /\ pc[c] \notin Verdicts => key[c] # NoEntry
    /\ \A t \in Tuples : index[t] <= generation
    /\ \A k \in Generations : k > generation => orig[k] = NoEntry

\* A record has its original tuple, and its counter once it is ACTIVE.
RecordsComplete ==
    \A k \in Generations :
      /\ life[k] # "none" => orig[k] # NoEntry
      /\ life[k] = "ACTIVE" => inflight[k] # NoEntry

\* A creator is alone with its generation until it publishes it.
CreatorAlone ==
    \A c \in CPUs : pc[c] \in Creating =>
      /\ life[key[c]] # "ACTIVE"
      /\ pc[c] \in Reserving \cup {"insert_state"} => orig[key[c]] = NoEntry
      /\ pc[c] = "publish" /\ life[key[c]] # "none" => inflight[key[c]] # NoEntry
      /\ /\ pc[c] \in {"insert_index", "insert_inflight", "publish"}
         /\ life[key[c]] # "none"
         => used[key[c]] = now[c]
      /\ \A d \in CPUs \ {c} : key[d] = key[c] => pc[d] \notin Creating /\ ~PastLookup(d)

\* What a packet holds at each of its steps.
PacketHolds ==
    \A c \in CPUs :
      /\ pc[c] \in Creating \cup {"relookup"} => tup[c] \in Eligible
      /\ pc[c] = "expiry" => seen[c] # NoEntry
      /\ PastLookup(c) => life[key[c]] # "CREATING"
      /\ second[c] => InSection(c)
      /\ (pc[c] = "enter" \/ InSection(c)) <=> held[c] # NoEntry

\* What delete_flow knows at each of its steps.
HostKnows ==
    /\ hpc # "idle" => hkey \in Generations /\ orig[hkey] # NoEntry
    /\ hpc = "remove_index" => htup # NoEntry
    /\ hpc \in {"absent_guard", "absent_outcome", "scan_stale", "scan_owned", "check_index",
                "remove_index", "remove_inflight"} => life[hkey] = "none"
    /\ hpc \in Committed => outcome[hkey] = "COMMITTED"

TableInv ==
    TypeOK /\ AllocatedKeys /\ RecordsComplete /\ CreatorAlone /\ PacketHolds /\ HostKnows

\* The next four, IndexInv to FinalInv, hold when no flow is deleted while its creator is
\* still at work (EarlyDelete = FALSE): a creator's rollback and delete_flow both
\* check an index entry's owner and then delete whatever the entry holds.

\* The generation delete_flow works on has no creator.
Quiet == hpc # "idle" => ~BeingCreated(hkey)

\* The creator's record is in the state map and not yet published.
Inserted(c) == pc[c] \in {"insert_index", "insert_inflight", "publish", "drop_check",
                          "drop_index", "drop_inflight", "drop_state"}

\* The index entries a creator has inserted so far are still its own, and so is
\* the one its rollback is about to delete.
CreatorIndexed(c) ==
    /\ pc[c] \notin {"insert_index", "drop_check", "drop_index"} => at[c] = 1
    /\ Inserted(c) => life[key[c]] = "CREATING" /\ orig[key[c]] = tup[c]
    /\ \A i \in 1 .. 3 : \/ pc[c] = "insert_index" /\ i < at[c]
                         \/ pc[c] \in {"insert_inflight", "publish"}
                         \/ pc[c] = "drop_index" /\ i = at[c]
                         => index[IndexTuples(tup[c])[i]] = key[c]

\* An index entry names a flow of which the tuple is one of the three.
IndexedByOwner ==
    \A t \in Tuples : index[t] # NoEntry =>
      /\ orig[index[t]] # NoEntry
      /\ \E i \in 1 .. 3 : t = IndexTuples(orig[index[t]])[i]

IndexInv ==
    /\ Quiet
    /\ \A c \in CPUs : CreatorIndexed(c)
    /\ IndexedByOwner
    /\ ActiveOwnsIndexes
    /\ hpc = "remove_index" => index[htup] = hkey

\* delete_flow from finding the record to removing it, or to giving up.
Finding == {"read_guard", "remove_old_guard", "remove_old_outcome", "insert_guard", "drain",
            "read_state", "commit", "unjournal"} \cup Committed

\* A journaled release is one of a flow that was created, a published one that
\* of a flow that is gone; a CPU keeps a popped release until it claims it.
ReleasesEarned ==
    /\ \A k \in journal : orig[k] # NoEntry /\ ~BeingCreated(k)
    /\ \A i \in 1 .. Len(queue) : life[queue[i]] = "none" /\ orig[queue[i]] # NoEntry
    /\ \A c \in CPUs :
         /\ pc[c] # "claim" => popped[c] = NoEntry
         /\ popped[c] # NoEntry => life[popped[c]] = "none" /\ orig[popped[c]] # NoEntry

\* What delete_flow has done and noted at each of its steps.
HostProgress ==
    /\ hpc # "idle" => reply = NoReply
    /\ hpc \in {"idle", "find_state"} => report = {}
    /\ hpc \in {"absent_guard", "absent_outcome", "scan_stale", "scan_owned"} => ~guarded
    /\ hpc \in Finding =>
         life[hkey] # "none" /\ guarded /\ "state_deleted" \notin report
    /\ hpc = "remove_state" => hkey \in journal
    /\ hpc = "unjournal" => "partial" \in report
    /\ hpc \in {"check_index", "remove_index", "remove_inflight", "push"} => MayRelease
    /\ hpc \in {"read_journal", "push"} /\ MayRelease => life[hkey] = "none"

ReleaseInv == ReleasesEarned /\ HostProgress

\* CPUs whose slot counts against the capacity.
Reserved == {c \in CPUs : pc[c] \in {"insert_state", "credit", "release"}}

\* The slots given out, the releases under way included, stay within the
\* capacity.
SlotsWithin ==
    Capacity # 0 =>
      Cardinality(Live) + Cardinality(journal \ Live) + Cardinality(Reserved) <= Capacity

SlotInv == SlotAccounting /\ SlotsWithin

\* Nothing delete_flow has noted so far stands against a final reply.
Clean == {"partial", "error", "observation_mismatch"} \cap report = {}

\* delete_flow is past the removal of a guard, its own or one it found without a
\* record.
Unguarded ==
    \/ hpc = "clear_outcome"
    \/ /\ ~guarded
       /\ hpc \in {"absent_outcome", "scan_stale", "scan_owned", "check_index",
                   "remove_index", "remove_inflight", "read_journal", "push"}

\* What a clean call has left of its generation at each of its steps.
CleanProgress ==
    Clean =>
      /\ hpc \in {"journal", "remove_state", "check_index", "remove_index"} =>
           \A t \in Tuples : index[t] = hkey => t \in hidx \/ (hpc = "remove_index" /\ t = htup)
      /\ hpc \in {"remove_inflight", "read_journal", "push", "clear_guard", "clear_outcome"} =>
           \A t \in Tuples : index[t] # hkey
      /\ hpc = "read_journal" => MayRelease
      /\ hpc \in {"clear_guard", "clear_outcome"} =>
           life[hkey] = "none" /\ ReleaseSettled(hkey)
      /\ hpc \in {"read_journal", "push", "clear_guard", "clear_outcome"} =>
           inflight[hkey] = NoEntry

\* ... and of its guard.
GuardProgress == Clean /\ Unguarded => GuardSettled(hkey)

\* A generation that was answered for good has no creator and never gets one.
FinalInv ==
    /\ CleanProgress
    /\ GuardProgress
    /\ reply.outcome \in {"Complete", "AlreadyAbsent", "StaleGeneration"} =>
         /\ reply.key \in Generations /\ Gone(reply.key)
         /\ orig[reply.key] # NoEntry /\ ~BeingCreated(reply.key)

\* DeletionInv holds as long as no in-flight element was recycled under a packet.

\* The packet's final check is past the point where it would see a commit.
Passing(c) == \/ pc[c] \in {"expiry", "unguard", "recheck"} /\ second[c]
              \/ pc[c] \in {"resolve", "touch", "leave"}

\* An in-flight element counts for one generation, and a packet's pointer leads
\* to its own generation's element or to an unused one.
CellsOwned ==
    /\ \A j, k \in Generations : inflight[j] # NoEntry /\ inflight[j] = inflight[k] => j = k
    /\ \A c \in CPUs, k \in Generations :
         held[c] # NoEntry /\ inflight[k] # NoEntry => (k = key[c] <=> inflight[k] = held[c])

\* Once delete_flow has drained the section behind its commit, no packet gets
\* as far as the record, and the record stays as it was read.
Quiescent ==
    /\ hpc \in {"reread", "journal", "remove_state"} /\ life[hkey] # "none" =>
         \A c \in CPUs : key[c] = hkey => ~Passing(c)
    /\ hpc \in {"journal", "remove_state"} /\ life[hkey] # "none" =>
         hobs \in {0, used[hkey]}

DeletionInv == CellsOwned /\ Quiescent /\ NoUseAfterDelete /\ InFlightExact

\* The two together are inductive: the argument for delete_flow's drain, commit,
\* drain, re-read, remove, up to the first time that an insertion takes an
\* in-flight element a packet still points to.
FlowTableInv == TableInv /\ (~recycled => DeletionInv)

\* The call up to the removal of the state: nothing is noted yet.
Unnoted == {"idle", "find_state", "absent_guard", "absent_outcome", "scan_stale", "read_guard",
            "remove_old_guard", "remove_old_outcome", "insert_guard", "drain", "read_state",
            "commit"} \cup Committed

\* What delete_flow has noted is true of its generation: the reply made of it
\* can be answered for in the abstract lifecycle.
ReportInv ==
    /\ hpc = "idle" => hkey = NoEntry /\ hobs = 0
    /\ hpc \in Unnoted => report = {}
    /\ hpc = "unjournal" => "partial" \in report
    /\ {"state_deleted", "index_deleted"} \cap report # {} => life[hkey] = "none"
    /\ "state_deleted" \in report =>
         {"observation_mismatch", "stale_generation"} \cap report = {}
    /\ hpc \in {"read_journal", "push", "clear_guard", "clear_outcome"} /\ Clean =>
         life[hkey] = "none"

-----------------------------------------------------------------------------
\* The refinement mapping to the abstract lifecycle of a generation.
PhaseOf(k) ==
    CASE life[k] = "CREATING" -> "creating"
      [] life[k] = "ACTIVE"   -> "open"
      [] life[k] = "none" /\ orig[k] = NoEntry -> "unborn"
      [] OTHER                -> "closed"

LastUseOf(k) == IF life[k] = "none" THEN 0 ELSE used[k]

Removed == "state_deleted" \in report

Lifecycle == INSTANCE FlowLifecycle WITH
    Timestamps <- 0 .. MaxClock,
    phase   <- [k \in Generations |-> PhaseOf(k)],
    lastUse <- [k \in Generations |-> LastUseOf(k)],
    request <- [key |-> hkey, observed |-> hobs, closed |-> Removed],
    answer  <- reply.outcome

\* The interleaved map accesses of packets and host implement the abstract
\* lifecycle: a generation is used only while published, is closed only with
\* the observed timestamp, never comes back, and DeleteFlow's replies are true.
RefinesLifecycle == Lifecycle!Spec

-----------------------------------------------------------------------------
\* Packets of generation k are held up by a guard that is not committed.
Frozen(k) == life[k] = "ACTIVE" /\ guard[k] # NoEntry /\ outcome[k] = "none"

\* A guard that was never committed does not drop traffic for ever, even when
\* the host fails to remove it: it expires in the packet path.
GuardThaws == \A k \in Generations : Frozen(k) ~> ~Frozen(k)

\* delete_flow returns, whatever the packets do: its polling is bounded.
DeleteReturns == (hpc # "idle") ~> (hpc = "idle")

\* A COMMITTED outcome that the host fails to remove after giving up blocks the
\* flow's packets only until the next delete_flow of that generation, provided
\* that the host proxy's maintenance goes on.
CommitUnblocks ==
    Maintenance =>
      \A k \in Generations : (life[k] = "ACTIVE" /\ outcome[k] = "COMMITTED")
                               ~> (life[k] = "none" \/ outcome[k] # "COMMITTED")
=============================================================================
