----------------------------- MODULE HostDeletion -----------------------------
(***************************************************************************)
(* AyaLinuxTcAdapter::delete_flow, one map access per step, and the reply  *)
(* that the DeleteFlow RPC makes of its report.  The adapter's mutex is    *)
(* held from the first access to the last, so there is one such process.   *)
(*                                                                         *)
(* hpc names the next map access; "idle" is the mutex being free.          *)
(***************************************************************************)
EXTENDS FlowMaps

VARIABLES
    hpc,        \* next map access of the call
    hkey,       \* flow_id and generation of the request
    hobs,       \* observed_last_used_ns; 0 is "not observed"
    guarded,    \* guard_active: the flow was present at the first access
    hidx,       \* index_keys still to be visited
    htup,       \* the index whose owner has been confirmed
    report,     \* FlowCleanupReport and error, as the set of its flags
    reply       \* the reply on its way to the caller: the key and the outcome

hostVars == <<hpc, hkey, hobs, guarded, hidx, htup, report, reply>>

Flags == {"state_deleted", "index_deleted", "partial", "stale_generation",
          "observation_mismatch", "error"}

\* Between the insertion of COMMITTED and the removal of the state.
Committed == {"redrain", "reread", "journal", "remove_state"}
HostPCs   == {"idle", "find_state", "absent_guard", "absent_outcome", "scan_stale",
              "scan_owned", "read_guard",
              "remove_old_guard", "remove_old_outcome", "insert_guard", "drain",
              "read_state", "commit", "unjournal", "check_index", "remove_index",
              "remove_inflight", "read_journal", "push", "clear_guard",
              "clear_outcome"} \cup Committed
Outcomes  == {"none", "Complete", "AlreadyAbsent", "StaleGeneration", "Partial",
              "ObservationMismatch", "Err"}

NoReply   == [key |-> NoEntry, outcome |-> "none"]

HostTypeOK ==
    /\ hpc \in HostPCs
    /\ hkey \in Generations \cup {NoEntry}
    /\ hobs \in 0 .. MaxClock
    /\ guarded \in BOOLEAN
    /\ hidx \subseteq Tuples
    /\ htup \in Tuples \cup {NoEntry}
    /\ report \subseteq Flags
    /\ reply \in [key : Generations \cup {NoEntry}, outcome : Outcomes]

HostInit ==
    /\ hpc = "idle"
    /\ hkey = NoEntry
    /\ hobs = 0
    /\ guarded = FALSE
    /\ hidx = {}
    /\ htup = NoEntry
    /\ report = {}
    /\ reply = NoReply

-----------------------------------------------------------------------------
\* The outcome field of DeleteFlowReply, in the order of its conditions.
ReplyOutcome(flags) ==
    IF "error" \in flags                     THEN "Err"
    ELSE IF "observation_mismatch" \in flags THEN "ObservationMismatch"
    ELSE IF "partial" \in flags              THEN "Partial"
    ELSE IF "stale_generation" \in flags     THEN "StaleGeneration"
    ELSE IF {"state_deleted", "index_deleted"} \cap flags # {} THEN "Complete"
    ELSE "AlreadyAbsent"

\* Control moves to l.
HostGoto(l) ==
    /\ hpc' = l
    /\ UNCHANGED <<hkey, hobs, guarded, hidx, htup, report, reply>>

\* ... and the report gains flags.
HostNote(l, flags) ==
    /\ hpc' = l
    /\ report' = report \cup flags
    /\ UNCHANGED <<hkey, hobs, guarded, hidx, htup, reply>>

\* The call returns.
HostReturn(flags) ==
    /\ reply' = [key |-> hkey, outcome |-> ReplyOutcome(flags)]
    /\ hpc' = "idle"
    /\ hkey' = NoEntry
    /\ hobs' = 0
    /\ guarded' = FALSE
    /\ hidx' = {}
    /\ htup' = NoEntry
    /\ report' = {}

\* The cleanup closure ends: a guarded call still removes guard and outcome.
EndCleanup(flags) ==
    \/ guarded /\ HostNote("clear_guard", flags)
    \/ ~guarded /\ HostReturn(report \cup flags)

\* The in-flight counter as the host reads it: a missing entry counts as zero.
InFlight == IF inflight[hkey] = NoEntry THEN 0 ELSE tally[inflight[hkey]]

-----------------------------------------------------------------------------
\* Faulty variants, each with one plausible mistake; none is part of Next.

\* The section is not drained again after the commit.
RedrainSkipped ==
    /\ hpc = "redrain"
    /\ HostGoto("reread")
    /\ UNCHANGED maps

\* The record read again is not compared with the caller's observation.
RereadUnobserved ==
    /\ hpc = "reread"
    /\ \/ life[hkey] = "none" /\ HostNote("clear_guard", {})
       \/ /\ life[hkey] # "none"
          /\ hidx' = {IndexTuples(orig[hkey])[i] : i \in 1 .. 3}
          /\ hpc' = "journal"
          /\ UNCHANGED <<hkey, hobs, guarded, htup, report, reply>>
    /\ UNCHANGED maps

\* A release that could not be queued is reported as done.
PushReleaseSilent ==
    /\ hpc = "push"
    /\ \/ /\ Len(queue) < QueueCapacity
          /\ queue' = Append(queue, hkey)
          /\ UNCHANGED faults
       \/ FailsIf(Len(queue) >= QueueCapacity) /\ UNCHANGED queue
    /\ EndCleanup({})
    /\ UNCHANGED <<index, stateMap, entered, guard, outcome, count, journal, gaveUp,
                   leftover, generation, time>>

\* The polling has no bound.
DrainForever ==
    /\ hpc = "drain"
    /\ InFlight = 0
    /\ HostGoto("read_state")
    /\ UNCHANGED maps

\* What an earlier call left behind, guard or outcome, makes the call give up.
ReadGuardYields ==
    /\ hpc = "read_guard"
    /\ \/ /\ guard[hkey] = NoEntry /\ outcome[hkey] = "none"
          /\ HostGoto("remove_old_outcome")
       \/ /\ guard[hkey] # NoEntry \/ outcome[hkey] # "none"
          /\ HostReturn({"observation_mismatch"})
    /\ UNCHANGED maps

-----------------------------------------------------------------------------
\* delete_flow is entered: the adapter's mutex is taken.
DeleteFlow(k, observed) ==
    /\ hpc = "idle"
    /\ hpc' = "find_state"
    /\ hkey' = k
    /\ hobs' = observed
    /\ reply' = NoReply
    /\ UNCHANGED <<maps, guarded, hidx, htup, report>>

\* The state is looked up; only a flow that is present is guarded.
FindState ==
    /\ hpc = "find_state"
    /\ guarded' = (life[hkey] # "none")
    /\ hpc' = IF life[hkey] # "none" THEN "read_guard" ELSE "absent_guard"
    /\ UNCHANGED <<maps, hkey, hobs, hidx, htup, report, reply>>

\* No state: a guard or outcome left behind is removed, errors ignored.
AbsentGuard ==
    /\ hpc = "absent_guard"
    /\ \/ /\ guard' = [guard EXCEPT ![hkey] = NoEntry]
          /\ UNCHANGED <<leftover, faults>>
       \/ /\ Fault
          /\ leftover' = leftover \cup {<<"guard", hkey>>}
          /\ UNCHANGED guard
    /\ HostGoto("absent_outcome")
    /\ UNCHANGED <<index, stateMap, entered, outcome, count, queue, journal, gaveUp,
                   generation, time>>

AbsentOutcome ==
    /\ hpc = "absent_outcome"
    /\ \/ outcome' = [outcome EXCEPT ![hkey] = "none"] /\ UNCHANGED faults
       \/ Fault /\ UNCHANGED outcome
    /\ HostGoto("scan_stale")
    /\ UNCHANGED <<index, stateMap, entered, guard, slots, generation, time>>

\* No state: the index map is read for another generation of the same flow id, ...
ScanStale ==
    /\ hpc = "scan_stale"
    /\ report' = IF \E t \in Tuples : /\ index[t] \notin {NoEntry, hkey}
                                      /\ FlowId[orig[index[t]]] = FlowId[orig[hkey]]
                 THEN report \cup {"stale_generation"} ELSE report
    /\ hpc' = "scan_owned"
    /\ UNCHANGED <<maps, hkey, hobs, guarded, hidx, htup, reply>>

\* ... and again for the indexes of this generation.
ScanOwned ==
    /\ hpc = "scan_owned"
    /\ hidx' = {t \in Tuples : index[t] = hkey}
    /\ hpc' = "check_index"
    /\ UNCHANGED <<maps, hkey, hobs, guarded, htup, report, reply>>

\* A guard of an earlier call: still in force, the call gives up at once; past
\* its deadline (strictly, unlike the packet path's test), it is removed.
ReadGuard ==
    /\ hpc = "read_guard"
    /\ \/ guard[hkey] = NoEntry /\ HostGoto("remove_old_outcome")
       \/ /\ guard[hkey] # NoEntry /\ age[guard[hkey]] # "after"
          /\ HostReturn({"observation_mismatch"})
       \/ /\ guard[hkey] # NoEntry /\ age[guard[hkey]] = "after"
          /\ HostGoto("remove_old_guard")
    /\ UNCHANGED maps

\* Removing a guard that a packet has removed meanwhile is an error.
RemoveOldGuard ==
    /\ hpc = "remove_old_guard"
    /\ \/ /\ guard[hkey] # NoEntry
          /\ guard' = [guard EXCEPT ![hkey] = NoEntry]
          /\ HostGoto("remove_old_outcome")
          /\ UNCHANGED faults
       \/ /\ FailsIf(guard[hkey] = NoEntry)
          /\ HostReturn({"error"})
          /\ UNCHANGED guard
    /\ UNCHANGED <<index, stateMap, entered, outcome, slots, generation, time>>

RemoveOldOutcome ==
    /\ hpc = "remove_old_outcome"
    /\ \/ outcome' = [outcome EXCEPT ![hkey] = "none"] /\ UNCHANGED faults
       \/ Fault /\ UNCHANGED outcome
    /\ HostGoto("insert_guard")
    /\ UNCHANGED <<index, stateMap, entered, guard, slots, generation, time>>

\* The guard map has no room for another entry.
GuardsFull == \A d \in Guards : \E k \in Generations : guard[k] = d

\* The guard goes into any free element.  Its deadline was computed before the
\* adapter was locked (service.rs), so it may have passed already.
InsertGuard ==
    /\ hpc = "insert_guard"
    /\ \/ /\ guard[hkey] = NoEntry
          /\ \E d \in Guards, a \in Ages :
               /\ \A k \in Generations : guard[k] # d
               /\ guard' = [guard EXCEPT ![hkey] = d]
               /\ age' = [age EXCEPT ![d] = a]
          /\ HostGoto("drain")
          /\ UNCHANGED faults
       \/ /\ FailsIf(guard[hkey] # NoEntry \/ GuardsFull)
          /\ HostReturn({"error"})
          /\ UNCHANGED <<guard, age>>
    /\ UNCHANGED <<index, stateMap, entered, outcome, slots, generation, clock>>
-----------------------------------------------------------------------------
\* Poll until no packet is inside; a packet that stays makes the call give up
\* after its 128 polls.
Drain ==
    /\ hpc = "drain"
    /\ \/ InFlight = 0 /\ HostGoto("read_state")
       \/ InFlight # 0 /\ HostNote("clear_guard", {"observation_mismatch"})
    /\ UNCHANGED maps

ReadState ==
    /\ hpc = "read_state"
    /\ \/ life[hkey] # "none" /\ HostGoto("commit")
       \/ life[hkey] = "none" /\ HostNote("clear_guard", {"observation_mismatch"})
    /\ UNCHANGED maps

\* COMMITTED, BPF_NOEXIST, against the packet path's ABORTED.
Commit ==
    /\ hpc = "commit"
    /\ \/ /\ outcome[hkey] = "none"
          /\ outcome' = [outcome EXCEPT ![hkey] = "COMMITTED"]
          /\ HostGoto("redrain")
          /\ UNCHANGED faults
       \/ /\ FailsIf(outcome[hkey] # "none")
          /\ HostNote("clear_guard", {"observation_mismatch"})
          /\ UNCHANGED outcome
    /\ UNCHANGED <<index, stateMap, entered, guard, slots, generation, time>>

\* Poll again: packets that passed their second check before the commit.
Redrain ==
    /\ hpc = "redrain"
    /\ \/ InFlight = 0 /\ HostGoto("reread")
       \/ InFlight # 0 /\ HostNote("clear_guard", {"observation_mismatch"})
    /\ UNCHANGED maps

\* Read the record again and compare it with what the caller observed.
Reread ==
    /\ hpc = "reread"
    /\ \/ life[hkey] = "none" /\ HostNote("clear_guard", {})
       \/ /\ life[hkey] # "none" /\ hobs \notin {0, used[hkey]}
          /\ HostNote("clear_guard", {"observation_mismatch"})
       \/ /\ life[hkey] # "none" /\ hobs \in {0, used[hkey]}
          /\ hidx' = {IndexTuples(orig[hkey])[i] : i \in 1 .. 3}
          /\ hpc' = "journal"
          /\ UNCHANGED <<hkey, hobs, guarded, htup, report, reply>>
    /\ UNCHANGED maps

\* The release is journaled before the state is removed.
JournalRelease ==
    /\ hpc = "journal"
    /\ \/ journal' = journal \cup {hkey} /\ HostGoto("remove_state") /\ UNCHANGED faults
       \/ Fault /\ HostNote("clear_guard", {"error"}) /\ UNCHANGED journal
    /\ UNCHANGED <<index, stateMap, entered, guard, outcome, count, queue, gaveUp,
                   leftover, generation, time>>

RemoveState ==
    /\ hpc = "remove_state"
    /\ \/ /\ life[hkey] # "none"
          /\ life' = [life EXCEPT ![hkey] = "none"]
          /\ HostNote("check_index", {"state_deleted"})
          /\ UNCHANGED faults
       \/ /\ FailsIf(life[hkey] = "none")
          /\ HostNote("unjournal", {"partial"})
          /\ UNCHANGED life
    /\ UNCHANGED <<index, used, orig, entered, guard, outcome, slots, generation, time>>

\* The state could not be removed: take the journal entry back (errors ignored),
\* leave indexes and counter alone.
Unjournal ==
    /\ hpc = "unjournal"
    /\ \/ journal' = journal \ {hkey} /\ UNCHANGED faults
       \/ Fault /\ UNCHANGED journal
    /\ HostGoto("read_journal")
    /\ UNCHANGED <<index, stateMap, entered, guard, outcome, count, queue, gaveUp,
                   leftover, generation, time>>
-----------------------------------------------------------------------------
\* Each index is read, and removed only if it still carries this generation.
CheckIndex ==
    /\ hpc = "check_index"
    /\ \/ hidx = {} /\ HostGoto("remove_inflight") /\ UNCHANGED faults
       \/ \E t \in hidx :
            /\ hidx' = hidx \ {t}
            /\ \/ /\ index[t] = hkey
                  /\ hpc' = "remove_index"
                  /\ htup' = t
                  /\ UNCHANGED <<report, faults>>
               \/ index[t] # hkey /\ UNCHANGED <<hpc, htup, report, faults>>
               \/ /\ Fault
                  /\ report' = report \cup {"partial"}
                  /\ UNCHANGED <<hpc, htup>>
            /\ UNCHANGED <<hkey, hobs, guarded, reply>>
    /\ UNCHANGED <<index, stateMap, entered, guard, outcome, slots, generation, time>>

RemoveIndex ==
    /\ hpc = "remove_index"
    /\ \/ /\ index[htup] # NoEntry
          /\ index' = [index EXCEPT ![htup] = NoEntry]
          /\ report' = report \cup {"index_deleted"}
          /\ UNCHANGED faults
       \/ /\ FailsIf(index[htup] = NoEntry)
          /\ report' = report \cup {"partial"}
          /\ UNCHANGED index
    /\ hpc' = "check_index"
    /\ htup' = NoEntry
    /\ UNCHANGED <<stateMap, entered, guard, outcome, slots, generation, time,
                   hkey, hobs, guarded, hidx, reply>>

RemoveInflight ==
    /\ hpc = "remove_inflight"
    /\ \/ /\ inflight' = [inflight EXCEPT ![hkey] = NoEntry]
          /\ HostGoto("read_journal")
          /\ UNCHANGED faults
       \/ Fault /\ HostNote("read_journal", {"partial"}) /\ UNCHANGED inflight
    /\ UNCHANGED <<index, stateMap, tally, recycled, guard, outcome, slots, generation, time>>

\* A journal entry, of this call or left by an earlier one, is published, unless
\* the state could not be removed.
MayRelease == guarded => "state_deleted" \in report

ReadJournal ==
    /\ hpc = "read_journal"
    /\ \/ hkey \in journal /\ MayRelease /\ HostGoto("push") /\ UNCHANGED faults
       \/ ~(hkey \in journal /\ MayRelease) /\ EndCleanup({}) /\ UNCHANGED faults
       \/ Fault /\ EndCleanup({"error"})
    /\ UNCHANGED <<index, stateMap, entered, guard, outcome, slots, generation, time>>

PushRelease ==
    /\ hpc = "push"
    /\ \/ /\ Len(queue) < QueueCapacity
          /\ queue' = Append(queue, hkey)
          /\ EndCleanup({})
          /\ UNCHANGED faults
       \/ /\ FailsIf(Len(queue) >= QueueCapacity)
          /\ EndCleanup({"partial"})
          /\ UNCHANGED queue
    /\ UNCHANGED <<index, stateMap, entered, guard, outcome, count, journal, gaveUp,
                   leftover, generation, time>>

\* Every path of a guarded call ends by removing its guard, then its outcome.
ClearGuard ==
    /\ hpc = "clear_guard"
    /\ \/ /\ guard' = [guard EXCEPT ![hkey] = NoEntry]
          /\ HostGoto("clear_outcome")
          /\ UNCHANGED faults
       \/ Fault /\ HostNote("clear_outcome", {"partial"}) /\ UNCHANGED guard
    /\ UNCHANGED <<index, stateMap, entered, outcome, slots, generation, time>>

ClearOutcome ==
    /\ hpc = "clear_outcome"
    /\ \/ /\ outcome' = [outcome EXCEPT ![hkey] = "none"]
          /\ HostReturn(report)
          /\ UNCHANGED faults
       \/ Fault /\ HostReturn(report \cup {"partial"}) /\ UNCHANGED outcome
    /\ UNCHANGED <<index, stateMap, entered, guard, slots, generation, time>>

\* A map read fails: before the guard is inserted the call returns the error,
\* inside the cleanup closure guard and outcome are removed first.
ReadFails ==
    /\ Fault
    /\ \/ hpc \in {"find_state", "read_guard"} /\ HostReturn({"error"})
       \/ /\ hpc \in {"drain", "read_state", "redrain", "reread", "scan_stale", "scan_owned"}
          /\ EndCleanup({"error"})
    /\ UNCHANGED <<index, stateMap, entered, guard, outcome, slots, generation, time>>

HostStep ==
    \/ FindState \/ AbsentGuard \/ AbsentOutcome \/ ScanStale \/ ScanOwned \/ ReadGuard
    \/ RemoveOldGuard
    \/ RemoveOldOutcome \/ InsertGuard \/ Drain \/ ReadState \/ Commit \/ Redrain
    \/ Reread \/ JournalRelease \/ RemoveState \/ Unjournal \/ CheckIndex
    \/ RemoveIndex \/ RemoveInflight \/ ReadJournal \/ PushRelease
    \/ ClearGuard \/ ClearOutcome \/ ReadFails
=============================================================================
