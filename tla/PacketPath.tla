------------------------------ MODULE PacketPath ------------------------------
(***************************************************************************)
(* The TC classifiers (process_packet and the functions it calls), one     *)
(* packet at a time on each CPU, one access to a shared map per step.      *)
(*                                                                         *)
(* pc[c] names the map access CPU c makes next; "OK" and "SHOT" are the    *)
(* verdict of its last packet, and the CPU is then free for another one.   *)
(* A value found by a map lookup is read in the same step, except for the  *)
(* guard's deadline, which the code reads after another map lookup.        *)
(***************************************************************************)
EXTENDS FlowMaps

VARIABLES
    pc,     \* next map access of the CPU's packet, or its verdict
    tup,    \* lookup_key of a packet that creates a flow
    key,    \* state_key: the candidate's generation, then the resolved one
    at,     \* which of the three tuple indexes is inserted or dropped next
    lost,   \* publication failed: the rollback ends in SHOT
    popped, \* release taken from the queue by reserve_flow_slot
    held,   \* in_flight pointer of enter_flow_packet: the element, or NoEntry
    seen,   \* guard pointer of deletion_guard_active: the element, or NoEntry
    second, \* deletion_guard_active is called for the second time
    now     \* bpf_ktime_get_ns() held by the packet

cpuVars == <<pc, tup, key, at, lost, popped, held, seen, second, now>>

Verdicts == {"OK", "SHOT"}

\* The attempt to create a flow, from the allocation of its generation to the
\* publication of ACTIVE or the end of the rollback.
Reserving   == {"pop", "claim", "credit", "add", "undo"}
Inserting   == {"insert_state", "insert_index", "insert_inflight", "publish"}
RollingBack == {"drop_check", "drop_index", "drop_inflight", "drop_state", "release"}
Creating    == Reserving \cup Inserting \cup RollingBack

GuardCheck  == {"guard", "outcome", "expiry", "unguard", "recheck"}
PacketPCs   == Verdicts \cup Creating \cup GuardCheck
               \cup {"relookup", "lookup", "inflight", "enter", "resolve",
                     "touch", "leave", "backout"}

PacketTypeOK ==
    /\ pc \in [CPUs -> PacketPCs]
    /\ tup \in [CPUs -> Eligible \cup {NoEntry}]
    /\ key \in [CPUs -> Generations \cup {NoEntry}]
    /\ at \in [CPUs -> 1 .. 3]
    /\ lost \in [CPUs -> BOOLEAN]
    /\ popped \in [CPUs -> Generations \cup {NoEntry}]
    /\ held \in [CPUs -> Cells \cup {NoEntry}]
    /\ seen \in [CPUs -> Guards \cup {NoEntry}]
    /\ second \in [CPUs -> BOOLEAN]
    /\ now \in [CPUs -> 0 .. MaxClock]

PacketInit ==
    /\ pc = [c \in CPUs |-> "OK"]
    /\ tup = [c \in CPUs |-> NoEntry]
    /\ key = [c \in CPUs |-> NoEntry]
    /\ at = [c \in CPUs |-> 1]
    /\ lost = [c \in CPUs |-> FALSE]
    /\ popped = [c \in CPUs |-> NoEntry]
    /\ held = [c \in CPUs |-> NoEntry]
    /\ seen = [c \in CPUs |-> NoEntry]
    /\ second = [c \in CPUs |-> FALSE]
    /\ now = [c \in CPUs |-> 0]

-----------------------------------------------------------------------------
\* Control moves to l; the local variables keep their values.
Goto(c, l) ==
    /\ pc' = [pc EXCEPT ![c] = l]
    /\ UNCHANGED <<tup, key, at, lost, popped, held, seen, second, now>>

\* The program returns: its stack frame is gone.
Return(c, verdict) ==
    /\ pc' = [pc EXCEPT ![c] = verdict]
    /\ tup' = [tup EXCEPT ![c] = NoEntry]
    /\ key' = [key EXCEPT ![c] = NoEntry]
    /\ at' = [at EXCEPT ![c] = 1]
    /\ lost' = [lost EXCEPT ![c] = FALSE]
    /\ popped' = [popped EXCEPT ![c] = NoEntry]
    /\ held' = [held EXCEPT ![c] = NoEntry]
    /\ seen' = [seen EXCEPT ![c] = NoEntry]
    /\ second' = [second EXCEPT ![c] = FALSE]
    /\ now' = [now EXCEPT ![c] = 0]

\* What enter_flow_packet does when deletion_guard_active returns 1 ...
Blocked(c) == \/ second[c] /\ Goto(c, "backout")
              \/ ~second[c] /\ Return(c, "SHOT")

\* ... and when it returns 0.
Allowed(c) ==
    /\ pc' = [pc EXCEPT ![c] = IF second[c] THEN "resolve" ELSE "inflight"]
    /\ seen' = [seen EXCEPT ![c] = NoEntry]
    /\ UNCHANGED <<tup, key, at, lost, popped, held, second, now>>

\* On to the next of the three tuple indexes, or to done after the third.
NextIndex(c, more, done) ==
    /\ pc' = [pc EXCEPT ![c] = IF at[c] = 3 THEN done ELSE more]
    /\ at' = [at EXCEPT ![c] = IF @ = 3 THEN 1 ELSE @ + 1]
    /\ UNCHANGED <<tup, key, lost, popped, held, seen, second, now>>

\* The rollback is over: a failed publication also ends the packet.
EndRollback(c) == \/ lost[c] /\ Return(c, "SHOT")
                  \/ ~lost[c] /\ Goto(c, "relookup")

-----------------------------------------------------------------------------
\* Faulty variants, each with one plausible mistake; none is part of Next.  They
\* show that the properties of FlowTable depend on what the code does.

\* The failed second check leaves the packet counted.
BackOutUncounted(c) ==
    /\ pc[c] = "backout"
    /\ Return(c, "SHOT")
    /\ UNCHANGED maps

\* The record is published with BPF_ANY.
PublishAny(c) ==
    /\ pc[c] = "publish"
    /\ life' = [life EXCEPT ![key[c]] = "ACTIVE"]
    /\ used' = [used EXCEPT ![key[c]] = now[c]]
    /\ pc' = [pc EXCEPT ![c] = "lookup"]
    /\ tup' = [tup EXCEPT ![c] = NoEntry]
    /\ now' = [now EXCEPT ![c] = 0]
    /\ UNCHANGED <<index, orig, entered, guard, outcome, slots, generation, time, faults,
                   key, at, lost, popped, held, seen, second>>

\* The rollback deletes an index entry whoever owns it.
DropCheckUnowned(c) ==
    /\ pc[c] = "drop_check"
    /\ Goto(c, "drop_index")
    /\ UNCHANGED maps

\* Index entries are inserted with BPF_ANY.
InsertIndexAny(c) ==
    /\ pc[c] = "insert_index"
    /\ index' = [index EXCEPT ![IndexTuples(tup[c])[at[c]]] = key[c]]
    /\ NextIndex(c, "insert_index", "insert_inflight")
    /\ UNCHANGED <<stateMap, entered, guard, outcome, slots, generation, time, faults>>

\* A reservation beyond the capacity is not taken back.
UndoReservationForgets(c) ==
    /\ pc[c] = "undo"
    /\ Return(c, "SHOT")
    /\ UNCHANGED maps

\* A popped release is credited whether or not its claim succeeds.
ClaimReleaseUnchecked(c) ==
    /\ pc[c] = "claim"
    /\ \/ /\ journal' = journal \ {popped[c]}
          /\ UNCHANGED <<leftover, faults>>
       \/ /\ popped[c] \in journal /\ Fault
          /\ leftover' = leftover \cup {<<"release", popped[c]>>}
          /\ UNCHANGED journal
    /\ pc' = [pc EXCEPT ![c] = "credit"]
    /\ popped' = [popped EXCEPT ![c] = NoEntry]
    /\ UNCHANGED <<index, stateMap, entered, guard, outcome, count, queue, gaveUp,
                   generation, time, tup, key, at, lost, held, seen, second, now>>

\* The capacity test is off by one.
ReserveSlotOver(c) ==
    /\ pc[c] = "add"
    /\ count' = count + 1
    /\ \/ Capacity # 0 /\ count > Capacity /\ Goto(c, "undo")
       \/ ~(Capacity # 0 /\ count > Capacity) /\ Goto(c, "insert_state")
    /\ UNCHANGED <<index, stateMap, entered, guard, outcome, queue, journal, gaveUp,
                   leftover, generation, time, faults>>

\* Any outcome, COMMITTED included, lets the packet pass.
LookupOutcomeAny(c) ==
    /\ pc[c] = "outcome"
    /\ \/ (outcome[key[c]] # "none" \/ seen[c] = NoEntry) /\ Allowed(c)
       \/ outcome[key[c]] = "none" /\ seen[c] # NoEntry /\ Goto(c, "expiry")
    /\ UNCHANGED maps

\* The packet path never finds a guard expired.
CheckExpiryNever(c) ==
    /\ pc[c] = "expiry"
    /\ Blocked(c)
    /\ UNCHANGED maps

-----------------------------------------------------------------------------
\* The packet's tuple is indexed: the generation found is looked up next.
PacketHit(c, t) ==
    /\ pc[c] \in Verdicts
    /\ index[t] # NoEntry
    /\ key' = [key EXCEPT ![c] = index[t]]
    /\ pc' = [pc EXCEPT ![c] = "lookup"]
    /\ UNCHANGED <<maps, tup, at, lost, popped, held, seen, second, now>>

\* Not indexed, and an egress packet or one without a target: it passes.
PacketMiss(c, t) ==
    /\ pc[c] \in Verdicts
    /\ index[t] = NoEntry
    /\ Return(c, "OK")
    /\ UNCHANGED maps

\* Not indexed, ingress, and a target is configured: a candidate is built under
\* a new generation.
PacketCreate(c, t) ==
    /\ pc[c] \in Verdicts
    /\ t \in Eligible
    /\ index[t] = NoEntry
    /\ generation < MaxGeneration
    /\ generation' = generation + 1
    /\ key' = [key EXCEPT ![c] = generation + 1]
    /\ tup' = [tup EXCEPT ![c] = t]
    /\ now' = [now EXCEPT ![c] = clock]
    /\ pc' = [pc EXCEPT ![c] = "pop"]
    /\ UNCHANGED <<index, stateMap, entered, guard, outcome, slots, time, faults,
                   at, lost, popped, held, seen, second>>

-----------------------------------------------------------------------------
\* reserve_flow_slot: take at most one release from the queue, ...
PopRelease(c) ==
    /\ pc[c] = "pop"
    /\ \/ queue = << >> /\ Goto(c, "add") /\ UNCHANGED queue
       \/ /\ queue # << >>
          /\ popped' = [popped EXCEPT ![c] = Head(queue)]
          /\ queue' = Tail(queue)
          /\ pc' = [pc EXCEPT ![c] = "claim"]
          /\ UNCHANGED <<tup, key, at, lost, held, seen, second, now>>
    /\ UNCHANGED <<index, stateMap, entered, guard, outcome, count, journal, gaveUp,
                   leftover, generation, time, faults>>

\* ... claim it by deleting its journal entry (a claim that fails is forgotten,
\* and an entry that is still there stays unpublished), ...
ClaimRelease(c) ==
    /\ pc[c] = "claim"
    /\ \/ /\ popped[c] \in journal
          /\ journal' = journal \ {popped[c]}
          /\ pc' = [pc EXCEPT ![c] = "credit"]
          /\ UNCHANGED <<leftover, faults>>
       \/ /\ popped[c] \notin journal
          /\ pc' = [pc EXCEPT ![c] = "add"]
          /\ UNCHANGED <<journal, leftover, faults>>
       \/ /\ popped[c] \in journal
          /\ Fault
          /\ leftover' = leftover \cup {<<"release", popped[c]>>}
          /\ pc' = [pc EXCEPT ![c] = "add"]
          /\ UNCHANGED journal
    /\ popped' = [popped EXCEPT ![c] = NoEntry]
    /\ UNCHANGED <<index, stateMap, entered, guard, outcome, count, queue, gaveUp,
                   generation, time, tup, key, at, lost, held, seen, second, now>>

\* ... and only then credit the slot.
CreditRelease(c) ==
    /\ pc[c] = "credit"
    /\ ReleaseFlowSlot
    /\ Goto(c, "add")
    /\ UNCHANGED <<index, stateMap, entered, guard, outcome, queue, journal, leftover,
                   generation, time>>

\* Add one, and look at what was there before.
ReserveSlot(c) ==
    /\ pc[c] = "add"
    /\ count' = count + 1
    /\ \/ Capacity # 0 /\ count >= Capacity /\ Goto(c, "undo")
       \/ ~(Capacity # 0 /\ count >= Capacity) /\ Goto(c, "insert_state")
    /\ UNCHANGED <<index, stateMap, entered, guard, outcome, queue, journal, gaveUp,
                   leftover, generation, time, faults>>

\* At capacity: take it back, count the failure, drop the packet.
UndoReservation(c) ==
    /\ pc[c] = "undo"
    /\ count' = Minus1(count)
    /\ Return(c, "SHOT")
    /\ UNCHANGED <<index, stateMap, entered, guard, outcome, queue, journal, gaveUp,
                   leftover, generation, time, faults>>
-----------------------------------------------------------------------------
\* The state record is inserted as CREATING, under a key nobody else uses.
InsertState(c) ==
    /\ pc[c] = "insert_state"
    /\ \/ /\ life[key[c]] = "none"
          /\ life' = [life EXCEPT ![key[c]] = "CREATING"]
          /\ used' = [used EXCEPT ![key[c]] = now[c]]
          /\ orig' = [orig EXCEPT ![key[c]] = tup[c]]
          /\ Goto(c, "insert_index")
          /\ UNCHANGED faults
       \/ FailsIf(life[key[c]] # "none") /\ Goto(c, "release") /\ UNCHANGED stateMap
    /\ UNCHANGED <<index, entered, guard, outcome, slots, generation, time>>

\* One of the three index entries, BPF_NOEXIST.
InsertIndex(c) ==
    LET t == IndexTuples(tup[c])[at[c]] IN
    /\ pc[c] = "insert_index"
    /\ \/ /\ index[t] = NoEntry
          /\ index' = [index EXCEPT ![t] = key[c]]
          /\ NextIndex(c, "insert_index", "insert_inflight")
          /\ UNCHANGED faults
       \/ /\ FailsIf(index[t] # NoEntry)
          /\ pc' = [pc EXCEPT ![c] = "drop_check"]
          /\ at' = [at EXCEPT ![c] = 1]
          /\ UNCHANGED <<index, tup, key, lost, popped, held, seen, second, now>>
    /\ UNCHANGED <<stateMap, entered, guard, outcome, slots, generation, time>>

\* The in-flight elements an insertion may take: the map is preallocated, and an
\* element is free as soon as its key is removed, whoever holds a pointer to it.
FreeCells == {e \in Cells : \A k \in Generations : inflight[k] # e}

\* The generation's in-flight counter starts at zero.
InsertInflight(c) ==
    /\ pc[c] = "insert_inflight"
    /\ \/ /\ inflight[key[c]] = NoEntry
          /\ \E e \in FreeCells : /\ inflight' = [inflight EXCEPT ![key[c]] = e]
                                  /\ tally' = [tally EXCEPT ![e] = 0]
                                  /\ recycled' = (recycled \/ \E d \in CPUs : held[d] = e)
          /\ Goto(c, "publish")
          /\ UNCHANGED faults
       \/ /\ FailsIf(inflight[key[c]] # NoEntry \/ FreeCells = {})
          /\ Goto(c, "drop_check")
          /\ UNCHANGED entered
    /\ UNCHANGED <<index, stateMap, guard, outcome, slots, generation, time>>

\* BPF_EXIST: publication fails if the record is gone.
Publish(c) ==
    /\ pc[c] = "publish"
    /\ \/ /\ life[key[c]] # "none"
          /\ life' = [life EXCEPT ![key[c]] = "ACTIVE"]
          /\ used' = [used EXCEPT ![key[c]] = now[c]]
          /\ pc' = [pc EXCEPT ![c] = "lookup"]
          /\ tup' = [tup EXCEPT ![c] = NoEntry]
          /\ now' = [now EXCEPT ![c] = 0]
          /\ UNCHANGED <<orig, lost, faults>>
       \/ /\ FailsIf(life[key[c]] = "none")
          /\ pc' = [pc EXCEPT ![c] = "drop_check"]
          /\ lost' = [lost EXCEPT ![c] = TRUE]
          /\ UNCHANGED <<stateMap, tup, now>>
    /\ UNCHANGED <<index, entered, guard, outcome, slots, generation, time,
                   key, at, popped, held, seen, second>>

-----------------------------------------------------------------------------
\* delete_owned_index, first access: does the entry carry this generation?
DropCheck(c) ==
    LET t == IndexTuples(tup[c])[at[c]] IN
    /\ pc[c] = "drop_check"
    /\ \/ index[t] = key[c] /\ Goto(c, "drop_index")
       \/ index[t] # key[c] /\ NextIndex(c, "drop_check", "drop_inflight")
    /\ UNCHANGED maps

\* delete_owned_index, second access: whatever the entry holds now is deleted.
DropIndex(c) ==
    LET t == IndexTuples(tup[c])[at[c]] IN
    /\ pc[c] = "drop_index"
    /\ index' = [index EXCEPT ![t] = NoEntry]
    /\ NextIndex(c, "drop_check", "drop_inflight")
    /\ UNCHANGED <<stateMap, entered, guard, outcome, slots, generation, time, faults>>

DropInflight(c) ==
    /\ pc[c] = "drop_inflight"
    /\ inflight' = [inflight EXCEPT ![key[c]] = NoEntry]
    /\ Goto(c, "drop_state")
    /\ UNCHANGED <<index, stateMap, tally, recycled, guard, outcome, slots, generation,
                   time, faults>>

DropState(c) ==
    /\ pc[c] = "drop_state"
    /\ life' = [life EXCEPT ![key[c]] = "none"]
    /\ Goto(c, "release")
    /\ UNCHANGED <<index, used, orig, entered, guard, outcome, slots, generation,
                   time, faults>>

\* release_flow_slot ends the rollback.
ReleaseSlot(c) ==
    /\ pc[c] = "release"
    /\ ReleaseFlowSlot
    /\ EndRollback(c)
    /\ UNCHANGED <<index, stateMap, entered, guard, outcome, queue, journal, leftover,
                   generation, time>>

\* After a rollback the packet joins the flow that won, if there is one.
Relookup(c) ==
    /\ pc[c] = "relookup"
    /\ \/ index[tup[c]] = NoEntry /\ Return(c, "SHOT")
       \/ /\ index[tup[c]] # NoEntry
          /\ key' = [key EXCEPT ![c] = index[tup[c]]]
          /\ tup' = [tup EXCEPT ![c] = NoEntry]
          /\ now' = [now EXCEPT ![c] = 0]
          /\ pc' = [pc EXCEPT ![c] = "lookup"]
          /\ UNCHANGED <<at, lost, popped, held, seen, second>>
    /\ UNCHANGED maps
-----------------------------------------------------------------------------
\* A packet of a flow that is not ACTIVE passes without being rewritten.
LookupState(c) ==
    /\ pc[c] = "lookup"
    /\ \/ life[key[c]] = "ACTIVE" /\ Goto(c, "guard")
       \/ life[key[c]] # "ACTIVE" /\ Return(c, "OK")
    /\ UNCHANGED maps

\* deletion_guard_active looks up the guard first, ...
LookupGuard(c) ==
    /\ pc[c] = "guard"
    /\ seen' = [seen EXCEPT ![c] = guard[key[c]]]
    /\ pc' = [pc EXCEPT ![c] = "outcome"]
    /\ UNCHANGED <<maps, tup, key, at, lost, popped, held, second, now>>

\* ... then the outcome, which decides if there is one.
LookupOutcome(c) ==
    /\ pc[c] = "outcome"
    /\ \/ outcome[key[c]] = "COMMITTED" /\ Blocked(c)
       \/ outcome[key[c]] = "ABORTED" /\ Allowed(c)
       \/ outcome[key[c]] = "none" /\ seen[c] = NoEntry /\ Allowed(c)
       \/ outcome[key[c]] = "none" /\ seen[c] # NoEntry /\ Goto(c, "expiry")
    /\ UNCHANGED maps

\* The deadline is read through the guard pointer: if the guard was removed since
\* the lookup, its element holds the old deadline or that of the guard inserted
\* into it since.  An expired guard is answered with ABORTED, BPF_NOEXIST.
CheckExpiry(c) ==
    /\ pc[c] = "expiry"
    /\ \/ /\ age[seen[c]] = "before"
          /\ Blocked(c)
          /\ UNCHANGED <<outcome, faults>>
       \/ /\ age[seen[c]] # "before"
          /\ outcome[key[c]] = "none"
          /\ outcome' = [outcome EXCEPT ![key[c]] = "ABORTED"]
          /\ Goto(c, "unguard")
          /\ UNCHANGED faults
       \/ /\ age[seen[c]] # "before"
          /\ FailsIf(outcome[key[c]] # "none")
          /\ Goto(c, "recheck")
          /\ UNCHANGED outcome
    /\ UNCHANGED <<index, stateMap, entered, guard, slots, generation, time>>

\* The winner of the race removes the guard, by key.
RemoveGuard(c) ==
    /\ pc[c] = "unguard"
    /\ guard' = [guard EXCEPT ![key[c]] = NoEntry]
    /\ Allowed(c)
    /\ UNCHANGED <<index, stateMap, entered, outcome, slots, generation, time, faults>>

\* The loser looks who won.
RecheckOutcome(c) ==
    /\ pc[c] = "recheck"
    /\ \/ outcome[key[c]] = "COMMITTED" /\ Blocked(c)
       \/ outcome[key[c]] # "COMMITTED" /\ Allowed(c)
    /\ UNCHANGED maps

-----------------------------------------------------------------------------
LookupInflight(c) ==
    /\ pc[c] = "inflight"
    /\ \/ inflight[key[c]] = NoEntry /\ Return(c, "SHOT")
       \/ /\ inflight[key[c]] # NoEntry
          /\ held' = [held EXCEPT ![c] = inflight[key[c]]]
          /\ pc' = [pc EXCEPT ![c] = "enter"]
          /\ UNCHANGED <<tup, key, at, lost, popped, seen, second, now>>
    /\ UNCHANGED maps

\* The counter is incremented through the pointer, whatever the element is used
\* for by now.
EnterSection(c) ==
    /\ pc[c] = "enter"
    /\ tally' = [tally EXCEPT ![held[c]] = Plus1(@)]
    /\ second' = [second EXCEPT ![c] = TRUE]
    /\ pc' = [pc EXCEPT ![c] = "guard"]
    /\ UNCHANGED <<index, stateMap, inflight, recycled, guard, outcome, slots, generation,
                   time, faults, tup, key, at, lost, popped, held, seen, now>>

\* The state is looked up again after the second check.
ResolveState(c) ==
    /\ pc[c] = "resolve"
    /\ \/ /\ life[key[c]] = "ACTIVE"
          /\ pc' = [pc EXCEPT ![c] = "touch"]
          /\ now' = [now EXCEPT ![c] = clock]
          /\ UNCHANGED <<tup, key, at, lost, popped, held, seen, second>>
       \/ life[key[c]] # "ACTIVE" /\ Goto(c, "backout")
    /\ UNCHANGED maps

\* ... and decremented through it.
BackOut(c) ==
    /\ pc[c] = "backout"
    /\ tally' = [tally EXCEPT ![held[c]] = Minus1(@)]
    /\ Return(c, "SHOT")
    /\ UNCHANGED <<index, stateMap, inflight, recycled, guard, outcome, slots, generation,
                   time, faults>>

\* The record is updated in place and the packet rewritten from it.
TouchState(c) ==
    /\ pc[c] = "touch"
    /\ used' = [used EXCEPT ![key[c]] = now[c]]
    /\ Goto(c, "leave")
    /\ UNCHANGED <<index, life, orig, entered, guard, outcome, slots, generation,
                   time, faults>>

\* leave_flow_packet looks the counter up again.
LeaveSection(c) ==
    /\ pc[c] = "leave"
    /\ tally' = IF inflight[key[c]] = NoEntry
                THEN tally
                ELSE [tally EXCEPT ![inflight[key[c]]] = Minus1(@)]
    /\ Return(c, "OK")
    /\ UNCHANGED <<index, stateMap, inflight, recycled, guard, outcome, slots, generation,
                   time, faults>>

-----------------------------------------------------------------------------
\* A packet arrives on CPU c.
PacketArrives(c) ==
    \E t \in Tuples : PacketHit(c, t) \/ PacketMiss(c, t) \/ PacketCreate(c, t)

\* The packet on CPU c makes its next map access.
PacketStep(c) ==
    \/ PopRelease(c) \/ ClaimRelease(c) \/ CreditRelease(c) \/ ReserveSlot(c)
    \/ UndoReservation(c)
    \/ InsertState(c) \/ InsertIndex(c) \/ InsertInflight(c) \/ Publish(c)
    \/ DropCheck(c) \/ DropIndex(c) \/ DropInflight(c) \/ DropState(c)
    \/ ReleaseSlot(c) \/ Relookup(c)
    \/ LookupState(c) \/ LookupGuard(c) \/ LookupOutcome(c) \/ CheckExpiry(c)
    \/ RemoveGuard(c) \/ RecheckOutcome(c)
    \/ LookupInflight(c) \/ EnterSection(c) \/ ResolveState(c) \/ BackOut(c)
    \/ TouchState(c) \/ LeaveSection(c)
=============================================================================
