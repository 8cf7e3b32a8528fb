---------------------------- MODULE IndexProofs ----------------------------
\* IndexInv and ReleaseInv are inductive when no flow is deleted under its
\* creator: an index entry is inserted once, by the creator of its generation, and
\* removed only by that creator's rollback or by the deletion of that generation,
\* although both check the owner in one map access and delete the entry in
\* another; and the slot of a generation is released at most once.
EXTENDS FlowTableProofs

USE DEF stateMap, entered, slots, time, maps

\* The three index keys of an eligible tuple are tuples.
LEMMA ThreeTuples ==
  ASSUME NEW t \in Eligible, NEW i \in 1 .. 3
  PROVE  IndexTuples(t)[i] \in Tuples
<1>1. t \in Tuples /\ TargetOf[t] \in Tuples /\ ReverseOf[t] \in Tuples
  BY ZenonT(30), TupleAssumption
<1>2. i \in {1, 2, 3}
  OBVIOUS
<1> QED BY SMTT(30), <1>1, <1>2 DEF IndexTuples

----------------------------------------------------------------------------
\* Steps of packets that create nothing.

\* A packet that looks its flow up, checks the guard or is in the in-flight
\* section does not start to create one, and leaves the indexes, the records and
\* the slot accounting alone.
LEMMA PassiveStep ==
  ASSUME TableInv, NEW c \in CPUs, PacketStep(c), pc[c] \notin Creating
  PROVE  /\ pc'[c] \notin Creating
         /\ at'[c] \in {at[c], 1} /\ popped'[c] \in {popped[c], NoEntry}
         /\ UNCHANGED <<index, life, orig, count, queue, journal, gaveUp>>
<1>a. PacketTypeOK
  BY ZenonT(30) DEF TableInv, TypeOK
<1>b. pc'[c] \notin Creating /\ UNCHANGED <<index, life, orig>>
  BY ZenonT(30), PacketControl, PacketStepFrame DEF PacketMove, Creating, Inserting, RollingBack
<1> DEFINE Local == at'[c] \in {at[c], 1} /\ popped'[c] \in {popped[c], NoEntry}
           Slots == UNCHANGED <<count, queue, journal, gaveUp>>
<1> USE DEF PacketTypeOK
<1>c. ASSUME NEW l, Goto(c, l) PROVE Local
  BY ZenonT(30), <1>c DEF Goto
<1>d. ASSUME NEW v, Return(c, v) PROVE Local
  BY ZenonT(30), <1>d, <1>a DEF Return
<1>e. Allowed(c) => Local
  BY ZenonT(30) DEF Allowed
<1>f. Blocked(c) => Local
  BY ZenonT(30), <1>c, <1>d DEF Blocked
<1> SUFFICES Local /\ Slots
  BY ZenonT(30), <1>b
<1> HIDE DEF Local
<1>1. CASE Relookup(c)
  BY ZenonT(30), <1>1, <1>d DEF Relookup, Local
<1>2. CASE LookupState(c)
  BY ZenonT(30), <1>2, <1>c, <1>d DEF LookupState
<1>3. CASE LookupGuard(c)
  BY ZenonT(30), <1>3 DEF LookupGuard, Local
<1>4. CASE LookupOutcome(c)
  BY ZenonT(30), <1>4, <1>c, <1>e, <1>f DEF LookupOutcome
<1>5. CASE CheckExpiry(c)
  BY ZenonT(30), <1>5, <1>c, <1>f DEF CheckExpiry
<1>6. CASE RemoveGuard(c)
  BY ZenonT(30), <1>6, <1>e DEF RemoveGuard
<1>7. CASE RecheckOutcome(c)
  BY ZenonT(30), <1>7, <1>e, <1>f DEF RecheckOutcome
<1>8. CASE LookupInflight(c)
  BY ZenonT(30), <1>8, <1>d DEF LookupInflight, Local
<1>9. CASE EnterSection(c)
  BY ZenonT(30), <1>9 DEF EnterSection, Local
<1>10. CASE ResolveState(c)
  BY ZenonT(30), <1>10, <1>c DEF ResolveState, Local
<1>11. CASE BackOut(c)
  BY ZenonT(30), <1>11, <1>d DEF BackOut
<1>12. CASE TouchState(c)
  BY ZenonT(30), <1>12, <1>c DEF TouchState
<1>13. CASE LeaveSection(c)
  BY ZenonT(30), <1>13, <1>d DEF LeaveSection
<1>14. Relookup(c) \/ LookupState(c) \/ LookupGuard(c) \/ LookupOutcome(c) \/ CheckExpiry(c)
         \/ RemoveGuard(c) \/ RecheckOutcome(c) \/ LookupInflight(c) \/ EnterSection(c)
         \/ ResolveState(c) \/ BackOut(c) \/ TouchState(c) \/ LeaveSection(c)
  BY ZenonT(30) DEF PacketStep, Creating, Reserving, Inserting, RollingBack, PopRelease, ClaimRelease,
     CreditRelease, ReserveSlot, UndoReservation, InsertState, InsertIndex, InsertInflight,
     Publish, DropCheck, DropIndex, DropInflight, DropState, ReleaseSlot
<1> QED
  BY ZenonT(30), <1>1, <1>2, <1>3, <1>4, <1>5, <1>6, <1>7, <1>8, <1>9, <1>10, <1>11, <1>12, <1>13, <1>14

----------------------------------------------------------------------------
\* Steps of creators.

\* A creator works on a generation, and is not done with its packet.
LEMMA CreatorKey ==
  ASSUME TableInv, NEW c \in CPUs, pc[c] \in Creating
  PROVE  key[c] \in Generations /\ key[c] # NoEntry
<1>1. pc[c] \notin Verdicts
  BY ZenonT(30) DEF Creating, Reserving, Inserting, RollingBack, Verdicts
<1>2. key[c] \in Generations
  BY ZenonT(30), <1>1, KeyInUse
<1> QED BY <1>2, BoundAssumption DEF Generations, NoEntry

\* A step of process_packet changes an index entry only to insert the creator's
\* own generation into a free entry, or to delete its own entry.
LEMMA PacketIndex ==
  ASSUME TableInv, NEW c \in CPUs, CreatorIndexed(c), PacketStep(c), NEW t \in Tuples
  PROVE  \/ index'[t] = index[t]
         \/ /\ pc[c] = "insert_index" /\ index[t] = NoEntry /\ index'[t] = key[c]
            /\ \E i \in 1 .. 3 : t = IndexTuples(tup[c])[i]
         \/ pc[c] = "drop_index" /\ index[t] = key[c] /\ index'[t] = NoEntry
<1>a. index \in [Tuples -> Generations \cup {NoEntry}] /\ at[c] \in 1 .. 3
  BY ZenonT(30) DEF TableInv, TypeOK, MapsTypeOK, PacketTypeOK
<1>1. CASE pc[c] = "insert_index"
  <2>1. InsertIndex(c)
    BY ZenonT(30), <1>1, PacketStepAt
  <2>2. IndexTuples(tup[c])[at[c]] \in Tuples
    BY ZenonT(30), <1>1, CreatorTuples DEF Creating, Inserting
  <2>3. \/ index' = index
        \/ /\ index[IndexTuples(tup[c])[at[c]]] = NoEntry
           /\ index' = [index EXCEPT ![IndexTuples(tup[c])[at[c]]] = key[c]]
    BY ZenonT(30), <2>1 DEF InsertIndex
  <2> QED BY ZenonT(30), <1>1, <1>a, <2>2, <2>3
<1>2. CASE pc[c] = "drop_index"
  <2>1. DropIndex(c)
    BY ZenonT(30), <1>2, PacketStepAt
  <2>2. index[IndexTuples(tup[c])[at[c]]] = key[c]
    BY ZenonT(30), <1>2, <1>a DEF CreatorIndexed
  <2>3. index' = [index EXCEPT ![IndexTuples(tup[c])[at[c]]] = NoEntry]
    BY ZenonT(30), <2>1 DEF DropIndex
  <2> QED BY ZenonT(30), <1>2, <1>a, <2>2, <2>3
<1>3. CASE pc[c] \notin {"insert_index", "drop_index"}
  BY ZenonT(30), <1>3, PacketStepFrame
<1> QED BY ZenonT(30), <1>1, <1>2, <1>3

\* Another packet's step leaves a creator its record, its place in the loop over
\* the three tuples, and the entries it has inserted.
LEMMA OtherCreators ==
  ASSUME TableInv, NEW c \in CPUs, NEW d \in CPUs, d # c, CreatorIndexed(c), CreatorIndexed(d),
         PacketStep(c)
  PROVE  CreatorIndexed(d)'
<1>a. /\ pc'[d] = pc[d] /\ key'[d] = key[d] /\ tup'[d] = tup[d] /\ at'[d] = at[d]
  BY ZenonT(30), OtherCPUs DEF TableInv, TypeOK
<1>b. Inserted(d) => pc[d] \in Creating
  BY ZenonT(30) DEF Inserted, Creating, Inserting, RollingBack
<1>c. Inserted(d) => life'[key[d]] = life[key[d]] /\ orig'[key[d]] = orig[key[d]]
  BY ZenonT(30), <1>b, CreatorsOwn
<1>d. Inserted(d) => tup[d] \in Eligible /\ key[d] # NoEntry
  BY ZenonT(30), <1>b, CreatorTuples, CreatorKey
<1>1. ASSUME NEW i \in 1 .. 3, Inserted(d), index[IndexTuples(tup[d])[i]] = key[d]
      PROVE  index'[IndexTuples(tup[d])[i]] = key[d]
  <2>1. IndexTuples(tup[d])[i] \in Tuples
    BY ZenonT(30), <1>1, <1>d, ThreeTuples
  <2>2. pc[c] = "drop_index" => key[c] # key[d]
    BY ZenonT(30), <1>1, <1>b, Alone DEF Creating, RollingBack
  <2> QED BY ZenonT(30), <2>1, <2>2, <1>1, <1>d, PacketIndex
<1>2. Inserted(d)' <=> Inserted(d)
  BY ZenonT(30), <1>a DEF Inserted
<1>3. \A i \in 1 .. 3 : \/ pc[d] = "insert_index" /\ i < at[d]
                        \/ pc[d] \in {"insert_inflight", "publish"}
                        \/ pc[d] = "drop_index" /\ i = at[d]
                        => index'[IndexTuples(tup[d])[i]] = key[d]
  BY ZenonT(30), <1>1 DEF CreatorIndexed, Inserted
<1> QED BY ZenonT(30), <1>a, <1>c, <1>2, <1>3 DEF CreatorIndexed

\* The creator's own steps: it takes a slot and inserts the record, ...
LEMMA OwnReservation ==
  ASSUME TableInv, NEW c \in CPUs, CreatorIndexed(c), PacketStep(c),
         pc[c] \in Reserving \cup {"insert_state", "release"}
  PROVE  CreatorIndexed(c)'
<1>a. PacketTypeOK /\ MapsTypeOK /\ key[c] \in Generations
  BY ZenonT(30), CreatorKey DEF TableInv, TypeOK, Creating, Inserting, RollingBack
<1>b. at[c] = 1
  BY ZenonT(30) DEF CreatorIndexed, Reserving
<1> USE DEF PacketTypeOK
<1>1. CASE pc[c] = "pop"
  <2>1. PopRelease(c)
    BY ZenonT(30), <1>1, PacketStepAt
  <2>2. pc'[c] \in {"add", "claim"} /\ at'[c] = at[c]
    BY ZenonT(30), <2>1, <1>a DEF PopRelease, Goto
  <2> QED BY ZenonT(30), <2>2, <1>b DEF CreatorIndexed, Inserted
<1>2. CASE pc[c] = "claim"
  <2>1. ClaimRelease(c)
    BY ZenonT(30), <1>2, PacketStepAt
  <2>2. pc'[c] \in {"add", "credit"} /\ at'[c] = at[c]
    BY ZenonT(30), <2>1, <1>a DEF ClaimRelease
  <2> QED BY ZenonT(30), <2>2, <1>b DEF CreatorIndexed, Inserted
<1>3. CASE pc[c] = "credit"
  <2>1. CreditRelease(c)
    BY ZenonT(30), <1>3, PacketStepAt
  <2>2. pc'[c] = "add" /\ at'[c] = at[c]
    BY ZenonT(30), <2>1, <1>a DEF CreditRelease, Goto
  <2> QED BY ZenonT(30), <2>2, <1>b DEF CreatorIndexed, Inserted
<1>4. CASE pc[c] = "add"
  <2>1. ReserveSlot(c)
    BY ZenonT(30), <1>4, PacketStepAt
  <2>2. pc'[c] \in {"undo", "insert_state"} /\ at'[c] = at[c]
    BY ZenonT(30), <2>1, <1>a DEF ReserveSlot, Goto
  <2> QED BY ZenonT(30), <2>2, <1>b DEF CreatorIndexed, Inserted
<1>5. CASE pc[c] = "undo"
  <2>1. UndoReservation(c)
    BY ZenonT(30), <1>5, PacketStepAt
  <2>2. pc'[c] = "SHOT" /\ at'[c] = 1
    BY ZenonT(30), <2>1, <1>a DEF UndoReservation, Return
  <2> QED BY ZenonT(30), <2>2 DEF CreatorIndexed, Inserted
<1>6. CASE pc[c] = "insert_state"
  <2>1. InsertState(c)
    BY ZenonT(30), <1>6, PacketStepAt
  <2>2. /\ at'[c] = 1 /\ key'[c] = key[c] /\ tup'[c] = tup[c]
        /\ \/ pc'[c] = "release"
           \/ pc'[c] = "insert_index" /\ life'[key[c]] = "CREATING" /\ orig'[key[c]] = tup[c]
    BY <2>1, <1>a, <1>b DEF InsertState, Goto, MapsTypeOK
  <2> QED BY <2>2 DEF CreatorIndexed, Inserted
<1>7. CASE pc[c] = "release"
  <2>1. ReleaseSlot(c)
    BY ZenonT(30), <1>7, PacketStepAt
  <2>2. pc'[c] \in {"SHOT", "relookup"} /\ at'[c] = 1
    BY ZenonT(30), <2>1, <1>a, <1>b DEF ReleaseSlot, EndRollback, Return, Goto
  <2> QED BY ZenonT(30), <2>2 DEF CreatorIndexed, Inserted
<1> QED BY ZenonT(30), <1>1, <1>2, <1>3, <1>4, <1>5, <1>6, <1>7 DEF Reserving

\* ... inserts the three index entries in turn and the counter, and publishes
\* the flow, ...
LEMMA OwnInsertion ==
  ASSUME TableInv, NEW c \in CPUs, CreatorIndexed(c), PacketStep(c),
         pc[c] \in {"insert_index", "insert_inflight", "publish"}
  PROVE  CreatorIndexed(c)'
<1>a. PacketTypeOK /\ MapsTypeOK /\ key[c] \in Generations
  BY ZenonT(30), CreatorKey DEF TableInv, TypeOK, Creating, Inserting
<1>b. life[key[c]] = "CREATING" /\ orig[key[c]] = tup[c]
  BY ZenonT(30) DEF CreatorIndexed, Inserted
<1>c. \A i \in 1 .. 3 : IndexTuples(tup[c])[i] \in Tuples
  BY ZenonT(30), CreatorTuples, ThreeTuples DEF Creating, Inserting
<1>d. at[c] \in 1 .. 3 /\ pc \in [CPUs -> PacketPCs] /\ at \in [CPUs -> 1 .. 3]
  BY ZenonT(30), <1>a DEF PacketTypeOK
<1>1. CASE pc[c] = "insert_index"
  <2>1. InsertIndex(c)
    BY ZenonT(30), <1>1, PacketStepAt
  <2>2. UNCHANGED <<life, orig, key, tup>>
    BY ZenonT(30), <2>1 DEF InsertIndex, NextIndex
  <2>3. CASE pc'[c] = "drop_check"
    BY ZenonT(30), <2>3, <2>2, <1>b DEF CreatorIndexed, Inserted
  <2>4. CASE pc'[c] # "drop_check"
    <3>1. /\ index' = [index EXCEPT ![IndexTuples(tup[c])[at[c]]] = key[c]]
          /\ at[c] = 3 => pc'[c] = "insert_inflight" /\ at'[c] = 1
          /\ at[c] # 3 => pc'[c] = "insert_index" /\ at'[c] = at[c] + 1
      BY ZenonT(30), <2>1, <2>4, <1>d DEF InsertIndex, NextIndex
    <3>2. ASSUME NEW i \in 1 .. 3, i < at[c] \/ i = at[c]
          PROVE  index'[IndexTuples(tup[c])[i]] = key[c]
      <4>1. i < at[c] => index[IndexTuples(tup[c])[i]] = key[c]
        BY ZenonT(30), <1>1 DEF CreatorIndexed
      <4>2. index \in [Tuples -> Generations \cup {NoEntry}]
        BY ZenonT(30), <1>a DEF MapsTypeOK
      <4> QED BY ZenonT(30), <4>1, <4>2, <3>1, <3>2, <1>c
    <3>3. CASE at[c] = 3
      <4>1. \A i \in 1 .. 3 : index'[IndexTuples(tup[c])[i]] = key[c]
        BY <3>2, <3>3
      <4> QED BY ZenonT(30), <4>1, <3>1, <3>3, <2>2, <1>b DEF CreatorIndexed, Inserted
    <3>4. CASE at[c] # 3
      <4>1. \A i \in 1 .. 3 : i < at'[c] => index'[IndexTuples(tup[c])[i]] = key[c]
        BY <3>1, <3>2, <3>4, <1>d
      <4> QED BY ZenonT(30), <4>1, <3>1, <3>4, <2>2, <1>b DEF CreatorIndexed, Inserted
    <3> QED BY ZenonT(30), <3>3, <3>4
  <2> QED BY ZenonT(30), <2>3, <2>4
<1>2. CASE pc[c] = "insert_inflight"
  <2>1. InsertInflight(c)
    BY ZenonT(30), <1>2, PacketStepAt
  <2>2. UNCHANGED <<index, life, orig, key, tup, at>> /\ pc'[c] \in {"publish", "drop_check"}
    BY ZenonT(30), <2>1, <1>d DEF InsertInflight, Goto
  <2> QED BY ZenonT(30), <2>2, <1>2, <1>b DEF CreatorIndexed, Inserted
<1>3. CASE pc[c] = "publish"
  <2>1. Publish(c)
    BY ZenonT(30), <1>3, PacketStepAt
  <2>2. /\ at' = at
        /\ \/ pc'[c] = "lookup"
           \/ pc'[c] = "drop_check" /\ UNCHANGED <<life, orig, key, tup>>
    BY ZenonT(30), <2>1, <1>d DEF Publish
  <2> QED BY ZenonT(30), <2>2, <1>3, <1>b DEF CreatorIndexed, Inserted
<1> QED BY ZenonT(30), <1>1, <1>2, <1>3

\* ... or takes back what it has inserted, deleting only what it finds its own.
LEMMA OwnRollback ==
  ASSUME TableInv, NEW c \in CPUs, CreatorIndexed(c), PacketStep(c),
         pc[c] \in {"drop_check", "drop_index", "drop_inflight", "drop_state"}
  PROVE  CreatorIndexed(c)'
<1>a. PacketTypeOK
  BY ZenonT(30) DEF TableInv, TypeOK
<1>b. life[key[c]] = "CREATING" /\ orig[key[c]] = tup[c]
  BY ZenonT(30) DEF CreatorIndexed, Inserted
<1>d. at[c] \in 1 .. 3 /\ pc \in [CPUs -> PacketPCs] /\ at \in [CPUs -> 1 .. 3]
  BY ZenonT(30), <1>a DEF PacketTypeOK
<1>1. CASE pc[c] = "drop_check"
  <2>1. DropCheck(c)
    BY ZenonT(30), <1>1, PacketStepAt
  <2>2. UNCHANGED <<index, life, orig, key, tup>>
    BY ZenonT(30), <2>1 DEF DropCheck, NextIndex, Goto
  <2>3. \/ /\ pc'[c] = "drop_index" /\ at'[c] = at[c]
           /\ index[IndexTuples(tup[c])[at[c]]] = key[c]
        \/ pc'[c] = "drop_check"
        \/ pc'[c] = "drop_inflight" /\ at'[c] = 1
    BY ZenonT(30), <2>1, <1>d DEF DropCheck, NextIndex, Goto
  <2> QED BY ZenonT(30), <2>2, <2>3, <1>b DEF CreatorIndexed, Inserted
<1>2. CASE pc[c] = "drop_index"
  <2>1. DropIndex(c)
    BY ZenonT(30), <1>2, PacketStepAt
  <2>2. UNCHANGED <<life, orig, key, tup>>
    BY ZenonT(30), <2>1 DEF DropIndex, NextIndex
  <2>3. pc'[c] = "drop_check" \/ (pc'[c] = "drop_inflight" /\ at'[c] = 1)
    BY ZenonT(30), <2>1, <1>d DEF DropIndex, NextIndex
  <2> QED BY ZenonT(30), <2>2, <2>3, <1>b DEF CreatorIndexed, Inserted
<1>3. CASE pc[c] = "drop_inflight"
  <2>1. DropInflight(c)
    BY ZenonT(30), <1>3, PacketStepAt
  <2>2. UNCHANGED <<life, orig, key, tup, at>> /\ pc'[c] = "drop_state"
    BY ZenonT(30), <2>1, <1>d DEF DropInflight, Goto
  <2> QED BY ZenonT(30), <2>2, <1>3, <1>b DEF CreatorIndexed, Inserted
<1>4. CASE pc[c] = "drop_state"
  <2>1. DropState(c)
    BY ZenonT(30), <1>4, PacketStepAt
  <2>2. at' = at /\ pc'[c] = "release"
    BY ZenonT(30), <2>1, <1>d DEF DropState, Goto
  <2> QED BY ZenonT(30), <2>2, <1>4 DEF CreatorIndexed, Inserted
<1> QED BY ZenonT(30), <1>1, <1>2, <1>3, <1>4

\* Every step of process_packet keeps what each creator knows of its indexes.
LEMMA CreatorsIndexed ==
  ASSUME TableInv, \A d \in CPUs : CreatorIndexed(d), NEW c \in CPUs, PacketStep(c)
  PROVE  \A d \in CPUs : CreatorIndexed(d)'
<1>1. CreatorIndexed(c)'
  <2>1. CASE pc[c] \notin Creating
    <3>1. pc[c] \notin {"insert_index", "drop_check", "drop_index"}
      BY ZenonT(30), <2>1 DEF Creating, Inserting, RollingBack
    <3>2. at[c] = 1
      BY ZenonT(30), <3>1 DEF CreatorIndexed
    <3>3. pc'[c] \notin Creating /\ at'[c] = 1
      BY ZenonT(30), <2>1, <3>2, PassiveStep
    <3> QED BY ZenonT(30), <3>3 DEF CreatorIndexed, Inserted, Creating, Inserting, RollingBack
  <2>2. CASE pc[c] \in Creating
    BY ZenonT(30), <2>2, OwnReservation, OwnInsertion, OwnRollback DEF Creating, Inserting, RollingBack
  <2> QED BY ZenonT(30), <2>1, <2>2
<1> QED BY ZenonT(30), <1>1, OtherCreators

\* delete_flow's generation keeps having no creator.
LEMMA PacketQuiet ==
  ASSUME TableInv, Quiet, NEW c \in CPUs, PacketStep(c), UNCHANGED hostVars
  PROVE  Quiet'
<1>1. ASSUME NEW d \in CPUs, pc'[d] \in Creating
      PROVE  pc[d] \in Creating /\ key'[d] = key[d]
  BY ZenonT(30), <1>1, PacketControl, OtherCPUs DEF PacketMove, TableInv, TypeOK
<1> QED BY ZenonT(30), <1>1 DEF Quiet, BeingCreated, hostVars

\* A record keeps the original tuple it was inserted with.
LEMMA OrigStays ==
  ASSUME TableInv, NEW c \in CPUs, PacketStep(c), NEW k \in Generations, orig[k] # NoEntry
  PROVE  orig'[k] = orig[k]
<1>1. CASE pc[c] = "insert_state"
  <2>1. InsertState(c)
    BY ZenonT(30), <1>1, PacketStepAt
  <2>2. orig[key[c]] = NoEntry
    BY ZenonT(30), <1>1 DEF TableInv, CreatorAlone, Creating, Inserting
  <2>3. orig' = orig \/ orig' = [orig EXCEPT ![key[c]] = tup[c]]
    BY ZenonT(30), <2>1 DEF InsertState
  <2>4. orig \in [Generations -> Eligible \cup {NoEntry}]
    BY ZenonT(30) DEF TableInv, TypeOK, MapsTypeOK
  <2> QED BY ZenonT(30), <2>2, <2>3, <2>4
<1>2. CASE pc[c] # "insert_state"
  BY ZenonT(30), <1>2, PacketStepFrame
<1> QED BY ZenonT(30), <1>1, <1>2

\* A record becomes ACTIVE only by its creator's Publish.
LEMMA ActiveOnlyPublished ==
  ASSUME TableInv, NEW c \in CPUs, PacketStep(c), NEW k \in Generations, life'[k] = "ACTIVE",
         ~(pc[c] = "publish" /\ k = key[c])
  PROVE  life[k] = "ACTIVE"
<1>a. life \in [Generations -> {"none", "CREATING", "ACTIVE"}]
  BY ZenonT(30) DEF TableInv, TypeOK, MapsTypeOK
<1>1. CASE pc[c] = "insert_state"
  <2>1. InsertState(c)
    BY ZenonT(30), <1>1, PacketStepAt
  <2> QED BY ZenonT(30), <2>1, <1>a DEF InsertState
<1>2. CASE pc[c] = "publish"
  <2>1. Publish(c)
    BY ZenonT(30), <1>2, PacketStepAt
  <2> QED BY ZenonT(30), <2>1, <1>2, <1>a DEF Publish
<1>3. CASE pc[c] = "drop_state"
  <2>1. DropState(c)
    BY ZenonT(30), <1>3, PacketStepAt
  <2> QED BY ZenonT(30), <2>1, <1>a DEF DropState
<1>4. CASE pc[c] \notin {"insert_state", "publish", "drop_state"}
  BY ZenonT(30), <1>4, PacketStepFrame
<1> QED BY ZenonT(30), <1>1, <1>2, <1>3, <1>4

\* Every step of process_packet keeps IndexInv.
LEMMA PacketIndexInv ==
  ASSUME TableInv, IndexInv, NEW c \in CPUs, PacketStep(c), UNCHANGED hostVars
  PROVE  IndexInv'
<1>a. /\ MapsTypeOK /\ Quiet /\ \A d \in CPUs : CreatorIndexed(d)
      /\ IndexedByOwner /\ ActiveOwnsIndexes
  BY ZenonT(30) DEF TableInv, TypeOK, IndexInv
<1>b. CreatorIndexed(c)
  BY ZenonT(30), <1>a
<1>c. pc[c] \in Creating => key[c] \in Generations /\ key[c] # NoEntry /\ tup[c] \in Eligible
  BY ZenonT(30), CreatorKey, CreatorTuples
<1>d. pc[c] = "insert_index" => orig[key[c]] = tup[c] /\ pc[c] \in Creating
  BY ZenonT(30), <1>b DEF CreatorIndexed, Inserted, Creating, Inserting
<1>e. pc[c] = "drop_index" => life[key[c]] = "CREATING" /\ pc[c] \in Creating
  BY ZenonT(30), <1>b DEF CreatorIndexed, Inserted, Creating, RollingBack
<1>1. \A d \in CPUs : CreatorIndexed(d)'
  BY ZenonT(30), <1>a, CreatorsIndexed
<1>2. Quiet'
  BY ZenonT(30), <1>a, PacketQuiet
<1>3. ASSUME NEW t \in Tuples, index'[t] # NoEntry
      PROVE  /\ orig'[index'[t]] # NoEntry
             /\ \E i \in 1 .. 3 : t = IndexTuples(orig'[index'[t]])[i]
  <2>1. index'[t] \in Generations
    BY ZenonT(30), <1>3, PacketStepTypes DEF MapsTypeOK
  <2>2. CASE index'[t] = index[t]
    <3>1. /\ orig[index[t]] # NoEntry
          /\ \E i \in 1 .. 3 : t = IndexTuples(orig[index[t]])[i]
      BY ZenonT(30), <2>2, <1>3, <1>a DEF IndexedByOwner
    <3> QED BY ZenonT(30), <3>1, <2>1, <2>2, OrigStays
  <2>3. CASE index'[t] # index[t]
    <3>1. /\ pc[c] = "insert_index" /\ index'[t] = key[c]
          /\ \E i \in 1 .. 3 : t = IndexTuples(tup[c])[i]
      BY ZenonT(30), <2>3, <1>3, <1>b, PacketIndex
    <3>2. tup[c] \in Eligible /\ NoEntry \notin Eligible
      BY ZenonT(30), <3>1, <1>c, <1>d, TupleAssumption
    <3>3. orig'[key[c]] = tup[c]
      BY ZenonT(30), <3>1, <3>2, <1>c, <1>d, OrigStays
    <3> QED BY ZenonT(30), <3>1, <3>2, <3>3
  <2> QED BY ZenonT(30), <2>2, <2>3
<1>4. ASSUME NEW k \in Generations, life'[k] = "ACTIVE", NEW i \in 1 .. 3
      PROVE  index'[IndexTuples(orig'[k])[i]] = k
  <2>1. CASE pc[c] = "publish" /\ k = key[c]
    <3>1. index' = index /\ orig'[k] = tup[c]
      <4>1. orig[k] = tup[c] /\ tup[c] \in Eligible
        BY ZenonT(30), <2>1, <1>b, <1>c DEF CreatorIndexed, Inserted, Creating, Inserting
      <4>2. index' = index /\ orig' = orig
        BY ZenonT(30), <2>1, PacketStepFrame
      <4> QED BY ZenonT(30), <4>1, <4>2
    <3>2. index[IndexTuples(tup[c])[i]] = key[c]
      BY ZenonT(30), <2>1, <1>b DEF CreatorIndexed
    <3> QED BY ZenonT(30), <3>1, <3>2, <2>1
  <2>2. CASE ~(pc[c] = "publish" /\ k = key[c])
    <3>1. life[k] = "ACTIVE"
      BY ZenonT(30), <2>2, <1>4, ActiveOnlyPublished
    <3>2. orig[k] # NoEntry /\ index[IndexTuples(orig[k])[i]] = k
      BY ZenonT(30), <3>1, <1>a DEF ActiveOwnsIndexes, TableInv, RecordsComplete
    <3>3. orig'[k] = orig[k]
      BY ZenonT(30), <3>2, OrigStays
    <3>4. IndexTuples(orig[k])[i] \in Tuples
      <4>1. orig[k] \in Eligible
        BY ZenonT(30), <3>2, <1>a DEF MapsTypeOK
      <4> QED BY ZenonT(30), <4>1, ThreeTuples
    <3>5. k # NoEntry
      BY DEF Generations, NoEntry
    <3>6. pc[c] = "drop_index" => key[c] # k
      BY ZenonT(30), <3>1, <1>e
    <3> QED BY ZenonT(30), <3>2, <3>3, <3>4, <3>5, <3>6, <1>b, PacketIndex
  <2> QED BY ZenonT(30), <2>1, <2>2
<1>5. ASSUME hpc = "remove_index"
      PROVE  index'[htup] = hkey
  <2>1. htup \in Tuples /\ hkey \in Generations /\ index[htup] = hkey
    BY ZenonT(30), <1>5 DEF IndexInv, TableInv, HostKnows, TypeOK, HostTypeOK
  <2>2. hkey # NoEntry
    BY <2>1 DEF Generations, NoEntry
  <2>3. pc[c] = "drop_index" => key[c] # hkey
    BY ZenonT(30), <1>5, <1>a, <1>e DEF Quiet, BeingCreated
  <2> QED BY ZenonT(30), <2>1, <2>2, <2>3, <1>b, PacketIndex
<1>6. IndexedByOwner' /\ ActiveOwnsIndexes'
  BY ZenonT(30), <1>3, <1>4 DEF IndexedByOwner, ActiveOwnsIndexes
<1> QED BY ZenonT(30), <1>1, <1>2, <1>5, <1>6 DEF IndexInv, hostVars

----------------------------------------------------------------------------
\* Arrivals, the deletion and time.

\* An arriving packet changes no index and no record; a new creator is at the
\* start of its work.
LEMMA ArrivalFrame ==
  ASSUME TableInv, NEW c \in CPUs, PacketArrives(c)
  PROVE  /\ UNCHANGED <<index, life, orig, inflight, guard, slots>>
         /\ pc[c] \in Verdicts /\ pc'[c] \in {"OK", "lookup", "pop"}
         /\ at'[c] \in {at[c], 1} /\ popped'[c] \in {popped[c], NoEntry}
         /\ pc'[c] = "pop" => key'[c] = generation + 1
<1>a. PacketTypeOK
  BY ZenonT(30) DEF TableInv, TypeOK
<1> QED BY <1>a DEF PacketArrives, PacketHit, PacketMiss, PacketCreate, Return, PacketTypeOK

\* A generation that has had a record is not created again by an arriving
\* packet.
LEMMA ArrivalCreates ==
  ASSUME TableInv, NEW c \in CPUs, PacketArrives(c), NEW k \in Generations, orig[k] # NoEntry,
         ~BeingCreated(k)
  PROVE  ~BeingCreated(k)'
<1>1. k <= generation /\ generation \in Nat
  BY BoundAssumption DEF TableInv, AllocatedKeys, TypeOK, MapsTypeOK, Generations
<1>2. \A d \in CPUs \ {c} : pc'[d] = pc[d] /\ key'[d] = key[d]
  BY ZenonT(30), OtherCPUs DEF TableInv, TypeOK
<1>3. pc'[c] \in Creating => key'[c] = generation + 1
  BY ZenonT(30), ArrivalFrame DEF Creating, Reserving, Inserting, RollingBack
<1>4. generation + 1 # k
  BY <1>1 DEF Generations
<1> QED BY ZenonT(30), <1>2, <1>3, <1>4 DEF BeingCreated

\* The arrival of a packet keeps IndexInv.
LEMMA ArrivalIndexInv ==
  ASSUME TableInv, IndexInv, NEW c \in CPUs, PacketArrives(c), UNCHANGED hostVars
  PROVE  IndexInv'
<1>1. UNCHANGED <<index, life, orig, hpc, hkey, htup>>
  BY ZenonT(30), ArrivalFrame DEF hostVars
<1>2. Quiet'
  <2>1. hpc # "idle" => hkey \in Generations /\ orig[hkey] # NoEntry /\ ~BeingCreated(hkey)
    BY ZenonT(30) DEF IndexInv, Quiet, TableInv, HostKnows
  <2>2. hpc # "idle" => ~BeingCreated(hkey)'
    BY ZenonT(30), <2>1, <1>1, ArrivalCreates DEF BeingCreated
  <2> QED BY ZenonT(30), <2>2, <1>1 DEF Quiet
<1>3. ASSUME NEW d \in CPUs
      PROVE  CreatorIndexed(d)'
  <2>1. CASE d = c
    <3>1. at[c] = 1
      BY ZenonT(30), ArrivalFrame DEF IndexInv, CreatorIndexed, Verdicts
    <3>2. at'[c] = 1 /\ pc'[c] \in {"OK", "lookup", "pop"}
      BY ZenonT(30), <3>1, ArrivalFrame
    <3> QED BY ZenonT(30), <3>2, <2>1 DEF CreatorIndexed, Inserted
  <2>2. CASE d # c
    <3>1. pc'[d] = pc[d] /\ key'[d] = key[d] /\ tup'[d] = tup[d] /\ at'[d] = at[d]
      BY ZenonT(30), <2>2, OtherCPUs DEF TableInv, TypeOK
    <3>2. CreatorIndexed(d)
      BY ZenonT(30) DEF IndexInv
    <3> QED BY ZenonT(30), <3>1, <3>2, <1>1 DEF CreatorIndexed, Inserted
  <2> QED BY ZenonT(30), <2>1, <2>2
<1>4. IndexedByOwner' /\ ActiveOwnsIndexes'
  BY <1>1 DEF IndexInv, IndexedByOwner, ActiveOwnsIndexes
<1> QED BY ZenonT(30), <1>1, <1>2, <1>3, <1>4 DEF IndexInv

\* delete_flow is called for a generation without a creator.
LEMMA CallIndexInv ==
  ASSUME ~EarlyDelete, TableInv, IndexInv, NEW k \in Generations, NEW observed \in Observations,
         CallDeleteFlow(k, observed), UNCHANGED cpuVars
  PROVE  IndexInv'
<1>1. /\ UNCHANGED <<index, life, orig, pc, key, tup, at>>
      /\ hpc' = "find_state" /\ hkey' = k /\ ~BeingCreated(k)
  BY ZenonT(30) DEF CallDeleteFlow, DeleteFlow, cpuVars
<1>2. Quiet'
  BY ZenonT(30), <1>1 DEF Quiet, BeingCreated
<1>3. \A d \in CPUs : CreatorIndexed(d)'
  BY ZenonT(30), <1>1 DEF IndexInv, CreatorIndexed, Inserted
<1>4. IndexedByOwner' /\ ActiveOwnsIndexes'
  BY <1>1 DEF IndexInv, IndexedByOwner, ActiveOwnsIndexes
<1> QED BY ZenonT(30), <1>1, <1>2, <1>3, <1>4 DEF IndexInv

\* delete_flow removes an index entry only after it has confirmed the owner, and
\* a call stays on its generation until it returns.
LEMMA HostIndexStep ==
  ASSUME HostStep
  PROVE  /\ hpc' = "remove_index" =>
              hpc = "check_index" /\ index' = index /\ index[htup'] = hkey'
         /\ hpc' # "idle" => hkey' = hkey
<1>a. ASSUME NEW l, HostGoto(l) PROVE hpc' = l /\ hkey' = hkey
  BY ZenonT(30), <1>a DEF HostGoto
<1>b. ASSUME NEW l, NEW flags, HostNote(l, flags) PROVE hpc' = l /\ hkey' = hkey
  BY ZenonT(30), <1>b DEF HostNote
<1>c. ASSUME NEW flags, HostReturn(flags) PROVE hpc' = "idle"
  BY ZenonT(30), <1>c DEF HostReturn
<1>d. ASSUME NEW flags, EndCleanup(flags)
      PROVE  hpc' = "idle" \/ (hpc' = "clear_guard" /\ hkey' = hkey)
  BY ZenonT(30), <1>b, <1>c, <1>d DEF EndCleanup
<1>1. CASE FindState \/ AbsentGuard \/ AbsentOutcome \/ ScanStale \/ ScanOwned
  BY <1>1, <1>a DEF FindState, AbsentGuard, AbsentOutcome, ScanStale, ScanOwned
<1>2. CASE ReadGuard \/ RemoveOldGuard \/ RemoveOldOutcome \/ InsertGuard
  BY SMTT(30), <1>2, <1>a, <1>c DEF ReadGuard, RemoveOldGuard, RemoveOldOutcome, InsertGuard
<1>3. CASE Drain \/ ReadState \/ Commit \/ Redrain
  BY SMTT(30), <1>3, <1>a, <1>b DEF Drain, ReadState, Commit, Redrain
<1>4. CASE Reread \/ JournalRelease \/ RemoveState \/ Unjournal
  BY <1>4, <1>a, <1>b DEF Reread, JournalRelease, RemoveState, Unjournal
<1>5. CASE CheckIndex
  BY <1>5, <1>a DEF CheckIndex
<1>6. CASE RemoveIndex \/ RemoveInflight
  BY <1>6, <1>a, <1>b DEF RemoveIndex, RemoveInflight
<1>7. CASE ReadJournal \/ PushRelease \/ ReadFails
  BY <1>7, <1>a, <1>c, <1>d DEF ReadJournal, PushRelease, ReadFails
<1>8. CASE ClearGuard \/ ClearOutcome
  BY <1>8, <1>a, <1>b, <1>c DEF ClearGuard, ClearOutcome
<1> QED BY ZenonT(30), <1>1, <1>2, <1>3, <1>4, <1>5, <1>6, <1>7, <1>8 DEF HostStep

\* Every step of delete_flow keeps IndexInv: the entry it deletes carries its
\* own generation, of which no record is left.
LEMMA HostIndexInv ==
  ASSUME TableInv, IndexInv, HostStep, UNCHANGED cpuVars
  PROVE  IndexInv'
<1>a. MapsTypeOK /\ Quiet /\ IndexedByOwner /\ ActiveOwnsIndexes
  BY ZenonT(30) DEF TableInv, TypeOK, IndexInv
<1>b. UNCHANGED <<orig, pc, key, tup, at>> /\ hpc # "idle"
  BY ZenonT(30), HostStepFrame DEF cpuVars
<1>c. hkey \in Generations /\ ~BeingCreated(hkey)
  BY ZenonT(30), <1>a, <1>b DEF Quiet, TableInv, HostKnows
<1>1. \A k \in Generations : life'[k] = life[k] \/ (k = hkey /\ life'[k] = "none")
  BY ZenonT(30), <1>a, <1>c, HostStepFrame DEF MapsTypeOK
<1>2. \A t \in Tuples : \/ index'[t] = index[t]
                        \/ hpc = "remove_index" /\ index[t] = hkey /\ index'[t] = NoEntry
  <2>1. hpc = "remove_index" => htup \in Tuples /\ index[htup] = hkey
    BY ZenonT(30) DEF IndexInv, TableInv, HostKnows, TypeOK, HostTypeOK
  <2> QED BY ZenonT(30), <2>1, <1>a, HostStepFrame DEF MapsTypeOK
<1>3. Quiet'
  BY ZenonT(30), <1>b, <1>c, HostIndexStep DEF Quiet, BeingCreated
<1>4. ASSUME NEW d \in CPUs
      PROVE  CreatorIndexed(d)'
  <2>1. CreatorIndexed(d)
    BY ZenonT(30) DEF IndexInv
  <2>2. Inserted(d) => /\ pc[d] \in Creating /\ key[d] # hkey
                       /\ key[d] \in Generations /\ tup[d] \in Eligible
    <3>1. Inserted(d) => pc[d] \in Creating
      BY ZenonT(30) DEF Inserted, Creating, Inserting, RollingBack
    <3> QED BY ZenonT(30), <3>1, <1>c, CreatorKey, CreatorTuples DEF BeingCreated
  <2>3. Inserted(d) => life'[key[d]] = life[key[d]]
    BY ZenonT(30), <2>2, <1>1
  <2>4. ASSUME NEW i \in 1 .. 3, Inserted(d), index[IndexTuples(tup[d])[i]] = key[d]
        PROVE  index'[IndexTuples(tup[d])[i]] = key[d]
    <3>1. IndexTuples(tup[d])[i] \in Tuples
      BY ZenonT(30), <2>2, <2>4, ThreeTuples
    <3> QED BY ZenonT(30), <3>1, <2>2, <2>4, <1>2
  <2>5. \A i \in 1 .. 3 : \/ pc[d] = "insert_index" /\ i < at[d]
                          \/ pc[d] \in {"insert_inflight", "publish"}
                          \/ pc[d] = "drop_index" /\ i = at[d]
                          => index'[IndexTuples(tup[d])[i]] = key[d]
    BY ZenonT(30), <2>1, <2>4 DEF CreatorIndexed, Inserted
  <2> QED BY ZenonT(30), <2>1, <2>3, <2>5, <1>b DEF CreatorIndexed, Inserted
<1>5. IndexedByOwner'
  BY <1>a, <1>b, <1>2 DEF IndexedByOwner
<1>6. ASSUME NEW k \in Generations, life'[k] = "ACTIVE", NEW i \in 1 .. 3
      PROVE  index'[IndexTuples(orig[k])[i]] = k
  <2>1. life[k] = "ACTIVE"
    BY ZenonT(30), <1>1, <1>6
  <2>2. index[IndexTuples(orig[k])[i]] = k /\ orig[k] \in Eligible
    BY <2>1, <1>a DEF ActiveOwnsIndexes, MapsTypeOK, TableInv, RecordsComplete
  <2>3. hpc = "remove_index" => hkey # k
    BY ZenonT(30), <2>1 DEF TableInv, HostKnows
  <2>4. IndexTuples(orig[k])[i] \in Tuples
    BY ZenonT(30), <2>2, ThreeTuples
  <2> QED BY ZenonT(30), <2>2, <2>3, <2>4, <1>2
<1>7. ActiveOwnsIndexes'
  BY ZenonT(30), <1>6, <1>b DEF ActiveOwnsIndexes
<1>8. hpc' = "remove_index" => index'[htup'] = hkey'
  BY ZenonT(30), HostIndexStep
<1> QED BY ZenonT(30), <1>3, <1>4, <1>5, <1>7, <1>8 DEF IndexInv

\* The clock has no part in it.
LEMMA TimeIndexInv ==
  ASSUME IndexInv, UNCHANGED <<index, life, orig, pc, key, tup, at, hpc, hkey, htup>>
  PROVE  IndexInv'
<1>1. Quiet'
  BY ZenonT(30) DEF IndexInv, Quiet, BeingCreated
<1>2. \A d \in CPUs : CreatorIndexed(d)'
  BY ZenonT(30) DEF IndexInv, CreatorIndexed, Inserted
<1>3. IndexedByOwner' /\ ActiveOwnsIndexes'
  BY DEF IndexInv, IndexedByOwner, ActiveOwnsIndexes
<1> QED BY ZenonT(30), <1>1, <1>2, <1>3 DEF IndexInv

----------------------------------------------------------------------------
\* The invariant.

\* The empty table satisfies IndexInv.
LEMMA IndexInit == Init => IndexInv
<1> SUFFICES ASSUME Init PROVE IndexInv
  OBVIOUS
<1> USE DEF Init, MapsInit, PacketInit, HostInit
<1>1. Quiet
  BY ZenonT(30) DEF Quiet
<1>2. \A d \in CPUs : CreatorIndexed(d)
  BY ZenonT(30) DEF CreatorIndexed, Inserted
<1>3. IndexedByOwner
  BY ZenonT(30) DEF IndexedByOwner
<1>4. ActiveOwnsIndexes
  BY ZenonT(30) DEF ActiveOwnsIndexes
<1> QED BY ZenonT(30), <1>1, <1>2, <1>3, <1>4 DEF IndexInv

\* IndexInv is inductive relative to TableInv.
LEMMA IndexStep ==
  ASSUME ~EarlyDelete, TableInv, IndexInv, [Next]_vars
  PROVE  IndexInv'
<1>1. ASSUME NEW c \in CPUs, PacketArrives(c) \/ PacketStep(c), UNCHANGED hostVars
      PROVE  IndexInv'
  BY ZenonT(30), <1>1, ArrivalIndexInv, PacketIndexInv
<1>2. ASSUME NEW k \in Generations, NEW observed \in Observations,
             CallDeleteFlow(k, observed), UNCHANGED cpuVars
      PROVE  IndexInv'
  BY ZenonT(30), <1>2, CallIndexInv
<1>3. ASSUME HostStep, UNCHANGED cpuVars
      PROVE  IndexInv'
  BY ZenonT(30), <1>3, HostIndexInv
<1>4. ASSUME Time, UNCHANGED <<cpuVars, hostVars>>
      PROVE  IndexInv'
  BY ZenonT(30), <1>4, TimeIndexInv DEF Time, Tick, DeadlinePasses, cpuVars, hostVars
<1>5. CASE UNCHANGED vars
  BY ZenonT(30), <1>5, TimeIndexInv DEF vars, cpuVars, hostVars
<1> QED BY ZenonT(30), <1>1, <1>2, <1>3, <1>4, <1>5 DEF Next, Packets, Host

\* When no flow is deleted under its creator, every creator still owns the index
\* entries it has inserted, every entry names a flow it belongs to, and the
\* entry that a rollback or a deletion is about to remove is its own.
THEOREM IndexInvariant ==
  ASSUME ~EarlyDelete
  PROVE  Spec => [](TableInv /\ IndexInv)
<1>1. Init => TableInv /\ IndexInv
  BY ZenonT(30), TableInit, IndexInit
<1>2. TableInv /\ IndexInv /\ [Next]_vars => (TableInv /\ IndexInv)'
  BY ZenonT(30), TableStep, IndexStep
<1> QED BY <1>1, <1>2, PTL DEF Spec

\* Under the same assumption an ACTIVE flow is reachable through all three of
\* its tuples at every moment.
THEOREM ActiveOwnsIndexesHolds ==
  ASSUME ~EarlyDelete
  PROVE  Spec => []ActiveOwnsIndexes
<1>1. TableInv /\ IndexInv => ActiveOwnsIndexes
  BY ZenonT(30) DEF IndexInv
<1> QED BY <1>1, IndexInvariant, PTL

\* Under the same assumption an index entry is removed only by the rollback or
\* the deletion of the generation it carries.
THEOREM OnlyOwnerRemovesIndexHolds ==
  ASSUME ~EarlyDelete
  PROVE  Spec => OnlyOwnerRemovesIndex
<1> DEFINE Owned == \A t \in Tuples :
                      index[t] # NoEntry /\ index'[t] # index[t] =>
                        \/ hpc = "remove_index" /\ hkey = index[t]
                        \/ \E c \in CPUs : pc[c] = "drop_index" /\ key[c] = index[t]
<1>1. ASSUME TableInv, IndexInv, [Next]_vars PROVE [Owned]_vars
  <2>1. ASSUME NEW c \in CPUs, PacketArrives(c) PROVE Owned
    BY ZenonT(30), <2>1, <1>1, ArrivalFrame
  <2>2. ASSUME NEW c \in CPUs, PacketStep(c) PROVE Owned
    <3>1. CreatorIndexed(c)
      BY ZenonT(30), <1>1 DEF IndexInv
    <3> QED BY ZenonT(30), <3>1, <2>2, <1>1, PacketIndex
  <2>3. ASSUME HostStep PROVE Owned
    <3>1. hpc = "remove_index" => htup \in Tuples /\ index[htup] = hkey
      BY ZenonT(30), <1>1 DEF IndexInv, TableInv, HostKnows, TypeOK, HostTypeOK
    <3>2. index \in [Tuples -> Generations \cup {NoEntry}]
      BY ZenonT(30), <1>1 DEF TableInv, TypeOK, MapsTypeOK
    <3> QED BY ZenonT(30), <3>1, <3>2, <2>3, HostStepFrame
  <2>4. ASSUME NEW k \in Generations, NEW o \in Observations, CallDeleteFlow(k, o) PROVE Owned
    BY ZenonT(30), <2>4 DEF CallDeleteFlow, DeleteFlow
  <2>5. CASE Time
    BY ZenonT(30), <2>5 DEF Time, Tick, DeadlinePasses
  <2> HIDE DEF Owned
  <2> QED BY ZenonT(30), <1>1, <2>1, <2>2, <2>3, <2>4, <2>5 DEF Next, Packets, Host
<1> QED BY <1>1, IndexInvariant, PTL DEF Spec, OnlyOwnerRemovesIndex

----------------------------------------------------------------------------
\* What one step does to the slots.

\* Which step of process_packet changes the counter, the queue, the journal and
\* the popped release.
LEMMA PacketSlots ==
  ASSUME TableInv, NEW c \in CPUs, PacketStep(c)
  PROVE  /\ pc[c] # "pop" => queue' = queue /\ popped'[c] \in {popped[c], NoEntry}
         /\ pc[c] # "claim" => journal' = journal
         /\ pc[c] \notin {"credit", "add", "undo", "release"} => count' = count
         /\ pc[c] \notin {"credit", "release"} => gaveUp' = gaveUp
         /\ pc'[c] = "claim" => pc[c] = "pop"
<1>a. PacketTypeOK
  BY ZenonT(30) DEF TableInv, TypeOK
<1>b. popped \in [CPUs -> Generations \cup {NoEntry}] /\ pc \in [CPUs -> PacketPCs]
  BY ZenonT(30), <1>a DEF PacketTypeOK
<1>c. ASSUME NEW l, Goto(c, l) PROVE popped'[c] = popped[c] /\ pc'[c] = l
  BY ZenonT(30), <1>b, <1>c DEF Goto
<1>d. ASSUME NEW v, Return(c, v) PROVE popped'[c] = NoEntry /\ pc'[c] = v
  BY ZenonT(30), <1>b, <1>d DEF Return
<1>e. ASSUME NEW m, NEW l, NextIndex(c, m, l) PROVE popped'[c] = popped[c] /\ pc'[c] \in {m, l}
  BY ZenonT(30), <1>b, <1>e DEF NextIndex
<1>1. CASE pc[c] \notin Creating
  BY ZenonT(30), <1>1, PassiveStep DEF Creating, Reserving, RollingBack
<1>2. CASE PopRelease(c)
  BY ZenonT(30), <1>2 DEF PopRelease
<1>3. CASE ClaimRelease(c)
  BY ZenonT(30), <1>3, <1>b DEF ClaimRelease
<1>4. CASE CreditRelease(c)
  BY <1>4, <1>c DEF CreditRelease
<1>5. CASE ReserveSlot(c)
  BY <1>5, <1>c DEF ReserveSlot
<1>6. CASE UndoReservation(c)
  BY <1>6, <1>d DEF UndoReservation
<1>7. CASE InsertState(c)
  BY <1>7, <1>c DEF InsertState
<1>8. CASE InsertIndex(c)
  <2>1. popped'[c] = popped[c] /\ pc'[c] # "claim"
    BY <1>8, <1>b, <1>e DEF InsertIndex
  <2> QED BY ZenonT(30), <1>8, <2>1 DEF InsertIndex
<1>9. CASE InsertInflight(c)
  BY <1>9, <1>c DEF InsertInflight
<1>10. CASE Publish(c)
  BY ZenonT(30), <1>10, <1>b DEF Publish
<1>11. CASE DropCheck(c)
  BY <1>11, <1>c, <1>e DEF DropCheck
<1>12. CASE DropIndex(c)
  BY <1>12, <1>e DEF DropIndex
<1>13. CASE DropInflight(c)
  BY <1>13, <1>c DEF DropInflight
<1>14. CASE DropState(c)
  BY <1>14, <1>c DEF DropState
<1>15. CASE ReleaseSlot(c)
  BY <1>15, <1>c, <1>d DEF ReleaseSlot, EndRollback
<1>16. pc[c] \in Creating =>
         \/ PopRelease(c) \/ ClaimRelease(c) \/ CreditRelease(c) \/ ReserveSlot(c)
         \/ UndoReservation(c) \/ InsertState(c) \/ InsertIndex(c) \/ InsertInflight(c)
         \/ Publish(c) \/ DropCheck(c) \/ DropIndex(c) \/ DropInflight(c) \/ DropState(c)
         \/ ReleaseSlot(c)
  BY ZenonT(30), PacketStepAt DEF Creating, Reserving, Inserting, RollingBack
<1> QED
  BY ZenonT(30), <1>1, <1>2, <1>3, <1>4, <1>5, <1>6, <1>7, <1>8, <1>9, <1>10, <1>11, <1>12,
     <1>13, <1>14, <1>15, <1>16

\* A generation without a creator does not get one, and its record stays as it
\* is.
LEMMA Uncreated ==
  ASSUME TableInv, NEW c \in CPUs, PacketStep(c), NEW k \in Generations, ~BeingCreated(k)
  PROVE  ~BeingCreated(k)' /\ (life'[k] = "none" <=> life[k] = "none")
<1>1. ASSUME NEW d \in CPUs, pc'[d] \in Creating
      PROVE  pc[d] \in Creating /\ key'[d] = key[d]
  BY ZenonT(30), <1>1, PacketControl, OtherCPUs DEF PacketMove, TableInv, TypeOK
<1>2. ~BeingCreated(k)'
  BY ZenonT(30), <1>1 DEF BeingCreated
<1>3. life \in [Generations -> {"none", "CREATING", "ACTIVE"}]
  BY ZenonT(30) DEF TableInv, TypeOK, MapsTypeOK
<1>4. pc[c] \in Creating => key[c] # k
  BY ZenonT(30) DEF BeingCreated
<1>5. CASE pc[c] = "insert_state"
  <2>1. InsertState(c) /\ key[c] # k
    BY ZenonT(30), <1>5, <1>4, PacketStepAt DEF Creating, Inserting
  <2>2. life'[k] = life[k]
    BY ZenonT(30), <2>1, <1>3 DEF InsertState
  <2> QED BY ZenonT(30), <2>2, <1>2
<1>6. CASE pc[c] = "publish"
  <2>1. Publish(c) /\ key[c] # k
    BY ZenonT(30), <1>6, <1>4, PacketStepAt DEF Creating, Inserting
  <2>2. life'[k] = life[k]
    BY ZenonT(30), <2>1, <1>3 DEF Publish
  <2> QED BY ZenonT(30), <2>2, <1>2
<1>7. CASE pc[c] = "drop_state"
  <2>1. DropState(c) /\ key[c] # k
    BY ZenonT(30), <1>7, <1>4, PacketStepAt DEF Creating, RollingBack
  <2>2. life'[k] = life[k]
    BY ZenonT(30), <2>1, <1>3 DEF DropState
  <2> QED BY ZenonT(30), <2>2, <1>2
<1>8. CASE pc[c] \notin {"insert_state", "publish", "drop_state"}
  BY ZenonT(30), <1>8, <1>2, PacketStepFrame
<1> QED BY ZenonT(30), <1>5, <1>6, <1>7, <1>8

----------------------------------------------------------------------------
\* Packets keep ReleaseInv.

\* The queue after a pop holds what it held before, without its head.
LEMMA PoppedQueue ==
  ASSUME NEW S, queue \in Seq(S), queue # << >>
  PROVE  /\ Head(queue) = queue[1] /\ 1 \in 1 .. Len(queue)
         /\ \A i \in 1 .. Len(Tail(queue)) : i + 1 \in 1 .. Len(queue) /\ Tail(queue)[i] = queue[i + 1]
         /\ \A i \in 1 .. Len(queue) : i # 1 => i - 1 \in 1 .. Len(Tail(queue))
OBVIOUS

\* A queued or popped release is a generation's.
LEMMA QueuedGenerations ==
  ASSUME TableInv
  PROVE  /\ queue \in Seq(Generations) /\ \A i \in 1 .. Len(queue) : queue[i] \in Generations
         /\ \A c \in CPUs : popped[c] # NoEntry => popped[c] \in Generations
<1>1. queue \in Seq(Generations) /\ popped \in [CPUs -> Generations \cup {NoEntry}]
  BY ZenonT(30) DEF TableInv, TypeOK, MapsTypeOK, PacketTypeOK
<1> QED BY <1>1

\* A step of process_packet takes a release from the queue or from the journal
\* and changes nothing else about releases.
LEMMA PacketReleases ==
  ASSUME TableInv, ReleasesEarned, NEW c \in CPUs, PacketStep(c)
  PROVE  ReleasesEarned'
<1>a. queue \in Seq(Generations) /\ journal \subseteq Generations
  BY ZenonT(30) DEF TableInv, TypeOK, MapsTypeOK
<1>b. ASSUME NEW k \in Generations, life[k] = "none", orig[k] # NoEntry
      PROVE  life'[k] = "none" /\ orig'[k] # NoEntry
  BY ZenonT(30), <1>b, NoneStays, OrigStays
<1>1. ASSUME NEW k \in journal'
      PROVE  orig'[k] # NoEntry /\ ~BeingCreated(k)'
  <2>1. k \in journal /\ k \in Generations
    <3>1. CASE pc[c] = "claim"
      <4>1. ClaimRelease(c)
        BY ZenonT(30), <3>1, PacketStepAt
      <4> QED BY ZenonT(30), <4>1, <1>1, <1>a DEF ClaimRelease
    <3>2. CASE pc[c] # "claim"
      BY ZenonT(30), <3>2, <1>1, <1>a, PacketSlots
    <3> QED BY ZenonT(30), <3>1, <3>2
  <2>2. orig[k] # NoEntry /\ ~BeingCreated(k)
    BY ZenonT(30), <2>1 DEF ReleasesEarned
  <2>3. orig'[k] = orig[k]
    BY ZenonT(30), <2>1, <2>2, OrigStays
  <2> QED BY ZenonT(30), <2>1, <2>2, <2>3, Uncreated
<1>2. ASSUME NEW i \in 1 .. Len(queue')
      PROVE  life'[queue'[i]] = "none" /\ orig'[queue'[i]] # NoEntry
  <2>1. \E j \in 1 .. Len(queue) : queue'[i] = queue[j]
    <3>1. CASE queue' = queue
      BY ZenonT(30), <3>1, <1>2
    <3>2. CASE queue' # queue
      <4>1. pc[c] = "pop"
        BY ZenonT(30), <3>2, PacketSlots
      <4>2. PopRelease(c)
        BY ZenonT(30), <4>1, PacketStepAt
      <4>3. queue # << >> /\ queue' = Tail(queue)
        BY ZenonT(30), <3>2, <4>2 DEF PopRelease
      <4> QED BY ZenonT(30), <4>3, <1>2, <1>a, PoppedQueue
    <3> QED BY ZenonT(30), <3>1, <3>2
  <2>2. PICK j \in 1 .. Len(queue) : queue'[i] = queue[j]
    BY ZenonT(30), <2>1
  <2>3. queue[j] \in Generations /\ life[queue[j]] = "none" /\ orig[queue[j]] # NoEntry
    BY ZenonT(30), QueuedGenerations DEF ReleasesEarned
  <2> QED BY ZenonT(30), <2>2, <2>3, <1>b
<1>3. ASSUME NEW d \in CPUs
      PROVE  /\ pc'[d] # "claim" => popped'[d] = NoEntry
             /\ popped'[d] # NoEntry => life'[popped'[d]] = "none" /\ orig'[popped'[d]] # NoEntry
  <2>1. CASE d # c
    <3>1. pc'[d] = pc[d] /\ popped'[d] = popped[d]
      BY ZenonT(30), <2>1, OtherCPUs DEF TableInv, TypeOK
    <3>2. pc[d] # "claim" => popped[d] = NoEntry
      BY ZenonT(30) DEF ReleasesEarned
    <3>3. popped[d] # NoEntry => /\ popped[d] \in Generations
                                 /\ life[popped[d]] = "none" /\ orig[popped[d]] # NoEntry
      BY ZenonT(30), QueuedGenerations DEF ReleasesEarned
    <3> QED BY ZenonT(30), <3>1, <3>2, <3>3, <1>b
  <2>2. CASE d = c /\ pc[c] = "pop"
    <3>1. PopRelease(c)
      BY ZenonT(30), <2>2, PacketStepAt
    <3>2. pc[c] # "claim" /\ popped[c] = NoEntry
      BY ZenonT(30), <2>2 DEF ReleasesEarned
    <3>3. pc \in [CPUs -> PacketPCs] /\ popped \in [CPUs -> Generations \cup {NoEntry}]
      BY ZenonT(30) DEF TableInv, TypeOK, PacketTypeOK
    <3>4. CASE queue = << >>
      <4>1. popped'[c] = NoEntry
        BY ZenonT(30), <3>1, <3>2, <3>4 DEF PopRelease, Goto
      <4> QED BY ZenonT(30), <4>1, <2>2
    <3>5. CASE queue # << >>
      <4>1. pc'[c] = "claim" /\ popped'[c] = Head(queue)
        BY ZenonT(30), <3>1, <3>3, <3>5 DEF PopRelease
      <4>2. Head(queue) = queue[1] /\ 1 \in 1 .. Len(queue)
        BY ZenonT(30), <3>5, <1>a, PoppedQueue
      <4>3. /\ queue[1] \in Generations
            /\ life[queue[1]] = "none" /\ orig[queue[1]] # NoEntry
        BY ZenonT(30), <4>2, QueuedGenerations DEF ReleasesEarned
      <4> QED BY ZenonT(30), <4>1, <4>2, <4>3, <2>2, <1>b
    <3> QED BY ZenonT(30), <3>4, <3>5
  <2>3. CASE d = c /\ pc[c] # "pop"
    <3>1. pc'[c] # "claim" /\ popped'[c] \in {popped[c], NoEntry}
      BY ZenonT(30), <2>3, PacketSlots
    <3>2. popped'[c] = NoEntry
      <4>1. CASE pc[c] = "claim"
        <5>1. ClaimRelease(c)
          BY ZenonT(30), <4>1, PacketStepAt
        <5>2. popped \in [CPUs -> Generations \cup {NoEntry}]
          BY ZenonT(30) DEF TableInv, TypeOK, PacketTypeOK
        <5> QED BY ZenonT(30), <5>1, <5>2 DEF ClaimRelease
      <4>2. CASE pc[c] # "claim"
        BY ZenonT(30), <4>2, <3>1 DEF ReleasesEarned
      <4> QED BY ZenonT(30), <4>1, <4>2
    <3> QED BY ZenonT(30), <3>1, <3>2, <2>3
  <2> QED BY ZenonT(30), <2>1, <2>2, <2>3
<1> QED BY ZenonT(30), <1>1, <1>2, <1>3 DEF ReleasesEarned

\* No packet takes from delete_flow what it has found and noted.
LEMMA PacketProgress ==
  ASSUME TableInv, IndexInv, ReleaseInv, NEW c \in CPUs, PacketStep(c), UNCHANGED hostVars
  PROVE  HostProgress'
<1>a. HostProgress /\ UNCHANGED <<hpc, hkey, guarded, report, reply>>
  BY ZenonT(30) DEF ReleaseInv, hostVars
<1>b. hpc # "idle" => hkey \in Generations /\ ~BeingCreated(hkey)
  BY ZenonT(30) DEF IndexInv, Quiet, TableInv, HostKnows
<1>c. hpc # "idle" => (life'[hkey] = "none" <=> life[hkey] = "none")
  BY ZenonT(30), <1>b, Uncreated
<1>1. hpc = "remove_state" => hkey \in journal'
  <2> SUFFICES ASSUME hpc = "remove_state" PROVE hkey \in journal'
    OBVIOUS
  <2>1. hkey \in journal /\ life[hkey] # "none"
    BY ZenonT(30), <1>a DEF HostProgress, Finding, Committed
  <2>2. CASE pc[c] = "claim"
    <3>1. ClaimRelease(c)
      BY ZenonT(30), <2>2, PacketStepAt
    <3>2. popped[c] # hkey
      BY <2>1, <1>b DEF ReleaseInv, ReleasesEarned, Generations, NoEntry
    <3> QED BY ZenonT(30), <3>1, <3>2, <2>1 DEF ClaimRelease
  <2>3. CASE pc[c] # "claim"
    BY ZenonT(30), <2>1, <2>3, PacketSlots
  <2> QED BY ZenonT(30), <2>2, <2>3
<1> QED BY ZenonT(30), <1>a, <1>c, <1>1 DEF HostProgress, MayRelease, Finding, Committed

----------------------------------------------------------------------------
\* The deletion keeps ReleaseInv.

\* Which step of delete_flow changes the journal and the queue; the counter is
\* the packets'.
LEMMA HostSlots ==
  ASSUME HostStep
  PROVE  /\ UNCHANGED <<count, gaveUp>>
         /\ \/ journal' = journal
            \/ hpc = "journal" /\ journal' = journal \cup {hkey}
            \/ hpc = "unjournal" /\ journal' = journal \ {hkey}
         /\ queue' = queue \/ (hpc = "push" /\ queue' = Append(queue, hkey))
<1>1. CASE FindState \/ ScanStale \/ ScanOwned \/ ReadGuard \/ Drain \/ ReadState \/ Redrain
           \/ Reread
  BY ZenonT(30), <1>1 DEF FindState, ScanStale, ScanOwned, ReadGuard, Drain, ReadState, Redrain, Reread
<1>2. CASE AbsentGuard \/ AbsentOutcome \/ RemoveOldGuard \/ RemoveOldOutcome
  BY ZenonT(30), <1>2 DEF AbsentGuard, AbsentOutcome, RemoveOldGuard, RemoveOldOutcome
<1>3. CASE InsertGuard \/ Commit
  BY ZenonT(30), <1>3 DEF InsertGuard, Commit
<1>4. CASE JournalRelease \/ RemoveState \/ Unjournal
  BY ZenonT(30), <1>4 DEF JournalRelease, RemoveState, Unjournal
<1>5. CASE CheckIndex \/ RemoveIndex
  BY ZenonT(30), <1>5 DEF CheckIndex, RemoveIndex
<1>6. CASE RemoveInflight \/ ReadJournal \/ PushRelease
  BY ZenonT(30), <1>6 DEF RemoveInflight, ReadJournal, PushRelease
<1>7. CASE ClearGuard \/ ClearOutcome \/ ReadFails
  BY ZenonT(30), <1>7 DEF ClearGuard, ClearOutcome, ReadFails
<1> QED BY ZenonT(30), <1>1, <1>2, <1>3, <1>4, <1>5, <1>6, <1>7 DEF HostStep

\* A step of delete_flow journals the release of a flow that was created, and
\* publishes it when the record is gone.
LEMMA HostReleases ==
  ASSUME TableInv, IndexInv, ReleaseInv, HostStep, UNCHANGED cpuVars
  PROVE  ReleasesEarned'
<1>a. MapsTypeOK /\ ReleasesEarned /\ HostProgress
  BY ZenonT(30) DEF TableInv, TypeOK, ReleaseInv
<1>b. UNCHANGED <<orig, pc, key, popped>> /\ hpc # "idle"
  BY ZenonT(30), HostStepFrame DEF cpuVars
<1>c. hkey \in Generations /\ orig[hkey] # NoEntry /\ ~BeingCreated(hkey)
  BY ZenonT(30), <1>b DEF TableInv, HostKnows, IndexInv, Quiet
<1>d. \A k \in Generations : life[k] = "none" => life'[k] = "none"
  BY ZenonT(30), <1>a, HostStepFrame DEF MapsTypeOK
<1>1. ASSUME NEW k \in journal'
      PROVE  orig'[k] # NoEntry /\ ~BeingCreated(k)'
  <2>1. k \in journal \/ k = hkey
    BY ZenonT(30), <1>1, HostSlots
  <2>2. orig[k] # NoEntry /\ ~BeingCreated(k)
    BY ZenonT(30), <2>1, <1>a, <1>c DEF ReleasesEarned
  <2> QED BY ZenonT(30), <2>2, <1>b DEF BeingCreated
<1>2. ASSUME NEW i \in 1 .. Len(queue')
      PROVE  life'[queue'[i]] = "none" /\ orig'[queue'[i]] # NoEntry
  <2>1. CASE queue' = queue
    <3>1. queue[i] \in Generations /\ life[queue[i]] = "none" /\ orig[queue[i]] # NoEntry
      BY ZenonT(30), <2>1, <1>2, <1>a, QueuedGenerations DEF ReleasesEarned
    <3> QED BY ZenonT(30), <3>1, <2>1, <1>b, <1>d
  <2>2. CASE queue' # queue
    <3>1. hpc = "push" /\ queue' = Append(queue, hkey) /\ queue \in Seq(Generations)
      BY ZenonT(30), <2>2, <1>a, HostSlots DEF MapsTypeOK
    <3>2. life[hkey] = "none"
      BY ZenonT(30), <3>1, <1>a DEF HostProgress
    <3>3. \/ i = Len(queue) + 1 /\ queue'[i] = hkey
          \/ i \in 1 .. Len(queue) /\ queue'[i] = queue[i]
      BY <3>1, <1>2, <1>c
    <3>4. i \in 1 .. Len(queue) =>
            queue[i] \in Generations /\ life[queue[i]] = "none" /\ orig[queue[i]] # NoEntry
      BY ZenonT(30), <1>a, QueuedGenerations DEF ReleasesEarned
    <3> QED BY ZenonT(30), <3>2, <3>3, <3>4, <1>b, <1>c, <1>d
  <2> QED BY ZenonT(30), <2>1, <2>2
<1>3. ASSUME NEW d \in CPUs
      PROVE  /\ pc'[d] # "claim" => popped'[d] = NoEntry
             /\ popped'[d] # NoEntry => life'[popped'[d]] = "none" /\ orig'[popped'[d]] # NoEntry
  <2>1. /\ pc[d] # "claim" => popped[d] = NoEntry
        /\ popped[d] # NoEntry => /\ popped[d] \in Generations
                                  /\ life[popped[d]] = "none" /\ orig[popped[d]] # NoEntry
    BY ZenonT(30), <1>a, QueuedGenerations DEF ReleasesEarned
  <2> QED BY ZenonT(30), <2>1, <1>b, <1>d
<1> QED BY ZenonT(30), <1>1, <1>2, <1>3 DEF ReleasesEarned

\* delete_flow returns, ...
LEMMA ProgressReturn ==
  ASSUME hpc' = "idle", report' = {}
  PROVE  HostProgress'
BY ZenonT(30) DEF HostProgress, Finding, Committed

\* ... goes on to remove its guard, ...
LEMMA ProgressClear ==
  ASSUME HostProgress, hpc # "idle", hpc' \in {"clear_guard", "clear_outcome"}, reply' = reply
  PROVE  HostProgress'
BY ZenonT(30) DEF HostProgress, Finding, Committed

\* ... or goes on with the record it has found.
LEMMA ProgressFinding ==
  ASSUME HostProgress, hpc \in Finding, hpc' \in Finding \ {"remove_state", "unjournal"},
         UNCHANGED <<hkey, guarded, report, reply, life>>
  PROVE  HostProgress'
BY ZenonT(30) DEF HostProgress, Finding, Committed

\* The steps up to the second drain: the record found stays found.
LEMMA ProgressGuarding ==
  ASSUME HostProgress,
         \/ ReadGuard \/ RemoveOldGuard \/ RemoveOldOutcome \/ InsertGuard
         \/ Drain \/ ReadState \/ Commit \/ Redrain
  PROVE  HostProgress'
<1>a. /\ hpc \in Finding /\ hpc # "idle"
      /\ \/ hpc' = "idle" /\ report' = {}
         \/ hpc' = "clear_guard" /\ reply' = reply
         \/ /\ hpc' \in Finding \ {"remove_state", "unjournal"}
            /\ UNCHANGED <<hkey, guarded, report, reply, life>>
  <2> USE DEF Finding, Committed
  <2>1. CASE ReadGuard
    BY ZenonT(30), <2>1 DEF ReadGuard, HostGoto, HostReturn
  <2>2. CASE RemoveOldGuard
    BY ZenonT(30), <2>2 DEF RemoveOldGuard, HostGoto, HostReturn
  <2>3. CASE RemoveOldOutcome
    BY ZenonT(30), <2>3 DEF RemoveOldOutcome, HostGoto
  <2>4. CASE InsertGuard
    BY ZenonT(30), <2>4 DEF InsertGuard, HostGoto, HostReturn
  <2>5. CASE Drain
    BY ZenonT(30), <2>5 DEF Drain, HostGoto, HostNote
  <2>6. CASE ReadState
    BY ZenonT(30), <2>6 DEF ReadState, HostGoto, HostNote
  <2>7. CASE Commit
    BY ZenonT(30), <2>7 DEF Commit, HostGoto, HostNote
  <2>8. CASE Redrain
    BY ZenonT(30), <2>8 DEF Redrain, HostGoto, HostNote
  <2> QED BY ZenonT(30), <2>1, <2>2, <2>3, <2>4, <2>5, <2>6, <2>7, <2>8
<1> QED BY ZenonT(30), <1>a, ProgressReturn, ProgressClear, ProgressFinding

\* Without a record the call works through the leftovers, unguarded.
LEMMA ProgressAbsent ==
  ASSUME HostProgress, FindState \/ AbsentGuard \/ AbsentOutcome \/ ScanStale \/ ScanOwned
  PROVE  HostProgress'
<1>1. CASE FindState
  <2>1. /\ reply' = NoReply /\ report' = {} /\ life' = life /\ hkey' = hkey
        /\ guarded' = (life[hkey] # "none")
        /\ hpc' = IF life[hkey] # "none" THEN "read_guard" ELSE "absent_guard"
    BY ZenonT(30), <1>1 DEF FindState, HostProgress
  <2> QED BY ZenonT(30), <2>1 DEF HostProgress, Finding, Committed
<1>2. CASE AbsentGuard \/ AbsentOutcome \/ ScanStale
  <2>1. /\ hpc' \in {"absent_outcome", "scan_stale", "scan_owned"}
        /\ reply' = NoReply /\ ~guarded /\ guarded' = guarded
    BY ZenonT(30), <1>2 DEF AbsentGuard, AbsentOutcome, ScanStale, HostGoto, HostProgress
  <2> QED BY ZenonT(30), <2>1 DEF HostProgress, Finding, Committed
<1>3. CASE ScanOwned
  <2>1. /\ hpc' = "check_index" /\ reply' = NoReply /\ ~guarded /\ guarded' = guarded
    BY ZenonT(30), <1>3 DEF ScanOwned, HostProgress
  <2> QED BY ZenonT(30), <2>1 DEF HostProgress, Finding, Committed, MayRelease
<1> QED BY ZenonT(30), <1>1, <1>2, <1>3

\* The record is journaled and removed, or it stays and the journal entry is
\* taken back.
LEMMA ProgressRemoving ==
  ASSUME TableInv, HostProgress, Reread \/ JournalRelease \/ RemoveState \/ Unjournal
  PROVE  HostProgress'
<1>a. /\ hpc \in Finding /\ hpc # "idle" /\ reply = NoReply
      /\ life[hkey] # "none" /\ guarded /\ "state_deleted" \notin report
  BY ZenonT(30) DEF Reread, JournalRelease, RemoveState, Unjournal, HostProgress, Finding, Committed
<1>1. CASE Reread
  <2>1. \/ hpc' = "clear_guard" /\ reply' = reply
        \/ /\ hpc' \in Finding \ {"remove_state", "unjournal"}
           /\ UNCHANGED <<hkey, guarded, report, reply, life>>
    BY ZenonT(30), <1>1, <1>a DEF Reread, HostNote, Finding, Committed
  <2> QED BY ZenonT(30), <2>1, <1>a, ProgressClear, ProgressFinding
<1>2. CASE JournalRelease
  <2>1. \/ hpc' = "clear_guard" /\ reply' = reply
        \/ /\ hpc' = "remove_state" /\ hkey \in journal'
           /\ UNCHANGED <<hkey, guarded, report, reply, life>>
    BY ZenonT(30), <1>2 DEF JournalRelease, HostNote, HostGoto
  <2>2. CASE hpc' = "clear_guard" /\ reply' = reply
    BY ZenonT(30), <2>2, <1>a, ProgressClear
  <2>3. CASE /\ hpc' = "remove_state" /\ hkey \in journal'
             /\ UNCHANGED <<hkey, guarded, report, reply, life>>
    BY ZenonT(30), <2>3, <1>a DEF HostProgress, Finding, Committed
  <2> QED BY ZenonT(30), <2>1, <2>2, <2>3
<1>3. CASE RemoveState
  <2>1. \/ hpc' = "check_index" /\ report' = report \cup {"state_deleted"} /\ reply' = reply
        \/ /\ hpc' = "unjournal" /\ report' = report \cup {"partial"}
           /\ UNCHANGED <<hkey, guarded, reply, life>>
    BY ZenonT(30), <1>3 DEF RemoveState, HostNote
  <2> QED BY ZenonT(30), <2>1, <1>a DEF HostProgress, Finding, Committed, MayRelease
<1>4. CASE Unjournal
  <2>1. hpc' = "read_journal" /\ UNCHANGED <<guarded, report, reply>>
    BY ZenonT(30), <1>4 DEF Unjournal, HostGoto
  <2> QED BY ZenonT(30), <2>1, <1>a DEF HostProgress, Finding, Committed, MayRelease
<1> QED BY ZenonT(30), <1>1, <1>2, <1>3, <1>4

\* Indexes and counter are removed, the release is published, the guard goes.
LEMMA ProgressCleaning ==
  ASSUME TableInv, HostProgress,
         \/ CheckIndex \/ RemoveIndex \/ RemoveInflight \/ ReadJournal \/ PushRelease
         \/ ClearGuard \/ ClearOutcome \/ ReadFails
  PROVE  HostProgress'
<1>1. CASE CheckIndex
  <2>1. /\ hpc' \in {"check_index", "remove_index", "remove_inflight"} /\ reply' = NoReply
        /\ guarded' = guarded /\ report \subseteq report' /\ MayRelease
    BY ZenonT(30), <1>1 DEF CheckIndex, HostGoto, HostProgress
  <2> QED BY ZenonT(30), <2>1 DEF HostProgress, Finding, Committed, MayRelease
<1>2. CASE RemoveIndex
  <2>1. /\ hpc' = "check_index" /\ reply' = NoReply
        /\ guarded' = guarded /\ report \subseteq report' /\ MayRelease
    BY ZenonT(30), <1>2 DEF RemoveIndex, HostProgress
  <2> QED BY ZenonT(30), <2>1 DEF HostProgress, Finding, Committed, MayRelease
<1>3. CASE RemoveInflight
  <2>1. /\ hpc' = "read_journal" /\ reply' = NoReply /\ hkey' = hkey /\ life' = life
        /\ life[hkey] = "none"
    BY ZenonT(30), <1>3 DEF RemoveInflight, HostGoto, HostNote, HostProgress, TableInv, HostKnows
  <2> QED BY ZenonT(30), <2>1 DEF HostProgress, Finding, Committed
<1>4. CASE ReadJournal
  <2>1. \/ hpc' = "idle" /\ report' = {}
        \/ hpc' = "clear_guard" /\ reply' = reply
        \/ /\ hpc' = "push" /\ reply' = NoReply /\ hkey' = hkey /\ life' = life
           /\ UNCHANGED <<guarded, report>> /\ MayRelease /\ life[hkey] = "none"
    BY ZenonT(30), <1>4 DEF ReadJournal, EndCleanup, HostGoto, HostNote, HostReturn, HostProgress
  <2>2. hpc # "idle"
    BY ZenonT(30), <1>4 DEF ReadJournal
  <2>3. CASE /\ hpc' = "push" /\ reply' = NoReply /\ hkey' = hkey /\ life' = life
             /\ UNCHANGED <<guarded, report>> /\ MayRelease /\ life[hkey] = "none"
    BY ZenonT(30), <2>3 DEF HostProgress, Finding, Committed, MayRelease
  <2> QED BY ZenonT(30), <2>1, <2>2, <2>3, ProgressReturn, ProgressClear
<1>5. CASE PushRelease
  <2>1. /\ hpc # "idle"
        /\ \/ hpc' = "idle" /\ report' = {}
           \/ hpc' = "clear_guard" /\ reply' = reply
    BY ZenonT(30), <1>5 DEF PushRelease, EndCleanup, HostNote, HostReturn
  <2> QED BY ZenonT(30), <2>1, ProgressReturn, ProgressClear
<1>6. CASE ClearGuard \/ ClearOutcome
  <2>1. /\ hpc # "idle"
        /\ \/ hpc' = "idle" /\ report' = {}
           \/ hpc' = "clear_outcome" /\ reply' = reply
    BY ZenonT(30), <1>6 DEF ClearGuard, ClearOutcome, HostGoto, HostNote, HostReturn
  <2> QED BY ZenonT(30), <2>1, ProgressReturn, ProgressClear
<1>7. CASE ReadFails
  <2>1. /\ hpc # "idle"
        /\ \/ hpc' = "idle" /\ report' = {}
           \/ hpc' = "clear_guard" /\ reply' = reply
    BY ZenonT(30), <1>7 DEF ReadFails, EndCleanup, HostNote, HostReturn
  <2> QED BY ZenonT(30), <2>1, ProgressReturn, ProgressClear
<1> QED BY ZenonT(30), <1>1, <1>2, <1>3, <1>4, <1>5, <1>6, <1>7

\* Every step of delete_flow keeps what it has found and noted.
LEMMA HostProgressStep ==
  ASSUME TableInv, HostProgress, HostStep
  PROVE  HostProgress'
BY ZenonT(30), ProgressGuarding, ProgressAbsent, ProgressRemoving, ProgressCleaning DEF HostStep

----------------------------------------------------------------------------
\* ReleaseInv is inductive relative to TableInv and IndexInv.

\* The arrival of a packet keeps ReleaseInv.
LEMMA ArrivalReleaseInv ==
  ASSUME TableInv, IndexInv, ReleaseInv, NEW c \in CPUs, PacketArrives(c), UNCHANGED hostVars
  PROVE  ReleaseInv'
<1>1. UNCHANGED <<life, orig, queue, journal, hpc, hkey, guarded, report, reply>>
  BY ZenonT(30), ArrivalFrame DEF hostVars
<1>2. HostProgress'
  BY ZenonT(30), <1>1 DEF ReleaseInv, HostProgress, MayRelease
<1>3. ASSUME NEW k \in journal
      PROVE  orig[k] # NoEntry /\ ~BeingCreated(k)'
  <2>1. k \in Generations /\ orig[k] # NoEntry /\ ~BeingCreated(k)
    BY ZenonT(30) DEF TableInv, TypeOK, MapsTypeOK, ReleaseInv, ReleasesEarned
  <2> QED BY ZenonT(30), <2>1, ArrivalCreates
<1>4. ASSUME NEW d \in CPUs
      PROVE  /\ pc'[d] # "claim" => popped'[d] = NoEntry
             /\ popped'[d] # NoEntry => life[popped'[d]] = "none" /\ orig[popped'[d]] # NoEntry
  <2>1. CASE d = c
    <3>1. pc[c] # "claim" /\ popped'[c] \in {popped[c], NoEntry}
      BY ZenonT(30), ArrivalFrame DEF Verdicts
    <3>2. popped'[c] = NoEntry
      BY ZenonT(30), <3>1 DEF ReleaseInv, ReleasesEarned
    <3> QED BY ZenonT(30), <3>2, <2>1
  <2>2. CASE d # c
    <3>1. pc'[d] = pc[d] /\ popped'[d] = popped[d]
      BY ZenonT(30), <2>2, OtherCPUs DEF TableInv, TypeOK
    <3> QED BY ZenonT(30), <3>1 DEF ReleaseInv, ReleasesEarned
  <2> QED BY ZenonT(30), <2>1, <2>2
<1>5. ReleasesEarned'
  <2>1. \A i \in 1 .. Len(queue) : life[queue[i]] = "none" /\ orig[queue[i]] # NoEntry
    BY ZenonT(30) DEF ReleaseInv, ReleasesEarned
  <2> QED BY ZenonT(30), <2>1, <1>1, <1>3, <1>4 DEF ReleasesEarned
<1> QED BY ZenonT(30), <1>2, <1>5 DEF ReleaseInv

\* A step that leaves packets, records and releases alone keeps ReleasesEarned.
LEMMA ReleasesStay ==
  ASSUME ReleasesEarned, UNCHANGED <<life, orig, queue, journal, pc, key, popped>>
  PROVE  ReleasesEarned'
BY ZenonT(30) DEF ReleasesEarned, BeingCreated

\* ReleaseInv holds of the empty table.
LEMMA ReleaseInit == Init => ReleaseInv
<1> SUFFICES ASSUME Init PROVE ReleaseInv
  OBVIOUS
<1> USE DEF Init, MapsInit, PacketInit, HostInit
<1>1. ReleasesEarned
  BY DEF ReleasesEarned
<1>2. HostProgress
  BY ZenonT(30) DEF HostProgress, Finding, Committed
<1> QED BY ZenonT(30), <1>1, <1>2 DEF ReleaseInv

\* Every step keeps ReleaseInv.
LEMMA ReleaseStep ==
  ASSUME TableInv, IndexInv, ReleaseInv, [Next]_vars
  PROVE  ReleaseInv'
<1>1. ASSUME NEW c \in CPUs, PacketStep(c), UNCHANGED hostVars
      PROVE  ReleaseInv'
  BY ZenonT(30), <1>1, PacketReleases, PacketProgress DEF ReleaseInv
<1>2. ASSUME NEW k \in Generations, NEW observed \in Observations,
             CallDeleteFlow(k, observed), UNCHANGED cpuVars
      PROVE  ReleaseInv'
  <2>1. /\ UNCHANGED <<life, orig, queue, journal, pc, key, popped>>
        /\ hpc = "idle" /\ hpc' = "find_state" /\ reply' = NoReply /\ report' = report
    BY ZenonT(30), <1>2 DEF CallDeleteFlow, DeleteFlow, cpuVars
  <2>2. HostProgress'
    BY ZenonT(30), <2>1 DEF ReleaseInv, HostProgress, Finding, Committed
  <2> QED BY ZenonT(30), <2>1, <2>2, ReleasesStay DEF ReleaseInv
<1>3. ASSUME HostStep, UNCHANGED cpuVars
      PROVE  ReleaseInv'
  BY ZenonT(30), <1>3, HostReleases, HostProgressStep DEF ReleaseInv
<1>4. ASSUME UNCHANGED <<life, orig, queue, journal, cpuVars, hostVars>>
      PROVE  ReleaseInv'
  <2>1. HostProgress'
    BY ZenonT(30), <1>4 DEF ReleaseInv, HostProgress, MayRelease, hostVars
  <2> QED BY ZenonT(30), <2>1, <1>4, ReleasesStay DEF ReleaseInv, cpuVars
<1>5. Time => UNCHANGED <<life, orig, queue, journal>>
  BY ZenonT(30) DEF Time, Tick, DeadlinePasses
<1>6. UNCHANGED vars => UNCHANGED <<life, orig, queue, journal, cpuVars, hostVars>>
  BY ZenonT(30) DEF vars
<1> QED
  BY ZenonT(30), <1>1, <1>2, <1>3, <1>4, <1>5, <1>6, ArrivalReleaseInv DEF Next, Packets, Host
=============================================================================
