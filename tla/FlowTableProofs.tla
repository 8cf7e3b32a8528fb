-------------------------- MODULE FlowTableProofs --------------------------
\* TableInv is an inductive invariant of FlowTable: the flow table is
\* consistent between any two map accesses of the packets and of the deletion,
\* for every number of CPUs, tuples, generations, elements and faults.
\*
\* First, what single steps do: every step of process_packet, every arrival,
\* every step of the clock and every step of delete_flow keeps the types of the
\* maps, of the packet contexts and of the deletion call. The actions read map
\* entries at keys they hold, so the lemmas assume TableInv, which says that a
\* held key is a generation and a creator's tuple an eligible one.
EXTENDS FlowTable, TLAPS

USE DEF stateMap, entered, slots, time, maps

----------------------------------------------------------------------------
\* What TableInv says of one CPU.

\* A packet that has not returned its verdict works on a generation.
LEMMA KeyInUse ==
  ASSUME TableInv, NEW c \in CPUs, pc[c] \notin Verdicts
  PROVE  key[c] \in Generations
BY ZenonT(30) DEF TableInv, TypeOK, PacketTypeOK, AllocatedKeys

\* A creator works on an eligible tuple, and the tuples it inserts are tuples.
LEMMA CreatorTuples ==
  ASSUME TableInv, NEW c \in CPUs, pc[c] \in Creating
  PROVE  /\ tup[c] \in Eligible
         /\ IndexTuples(tup[c])[at[c]] \in Tuples
<1>1. tup[c] \in Eligible /\ at[c] \in {1, 2, 3}
  BY DEF TableInv, TypeOK, PacketTypeOK, PacketHolds
<1> QED BY <1>1, TupleAssumption DEF IndexTuples

\* A packet inside the critical section holds a pointer to an in-flight
\* element.
LEMMA HeldCell ==
  ASSUME TableInv, NEW c \in CPUs, pc[c] = "enter" \/ InSection(c)
  PROVE  held[c] \in Cells
BY ZenonT(30) DEF TableInv, TypeOK, PacketTypeOK, PacketHolds

----------------------------------------------------------------------------
\* The helpers that move a packet.

\* Goto moves the packet to a step of process_packet.
LEMMA GotoTypes ==
  ASSUME PacketTypeOK, NEW c \in CPUs, NEW l \in PacketPCs, Goto(c, l)
  PROVE  PacketTypeOK'
BY ZenonT(30) DEF PacketTypeOK, Goto

\* Return ends the packet with a verdict and clears its locals.
LEMMA ReturnTypes ==
  ASSUME PacketTypeOK, NEW c \in CPUs, NEW v \in Verdicts, Return(c, v)
  PROVE  PacketTypeOK'
BY BoundAssumption DEF PacketTypeOK, Return, PacketPCs

\* NextIndex advances the creator's loop over the three index keys.
LEMMA NextIndexTypes ==
  ASSUME PacketTypeOK, NEW c \in CPUs, NEW more \in PacketPCs, NEW done \in PacketPCs,
         NextIndex(c, more, done)
  PROVE  PacketTypeOK'
BY DEF PacketTypeOK, NextIndex

\* Allowed continues after a deletion_guard_active that returned 0.
LEMMA AllowedTypes ==
  ASSUME PacketTypeOK, NEW c \in CPUs, Allowed(c)
  PROVE  PacketTypeOK'
BY ZenonT(30) DEF PacketTypeOK, Allowed, PacketPCs

\* Blocked leaves after a deletion_guard_active that returned 1.
LEMMA BlockedTypes ==
  ASSUME PacketTypeOK, NEW c \in CPUs, Blocked(c)
  PROVE  PacketTypeOK'
<1>1. CASE Goto(c, "backout") BY ZenonT(30), <1>1, GotoTypes DEF PacketPCs
<1>2. CASE Return(c, "SHOT") BY ZenonT(30), <1>2, ReturnTypes DEF Verdicts
<1> QED BY ZenonT(30), <1>1, <1>2 DEF Blocked

\* EndRollback ends a rollback: join the winner or drop the packet.
LEMMA EndRollbackTypes ==
  ASSUME PacketTypeOK, NEW c \in CPUs, EndRollback(c)
  PROVE  PacketTypeOK'
<1>1. CASE Goto(c, "relookup") BY ZenonT(30), <1>1, GotoTypes DEF PacketPCs
<1>2. CASE Return(c, "SHOT") BY ZenonT(30), <1>2, ReturnTypes DEF Verdicts
<1> QED BY ZenonT(30), <1>1, <1>2 DEF EndRollback

\* A failing map call uses up one of the bounded faults.
LEMMA FaultTypes ==
  ASSUME faults \in 0 .. MaxFaults, Fault \/ UNCHANGED faults
  PROVE  faults' \in 0 .. MaxFaults
BY BoundAssumption DEF Fault

----------------------------------------------------------------------------
\* Packets, arrivals and time.

\* Every step of process_packet keeps the types of the maps and of the
\* packets.
LEMMA PacketStepTypes ==
  ASSUME TableInv, NEW c \in CPUs, PacketStep(c)
  PROVE  MapsTypeOK' /\ PacketTypeOK'
<1> DEFINE Kept == MapsTypeOK' /\ PacketTypeOK'
<1> SUFFICES Kept
  BY ZenonT(30) DEF Kept
<1> HIDE DEF Kept
<1>a. MapsTypeOK /\ PacketTypeOK
  BY ZenonT(30) DEF TableInv, TypeOK
<1>b. /\ "add" \in PacketPCs /\ "undo" \in PacketPCs
      /\ "insert_state" \in PacketPCs /\ "insert_index" \in PacketPCs
      /\ "insert_inflight" \in PacketPCs /\ "publish" \in PacketPCs
      /\ "drop_check" \in PacketPCs /\ "drop_index" \in PacketPCs
      /\ "drop_inflight" \in PacketPCs /\ "drop_state" \in PacketPCs
      /\ "release" \in PacketPCs /\ "claim" \in PacketPCs /\ "credit" \in PacketPCs
      /\ "guard" \in PacketPCs /\ "expiry" \in PacketPCs /\ "unguard" \in PacketPCs
      /\ "recheck" \in PacketPCs /\ "outcome" \in PacketPCs /\ "lookup" \in PacketPCs
      /\ "enter" \in PacketPCs /\ "touch" \in PacketPCs /\ "leave" \in PacketPCs
      /\ "backout" \in PacketPCs /\ "relookup" \in PacketPCs
      /\ "OK" \in Verdicts /\ "SHOT" \in Verdicts
  BY ZenonT(30) DEF PacketPCs, Verdicts, Creating, Reserving, Inserting, RollingBack, GuardCheck
<1>c. pc[c] \notin Verdicts => key[c] \in Generations
  BY ZenonT(30), KeyInUse
<1>d. pc[c] \in Creating => tup[c] \in Eligible /\ IndexTuples(tup[c])[at[c]] \in Tuples
  BY ZenonT(30), CreatorTuples
<1>e. pc[c] \in {"enter", "backout"} => held[c] \in Cells
  BY ZenonT(30), HeldCell DEF InSection
<1>1. CASE PopRelease(c)
  <2>1. CASE queue = << >>
    BY ZenonT(30), <2>1, <1>1, <1>a, <1>b, GotoTypes DEF PopRelease, MapsTypeOK, Kept
  <2>2. CASE queue # << >>
    <3>1. Head(queue) \in Generations /\ Tail(queue) \in Seq(Generations)
      BY <2>2, <1>a DEF MapsTypeOK
    <3>2. PacketTypeOK'
      <4>1. popped' \in [CPUs -> Generations \cup {NoEntry}]
        BY ZenonT(30), <2>2, <3>1, <1>1, <1>a DEF PopRelease, PacketTypeOK
      <4>2. pc' \in [CPUs -> PacketPCs]
        BY ZenonT(30), <2>2, <1>1, <1>a, <1>b DEF PopRelease, PacketTypeOK
      <4>3. UNCHANGED <<tup, key, at, lost, held, seen, second, now>>
        BY ZenonT(30), <2>2, <1>1 DEF PopRelease
      <4> QED BY ZenonT(30), <4>1, <4>2, <4>3, <1>a DEF PacketTypeOK
    <3>3. MapsTypeOK'
      BY ZenonT(30), <2>2, <3>1, <1>1, <1>a DEF PopRelease, MapsTypeOK
    <3> QED BY ZenonT(30), <3>2, <3>3 DEF Kept
  <2> QED BY ZenonT(30), <2>1, <2>2
<1>2. CASE ClaimRelease(c)
  <2>1. PacketTypeOK'
    BY ZenonT(30), <1>2, <1>a, <1>b DEF ClaimRelease, PacketTypeOK
  <2>2. MapsTypeOK'
    <3>1. journal' \subseteq Generations /\ faults' \in 0 .. MaxFaults
      BY ZenonT(30), <1>2, <1>a, FaultTypes DEF ClaimRelease, MapsTypeOK
    <3>2. leftover' \subseteq {"guard", "release"} \X Generations
      BY SMTT(30), <1>2, <1>a DEF ClaimRelease, MapsTypeOK
    <3> QED BY ZenonT(30), <3>1, <3>2, <1>2, <1>a DEF ClaimRelease, MapsTypeOK
  <2> QED BY ZenonT(30), <2>1, <2>2 DEF Kept
<1>3. CASE CreditRelease(c)
  <2>1. MapsTypeOK' /\ PacketTypeOK'
    BY SMTT(30), <1>3, <1>a, <1>b, GotoTypes, FaultTypes DEF CreditRelease, MapsTypeOK, ReleaseFlowSlot
  <2> QED BY ZenonT(30), <2>1 DEF Kept
<1>4. CASE ReserveSlot(c)
  <2>1. MapsTypeOK' /\ PacketTypeOK'
    BY SMTT(30), <1>4, <1>a, <1>b, GotoTypes DEF ReserveSlot, MapsTypeOK
  <2> QED BY ZenonT(30), <2>1 DEF Kept
<1>5. CASE UndoReservation(c)
  <2>1. MapsTypeOK' /\ PacketTypeOK'
    BY <1>5, <1>a, <1>b, ReturnTypes, BoundAssumption DEF UndoReservation, MapsTypeOK, Minus1
  <2> QED BY ZenonT(30), <2>1 DEF Kept
<1>6. CASE InsertState(c)
  <2>1. key[c] \in Generations /\ tup[c] \in Eligible
    BY ZenonT(30), <1>6, <1>c, <1>d DEF InsertState, Verdicts, Creating, Inserting
  <2>2. PacketTypeOK'
    BY ZenonT(30), <1>6, <1>a, <1>b, GotoTypes DEF InsertState
  <2>3. MapsTypeOK'
    <3>1. now[c] \in 0 .. MaxClock
      BY ZenonT(30), <1>a DEF PacketTypeOK
    <3>2. CASE /\ life' = [life EXCEPT ![key[c]] = "CREATING"]
               /\ used' = [used EXCEPT ![key[c]] = now[c]]
               /\ orig' = [orig EXCEPT ![key[c]] = tup[c]]
               /\ UNCHANGED faults
      BY ZenonT(30), <3>1, <3>2, <1>6, <2>1, <1>a DEF InsertState, MapsTypeOK
    <3>3. CASE UNCHANGED stateMap
      BY ZenonT(30), <3>3, <1>6, <1>a, FaultTypes DEF InsertState, MapsTypeOK, FailsIf
    <3> QED BY ZenonT(30), <3>2, <3>3, <1>6 DEF InsertState
  <2> QED BY ZenonT(30), <2>2, <2>3 DEF Kept
<1>7. CASE InsertIndex(c)
  <2>1. key[c] \in Generations /\ IndexTuples(tup[c])[at[c]] \in Tuples
    BY ZenonT(30), <1>7, <1>c, <1>d DEF InsertIndex, Verdicts, Creating, Inserting
  <2>2. PacketTypeOK'
    <3>1. CASE NextIndex(c, "insert_index", "insert_inflight")
      BY ZenonT(30), <3>1, <1>a, <1>b, NextIndexTypes
    <3>2. CASE ~NextIndex(c, "insert_index", "insert_inflight")
      BY SMTT(30), <3>2, <1>7, <1>a, <1>b DEF InsertIndex, PacketTypeOK
    <3> QED BY ZenonT(30), <3>1, <3>2
  <2>3. MapsTypeOK'
    BY ZenonT(30), <1>7, <2>1, <1>a, FaultTypes DEF InsertIndex, MapsTypeOK, FailsIf
  <2> QED BY ZenonT(30), <2>2, <2>3 DEF Kept
<1>8. CASE InsertInflight(c)
  <2>1. key[c] \in Generations
    BY ZenonT(30), <1>8, <1>c DEF InsertInflight, Verdicts
  <2>2. PacketTypeOK'
    BY ZenonT(30), <1>8, <1>a, <1>b, GotoTypes DEF InsertInflight
  <2>3. MapsTypeOK'
    <3>1. CASE UNCHANGED entered
      BY ZenonT(30), <3>1, <1>8, <1>a, FaultTypes DEF InsertInflight, MapsTypeOK, FailsIf
    <3>2. CASE ~UNCHANGED entered
      <4>1. PICK e \in Cells :
              /\ inflight' = [inflight EXCEPT ![key[c]] = e]
              /\ tally' = [tally EXCEPT ![e] = 0]
              /\ recycled' = (recycled \/ \E d \in CPUs : held[d] = e)
        BY ZenonT(30), <3>2, <1>8 DEF InsertInflight, FreeCells
      <4>2. recycled' \in BOOLEAN
        BY ZenonT(30), <4>1
      <4>3. inflight' \in [Generations -> Cells \cup {NoEntry}] /\ tally' \in [Cells -> 0 .. CounterMax]
        BY SMTT(30), <4>1, <2>1, <1>a, BoundAssumption DEF MapsTypeOK
      <4>4. UNCHANGED <<index, stateMap, guard, outcome, slots, generation, time, faults>>
        BY ZenonT(30), <3>2, <1>8 DEF InsertInflight
      <4> QED BY ZenonT(30), <4>2, <4>3, <4>4, <1>a DEF MapsTypeOK
    <3> QED BY ZenonT(30), <3>1, <3>2
  <2> QED BY ZenonT(30), <2>2, <2>3 DEF Kept
<1>9. CASE Publish(c)
  <2>1. key[c] \in Generations
    BY ZenonT(30), <1>9, <1>c DEF Publish, Verdicts
  <2>2. PacketTypeOK'
    <3>1. CASE /\ pc' = [pc EXCEPT ![c] = "drop_check"]
               /\ lost' = [lost EXCEPT ![c] = TRUE]
               /\ UNCHANGED <<tup, now>>
      BY ZenonT(30), <3>1, <1>9, <1>a, <1>b DEF Publish, PacketTypeOK
    <3>2. CASE /\ pc' = [pc EXCEPT ![c] = "lookup"]
               /\ tup' = [tup EXCEPT ![c] = NoEntry]
               /\ now' = [now EXCEPT ![c] = 0]
               /\ UNCHANGED lost
      <4>1. 0 \in 0 .. MaxClock
        BY BoundAssumption
      <4>2. UNCHANGED <<key, at, popped, held, seen, second>>
        BY ZenonT(30), <1>9 DEF Publish
      <4> QED BY ZenonT(30), <4>1, <4>2, <3>2, <1>a, <1>b DEF PacketTypeOK
    <3> QED BY ZenonT(30), <3>1, <3>2, <1>9 DEF Publish
  <2>3. MapsTypeOK'
    <3>1. CASE UNCHANGED stateMap
      BY ZenonT(30), <3>1, <1>9, <1>a, FaultTypes DEF Publish, MapsTypeOK, FailsIf
    <3>2. CASE /\ life' = [life EXCEPT ![key[c]] = "ACTIVE"]
               /\ used' = [used EXCEPT ![key[c]] = now[c]]
               /\ UNCHANGED <<orig, faults>>
      <4>1. now[c] \in 0 .. MaxClock
        BY ZenonT(30), <1>a DEF PacketTypeOK
      <4> QED BY ZenonT(30), <4>1, <3>2, <1>9, <2>1, <1>a DEF Publish, MapsTypeOK
    <3> QED BY ZenonT(30), <3>1, <3>2, <1>9 DEF Publish
  <2> QED BY ZenonT(30), <2>2, <2>3 DEF Kept
<1>10. CASE DropCheck(c)
  <2>1. MapsTypeOK' /\ PacketTypeOK'
    BY ZenonT(30), <1>10, <1>a, <1>b, GotoTypes, NextIndexTypes DEF DropCheck, MapsTypeOK
  <2> QED BY ZenonT(30), <2>1 DEF Kept
<1>11. CASE DropIndex(c)
  <2>1. MapsTypeOK' /\ PacketTypeOK'
    BY ZenonT(30), <1>11, <1>a, <1>b, NextIndexTypes DEF DropIndex, MapsTypeOK
  <2> QED BY ZenonT(30), <2>1 DEF Kept
<1>12. CASE DropInflight(c)
  <2>1. MapsTypeOK' /\ PacketTypeOK'
    BY ZenonT(30), <1>12, <1>a, <1>b, GotoTypes DEF DropInflight, MapsTypeOK
  <2> QED BY ZenonT(30), <2>1 DEF Kept
<1>13. CASE DropState(c)
  <2>1. MapsTypeOK' /\ PacketTypeOK'
    BY ZenonT(30), <1>13, <1>a, <1>b, GotoTypes DEF DropState, MapsTypeOK
  <2> QED BY ZenonT(30), <2>1 DEF Kept
<1>14. CASE ReleaseSlot(c)
  <2>1. MapsTypeOK' /\ PacketTypeOK'
    BY SMTT(30), <1>14, <1>a, EndRollbackTypes, FaultTypes DEF ReleaseSlot, MapsTypeOK, ReleaseFlowSlot
  <2> QED BY ZenonT(30), <2>1 DEF Kept
<1>15. CASE Relookup(c)
  <2>1. MapsTypeOK'
    BY ZenonT(30), <1>15, <1>a DEF Relookup, MapsTypeOK
  <2>2. PacketTypeOK'
    <3>1. CASE Return(c, "SHOT")
      BY ZenonT(30), <3>1, <1>a, <1>b, ReturnTypes
    <3>2. CASE ~Return(c, "SHOT")
      <4>1. tup[c] \in Tuples
        <5>1. pc[c] = "relookup"
          BY ZenonT(30), <1>15 DEF Relookup
        <5>2. PacketHolds
          BY ZenonT(30) DEF TableInv
        <5>3. tup[c] \in Eligible
          BY ZenonT(30), <5>1, <5>2 DEF PacketHolds
        <5> QED BY ZenonT(30), <5>3, TupleAssumption
      <4>2. index[tup[c]] \in Generations \cup {NoEntry} /\ 0 \in 0 .. MaxClock
        BY SMTT(30), <4>1, <1>a, BoundAssumption DEF MapsTypeOK
      <4>3. /\ pc' \in [CPUs -> PacketPCs]
            /\ key' \in [CPUs -> Generations \cup {NoEntry}]
            /\ tup' \in [CPUs -> Eligible \cup {NoEntry}]
            /\ now' \in [CPUs -> 0 .. MaxClock]
        BY SMTT(30), <4>2, <3>2, <1>15, <1>a, <1>b DEF Relookup, PacketTypeOK
      <4>4. UNCHANGED <<at, lost, popped, held, seen, second>>
        BY ZenonT(30), <3>2, <1>15 DEF Relookup
      <4> QED BY ZenonT(30), <4>3, <4>4, <1>a DEF PacketTypeOK
    <3> QED BY ZenonT(30), <3>1, <3>2
  <2> QED BY ZenonT(30), <2>1, <2>2 DEF Kept
<1>16. CASE LookupState(c)
  <2>1. MapsTypeOK' /\ PacketTypeOK'
    BY ZenonT(30), <1>16, <1>a, <1>b, GotoTypes, ReturnTypes DEF LookupState, MapsTypeOK
  <2> QED BY ZenonT(30), <2>1 DEF Kept
<1>17. CASE LookupGuard(c)
  <2>1. key[c] \in Generations
    BY ZenonT(30), <1>17, <1>c DEF LookupGuard, Verdicts
  <2>2. MapsTypeOK'
    BY ZenonT(30), <1>17, <1>a DEF LookupGuard, MapsTypeOK
  <2>3. guard[key[c]] \in Guards \cup {NoEntry}
    BY ZenonT(30), <2>1, <1>a DEF MapsTypeOK
  <2>4. PacketTypeOK'
    BY ZenonT(30), <2>3, <1>17, <1>a, <1>b DEF LookupGuard, PacketTypeOK
  <2> QED BY ZenonT(30), <2>2, <2>4 DEF Kept
<1>18. CASE LookupOutcome(c)
  <2>1. MapsTypeOK' /\ PacketTypeOK'
    BY ZenonT(30), <1>18, <1>a, <1>b, GotoTypes, BlockedTypes, AllowedTypes DEF LookupOutcome, MapsTypeOK
  <2> QED BY ZenonT(30), <2>1 DEF Kept
<1>19. CASE CheckExpiry(c)
  <2>1. PacketTypeOK'
    BY ZenonT(30), <1>19, <1>a, <1>b, GotoTypes, BlockedTypes DEF CheckExpiry
  <2>2. MapsTypeOK'
    BY ZenonT(30), <1>19, <1>a, FaultTypes DEF CheckExpiry, MapsTypeOK, FailsIf
  <2> QED BY ZenonT(30), <2>1, <2>2 DEF Kept
<1>20. CASE RemoveGuard(c)
  <2>1. MapsTypeOK' /\ PacketTypeOK'
    BY ZenonT(30), <1>20, <1>a, AllowedTypes DEF RemoveGuard, MapsTypeOK
  <2> QED BY ZenonT(30), <2>1 DEF Kept
<1>21. CASE RecheckOutcome(c)
  <2>1. MapsTypeOK' /\ PacketTypeOK'
    BY ZenonT(30), <1>21, <1>a, BlockedTypes, AllowedTypes DEF RecheckOutcome, MapsTypeOK
  <2> QED BY ZenonT(30), <2>1 DEF Kept
<1>22. CASE LookupInflight(c)
  <2>1. key[c] \in Generations
    BY ZenonT(30), <1>22, <1>c DEF LookupInflight, Verdicts
  <2>2. MapsTypeOK'
    BY ZenonT(30), <1>22, <1>a DEF LookupInflight, MapsTypeOK
  <2>3. PacketTypeOK'
    <3>1. inflight[key[c]] \in Cells \cup {NoEntry}
      BY ZenonT(30), <2>1, <1>a DEF MapsTypeOK
    <3>2. CASE Return(c, "SHOT")
      BY ZenonT(30), <3>2, <1>a, <1>b, ReturnTypes
    <3>3. CASE ~Return(c, "SHOT")
      BY ZenonT(30), <3>1, <3>3, <1>22, <1>a, <1>b DEF LookupInflight, PacketTypeOK
    <3> QED BY ZenonT(30), <3>2, <3>3
  <2> QED BY ZenonT(30), <2>2, <2>3 DEF Kept
<1>23. CASE EnterSection(c)
  <2>1. held[c] \in Cells
    BY ZenonT(30), <1>23, <1>e DEF EnterSection
  <2>2. PacketTypeOK'
    BY ZenonT(30), <1>23, <1>a, <1>b DEF EnterSection, PacketTypeOK
  <2>3. MapsTypeOK'
    BY SMTT(30), <1>23, <2>1, <1>a, BoundAssumption DEF EnterSection, MapsTypeOK, Plus1
  <2> QED BY ZenonT(30), <2>2, <2>3 DEF Kept
<1>24. CASE ResolveState(c)
  <2>1. MapsTypeOK'
    BY ZenonT(30), <1>24, <1>a DEF ResolveState, MapsTypeOK
  <2>2. PacketTypeOK'
    <3>1. clock \in 0 .. MaxClock
      BY <1>a DEF MapsTypeOK
    <3>2. CASE Goto(c, "backout")
      BY ZenonT(30), <3>2, <1>a, <1>b, GotoTypes
    <3>3. CASE ~Goto(c, "backout")
      BY SMTT(30), <3>1, <3>3, <1>24, <1>a, <1>b DEF ResolveState, PacketTypeOK
    <3> QED BY ZenonT(30), <3>2, <3>3
  <2> QED BY ZenonT(30), <2>1, <2>2 DEF Kept
<1>25. CASE BackOut(c)
  <2>1. held[c] \in Cells
    BY ZenonT(30), <1>25, <1>e DEF BackOut
  <2>2. PacketTypeOK'
    BY ZenonT(30), <1>25, <1>a, <1>b, ReturnTypes DEF BackOut
  <2>3. Minus1(tally[held[c]]) \in 0 .. CounterMax
    BY <2>1, <1>a, BoundAssumption DEF MapsTypeOK, Minus1
  <2>4. tally' \in [Cells -> 0 .. CounterMax]
    BY ZenonT(30), <2>1, <2>3, <1>25, <1>a DEF BackOut, MapsTypeOK
  <2>5. MapsTypeOK'
    BY ZenonT(30), <2>4, <1>25, <1>a DEF BackOut, MapsTypeOK
  <2> QED BY ZenonT(30), <2>2, <2>5 DEF Kept
<1>26. CASE TouchState(c)
  <2>1. key[c] \in Generations
    BY ZenonT(30), <1>26, <1>c DEF TouchState, Verdicts
  <2>2. PacketTypeOK'
    BY ZenonT(30), <1>26, <1>a, <1>b, GotoTypes DEF TouchState
  <2>3. MapsTypeOK'
    BY ZenonT(30), <1>26, <2>1, <1>a DEF TouchState, MapsTypeOK, PacketTypeOK
  <2> QED BY ZenonT(30), <2>2, <2>3 DEF Kept
<1>27. CASE LeaveSection(c)
  <2>1. PacketTypeOK'
    BY ZenonT(30), <1>27, <1>a, <1>b, ReturnTypes DEF LeaveSection
  <2>2. MapsTypeOK'
    <3>1. CASE inflight[key[c]] = NoEntry
      BY ZenonT(30), <3>1, <1>27, <1>a DEF LeaveSection, MapsTypeOK
    <3>2. CASE inflight[key[c]] # NoEntry
      <4>1. inflight[key[c]] \in Cells
        BY ZenonT(30), <3>2, <1>27, <1>a, <1>c DEF LeaveSection, MapsTypeOK, Verdicts
      <4>2. Minus1(tally[inflight[key[c]]]) \in 0 .. CounterMax
        BY SMTT(30), <4>1, <1>a, BoundAssumption DEF MapsTypeOK, Minus1
      <4>3. tally' \in [Cells -> 0 .. CounterMax]
        BY ZenonT(30), <4>1, <4>2, <3>2, <1>27, <1>a DEF LeaveSection, MapsTypeOK
      <4> QED BY ZenonT(30), <4>3, <1>27, <1>a DEF LeaveSection, MapsTypeOK
    <3> QED BY ZenonT(30), <3>1, <3>2
  <2> QED BY ZenonT(30), <2>1, <2>2 DEF Kept
<1> QED
  BY ZenonT(30), <1>1, <1>2, <1>3, <1>4, <1>5, <1>6, <1>7, <1>8, <1>9, <1>10, <1>11, <1>12, <1>13,
     <1>14, <1>15, <1>16, <1>17, <1>18, <1>19, <1>20, <1>21, <1>22, <1>23, <1>24, <1>25,
     <1>26, <1>27
  DEF PacketStep, Kept

\* So does the arrival of a packet.
LEMMA ArrivalTypes ==
  ASSUME TableInv, NEW c \in CPUs, PacketArrives(c)
  PROVE  MapsTypeOK' /\ PacketTypeOK'
<1>a. MapsTypeOK /\ PacketTypeOK
  BY ZenonT(30) DEF TableInv, TypeOK
<1>1. PICK t \in Tuples : PacketHit(c, t) \/ PacketMiss(c, t) \/ PacketCreate(c, t)
  BY ZenonT(30) DEF PacketArrives
<1>2. CASE PacketHit(c, t)
  <2>1. index[t] \in Generations
    BY ZenonT(30), <1>2, <1>a DEF MapsTypeOK, PacketHit
  <2>2. "lookup" \in PacketPCs
    BY ZenonT(30) DEF PacketPCs
  <2> QED BY ZenonT(30), <2>1, <2>2, <1>2, <1>a DEF PacketHit, MapsTypeOK, PacketTypeOK
<1>3. CASE PacketMiss(c, t)
  BY ZenonT(30), <1>3, <1>a, ReturnTypes DEF PacketMiss, MapsTypeOK, Verdicts
<1>4. CASE PacketCreate(c, t)
  <2>1. /\ generation + 1 \in Generations
        /\ clock \in 0 .. MaxClock
        /\ "pop" \in PacketPCs
    BY SMTT(30), <1>4, <1>a, BoundAssumption
    DEF PacketCreate, MapsTypeOK, Generations, PacketPCs, Creating, Reserving
  <2>2. PacketTypeOK'
    BY ZenonT(30), <2>1, <1>4, <1>a DEF PacketCreate, PacketTypeOK
  <2>3. generation' \in 0 .. MaxGeneration
    BY SMTT(30), <1>4, <1>a, BoundAssumption DEF PacketCreate, MapsTypeOK
  <2>4. MapsTypeOK'
    BY ZenonT(30), <2>3, <1>4, <1>a DEF PacketCreate, MapsTypeOK
  <2> QED BY ZenonT(30), <2>2, <2>4
<1> QED BY ZenonT(30), <1>1, <1>2, <1>3, <1>4

\* The clock and the guard deadlines stay in their bounds.
LEMMA TimeTypes ==
  ASSUME TableInv, Time
  PROVE  MapsTypeOK'
<1>a. MapsTypeOK
  BY ZenonT(30) DEF TableInv, TypeOK
<1>1. CASE Tick
  BY SMTT(30), <1>1, <1>a, BoundAssumption DEF Tick, MapsTypeOK
<1>2. ASSUME NEW d \in Guards, DeadlinePasses(d)
      PROVE  MapsTypeOK'
  BY ZenonT(30), <1>2, <1>a DEF DeadlinePasses, MapsTypeOK, Ages
<1> QED BY ZenonT(30), <1>1, <1>2 DEF Time

----------------------------------------------------------------------------
\* The call and every step of delete_flow keep the types.

\* HostGoto moves the deletion to one of its steps.
LEMMA HostGotoTypes ==
  ASSUME HostTypeOK, NEW l \in HostPCs, HostGoto(l)
  PROVE  HostTypeOK'
BY ZenonT(30) DEF HostTypeOK, HostGoto

\* HostNote moves it and sets flags of the report.
LEMMA HostNoteTypes ==
  ASSUME HostTypeOK, NEW l \in HostPCs, NEW flags \in SUBSET Flags, HostNote(l, flags)
  PROVE  HostTypeOK'
BY ZenonT(30) DEF HostTypeOK, HostNote

\* HostReturn answers the RPC with an outcome of the protocol.
LEMMA HostReturnTypes ==
  ASSUME HostTypeOK, NEW flags, HostReturn(flags)
  PROVE  HostTypeOK'
<1>1. ReplyOutcome(flags) \in Outcomes
  BY ZenonT(30) DEF ReplyOutcome, Outcomes
<1>2. reply' \in [key : Generations \cup {NoEntry}, outcome : Outcomes]
  BY ZenonT(30), <1>1 DEF HostReturn, HostTypeOK
<1>3. "idle" \in HostPCs /\ 0 \in 0 .. MaxClock
  BY BoundAssumption DEF HostPCs
<1> QED BY ZenonT(30), <1>2, <1>3 DEF HostTypeOK, HostReturn, Flags

\* EndCleanup goes on to the guard, or answers when none was installed.
LEMMA EndCleanupTypes ==
  ASSUME HostTypeOK, NEW flags \in SUBSET Flags, EndCleanup(flags)
  PROVE  HostTypeOK'
<1>1. "clear_guard" \in HostPCs
  BY ZenonT(30) DEF HostPCs
<1> QED BY ZenonT(30), <1>1, HostNoteTypes, HostReturnTypes DEF EndCleanup

\* The call of delete_flow keeps the types.
LEMMA CallTypes ==
  ASSUME TableInv, NEW k \in Generations, NEW observed \in Observations,
         CallDeleteFlow(k, observed)
  PROVE  MapsTypeOK' /\ HostTypeOK'
<1>1. MapsTypeOK /\ HostTypeOK
  BY ZenonT(30) DEF TableInv, TypeOK
<1>2. "find_state" \in HostPCs /\ observed \in 0 .. MaxClock /\ "none" \in Outcomes
  BY ZenonT(30), BoundAssumption DEF HostPCs, Outcomes
<1>3. NoReply \in [key : Generations \cup {NoEntry}, outcome : Outcomes]
  BY ZenonT(30), <1>2 DEF NoReply
<1>4. MapsTypeOK'
  BY ZenonT(30), <1>1 DEF CallDeleteFlow, DeleteFlow, MapsTypeOK
<1> QED BY ZenonT(30), <1>1, <1>2, <1>3, <1>4 DEF CallDeleteFlow, DeleteFlow, HostTypeOK

\* Every step of delete_flow keeps the types of the maps and of the call.
LEMMA HostStepTypes ==
  ASSUME TableInv, HostStep
  PROVE  MapsTypeOK' /\ HostTypeOK'
<1> DEFINE Kept == MapsTypeOK' /\ HostTypeOK'
<1> SUFFICES Kept
  BY ZenonT(30) DEF Kept
<1> HIDE DEF Kept
<1>a. MapsTypeOK /\ HostTypeOK
  BY ZenonT(30) DEF TableInv, TypeOK
<1>b. hpc # "idle" => hkey \in Generations /\ orig[hkey] \in Eligible
  BY ZenonT(30), <1>a DEF TableInv, HostKnows, MapsTypeOK
<1>c. /\ {"absent_guard", "absent_outcome", "scan_stale", "scan_owned", "read_guard"}
         \subseteq HostPCs
      /\ {"remove_old_guard", "remove_old_outcome", "insert_guard", "drain"} \subseteq HostPCs
      /\ {"read_state", "commit", "unjournal", "check_index", "remove_index"} \subseteq HostPCs
      /\ {"remove_inflight", "read_journal", "push", "clear_guard", "clear_outcome"}
         \subseteq HostPCs
      /\ {"redrain", "reread", "journal", "remove_state"} \subseteq HostPCs
  BY ZenonT(30) DEF HostPCs, Committed
<1>d. /\ {} \in SUBSET Flags /\ {"error"} \in SUBSET Flags /\ {"partial"} \in SUBSET Flags
      /\ {"observation_mismatch"} \in SUBSET Flags /\ {"state_deleted"} \in SUBSET Flags
      /\ {"stale_generation"} \in SUBSET Flags /\ {"index_deleted"} \in SUBSET Flags
  BY ZenonT(30) DEF Flags
<1>1. CASE FindState
  <2>1. HostTypeOK'
    BY ZenonT(30), <1>1, <1>a, <1>c DEF FindState, HostTypeOK
  <2>2. MapsTypeOK'
    BY ZenonT(30), <1>1, <1>a DEF FindState, MapsTypeOK
  <2> QED BY ZenonT(30), <2>1, <2>2 DEF Kept
<1>2. CASE AbsentGuard
  <2>1. HostTypeOK'
    BY ZenonT(30), <1>2, <1>a, <1>c, HostGotoTypes DEF AbsentGuard
  <2>2. MapsTypeOK'
    <3>1. leftover' \subseteq {"guard", "release"} \X Generations
      BY SMTT(30), <1>2, <1>a, <1>b DEF AbsentGuard, MapsTypeOK
    <3> QED BY ZenonT(30), <3>1, <1>2, <1>a, FaultTypes DEF AbsentGuard, MapsTypeOK
  <2> QED BY ZenonT(30), <2>1, <2>2 DEF Kept
<1>3. CASE AbsentOutcome
  <2>1. HostTypeOK'
    BY ZenonT(30), <1>3, <1>a, <1>c, HostGotoTypes DEF AbsentOutcome
  <2>2. MapsTypeOK'
    BY ZenonT(30), <1>3, <1>a, FaultTypes DEF AbsentOutcome, MapsTypeOK
  <2> QED BY ZenonT(30), <2>1, <2>2 DEF Kept
<1>4. CASE ScanStale
  <2>1. HostTypeOK'
    BY ZenonT(30), <1>4, <1>a, <1>c, <1>d DEF ScanStale, HostTypeOK
  <2>2. MapsTypeOK'
    BY ZenonT(30), <1>4, <1>a DEF ScanStale, MapsTypeOK
  <2> QED BY ZenonT(30), <2>1, <2>2 DEF Kept
<1>5. CASE ScanOwned
  <2>1. HostTypeOK'
    BY ZenonT(30), <1>5, <1>a, <1>c DEF ScanOwned, HostTypeOK
  <2>2. MapsTypeOK'
    BY ZenonT(30), <1>5, <1>a DEF ScanOwned, MapsTypeOK
  <2> QED BY ZenonT(30), <2>1, <2>2 DEF Kept
<1>6. CASE ReadGuard
  <2>1. HostTypeOK'
    BY ZenonT(30), <1>6, <1>a, <1>c, HostGotoTypes, HostReturnTypes DEF ReadGuard
  <2>2. MapsTypeOK'
    BY ZenonT(30), <1>6, <1>a DEF ReadGuard, MapsTypeOK
  <2> QED BY ZenonT(30), <2>1, <2>2 DEF Kept
<1>7. CASE RemoveOldGuard
  <2>1. HostTypeOK'
    BY ZenonT(30), <1>7, <1>a, <1>c, HostGotoTypes, HostReturnTypes DEF RemoveOldGuard
  <2>2. MapsTypeOK'
    BY ZenonT(30), <1>7, <1>a, FaultTypes DEF RemoveOldGuard, MapsTypeOK, FailsIf
  <2> QED BY ZenonT(30), <2>1, <2>2 DEF Kept
<1>8. CASE RemoveOldOutcome
  <2>1. HostTypeOK'
    BY ZenonT(30), <1>8, <1>a, <1>c, HostGotoTypes DEF RemoveOldOutcome
  <2>2. MapsTypeOK'
    BY ZenonT(30), <1>8, <1>a, FaultTypes DEF RemoveOldOutcome, MapsTypeOK
  <2> QED BY ZenonT(30), <2>1, <2>2 DEF Kept
<1>9. CASE InsertGuard
  <2>1. HostTypeOK'
    BY ZenonT(30), <1>9, <1>a, <1>c, HostGotoTypes, HostReturnTypes DEF InsertGuard
  <2>2. MapsTypeOK'
    <3>1. CASE UNCHANGED <<guard, age>>
      BY ZenonT(30), <3>1, <1>9, <1>a, FaultTypes DEF InsertGuard, MapsTypeOK, FailsIf
    <3>2. ASSUME NEW d \in Guards, NEW a \in Ages,
                 guard' = [guard EXCEPT ![hkey] = d], age' = [age EXCEPT ![d] = a],
                 UNCHANGED faults
          PROVE  MapsTypeOK'
      BY ZenonT(30), <3>2, <1>9, <1>a DEF InsertGuard, MapsTypeOK
    <3> QED BY ZenonT(30), <3>1, <3>2, <1>9 DEF InsertGuard
  <2> QED BY ZenonT(30), <2>1, <2>2 DEF Kept
<1>10. CASE Drain
  <2>1. HostTypeOK'
    BY ZenonT(30), <1>10, <1>a, <1>c, <1>d, HostGotoTypes, HostNoteTypes DEF Drain
  <2>2. MapsTypeOK'
    BY ZenonT(30), <1>10, <1>a DEF Drain, MapsTypeOK
  <2> QED BY ZenonT(30), <2>1, <2>2 DEF Kept
<1>11. CASE ReadState
  <2>1. HostTypeOK'
    BY ZenonT(30), <1>11, <1>a, <1>c, <1>d, HostGotoTypes, HostNoteTypes DEF ReadState
  <2>2. MapsTypeOK'
    BY ZenonT(30), <1>11, <1>a DEF ReadState, MapsTypeOK
  <2> QED BY ZenonT(30), <2>1, <2>2 DEF Kept
<1>12. CASE Commit
  <2>1. HostTypeOK'
    BY ZenonT(30), <1>12, <1>a, <1>c, <1>d, HostGotoTypes, HostNoteTypes DEF Commit
  <2>2. MapsTypeOK'
    BY ZenonT(30), <1>12, <1>a, FaultTypes DEF Commit, MapsTypeOK, FailsIf
  <2> QED BY ZenonT(30), <2>1, <2>2 DEF Kept
<1>13. CASE Redrain
  <2>1. HostTypeOK'
    BY ZenonT(30), <1>13, <1>a, <1>c, <1>d, HostGotoTypes, HostNoteTypes DEF Redrain
  <2>2. MapsTypeOK'
    BY ZenonT(30), <1>13, <1>a DEF Redrain, MapsTypeOK
  <2> QED BY ZenonT(30), <2>1, <2>2 DEF Kept
<1>14. CASE Reread
  <2>1. HostTypeOK'
    <3>1. CASE \E flags \in SUBSET Flags : HostNote("clear_guard", flags)
      BY ZenonT(30), <3>1, <1>a, <1>c, HostNoteTypes
    <3>2. CASE ~\E flags \in SUBSET Flags : HostNote("clear_guard", flags)
      <4>1. orig[hkey] \in Eligible
        BY ZenonT(30), <1>14, <1>b DEF Reread
      <4>2. {IndexTuples(orig[hkey])[i] : i \in 1 .. 3} \subseteq Tuples
        BY <4>1, TupleAssumption DEF IndexTuples
      <4> QED BY ZenonT(30), <4>2, <3>2, <1>14, <1>a, <1>c, <1>d DEF Reread, HostTypeOK
    <3> QED BY ZenonT(30), <3>1, <3>2
  <2>2. MapsTypeOK'
    BY ZenonT(30), <1>14, <1>a DEF Reread, MapsTypeOK
  <2> QED BY ZenonT(30), <2>1, <2>2 DEF Kept
<1>15. CASE JournalRelease
  <2>1. HostTypeOK'
    BY ZenonT(30), <1>15, <1>a, <1>c, <1>d, HostGotoTypes, HostNoteTypes DEF JournalRelease
  <2>2. MapsTypeOK'
    BY ZenonT(30), <1>15, <1>a, <1>b, FaultTypes DEF JournalRelease, MapsTypeOK
  <2> QED BY ZenonT(30), <2>1, <2>2 DEF Kept
<1>16. CASE RemoveState
  <2>1. HostTypeOK'
    BY ZenonT(30), <1>16, <1>a, <1>c, <1>d, HostGotoTypes, HostNoteTypes DEF RemoveState
  <2>2. MapsTypeOK'
    BY ZenonT(30), <1>16, <1>a, FaultTypes DEF RemoveState, MapsTypeOK, FailsIf
  <2> QED BY ZenonT(30), <2>1, <2>2 DEF Kept
<1>17. CASE Unjournal
  <2>1. HostTypeOK'
    BY ZenonT(30), <1>17, <1>a, <1>c, <1>d, HostGotoTypes DEF Unjournal
  <2>2. MapsTypeOK'
    BY ZenonT(30), <1>17, <1>a, FaultTypes DEF Unjournal, MapsTypeOK
  <2> QED BY ZenonT(30), <2>1, <2>2 DEF Kept
<1>18. CASE CheckIndex
  <2>1. HostTypeOK'
    <3>1. CASE HostGoto("remove_inflight")
      BY ZenonT(30), <3>1, <1>a, <1>c, HostGotoTypes
    <3>2. CASE ~HostGoto("remove_inflight")
      BY ZenonT(30), <3>2, <1>18, <1>a, <1>c, <1>d DEF CheckIndex, HostTypeOK
    <3> QED BY ZenonT(30), <3>1, <3>2
  <2>2. MapsTypeOK'
    BY ZenonT(30), <1>18, <1>a, FaultTypes DEF CheckIndex, MapsTypeOK
  <2> QED BY ZenonT(30), <2>1, <2>2 DEF Kept
<1>19. CASE RemoveIndex
  <2>1. HostTypeOK'
    BY ZenonT(30), <1>19, <1>a, <1>c, <1>d DEF RemoveIndex, HostTypeOK
  <2>2. MapsTypeOK'
    BY ZenonT(30), <1>19, <1>a, FaultTypes DEF RemoveIndex, MapsTypeOK, FailsIf
  <2> QED BY ZenonT(30), <2>1, <2>2 DEF Kept
<1>20. CASE RemoveInflight
  <2>1. HostTypeOK'
    BY ZenonT(30), <1>20, <1>a, <1>c, <1>d, HostGotoTypes, HostNoteTypes DEF RemoveInflight
  <2>2. MapsTypeOK'
    BY ZenonT(30), <1>20, <1>a, FaultTypes DEF RemoveInflight, MapsTypeOK
  <2> QED BY ZenonT(30), <2>1, <2>2 DEF Kept
<1>21. CASE ReadJournal
  <2>1. HostTypeOK'
    BY ZenonT(30), <1>21, <1>a, <1>c, <1>d, HostGotoTypes, EndCleanupTypes DEF ReadJournal
  <2>2. MapsTypeOK'
    BY ZenonT(30), <1>21, <1>a, FaultTypes DEF ReadJournal, MapsTypeOK
  <2> QED BY ZenonT(30), <2>1, <2>2 DEF Kept
<1>22. CASE PushRelease
  <2>1. HostTypeOK'
    BY ZenonT(30), <1>22, <1>a, <1>c, <1>d, EndCleanupTypes DEF PushRelease
  <2>2. MapsTypeOK'
    <3>1. Append(queue, hkey) \in Seq(Generations)
      BY <1>22, <1>a, <1>b DEF PushRelease, MapsTypeOK
    <3>2. queue' \in Seq(Generations)
      BY ZenonT(30), <3>1, <1>22, <1>a DEF PushRelease, MapsTypeOK
    <3>3. faults' \in 0 .. MaxFaults
      BY ZenonT(30), <1>22, <1>a, FaultTypes DEF PushRelease, MapsTypeOK, FailsIf
    <3> QED BY ZenonT(30), <3>2, <3>3, <1>22, <1>a DEF PushRelease, MapsTypeOK
  <2> QED BY ZenonT(30), <2>1, <2>2 DEF Kept
<1>23. CASE ClearGuard
  <2>1. HostTypeOK'
    BY ZenonT(30), <1>23, <1>a, <1>c, <1>d, HostGotoTypes, HostNoteTypes DEF ClearGuard
  <2>2. MapsTypeOK'
    BY ZenonT(30), <1>23, <1>a, FaultTypes DEF ClearGuard, MapsTypeOK
  <2> QED BY ZenonT(30), <2>1, <2>2 DEF Kept
<1>24. CASE ClearOutcome
  <2>1. HostTypeOK'
    BY ZenonT(30), <1>24, <1>a, HostReturnTypes DEF ClearOutcome
  <2>2. MapsTypeOK'
    BY ZenonT(30), <1>24, <1>a, FaultTypes DEF ClearOutcome, MapsTypeOK
  <2> QED BY ZenonT(30), <2>1, <2>2 DEF Kept
<1>25. CASE ReadFails
  <2>1. HostTypeOK'
    BY ZenonT(30), <1>25, <1>a, <1>c, <1>d, HostReturnTypes, EndCleanupTypes DEF ReadFails
  <2>2. MapsTypeOK'
    BY ZenonT(30), <1>25, <1>a, FaultTypes DEF ReadFails, MapsTypeOK
  <2> QED BY ZenonT(30), <2>1, <2>2 DEF Kept
<1> QED
  BY ZenonT(30), <1>1, <1>2, <1>3, <1>4, <1>5, <1>6, <1>7, <1>8, <1>9, <1>10, <1>11, <1>12, <1>13, <1>14,
     <1>15, <1>16, <1>17, <1>18, <1>19, <1>20, <1>21, <1>22, <1>23, <1>24, <1>25
  DEF HostStep, Kept

----------------------------------------------------------------------------
\* What one packet step does: where it comes from, what it holds, what it writes.

\* A packet step leaves the locals of the other CPUs alone.
LEMMA OtherCPUs ==
  ASSUME PacketTypeOK, NEW c \in CPUs, PacketArrives(c) \/ PacketStep(c),
         NEW d \in CPUs, d # c
  PROVE  /\ pc'[d] = pc[d] /\ key'[d] = key[d] /\ tup'[d] = tup[d] /\ now'[d] = now[d]
         /\ held'[d] = held[d] /\ seen'[d] = seen[d] /\ second'[d] = second[d]
         /\ at'[d] = at[d] /\ popped'[d] = popped[d]
<1> DEFINE Others == /\ pc'[d] = pc[d] /\ key'[d] = key[d] /\ tup'[d] = tup[d]
                     /\ now'[d] = now[d] /\ held'[d] = held[d] /\ seen'[d] = seen[d]
                     /\ second'[d] = second[d] /\ at'[d] = at[d] /\ popped'[d] = popped[d]
<1> USE DEF PacketTypeOK
<1>a. ASSUME NEW l, Goto(c, l) PROVE Others
  BY ZenonT(30), <1>a DEF Goto
<1>b. ASSUME NEW v, Return(c, v) PROVE Others
  BY ZenonT(30), <1>b DEF Return
<1>c. ASSUME NEW m, NEW l, NextIndex(c, m, l) PROVE Others
  BY ZenonT(30), <1>c DEF NextIndex
<1>d. Allowed(c) => Others
  BY ZenonT(30) DEF Allowed
<1>1. CASE PopRelease(c) \/ ClaimRelease(c) \/ CreditRelease(c)
            \/ ReserveSlot(c) \/ UndoReservation(c)
  <2>1. CASE PopRelease(c)
    BY ZenonT(30), <2>1, <1>a DEF PopRelease
  <2>2. CASE ClaimRelease(c)
    BY ZenonT(30), <2>2 DEF ClaimRelease
  <2>3. CASE CreditRelease(c)
    BY ZenonT(30), <2>3, <1>a DEF CreditRelease
  <2>4. CASE ReserveSlot(c)
    BY ZenonT(30), <2>4, <1>a DEF ReserveSlot
  <2>5. CASE UndoReservation(c)
    BY ZenonT(30), <2>5, <1>b DEF UndoReservation
  <2> QED BY ZenonT(30), <1>1, <2>1, <2>2, <2>3, <2>4, <2>5
<1>2. CASE InsertState(c) \/ InsertIndex(c) \/ InsertInflight(c)
            \/ Publish(c)
  <2>1. CASE InsertState(c)
    BY ZenonT(30), <2>1, <1>a DEF InsertState
  <2>2. CASE InsertIndex(c)
    BY ZenonT(30), <2>2, <1>c DEF InsertIndex
  <2>3. CASE InsertInflight(c)
    BY ZenonT(30), <2>3, <1>a DEF InsertInflight
  <2>4. CASE Publish(c)
    BY ZenonT(30), <2>4 DEF Publish
  <2> QED BY ZenonT(30), <1>2, <2>1, <2>2, <2>3, <2>4
<1>3. CASE DropCheck(c) \/ DropIndex(c) \/ DropInflight(c)
            \/ DropState(c) \/ ReleaseSlot(c)
  <2>1. CASE DropCheck(c)
    BY ZenonT(30), <2>1, <1>a, <1>c DEF DropCheck
  <2>2. CASE DropIndex(c)
    BY ZenonT(30), <2>2, <1>c DEF DropIndex
  <2>3. CASE DropInflight(c)
    BY ZenonT(30), <2>3, <1>a DEF DropInflight
  <2>4. CASE DropState(c)
    BY ZenonT(30), <2>4, <1>a DEF DropState
  <2>5. CASE ReleaseSlot(c)
    BY ZenonT(30), <2>5, <1>b, <1>a DEF ReleaseSlot, EndRollback
  <2> QED BY ZenonT(30), <1>3, <2>1, <2>2, <2>3, <2>4, <2>5
<1>4. CASE Relookup(c) \/ LookupState(c) \/ LookupGuard(c)
            \/ LookupOutcome(c)
  <2>1. CASE Relookup(c)
    BY ZenonT(30), <2>1, <1>b DEF Relookup
  <2>2. CASE LookupState(c)
    BY ZenonT(30), <2>2, <1>a, <1>b DEF LookupState
  <2>3. CASE LookupGuard(c)
    BY ZenonT(30), <2>3 DEF LookupGuard
  <2>4. CASE LookupOutcome(c)
    BY ZenonT(30), <2>4, <1>d, <1>a, <1>b DEF LookupOutcome, Blocked
  <2> QED BY ZenonT(30), <1>4, <2>1, <2>2, <2>3, <2>4
<1>5. CASE CheckExpiry(c) \/ RemoveGuard(c) \/ RecheckOutcome(c)
  <2>1. CASE CheckExpiry(c)
    BY ZenonT(30), <2>1, <1>a, <1>b DEF CheckExpiry, Blocked
  <2>2. CASE RemoveGuard(c)
    BY ZenonT(30), <2>2, <1>d DEF RemoveGuard
  <2>3. CASE RecheckOutcome(c)
    BY ZenonT(30), <2>3, <1>d, <1>a, <1>b DEF RecheckOutcome, Blocked
  <2> QED BY ZenonT(30), <1>5, <2>1, <2>2, <2>3
<1>6. CASE LookupInflight(c) \/ EnterSection(c) \/ ResolveState(c)
            \/ BackOut(c) \/ TouchState(c) \/ LeaveSection(c)
  <2>1. CASE LookupInflight(c)
    BY ZenonT(30), <2>1, <1>b DEF LookupInflight
  <2>2. CASE EnterSection(c)
    BY ZenonT(30), <2>2 DEF EnterSection
  <2>3. CASE ResolveState(c)
    BY ZenonT(30), <2>3, <1>a DEF ResolveState
  <2>4. CASE BackOut(c)
    BY ZenonT(30), <2>4, <1>b DEF BackOut
  <2>5. CASE TouchState(c)
    BY ZenonT(30), <2>5, <1>a DEF TouchState
  <2>6. CASE LeaveSection(c)
    BY ZenonT(30), <2>6, <1>b DEF LeaveSection
  <2> QED BY ZenonT(30), <1>6, <2>1, <2>2, <2>3, <2>4, <2>5, <2>6
<1>7. CASE PacketArrives(c)
  BY ZenonT(30), <1>7, <1>b DEF PacketArrives, PacketHit, PacketMiss, PacketCreate
<1> QED BY ZenonT(30), <1>1, <1>2, <1>3, <1>4, <1>5, <1>6, <1>7 DEF PacketStep

\* The program counter says which action a packet step is.
LEMMA PacketStepAt ==
  ASSUME NEW c \in CPUs, PacketStep(c)
  PROVE  /\ pc[c] = "pop" => PopRelease(c)
         /\ pc[c] = "claim" => ClaimRelease(c)
         /\ pc[c] = "credit" => CreditRelease(c)
         /\ pc[c] = "add" => ReserveSlot(c)
         /\ pc[c] = "undo" => UndoReservation(c)
         /\ pc[c] = "insert_state" => InsertState(c)
         /\ pc[c] = "insert_index" => InsertIndex(c)
         /\ pc[c] = "insert_inflight" => InsertInflight(c)
         /\ pc[c] = "publish" => Publish(c)
         /\ pc[c] = "drop_check" => DropCheck(c)
         /\ pc[c] = "drop_index" => DropIndex(c)
         /\ pc[c] = "drop_inflight" => DropInflight(c)
         /\ pc[c] = "drop_state" => DropState(c)
         /\ pc[c] = "release" => ReleaseSlot(c)
         /\ pc[c] = "relookup" => Relookup(c)
         /\ pc[c] = "lookup" => LookupState(c)
         /\ pc[c] = "guard" => LookupGuard(c)
         /\ pc[c] = "outcome" => LookupOutcome(c)
         /\ pc[c] = "expiry" => CheckExpiry(c)
         /\ pc[c] = "unguard" => RemoveGuard(c)
         /\ pc[c] = "recheck" => RecheckOutcome(c)
         /\ pc[c] = "inflight" => LookupInflight(c)
         /\ pc[c] = "enter" => EnterSection(c)
         /\ pc[c] = "resolve" => ResolveState(c)
         /\ pc[c] = "backout" => BackOut(c)
         /\ pc[c] = "touch" => TouchState(c)
         /\ pc[c] = "leave" => LeaveSection(c)
BY ZenonT(30) DEF PacketStep, PopRelease, ClaimRelease, CreditRelease, ReserveSlot, UndoReservation,
   InsertState, InsertIndex, InsertInflight, Publish, DropCheck, DropIndex, DropInflight,
   DropState, ReleaseSlot, Relookup, LookupState, LookupGuard, LookupOutcome, CheckExpiry,
   RemoveGuard, RecheckOutcome, LookupInflight, EnterSection, ResolveState, BackOut, TouchState,
   LeaveSection

\* How process_packet moves: a creator comes from a creator and keeps its key,
\* a packet passes the lookup only of an ACTIVE flow and then keeps its key,
\* the in-flight pointer is held exactly from the lookup of the counter to the
\* decrement, and a packet passes its second guard check only if the outcome
\* it read was not COMMITTED.
PacketMove(c) ==
  /\ pc'[c] \in Creating => /\ pc[c] \in Creating /\ key'[c] = key[c]
                            /\ tup'[c] = tup[c] /\ now'[c] = now[c]
  /\ pc'[c] \in Reserving \cup {"insert_state"} => pc[c] \in Reserving
  /\ pc'[c] = "insert_index" => pc[c] \in {"insert_state", "insert_index"}
  /\ pc'[c] = "insert_inflight" => pc[c] = "insert_index"
  /\ pc'[c] = "publish" => pc[c] = "insert_inflight"
  /\ pc'[c] = "relookup" => pc[c] \in Creating /\ tup'[c] = tup[c]
  /\ PastLookup(c)' => key'[c] = key[c]
  /\ PastLookup(c)' => PastLookup(c) \/ (pc[c] = "lookup" /\ life[key[c]] = "ACTIVE")
  /\ pc[c] \notin Verdicts
  /\ \/ key'[c] = key[c]
     \/ pc'[c] \in Verdicts /\ key'[c] = NoEntry
     \/ pc[c] = "relookup" /\ index[tup[c]] # NoEntry /\ key'[c] = index[tup[c]]
  /\ pc'[c] = "expiry" => seen[c] # NoEntry /\ seen'[c] = seen[c]
  /\ second'[c] => InSection(c)'
  /\ (pc[c] = "enter" \/ InSection(c))' <=> held'[c] # NoEntry
  /\ held'[c] # NoEntry => \/ held'[c] = held[c]
                           \/ pc[c] = "inflight" /\ held'[c] = inflight[key[c]]
  /\ pc[c] \notin {"enter", "backout", "leave"} => (InSection(c)' <=> InSection(c))
  /\ pc[c] = "enter" => InSection(c)' /\ ~InSection(c)
  /\ pc[c] \in {"backout", "leave"} => ~InSection(c)' /\ InSection(c)
  /\ InSection(c)' => key'[c] = key[c]
  /\ Passing(c)' => key'[c] = key[c]
  /\ Passing(c)' => Passing(c) \/ (pc[c] = "outcome" /\ outcome[key[c]] # "COMMITTED")
  /\ pc'[c] \in {"touch", "leave"} => \/ pc[c] = "resolve" /\ life[key[c]] = "ACTIVE"
                                      \/ pc[c] = "touch"

\* Taking a slot, with the release queue.
LEMMA ReservingMoves ==
  ASSUME TableInv, NEW c \in CPUs,
         PopRelease(c) \/ ClaimRelease(c) \/ CreditRelease(c)
           \/ ReserveSlot(c) \/ UndoReservation(c)
  PROVE  PacketMove(c)
<1>a. PacketTypeOK
  BY ZenonT(30) DEF TableInv, TypeOK
<1>b. /\ second[c] => InSection(c)
      /\ (pc[c] = "enter" \/ InSection(c)) <=> held[c] # NoEntry
  BY ZenonT(30) DEF TableInv, PacketHolds
<1> USE DEF PacketMove, PacketTypeOK, Creating, Reserving, Inserting, RollingBack, PastLookup,
            InSection, Passing, GuardCheck, Verdicts
<1>1. CASE PopRelease(c)
  BY ZenonT(30), <1>1, <1>a, <1>b DEF PopRelease, Goto
<1>2. CASE ClaimRelease(c)
  BY ZenonT(30), <1>2, <1>a, <1>b DEF ClaimRelease
<1>3. CASE CreditRelease(c)
  BY ZenonT(30), <1>3, <1>a, <1>b DEF CreditRelease, Goto
<1>4. CASE ReserveSlot(c)
  BY ZenonT(30), <1>4, <1>a, <1>b DEF ReserveSlot, Goto
<1>5. CASE UndoReservation(c)
  BY ZenonT(30), <1>5, <1>a, <1>b DEF UndoReservation, Return
<1> HIDE DEF PacketMove
<1> QED BY ZenonT(30), <1>1, <1>2, <1>3, <1>4, <1>5

\* Inserting the flow.
LEMMA InsertingMoves ==
  ASSUME TableInv, NEW c \in CPUs,
         InsertState(c) \/ InsertIndex(c) \/ InsertInflight(c)
           \/ Publish(c)
  PROVE  PacketMove(c)
<1>a. PacketTypeOK
  BY ZenonT(30) DEF TableInv, TypeOK
<1>b. /\ second[c] => InSection(c)
      /\ (pc[c] = "enter" \/ InSection(c)) <=> held[c] # NoEntry
  BY ZenonT(30) DEF TableInv, PacketHolds
<1> USE DEF PacketMove, PacketTypeOK, Creating, Reserving, Inserting, RollingBack, PastLookup,
            InSection, Passing, GuardCheck, Verdicts
<1>1. CASE InsertState(c)
  BY ZenonT(30), <1>1, <1>a, <1>b DEF InsertState, Goto
<1>2. CASE InsertIndex(c)
  BY ZenonT(30), <1>2, <1>a, <1>b DEF InsertIndex, NextIndex
<1>3. CASE InsertInflight(c)
  BY ZenonT(30), <1>3, <1>a, <1>b DEF InsertInflight, Goto
<1>4. CASE Publish(c)
  BY ZenonT(30), <1>4, <1>a, <1>b DEF Publish
<1> HIDE DEF PacketMove
<1> QED BY ZenonT(30), <1>1, <1>2, <1>3, <1>4

\* Taking back what was inserted.
LEMMA RollbackMoves ==
  ASSUME TableInv, NEW c \in CPUs,
         DropCheck(c) \/ DropIndex(c) \/ DropInflight(c)
           \/ DropState(c) \/ ReleaseSlot(c)
  PROVE  PacketMove(c)
<1>a. PacketTypeOK
  BY ZenonT(30) DEF TableInv, TypeOK
<1>b. /\ second[c] => InSection(c)
      /\ (pc[c] = "enter" \/ InSection(c)) <=> held[c] # NoEntry
  BY ZenonT(30) DEF TableInv, PacketHolds
<1> USE DEF PacketMove, PacketTypeOK, Creating, Reserving, Inserting, RollingBack, PastLookup,
            InSection, Passing, GuardCheck, Verdicts
<1>1. CASE DropCheck(c)
  BY ZenonT(30), <1>1, <1>a, <1>b DEF DropCheck, Goto, NextIndex
<1>2. CASE DropIndex(c)
  BY ZenonT(30), <1>2, <1>a, <1>b DEF DropIndex, NextIndex
<1>3. CASE DropInflight(c)
  BY ZenonT(30), <1>3, <1>a, <1>b DEF DropInflight, Goto
<1>4. CASE DropState(c)
  BY ZenonT(30), <1>4, <1>a, <1>b DEF DropState, Goto
<1>5. CASE ReleaseSlot(c)
  <2>1. CASE Return(c, "SHOT")
    BY ZenonT(30), <2>1, <1>5, <1>a, <1>b DEF ReleaseSlot, Return
  <2>2. CASE Goto(c, "relookup")
    BY ZenonT(30), <2>2, <1>5, <1>a, <1>b DEF ReleaseSlot, Goto
  <2> QED BY ZenonT(30), <2>1, <2>2, <1>5 DEF ReleaseSlot, EndRollback
<1> HIDE DEF PacketMove
<1> QED BY ZenonT(30), <1>1, <1>2, <1>3, <1>4, <1>5

\* Finding the flow and its guard.
LEMMA LookupMoves ==
  ASSUME TableInv, NEW c \in CPUs,
         Relookup(c) \/ LookupState(c) \/ LookupGuard(c)
           \/ LookupOutcome(c)
  PROVE  PacketMove(c)
<1>a. PacketTypeOK
  BY ZenonT(30) DEF TableInv, TypeOK
<1>b. /\ second[c] => InSection(c)
      /\ (pc[c] = "enter" \/ InSection(c)) <=> held[c] # NoEntry
  BY ZenonT(30) DEF TableInv, PacketHolds
<1> USE DEF PacketMove, PacketTypeOK, Creating, Reserving, Inserting, RollingBack, PastLookup,
            InSection, Passing, GuardCheck, Verdicts
<1>1. CASE Relookup(c)
  <2>1. CASE Return(c, "SHOT")
    BY ZenonT(30), <2>1, <1>1, <1>a, <1>b DEF Relookup, Return
  <2>2. CASE /\ index[tup[c]] # NoEntry
             /\ key' = [key EXCEPT ![c] = index[tup[c]]]
             /\ pc' = [pc EXCEPT ![c] = "lookup"]
             /\ UNCHANGED <<at, lost, popped, held, seen, second>>
    <3>1. /\ pc[c] = "relookup" /\ pc'[c] = "lookup"
          /\ index[tup[c]] # NoEntry /\ key'[c] = index[tup[c]]
          /\ second'[c] = second[c] /\ held'[c] = held[c]
      BY ZenonT(30), <2>2, <1>1, <1>a DEF Relookup
    <3> QED BY ZenonT(30), <3>1, <1>b
  <2> QED BY ZenonT(30), <2>1, <2>2, <1>1 DEF Relookup
<1>2. CASE LookupState(c)
  <2>1. CASE Goto(c, "guard") /\ life[key[c]] = "ACTIVE"
    BY ZenonT(30), <2>1, <1>2, <1>a, <1>b DEF LookupState, Goto
  <2>2. CASE Return(c, "OK")
    BY ZenonT(30), <2>2, <1>2, <1>a, <1>b DEF LookupState, Return
  <2> QED BY ZenonT(30), <2>1, <2>2, <1>2 DEF LookupState
<1>3. CASE LookupGuard(c)
  BY ZenonT(30), <1>3, <1>a, <1>b DEF LookupGuard
<1>4. CASE LookupOutcome(c)
  <2>1. CASE Goto(c, "backout") /\ second[c]
    BY ZenonT(30), <2>1, <1>4, <1>a, <1>b DEF LookupOutcome, Goto
  <2>2. CASE Return(c, "SHOT") /\ ~second[c]
    BY ZenonT(30), <2>2, <1>4, <1>a, <1>b DEF LookupOutcome, Return
  <2>3. CASE Allowed(c) /\ outcome[key[c]] # "COMMITTED"
    BY ZenonT(30), <2>3, <1>4, <1>a, <1>b DEF LookupOutcome, Allowed
  <2>4. CASE Goto(c, "expiry") /\ seen[c] # NoEntry /\ outcome[key[c]] # "COMMITTED"
    BY ZenonT(30), <2>4, <1>4, <1>a, <1>b DEF LookupOutcome, Goto
  <2> QED BY ZenonT(30), <2>1, <2>2, <2>3, <2>4, <1>4 DEF LookupOutcome, Blocked
<1> HIDE DEF PacketMove
<1> QED BY ZenonT(30), <1>1, <1>2, <1>3, <1>4

\* Judging the guard.
LEMMA GuardMoves ==
  ASSUME TableInv, NEW c \in CPUs,
         CheckExpiry(c) \/ RemoveGuard(c) \/ RecheckOutcome(c)
  PROVE  PacketMove(c)
<1>a. PacketTypeOK
  BY ZenonT(30) DEF TableInv, TypeOK
<1>b. /\ second[c] => InSection(c)
      /\ (pc[c] = "enter" \/ InSection(c)) <=> held[c] # NoEntry
  BY ZenonT(30) DEF TableInv, PacketHolds
<1> USE DEF PacketMove, PacketTypeOK, Creating, Reserving, Inserting, RollingBack, PastLookup,
            InSection, Passing, GuardCheck, Verdicts
<1>1. CASE CheckExpiry(c)
  BY ZenonT(30), <1>1, <1>a, <1>b DEF CheckExpiry, Blocked, Goto, Return
<1>2. CASE RemoveGuard(c)
  BY ZenonT(30), <1>2, <1>a, <1>b DEF RemoveGuard, Allowed
<1>3. CASE RecheckOutcome(c)
  BY ZenonT(30), <1>3, <1>a, <1>b DEF RecheckOutcome, Blocked, Allowed, Goto, Return
<1> HIDE DEF PacketMove
<1> QED BY ZenonT(30), <1>1, <1>2, <1>3

\* Entering and leaving the in-flight section.
LEMMA SectionMoves ==
  ASSUME TableInv, NEW c \in CPUs,
         LookupInflight(c) \/ EnterSection(c) \/ ResolveState(c)
           \/ BackOut(c) \/ TouchState(c) \/ LeaveSection(c)
  PROVE  PacketMove(c)
<1>a. PacketTypeOK
  BY ZenonT(30) DEF TableInv, TypeOK
<1>b. /\ second[c] => InSection(c)
      /\ (pc[c] = "enter" \/ InSection(c)) <=> held[c] # NoEntry
  BY ZenonT(30) DEF TableInv, PacketHolds
<1> USE DEF PacketMove, PacketTypeOK, Creating, Reserving, Inserting, RollingBack, PastLookup,
            InSection, Passing, GuardCheck, Verdicts
<1>1. CASE LookupInflight(c)
  BY ZenonT(30), <1>1, <1>a, <1>b DEF LookupInflight, Return
<1>2. CASE EnterSection(c)
  BY ZenonT(30), <1>2, <1>a, <1>b DEF EnterSection
<1>3. CASE ResolveState(c)
  BY ZenonT(30), <1>3, <1>a, <1>b DEF ResolveState, Goto
<1>4. CASE BackOut(c)
  BY ZenonT(30), <1>4, <1>a, <1>b DEF BackOut, Return
<1>5. CASE TouchState(c)
  BY ZenonT(30), <1>5, <1>a, <1>b DEF TouchState, Goto
<1>6. CASE LeaveSection(c)
  BY ZenonT(30), <1>6, <1>a, <1>b DEF LeaveSection, Return
<1> HIDE DEF PacketMove
<1> QED BY ZenonT(30), <1>1, <1>2, <1>3, <1>4, <1>5, <1>6

\* Every step of process_packet moves that way.
LEMMA PacketControl ==
  ASSUME TableInv, NEW c \in CPUs, PacketStep(c)
  PROVE  PacketMove(c)
BY ZenonT(30), ReservingMoves, InsertingMoves, RollbackMoves, LookupMoves, GuardMoves, SectionMoves DEF PacketStep

\* Which step of process_packet writes which map.
LEMMA PacketStepFrame ==
  ASSUME NEW c \in CPUs, PacketStep(c)
  PROVE  /\ pc[c] \notin {"insert_state", "publish", "drop_state"} => UNCHANGED life
         /\ pc[c] \notin {"insert_state", "publish", "touch"} => UNCHANGED used
         /\ pc[c] # "insert_state" => UNCHANGED orig
         /\ pc[c] \notin {"insert_index", "drop_index"} => UNCHANGED index
         /\ pc[c] \notin {"insert_inflight", "drop_inflight"} => UNCHANGED inflight
         /\ pc[c] \notin {"insert_inflight", "enter", "backout", "leave"} => UNCHANGED tally
         /\ pc[c] # "expiry" => UNCHANGED outcome
         /\ pc[c] # "unguard" => UNCHANGED guard
         /\ pc[c] # "claim" => UNCHANGED leftover
         /\ recycled => recycled'
         /\ UNCHANGED generation
<1>1. CASE PopRelease(c) \/ ClaimRelease(c) \/ CreditRelease(c)
            \/ ReserveSlot(c) \/ UndoReservation(c)
  <2>1. CASE PopRelease(c)
    BY ZenonT(30), <2>1 DEF PopRelease
  <2>2. CASE ClaimRelease(c)
    BY ZenonT(30), <2>2 DEF ClaimRelease
  <2>3. CASE CreditRelease(c)
    BY ZenonT(30), <2>3 DEF CreditRelease
  <2>4. CASE ReserveSlot(c)
    BY ZenonT(30), <2>4 DEF ReserveSlot
  <2>5. CASE UndoReservation(c)
    BY ZenonT(30), <2>5 DEF UndoReservation
  <2> QED BY ZenonT(30), <1>1, <2>1, <2>2, <2>3, <2>4, <2>5
<1>2. CASE InsertState(c) \/ InsertIndex(c) \/ InsertInflight(c)
            \/ Publish(c)
  <2>1. CASE InsertState(c)
    BY ZenonT(30), <2>1 DEF InsertState
  <2>2. CASE InsertIndex(c)
    BY ZenonT(30), <2>2 DEF InsertIndex
  <2>3. CASE InsertInflight(c)
    <3>1. /\ pc[c] = "insert_inflight"
          /\ UNCHANGED <<life, used, orig, index, outcome, guard, leftover, generation>>
      BY ZenonT(30), <2>3 DEF InsertInflight
    <3>2. recycled => recycled'
      BY ZenonT(30), <2>3 DEF InsertInflight
    <3> QED BY ZenonT(30), <3>1, <3>2
  <2>4. CASE Publish(c)
    BY ZenonT(30), <2>4 DEF Publish
  <2> QED BY ZenonT(30), <1>2, <2>1, <2>2, <2>3, <2>4
<1>3. CASE DropCheck(c) \/ DropIndex(c) \/ DropInflight(c)
            \/ DropState(c) \/ ReleaseSlot(c)
  <2>1. CASE DropCheck(c)
    BY ZenonT(30), <2>1 DEF DropCheck
  <2>2. CASE DropIndex(c)
    BY ZenonT(30), <2>2 DEF DropIndex
  <2>3. CASE DropInflight(c)
    BY ZenonT(30), <2>3 DEF DropInflight
  <2>4. CASE DropState(c)
    BY ZenonT(30), <2>4 DEF DropState
  <2>5. CASE ReleaseSlot(c)
    BY ZenonT(30), <2>5 DEF ReleaseSlot
  <2> QED BY ZenonT(30), <1>3, <2>1, <2>2, <2>3, <2>4, <2>5
<1>4. CASE Relookup(c) \/ LookupState(c) \/ LookupGuard(c)
            \/ LookupOutcome(c)
  <2>1. CASE Relookup(c)
    BY ZenonT(30), <2>1 DEF Relookup
  <2>2. CASE LookupState(c)
    BY ZenonT(30), <2>2 DEF LookupState
  <2>3. CASE LookupGuard(c)
    BY ZenonT(30), <2>3 DEF LookupGuard
  <2>4. CASE LookupOutcome(c)
    BY ZenonT(30), <2>4 DEF LookupOutcome
  <2> QED BY ZenonT(30), <1>4, <2>1, <2>2, <2>3, <2>4
<1>5. CASE CheckExpiry(c) \/ RemoveGuard(c) \/ RecheckOutcome(c)
  <2>1. CASE CheckExpiry(c)
    BY ZenonT(30), <2>1 DEF CheckExpiry
  <2>2. CASE RemoveGuard(c)
    BY ZenonT(30), <2>2 DEF RemoveGuard
  <2>3. CASE RecheckOutcome(c)
    BY ZenonT(30), <2>3 DEF RecheckOutcome
  <2> QED BY ZenonT(30), <1>5, <2>1, <2>2, <2>3
<1>6. CASE LookupInflight(c) \/ EnterSection(c) \/ ResolveState(c)
            \/ BackOut(c) \/ TouchState(c) \/ LeaveSection(c)
  <2>1. CASE LookupInflight(c)
    BY ZenonT(30), <2>1 DEF LookupInflight
  <2>2. CASE EnterSection(c)
    BY ZenonT(30), <2>2 DEF EnterSection
  <2>3. CASE ResolveState(c)
    BY ZenonT(30), <2>3 DEF ResolveState
  <2>4. CASE BackOut(c)
    BY ZenonT(30), <2>4 DEF BackOut
  <2>5. CASE TouchState(c)
    BY ZenonT(30), <2>5 DEF TouchState
  <2>6. CASE LeaveSection(c)
    BY ZenonT(30), <2>6 DEF LeaveSection
  <2> QED BY ZenonT(30), <1>6, <2>1, <2>2, <2>3, <2>4, <2>5, <2>6
<1> QED BY ZenonT(30), <1>1, <1>2, <1>3, <1>4, <1>5, <1>6 DEF PacketStep

\* Nobody else works on the generation of a creator.
LEMMA Alone ==
  ASSUME TableInv, NEW c \in CPUs, NEW d \in CPUs, d # c, pc[c] \in Creating,
         key[d] = key[c]
  PROVE  pc[d] \notin Creating /\ ~PastLookup(d)
BY ZenonT(30) DEF TableInv, CreatorAlone

----------------------------------------------------------------------------
\* Every step of process_packet keeps each conjunct of TableInv.

\* Packets and index entries name allocated generations only.
LEMMA PacketStepKeys ==
  ASSUME TableInv, NEW c \in CPUs, PacketStep(c)
  PROVE  AllocatedKeys'
<1>a. MapsTypeOK /\ PacketTypeOK /\ AllocatedKeys
  BY ZenonT(30) DEF TableInv, TypeOK
<1>b. generation' = generation /\ generation \in Nat
  BY <1>a, PacketStepFrame, BoundAssumption DEF MapsTypeOK
<1>c. key[c] \in Generations /\ key[c] <= generation
  BY ZenonT(30), <1>a, KeyInUse, PacketControl DEF PacketMove, AllocatedKeys
<1>1. ASSUME NEW d \in CPUs
      PROVE  key'[d] <= generation /\ (pc'[d] \notin Verdicts => key'[d] # NoEntry)
  <2>1. CASE d = c
    <3>1. CASE pc[c] = "relookup" /\ index[tup[c]] # NoEntry /\ key'[c] = index[tup[c]]
      <4>1. tup[c] \in Tuples
        BY ZenonT(30), <3>1, TupleAssumption DEF TableInv, PacketHolds
      <4> QED BY ZenonT(30), <4>1, <3>1, <2>1, <1>a DEF AllocatedKeys
    <3>2. CASE key'[c] = key[c]
      BY ZenonT(30), <3>2, <2>1, <1>a, <1>c, PacketControl DEF PacketMove, AllocatedKeys
    <3>3. CASE pc'[c] \in Verdicts /\ key'[c] = NoEntry
      BY <3>3, <2>1, <1>b DEF NoEntry
    <3> QED BY ZenonT(30), <3>1, <3>2, <3>3, PacketControl DEF PacketMove
  <2>2. CASE d # c
    BY ZenonT(30), <2>2, <1>a, OtherCPUs DEF AllocatedKeys
  <2> QED BY ZenonT(30), <2>1, <2>2
<1>2. ASSUME NEW t \in Tuples
      PROVE  index'[t] <= generation
  <2>1. CASE pc[c] = "insert_index"
    BY ZenonT(30), <2>1, <1>a, <1>c, PacketStepAt DEF InsertIndex, AllocatedKeys, MapsTypeOK
  <2>2. CASE pc[c] = "drop_index"
    <3>1. index'[t] \in {index[t], NoEntry}
      BY ZenonT(30), <2>2, <1>a, PacketStepAt DEF DropIndex, MapsTypeOK
    <3> QED BY SMTT(30), <3>1, <1>a, <1>b DEF AllocatedKeys, NoEntry
  <2>3. CASE pc[c] \notin {"insert_index", "drop_index"}
    BY ZenonT(30), <2>3, <1>a, PacketStepFrame DEF AllocatedKeys
  <2> QED BY ZenonT(30), <2>1, <2>2, <2>3
<1>3. ASSUME NEW k \in Generations, k > generation
      PROVE  orig'[k] = NoEntry
  <2>1. CASE pc[c] = "insert_state"
    <3>1. k # key[c]
      BY <1>3, <1>b, <1>c DEF Generations
    <3>2. orig[k] = NoEntry
      BY ZenonT(30), <1>3, <1>a DEF AllocatedKeys
    <3>3. InsertState(c)
      BY ZenonT(30), <2>1, PacketStepAt
    <3>4. orig' = orig \/ orig' = [orig EXCEPT ![key[c]] = tup[c]]
      BY ZenonT(30), <3>3 DEF InsertState
    <3> QED BY ZenonT(30), <3>1, <3>2, <3>4, <1>a DEF MapsTypeOK
  <2>2. CASE pc[c] # "insert_state"
    BY ZenonT(30), <2>2, <1>3, <1>a, PacketStepFrame DEF AllocatedKeys
  <2> QED BY ZenonT(30), <2>1, <2>2
<1> QED BY ZenonT(30), <1>b, <1>1, <1>2, <1>3 DEF AllocatedKeys

\* An ACTIVE record has its counter and its original tuple.
LEMMA PacketStepRecords ==
  ASSUME TableInv, NEW c \in CPUs, PacketStep(c)
  PROVE  RecordsComplete'
<1>a. MapsTypeOK /\ PacketTypeOK /\ RecordsComplete
  BY ZenonT(30) DEF TableInv, TypeOK
<1>b. key[c] \in Generations
  BY ZenonT(30), KeyInUse, PacketControl DEF PacketMove
<1>c. pc[c] \in Creating => life[key[c]] # "ACTIVE" /\ tup[c] \in Eligible
  BY ZenonT(30), CreatorTuples DEF TableInv, CreatorAlone
<1>1. CASE pc[c] = "insert_state"
  <2>1. InsertState(c) /\ tup[c] # NoEntry
    BY ZenonT(30), <1>1, <1>c, PacketStepAt, TupleAssumption DEF Creating, Inserting
  <2> QED BY ZenonT(30), <2>1, <1>a, <1>b DEF InsertState, RecordsComplete, MapsTypeOK
<1>2. CASE pc[c] = "publish"
  <2>1. Publish(c)
    BY ZenonT(30), <1>2, PacketStepAt
  <2>2. life[key[c]] # "none" => inflight[key[c]] # NoEntry
    BY ZenonT(30), <1>2 DEF TableInv, CreatorAlone, Creating, Inserting
  <2> QED BY ZenonT(30), <2>1, <2>2, <1>a, <1>b DEF Publish, RecordsComplete, MapsTypeOK
<1>3. CASE pc[c] = "drop_state"
  BY ZenonT(30), <1>3, <1>a, <1>b, PacketStepAt DEF DropState, RecordsComplete, MapsTypeOK
<1>4. CASE pc[c] = "insert_inflight"
  <2>1. InsertInflight(c)
    BY ZenonT(30), <1>4, PacketStepAt
  <2>2. \A k \in Generations : inflight[k] # NoEntry => inflight'[k] # NoEntry
    BY ZenonT(30), <2>1, <1>a, TupleAssumption DEF InsertInflight, FreeCells, MapsTypeOK
  <2> QED BY ZenonT(30), <2>1, <2>2, <1>a DEF InsertInflight, RecordsComplete
<1>5. CASE pc[c] = "drop_inflight"
  BY ZenonT(30), <1>5, <1>a, <1>b, <1>c, PacketStepAt
  DEF DropInflight, RecordsComplete, MapsTypeOK, Creating, RollingBack
<1>6. CASE pc[c] \notin {"insert_state", "publish", "drop_state", "insert_inflight",
                         "drop_inflight"}
  BY ZenonT(30), <1>6, <1>a, PacketStepFrame DEF RecordsComplete
<1> QED BY ZenonT(30), <1>1, <1>2, <1>3, <1>4, <1>5, <1>6

\* A packet past the lookup never finds its flow CREATING again, and it holds
\* its in-flight pointer exactly inside the section.
LEMMA PacketStepHolds ==
  ASSUME TableInv, NEW c \in CPUs, PacketStep(c)
  PROVE  PacketHolds'
<1>a. MapsTypeOK /\ PacketTypeOK /\ PacketHolds
  BY ZenonT(30) DEF TableInv, TypeOK
<1>b. key[c] \in Generations
  BY ZenonT(30), KeyInUse, PacketControl DEF PacketMove
<1>1. ASSUME NEW d \in CPUs
      PROVE  pc'[d] \in Creating \cup {"relookup"} => tup'[d] \in Eligible
  <2>1. CASE d = c
    BY ZenonT(30), <2>1, <1>a, PacketControl DEF PacketMove, PacketHolds
  <2>2. CASE d # c
    BY ZenonT(30), <2>2, <1>a, OtherCPUs DEF PacketHolds
  <2> QED BY ZenonT(30), <2>1, <2>2
<1>2. ASSUME NEW d \in CPUs
      PROVE  pc'[d] = "expiry" => seen'[d] # NoEntry
  <2>1. CASE d = c
    BY ZenonT(30), <2>1, PacketControl DEF PacketMove
  <2>2. CASE d # c
    BY ZenonT(30), <2>2, <1>a, OtherCPUs DEF PacketHolds
  <2> QED BY ZenonT(30), <2>1, <2>2
<1>3. ASSUME NEW d \in CPUs, PastLookup(d)'
      PROVE  life'[key'[d]] # "CREATING"
  <2>1. CASE d = c
    <3>1. /\ key'[c] = key[c]
          /\ PastLookup(c) \/ (pc[c] = "lookup" /\ life[key[c]] = "ACTIVE")
      <4>1. PastLookup(c)'
        BY ZenonT(30), <2>1, <1>3 DEF PastLookup
      <4> QED BY ZenonT(30), <4>1, PacketControl DEF PacketMove
    <3>2. life' = life
      BY ZenonT(30), <3>1, PacketStepFrame DEF PastLookup, GuardCheck
    <3> QED BY ZenonT(30), <3>1, <3>2, <2>1, <1>a DEF PacketHolds
  <2>2. CASE d # c
    <3>1. key'[d] = key[d] /\ PastLookup(d)
      BY ZenonT(30), <2>2, <1>3, <1>a, OtherCPUs DEF PastLookup
    <3>2. key[d] \in Generations /\ life[key[d]] # "CREATING"
      BY ZenonT(30), <3>1, <1>a, KeyInUse DEF PacketHolds, PastLookup, GuardCheck, Verdicts
    <3>3. CASE pc[c] = "insert_state"
      <4>1. key[d] # key[c]
        <5>1. pc[c] \in Creating
          BY ZenonT(30), <3>3 DEF Creating, Inserting
        <5> QED BY ZenonT(30), <5>1, <3>1, <2>2, Alone
      <4>2. InsertState(c)
        BY ZenonT(30), <3>3, PacketStepAt
      <4>3. life' = life \/ life' = [life EXCEPT ![key[c]] = "CREATING"]
        BY ZenonT(30), <4>2 DEF InsertState
      <4> QED BY ZenonT(30), <4>1, <4>3, <3>1, <3>2, <1>a DEF MapsTypeOK
    <3>4. CASE pc[c] = "publish"
      <4>1. Publish(c)
        BY ZenonT(30), <3>4, PacketStepAt
      <4>2. life' = life \/ life' = [life EXCEPT ![key[c]] = "ACTIVE"]
        BY ZenonT(30), <4>1 DEF Publish
      <4> QED BY ZenonT(30), <4>2, <3>1, <3>2, <1>a, <1>b DEF MapsTypeOK
    <3>5. CASE pc[c] = "drop_state"
      <4>1. life' = [life EXCEPT ![key[c]] = "none"]
        BY ZenonT(30), <3>5, PacketStepAt DEF DropState
      <4> QED BY ZenonT(30), <4>1, <3>1, <3>2, <1>a, <1>b DEF MapsTypeOK
    <3>6. CASE pc[c] \notin {"insert_state", "publish", "drop_state"}
      BY ZenonT(30), <3>1, <3>2, <3>6, PacketStepFrame
    <3> QED BY ZenonT(30), <3>3, <3>4, <3>5, <3>6
  <2> QED BY ZenonT(30), <2>1, <2>2
<1>4. ASSUME NEW d \in CPUs
      PROVE  /\ second'[d] => InSection(d)'
             /\ (pc[d] = "enter" \/ InSection(d))' <=> held'[d] # NoEntry
  <2>1. CASE d = c
    BY ZenonT(30), <2>1, PacketControl DEF PacketMove
  <2>2. CASE d # c
    BY ZenonT(30), <2>2, <1>a, OtherCPUs DEF PacketHolds, InSection
  <2> QED BY ZenonT(30), <2>1, <2>2
<1> QED BY ZenonT(30), <1>1, <1>2, <1>3, <1>4 DEF PacketHolds

\* No step of another packet changes the record or the counter of a flow under
\* creation.
LEMMA CreatorsOwn ==
  ASSUME TableInv, NEW c \in CPUs, PacketStep(c), NEW d \in CPUs, d # c, pc[d] \in Creating
  PROVE  /\ life'[key[d]] = life[key[d]] /\ used'[key[d]] = used[key[d]]
         /\ orig'[key[d]] = orig[key[d]] /\ inflight'[key[d]] = inflight[key[d]]
<1>a. MapsTypeOK
  BY ZenonT(30) DEF TableInv, TypeOK
<1>b. pc[d] \notin Verdicts
  BY ZenonT(30) DEF Creating, Reserving, Inserting, RollingBack, Verdicts
<1>c. key[c] \in Generations /\ key[d] \in Generations
  BY ZenonT(30), <1>b, KeyInUse, PacketControl DEF PacketMove
<1>d. pc[c] \in Creating \/ PastLookup(c) => key[c] # key[d]
  BY ZenonT(30), Alone
<1>1. CASE pc[c] = "insert_state"
  <2>1. InsertState(c) /\ key[c] # key[d]
    BY ZenonT(30), <1>1, <1>d, PacketStepAt DEF Creating, Inserting
  <2> QED BY ZenonT(30), <2>1, <1>a, <1>c DEF InsertState, MapsTypeOK
<1>2. CASE pc[c] = "publish"
  <2>1. Publish(c) /\ key[c] # key[d]
    BY ZenonT(30), <1>2, <1>d, PacketStepAt DEF Creating, Inserting
  <2> QED BY ZenonT(30), <2>1, <1>a, <1>c DEF Publish, MapsTypeOK
<1>3. CASE pc[c] = "drop_state"
  <2>1. DropState(c) /\ key[c] # key[d]
    BY ZenonT(30), <1>3, <1>d, PacketStepAt DEF Creating, RollingBack
  <2> QED BY ZenonT(30), <2>1, <1>a, <1>c DEF DropState, MapsTypeOK
<1>4. CASE pc[c] = "insert_inflight"
  <2>1. InsertInflight(c) /\ key[c] # key[d]
    BY ZenonT(30), <1>4, <1>d, PacketStepAt DEF Creating, Inserting
  <2> QED BY ZenonT(30), <2>1, <1>a, <1>c DEF InsertInflight, MapsTypeOK
<1>5. CASE pc[c] = "drop_inflight"
  <2>1. DropInflight(c) /\ key[c] # key[d]
    BY ZenonT(30), <1>5, <1>d, PacketStepAt DEF Creating, RollingBack
  <2> QED BY ZenonT(30), <2>1, <1>a, <1>c DEF DropInflight, MapsTypeOK
<1>6. CASE pc[c] = "touch"
  <2>1. TouchState(c)
    BY ZenonT(30), <1>6, PacketStepAt
  <2>2. key[c] # key[d]
    BY ZenonT(30), <1>6, <1>d DEF PastLookup
  <2> QED BY ZenonT(30), <2>1, <2>2, <1>a, <1>c DEF TouchState, MapsTypeOK
<1>7. CASE pc[c] \notin {"insert_state", "publish", "drop_state", "insert_inflight",
                         "drop_inflight", "touch"}
  BY ZenonT(30), <1>7, PacketStepFrame
<1> QED BY ZenonT(30), <1>1, <1>2, <1>3, <1>4, <1>5, <1>6, <1>7

\* The creator's own step keeps its record unpublished until Publish, with the
\* counter inserted before and the time stamp it was created with.
LEMMA CreatorItself ==
  ASSUME TableInv, NEW c \in CPUs, PacketStep(c), pc'[c] \in Creating
  PROVE  /\ life'[key[c]] # "ACTIVE"
         /\ pc'[c] \in Reserving \cup {"insert_state"} => orig'[key[c]] = NoEntry
         /\ pc'[c] = "publish" => inflight'[key[c]] # NoEntry
         /\ /\ pc'[c] \in {"insert_index", "insert_inflight", "publish"}
            /\ life'[key[c]] # "none"
            => used'[key[c]] = now[c]
<1>a. MapsTypeOK /\ PacketTypeOK
  BY ZenonT(30) DEF TableInv, TypeOK
<1>b. key[c] \in Generations
  BY ZenonT(30), KeyInUse, PacketControl DEF PacketMove
<1>c. pc[c] \in Creating
  BY ZenonT(30), PacketControl DEF PacketMove
<1>d. /\ life[key[c]] # "ACTIVE"
      /\ pc[c] \in Reserving \cup {"insert_state"} => orig[key[c]] = NoEntry
      /\ /\ pc[c] \in {"insert_index", "insert_inflight", "publish"}
         /\ life[key[c]] # "none"
         => used[key[c]] = now[c]
  BY ZenonT(30), <1>c DEF TableInv, CreatorAlone
<1>1. life'[key[c]] # "ACTIVE"
  <2>1. CASE pc[c] = "publish"
    <3>1. Publish(c)
      BY ZenonT(30), <2>1, PacketStepAt
    <3>2. pc'[c] # "lookup"
      BY ZenonT(30) DEF Creating, Reserving, Inserting, RollingBack
    <3> QED BY ZenonT(30), <3>1, <3>2, <1>a, <1>d DEF Publish, PacketTypeOK
  <2>2. CASE pc[c] = "insert_state"
    <3>1. life' = life \/ life' = [life EXCEPT ![key[c]] = "CREATING"]
      BY ZenonT(30), <2>2, PacketStepAt DEF InsertState
    <3> QED BY ZenonT(30), <3>1, <1>a, <1>b, <1>d DEF MapsTypeOK
  <2>3. CASE pc[c] = "drop_state"
    <3>1. life' = [life EXCEPT ![key[c]] = "none"]
      BY ZenonT(30), <2>3, PacketStepAt DEF DropState
    <3> QED BY ZenonT(30), <3>1, <1>a, <1>b DEF MapsTypeOK
  <2>4. CASE pc[c] \notin {"insert_state", "publish", "drop_state"}
    BY ZenonT(30), <2>4, <1>d, PacketStepFrame
  <2> QED BY ZenonT(30), <2>1, <2>2, <2>3, <2>4
<1>2. ASSUME pc'[c] \in Reserving \cup {"insert_state"}
      PROVE  orig'[key[c]] = NoEntry
  <2>1. pc[c] \in Reserving
    BY ZenonT(30), <1>2, PacketControl DEF PacketMove
  <2>2. pc[c] # "insert_state"
    BY ZenonT(30), <2>1 DEF Reserving
  <2> QED BY ZenonT(30), <2>1, <2>2, <1>d, PacketStepFrame
<1>3. ASSUME pc'[c] = "publish"
      PROVE  inflight'[key[c]] # NoEntry
  <2>1. InsertInflight(c)
    BY ZenonT(30), <1>3, PacketControl, PacketStepAt DEF PacketMove
  <2>2. PICK e \in Cells : inflight' = [inflight EXCEPT ![key[c]] = e]
    BY ZenonT(30), <2>1, <1>3, <1>a DEF InsertInflight, Goto, FreeCells, PacketTypeOK
  <2> QED BY ZenonT(30), <2>2, <1>a, <1>b, TupleAssumption DEF MapsTypeOK
<1>4. ASSUME pc'[c] \in {"insert_index", "insert_inflight", "publish"},
             life'[key[c]] # "none"
      PROVE  used'[key[c]] = now[c]
  <2>1. pc[c] \in {"insert_state", "insert_index", "insert_inflight"}
    BY ZenonT(30), <1>4, PacketControl DEF PacketMove
  <2>2. CASE pc[c] = "insert_state"
    <3>1. InsertState(c)
      BY ZenonT(30), <2>2, PacketStepAt
    <3>2. pc'[c] # "release"
      BY ZenonT(30), <1>4
    <3> QED BY ZenonT(30), <3>1, <3>2, <1>a, <1>b DEF InsertState, Goto, PacketTypeOK, MapsTypeOK
  <2>3. CASE pc[c] \in {"insert_index", "insert_inflight"}
    BY ZenonT(30), <2>3, <1>4, <1>d, PacketStepFrame
  <2> QED BY ZenonT(30), <2>1, <2>2, <2>3
<1> QED BY ZenonT(30), <1>1, <1>2, <1>3, <1>4

\* A creator stays alone on its generation.
LEMMA PacketStepAlone ==
  ASSUME TableInv, NEW c \in CPUs, PacketStep(c)
  PROVE  CreatorAlone'
<1>a. MapsTypeOK /\ PacketTypeOK /\ CreatorAlone
  BY ZenonT(30) DEF TableInv, TypeOK
<1>1. ASSUME NEW d \in CPUs, pc'[d] \in Creating
      PROVE  pc[d] \in Creating /\ key'[d] = key[d] /\ now'[d] = now[d]
  BY ZenonT(30), <1>1, <1>a, PacketControl, OtherCPUs DEF PacketMove
<1>2. ASSUME NEW d \in CPUs, pc'[d] \in Creating
      PROVE  /\ life'[key'[d]] # "ACTIVE"
             /\ pc'[d] \in Reserving \cup {"insert_state"} => orig'[key'[d]] = NoEntry
             /\ pc'[d] = "publish" /\ life'[key'[d]] # "none" => inflight'[key'[d]] # NoEntry
             /\ /\ pc'[d] \in {"insert_index", "insert_inflight", "publish"}
                /\ life'[key'[d]] # "none"
                => used'[key'[d]] = now'[d]
  <2>1. pc[d] \in Creating /\ key'[d] = key[d] /\ now'[d] = now[d]
    BY ZenonT(30), <1>1, <1>2
  <2>2. CASE d = c
    BY ZenonT(30), <2>1, <2>2, <1>2, CreatorItself
  <2>3. CASE d # c
    <3>1. /\ life[key[d]] # "ACTIVE"
          /\ pc[d] \in Reserving \cup {"insert_state"} => orig[key[d]] = NoEntry
          /\ pc[d] = "publish" /\ life[key[d]] # "none" => inflight[key[d]] # NoEntry
          /\ /\ pc[d] \in {"insert_index", "insert_inflight", "publish"}
             /\ life[key[d]] # "none"
             => used[key[d]] = now[d]
      BY ZenonT(30), <2>1, <1>a DEF CreatorAlone
    <3>2. pc'[d] = pc[d]
      BY ZenonT(30), <2>3, <1>a, OtherCPUs
    <3> QED BY ZenonT(30), <3>1, <3>2, <2>1, <2>3, CreatorsOwn
  <2> QED BY ZenonT(30), <2>2, <2>3
<1>3. ASSUME NEW d \in CPUs, pc'[d] \in Creating, NEW e \in CPUs, e # d, key'[e] = key'[d]
      PROVE  pc'[e] \notin Creating /\ ~PastLookup(e)'
  <2>1. pc[d] \in Creating /\ key'[d] = key[d]
    BY ZenonT(30), <1>1, <1>3
  <2>2. ASSUME pc'[e] \in Creating PROVE FALSE
    BY ZenonT(30), <2>1, <2>2, <1>1, <1>3, Alone
  <2>3. ASSUME PastLookup(e)' PROVE FALSE
    <3>1. CASE e = c
      <4>1. PastLookup(c)'
        BY ZenonT(30), <2>3, <3>1 DEF PastLookup
      <4>2. /\ key[c] = key[d]
            /\ PastLookup(c) \/ (pc[c] = "lookup" /\ life[key[c]] = "ACTIVE")
        BY ZenonT(30), <4>1, <3>1, <2>1, <1>3, PacketControl DEF PacketMove
      <4>3. life[key[d]] # "ACTIVE"
        BY ZenonT(30), <2>1, <1>a DEF CreatorAlone
      <4> QED BY ZenonT(30), <4>2, <4>3, <3>1, <2>1, <1>3, Alone
    <3>2. CASE e # c
      <4>1. PastLookup(e) /\ key[e] = key[d]
        BY ZenonT(30), <3>2, <2>1, <2>3, <1>3, <1>a, OtherCPUs DEF PastLookup
      <4> QED BY ZenonT(30), <4>1, <2>1, <1>3, Alone
    <3> QED BY ZenonT(30), <3>1, <3>2
  <2> QED BY ZenonT(30), <2>2, <2>3
<1> QED BY ZenonT(30), <1>2, <1>3 DEF CreatorAlone

\* A record that was removed is never inserted again: generations are not
\* reused.
LEMMA NoneStays ==
  ASSUME TableInv, NEW c \in CPUs, PacketStep(c),
         NEW k \in Generations, orig[k] # NoEntry, life[k] = "none"
  PROVE  life'[k] = "none"
<1>a. MapsTypeOK
  BY ZenonT(30) DEF TableInv, TypeOK
<1>b. key[c] \in Generations
  BY ZenonT(30), KeyInUse, PacketControl DEF PacketMove
<1>1. CASE pc[c] = "insert_state"
  <2>1. InsertState(c) /\ orig[key[c]] = NoEntry
    BY ZenonT(30), <1>1, PacketStepAt DEF TableInv, CreatorAlone, Creating, Inserting
  <2> QED BY ZenonT(30), <2>1, <1>a, <1>b DEF InsertState, MapsTypeOK
<1>2. CASE pc[c] = "publish"
  <2>1. Publish(c)
    BY ZenonT(30), <1>2, PacketStepAt
  <2> QED BY ZenonT(30), <2>1, <1>a, <1>b DEF Publish, MapsTypeOK
<1>3. CASE pc[c] = "drop_state"
  <2>1. DropState(c)
    BY ZenonT(30), <1>3, PacketStepAt
  <2> QED BY ZenonT(30), <2>1, <1>a, <1>b DEF DropState, MapsTypeOK
<1>4. CASE pc[c] \notin {"insert_state", "publish", "drop_state"}
  BY ZenonT(30), <1>4, PacketStepFrame
<1> QED BY ZenonT(30), <1>1, <1>2, <1>3, <1>4

\* A packet cannot take from the deletion what it knows: its key stays a
\* generation that had a record, a removed record stays removed, and a
\* COMMITTED outcome stays.
LEMMA PacketStepHost ==
  ASSUME TableInv, NEW c \in CPUs, PacketStep(c), UNCHANGED hostVars
  PROVE  HostKnows'
<1>a. MapsTypeOK /\ HostTypeOK /\ HostKnows
  BY ZenonT(30) DEF TableInv, TypeOK
<1>b. key[c] \in Generations
  BY ZenonT(30), KeyInUse, PacketControl DEF PacketMove
<1>c. hpc' = hpc /\ hkey' = hkey /\ htup' = htup
  BY ZenonT(30) DEF hostVars
<1>1. ASSUME hpc # "idle"
      PROVE  hkey \in Generations /\ orig'[hkey] # NoEntry
  <2>1. hkey \in Generations /\ orig[hkey] # NoEntry
    BY ZenonT(30), <1>1, <1>a DEF HostKnows
  <2>2. CASE pc[c] = "insert_state"
    <3>1. InsertState(c) /\ tup[c] \in Eligible
      BY ZenonT(30), <2>2, PacketStepAt, CreatorTuples DEF Creating, Inserting
    <3>2. tup[c] # NoEntry
      BY ZenonT(30), <3>1, TupleAssumption
    <3> QED BY ZenonT(30), <3>1, <3>2, <2>1, <1>a, <1>b DEF InsertState, MapsTypeOK
  <2>3. CASE pc[c] # "insert_state"
    BY ZenonT(30), <2>1, <2>3, PacketStepFrame
  <2> QED BY ZenonT(30), <2>2, <2>3
<1>2. ASSUME hkey \in Generations, orig[hkey] # NoEntry, life[hkey] = "none"
      PROVE  life'[hkey] = "none"
  BY ZenonT(30), <1>2, NoneStays
<1>3. ASSUME hkey \in Generations, outcome[hkey] = "COMMITTED"
      PROVE  outcome'[hkey] = "COMMITTED"
  <2>1. CASE pc[c] = "expiry"
    <3>1. CheckExpiry(c)
      BY ZenonT(30), <2>1, PacketStepAt
    <3>2. \/ outcome' = outcome
          \/ outcome[key[c]] = "none" /\ outcome' = [outcome EXCEPT ![key[c]] = "ABORTED"]
      BY ZenonT(30), <3>1 DEF CheckExpiry
    <3> QED BY ZenonT(30), <3>2, <1>3, <1>a, <1>b DEF MapsTypeOK
  <2>2. CASE pc[c] # "expiry"
    BY ZenonT(30), <2>2, <1>3, PacketStepFrame
  <2> QED BY ZenonT(30), <2>1, <2>2
<1>4. hpc \in Committed => hpc # "idle"
  BY ZenonT(30) DEF Committed
<1> QED BY ZenonT(30), <1>1, <1>2, <1>3, <1>4, <1>a, <1>c DEF HostKnows

----------------------------------------------------------------------------
\* Arrivals, the deletion and time keep TableInv.

\* The arrival of a packet keeps TableInv: a new generation is above all
\* others.
LEMMA ArrivalInv ==
  ASSUME TableInv, NEW c \in CPUs, PacketArrives(c), UNCHANGED hostVars
  PROVE  AllocatedKeys' /\ RecordsComplete' /\ CreatorAlone' /\ PacketHolds' /\ HostKnows'
<1>a. MapsTypeOK /\ PacketTypeOK
  BY ZenonT(30) DEF TableInv, TypeOK
<1>b. AllocatedKeys /\ RecordsComplete /\ CreatorAlone /\ PacketHolds /\ HostKnows
  BY ZenonT(30) DEF TableInv
<1>c. UNCHANGED <<index, life, used, orig, inflight, outcome>>
  BY ZenonT(30) DEF PacketArrives, PacketHit, PacketMiss, Return, PacketCreate
<1>d. PICK t \in Tuples : PacketHit(c, t) \/ PacketMiss(c, t) \/ PacketCreate(c, t)
  BY ZenonT(30) DEF PacketArrives
<1>e. generation \in Nat /\ generation' \in {generation, generation + 1}
  BY <1>a, <1>d, BoundAssumption DEF MapsTypeOK, PacketHit, PacketMiss, PacketCreate
<1>f. /\ pc[c] \in Verdicts /\ pc'[c] \in Verdicts \cup {"lookup", "pop"}
      /\ pc'[c] = "pop" => /\ key'[c] = generation + 1 /\ generation + 1 \in Generations
                           /\ generation' = generation + 1 /\ tup'[c] \in Eligible
      /\ pc'[c] = "lookup" => key'[c] = index[t] /\ index[t] # NoEntry
      /\ pc'[c] \in Verdicts => key'[c] = NoEntry
  <2>1. CASE PacketHit(c, t)
    BY ZenonT(30), <2>1, <1>a DEF PacketHit, PacketTypeOK, Verdicts
  <2>2. CASE PacketMiss(c, t)
    BY ZenonT(30), <2>2, <1>a DEF PacketMiss, Return, PacketTypeOK, Verdicts
  <2>3. CASE PacketCreate(c, t)
    BY <2>3, <1>a, <1>e, BoundAssumption DEF PacketCreate, PacketTypeOK, Verdicts, Generations
  <2> QED BY ZenonT(30), <1>d, <2>1, <2>2, <2>3
<1>g. ~PastLookup(c)' /\ (pc'[c] \in Creating => pc'[c] = "pop") /\ pc'[c] # "expiry"
  BY ZenonT(30), <1>f DEF PastLookup, GuardCheck, Verdicts, Creating, Reserving, Inserting, RollingBack
<1>h. held'[c] = NoEntry /\ ~second'[c] /\ ~InSection(c)' /\ pc'[c] # "enter"
  <2>1. ~InSection(c) /\ pc[c] # "enter"
    BY ZenonT(30), <1>f DEF InSection, GuardCheck, Verdicts
  <2>2. held[c] = NoEntry /\ ~second[c]
    BY ZenonT(30), <2>1, <1>b DEF PacketHolds
  <2>3. held'[c] = NoEntry /\ ~second'[c]
    BY ZenonT(30), <2>2, <1>a, <1>d DEF PacketHit, PacketMiss, PacketCreate, Return, PacketTypeOK
  <2> QED BY ZenonT(30), <2>3, <1>f DEF InSection, GuardCheck, Verdicts
<1>1. AllocatedKeys'
  <2>1. ASSUME NEW d \in CPUs
        PROVE  key'[d] <= generation' /\ (pc'[d] \notin Verdicts => key'[d] # NoEntry)
    <3>1. CASE d = c
      <4>1. CASE pc'[c] = "pop"
        BY SMTT(30), <4>1, <3>1, <1>e, <1>f DEF NoEntry
      <4>2. CASE pc'[c] = "lookup"
        BY SMTT(30), <4>2, <3>1, <1>a, <1>b, <1>e, <1>f DEF AllocatedKeys, MapsTypeOK, Generations, NoEntry
      <4>3. CASE pc'[c] \in Verdicts
        BY SMTT(30), <4>3, <3>1, <1>e, <1>f DEF NoEntry
      <4> QED BY ZenonT(30), <4>1, <4>2, <4>3, <1>f
    <3>2. CASE d # c
      <4>1. key'[d] = key[d] /\ pc'[d] = pc[d] /\ key[d] \in Nat
        BY SMTT(30), <3>2, <1>a, OtherCPUs DEF PacketTypeOK, Generations, NoEntry
      <4> QED BY SMTT(30), <4>1, <1>b, <1>e DEF AllocatedKeys
    <3> QED BY ZenonT(30), <3>1, <3>2
  <2>2. ASSUME NEW u \in Tuples
        PROVE  index'[u] <= generation'
    <3>1. index[u] \in Nat
      BY <1>a, BoundAssumption DEF MapsTypeOK, Generations, NoEntry
    <3>2. index'[u] = index[u] /\ index[u] <= generation
      BY ZenonT(30), <1>b, <1>c DEF AllocatedKeys
    <3> QED BY SMTT(30), <3>1, <3>2, <1>e
  <2>3. \A k \in Generations : k > generation' => orig'[k] = NoEntry
    BY <1>b, <1>c, <1>e DEF AllocatedKeys, Generations
  <2> QED BY ZenonT(30), <2>1, <2>2, <2>3 DEF AllocatedKeys
<1>2. RecordsComplete'
  BY ZenonT(30), <1>b, <1>c DEF RecordsComplete
<1>3. CreatorAlone'
  <2>1. ASSUME NEW d \in CPUs, pc'[d] \in Creating
        PROVE  /\ life[key'[d]] # "ACTIVE"
               /\ pc'[d] \in Reserving \cup {"insert_state"} => orig[key'[d]] = NoEntry
               /\ pc'[d] = "publish" /\ life[key'[d]] # "none" => inflight[key'[d]] # NoEntry
               /\ /\ pc'[d] \in {"insert_index", "insert_inflight", "publish"}
                  /\ life[key'[d]] # "none"
                  => used[key'[d]] = now'[d]
    <3>1. CASE d = c
      <4>1. pc'[c] = "pop" /\ key'[c] = generation + 1 /\ generation + 1 \in Generations
        BY ZenonT(30), <3>1, <2>1, <1>f, <1>g
      <4>2. orig[generation + 1] = NoEntry
        BY <4>1, <1>b, <1>e DEF AllocatedKeys
      <4>3. life[generation + 1] = "none"
        BY ZenonT(30), <4>1, <4>2, <1>b DEF RecordsComplete
      <4> QED BY ZenonT(30), <4>1, <4>2, <4>3, <3>1
    <3>2. CASE d # c
      <4>1. pc'[d] = pc[d] /\ key'[d] = key[d] /\ now'[d] = now[d]
        BY ZenonT(30), <3>2, <1>a, OtherCPUs
      <4> QED BY ZenonT(30), <4>1, <2>1, <1>b DEF CreatorAlone
    <3> QED BY ZenonT(30), <3>1, <3>2
  <2>2. ASSUME NEW d \in CPUs, pc'[d] \in Creating, NEW e \in CPUs, e # d, key'[e] = key'[d]
        PROVE  pc'[e] \notin Creating /\ ~PastLookup(e)'
    <3>1. CASE d = c
      <4>1. key'[c] = generation + 1
        BY ZenonT(30), <3>1, <2>2, <1>f, <1>g
      <4>2. key'[e] = key[e] /\ key[e] <= generation /\ key[e] \in Nat
        <5>1. key'[e] = key[e]
          BY ZenonT(30), <3>1, <2>2, <1>a, OtherCPUs
        <5>2. key[e] \in Nat
          BY <1>a DEF PacketTypeOK, Generations, NoEntry
        <5> QED BY ZenonT(30), <5>1, <5>2, <1>b DEF AllocatedKeys
      <4> QED BY SMTT(30), <4>1, <4>2, <3>1, <2>2, <1>e
    <3>2. CASE d # c
      <4>1. pc[d] \in Creating /\ key'[d] = key[d]
        BY ZenonT(30), <3>2, <2>2, <1>a, OtherCPUs
      <4>2. CASE e = c
        <5>1. key[d] <= generation /\ key[d] \in Nat
          BY SMTT(30), <1>a, <1>b DEF AllocatedKeys, PacketTypeOK, Generations, NoEntry
        <5>2. pc'[c] # "pop"
          BY SMTT(30), <5>1, <4>1, <4>2, <2>2, <1>e, <1>f
        <5> QED BY ZenonT(30), <5>2, <4>2, <1>g DEF PastLookup
      <4>3. CASE e # c
        BY ZenonT(30), <4>1, <4>3, <2>2, <1>a, OtherCPUs, Alone DEF PastLookup
      <4> QED BY ZenonT(30), <4>2, <4>3
    <3> QED BY ZenonT(30), <3>1, <3>2
  <2> QED BY ZenonT(30), <2>1, <2>2, <1>c DEF CreatorAlone
<1>4. PacketHolds'
  <2>1. ASSUME NEW d \in CPUs
        PROVE  /\ pc'[d] \in Creating \cup {"relookup"} => tup'[d] \in Eligible
               /\ pc'[d] = "expiry" => seen'[d] # NoEntry
               /\ PastLookup(d)' => life'[key'[d]] # "CREATING"
               /\ second'[d] => InSection(d)'
               /\ (pc[d] = "enter" \/ InSection(d))' <=> held'[d] # NoEntry
    <3>1. CASE d = c
      BY ZenonT(30), <3>1, <1>f, <1>g, <1>h DEF Verdicts, PastLookup, InSection
    <3>2. CASE d # c
      BY SMTT(30), <3>2, <1>a, <1>b, <1>c, OtherCPUs DEF PacketHolds, PastLookup, InSection
    <3> QED BY ZenonT(30), <3>1, <3>2
  <2> QED BY ZenonT(30), <2>1 DEF PacketHolds
<1>5. HostKnows'
  BY ZenonT(30), <1>b, <1>c DEF HostKnows, hostVars
<1> QED BY ZenonT(30), <1>1, <1>2, <1>3, <1>4, <1>5

\* Which step of delete_flow writes which map.
LEMMA HostStepFrame ==
  ASSUME HostStep
  PROVE  /\ UNCHANGED <<used, orig, tally, recycled, generation>>
         /\ hpc # "idle"
         /\ life' = life \/ (hpc = "remove_state" /\ life' = [life EXCEPT ![hkey] = "none"])
         /\ \/ inflight' = inflight
            \/ hpc = "remove_inflight" /\ inflight' = [inflight EXCEPT ![hkey] = NoEntry]
         /\ index' = index \/ (hpc = "remove_index" /\ index' = [index EXCEPT ![htup] = NoEntry])
<1>1. CASE FindState
  BY ZenonT(30), <1>1 DEF FindState
<1>2. CASE AbsentGuard
  BY ZenonT(30), <1>2 DEF AbsentGuard
<1>3. CASE AbsentOutcome
  BY ZenonT(30), <1>3 DEF AbsentOutcome
<1>4. CASE ScanStale
  BY ZenonT(30), <1>4 DEF ScanStale
<1>5. CASE ScanOwned
  BY ZenonT(30), <1>5 DEF ScanOwned
<1>6. CASE ReadGuard
  BY ZenonT(30), <1>6 DEF ReadGuard
<1>7. CASE RemoveOldGuard
  BY ZenonT(30), <1>7 DEF RemoveOldGuard
<1>8. CASE RemoveOldOutcome
  BY ZenonT(30), <1>8 DEF RemoveOldOutcome
<1>9. CASE InsertGuard
  BY ZenonT(30), <1>9 DEF InsertGuard
<1>10. CASE Drain
  BY ZenonT(30), <1>10 DEF Drain
<1>11. CASE ReadState
  BY ZenonT(30), <1>11 DEF ReadState
<1>12. CASE Commit
  BY ZenonT(30), <1>12 DEF Commit
<1>13. CASE Redrain
  BY ZenonT(30), <1>13 DEF Redrain
<1>14. CASE Reread
  BY ZenonT(30), <1>14 DEF Reread
<1>15. CASE JournalRelease
  BY ZenonT(30), <1>15 DEF JournalRelease
<1>16. CASE RemoveState
  BY ZenonT(30), <1>16 DEF RemoveState
<1>17. CASE Unjournal
  BY ZenonT(30), <1>17 DEF Unjournal
<1>18. CASE CheckIndex
  BY ZenonT(30), <1>18 DEF CheckIndex
<1>19. CASE RemoveIndex
  BY ZenonT(30), <1>19 DEF RemoveIndex
<1>20. CASE RemoveInflight
  BY ZenonT(30), <1>20 DEF RemoveInflight
<1>21. CASE ReadJournal
  BY ZenonT(30), <1>21 DEF ReadJournal
<1>22. CASE PushRelease
  BY ZenonT(30), <1>22 DEF PushRelease
<1>23. CASE ClearGuard
  BY ZenonT(30), <1>23 DEF ClearGuard
<1>24. CASE ClearOutcome
  BY ZenonT(30), <1>24 DEF ClearOutcome
<1>25. CASE ReadFails
  BY ZenonT(30), <1>25 DEF ReadFails
<1> QED
  BY ZenonT(30), <1>1, <1>2, <1>3, <1>4, <1>5, <1>6, <1>7, <1>8, <1>9, <1>10, <1>11, <1>12, <1>13, <1>14,
     <1>15, <1>16, <1>17, <1>18, <1>19, <1>20, <1>21, <1>22, <1>23, <1>24, <1>25
  DEF HostStep

\* A step of delete_flow keeps what TableInv says of packets and records: it
\* never touches a flow under creation that is not its own, and it removes the
\* counter after the record.
LEMMA HostStepTable ==
  ASSUME TableInv, HostStep, UNCHANGED cpuVars
  PROVE  AllocatedKeys' /\ RecordsComplete' /\ CreatorAlone' /\ PacketHolds'
<1>a. MapsTypeOK /\ PacketTypeOK
  BY ZenonT(30) DEF TableInv, TypeOK
<1>b. AllocatedKeys /\ RecordsComplete /\ CreatorAlone /\ PacketHolds
  BY ZenonT(30) DEF TableInv
<1>c. UNCHANGED <<used, orig, generation, pc, key, tup, now, held, seen, second>>
  BY ZenonT(30), HostStepFrame DEF cpuVars
<1>d. generation \in Nat
  BY SMTT(30), <1>a, BoundAssumption DEF MapsTypeOK
<1>1. \A k \in Generations : life'[k] \in {life[k], "none"}
  BY ZenonT(30), <1>a, HostStepFrame DEF MapsTypeOK
<1>2. \A k \in Generations : inflight'[k] = inflight[k] \/ (life[k] = "none" /\ life'[k] = "none")
  <2>1. CASE inflight' = inflight
    BY ZenonT(30), <2>1
  <2>2. CASE inflight' # inflight
    <3>1. hpc = "remove_inflight" /\ inflight' = [inflight EXCEPT ![hkey] = NoEntry]
      BY ZenonT(30), <2>2, HostStepFrame
    <3>2. life[hkey] = "none" /\ life' = life
      BY ZenonT(30), <3>1, HostStepFrame DEF TableInv, HostKnows
    <3> QED BY ZenonT(30), <3>1, <3>2, <1>a DEF MapsTypeOK
  <2> QED BY ZenonT(30), <2>1, <2>2
<1>3. \A t \in Tuples : index'[t] \in {index[t], NoEntry}
  BY ZenonT(30), <1>a, HostStepFrame DEF MapsTypeOK
<1>4. AllocatedKeys'
  <2>1. ASSUME NEW t \in Tuples
        PROVE  index'[t] <= generation'
    <3>1. index[t] <= generation
      BY ZenonT(30), <1>b DEF AllocatedKeys
    <3> QED BY SMTT(30), <3>1, <1>c, <1>d, <1>3 DEF NoEntry
  <2>2. /\ \A c \in CPUs : key'[c] <= generation' /\ (pc'[c] \notin Verdicts => key'[c] # NoEntry)
        /\ \A k \in Generations : k > generation' => orig'[k] = NoEntry
    BY ZenonT(30), <1>b, <1>c DEF AllocatedKeys
  <2> QED BY ZenonT(30), <2>1, <2>2 DEF AllocatedKeys
<1>5. RecordsComplete'
  BY ZenonT(30), <1>b, <1>c, <1>1, <1>2 DEF RecordsComplete
<1>6. CreatorAlone'
  <2>1. ASSUME NEW c \in CPUs, pc[c] \in Creating
        PROVE  key[c] \in Generations
    BY ZenonT(30), <2>1, KeyInUse DEF Creating, Reserving, Inserting, RollingBack, Verdicts
  <2>2. ASSUME NEW c \in CPUs, pc[c] \in Creating
        PROVE  /\ life'[key[c]] # "ACTIVE"
               /\ pc[c] \in Reserving \cup {"insert_state"} => orig[key[c]] = NoEntry
               /\ pc[c] = "publish" /\ life'[key[c]] # "none" => inflight'[key[c]] # NoEntry
               /\ /\ pc[c] \in {"insert_index", "insert_inflight", "publish"}
                  /\ life'[key[c]] # "none"
                  => used[key[c]] = now[c]
    BY ZenonT(30), <2>1, <2>2, <1>b, <1>1, <1>2 DEF CreatorAlone
  <2>3. ASSUME NEW c \in CPUs, pc[c] \in Creating, NEW d \in CPUs \ {c}, key[d] = key[c]
        PROVE  pc[d] \notin Creating /\ ~PastLookup(d)
    BY ZenonT(30), <2>3, Alone
  <2> QED BY ZenonT(30), <2>2, <2>3, <1>c DEF CreatorAlone, PastLookup
<1>7. PacketHolds'
  <2>1. ASSUME NEW c \in CPUs, PastLookup(c)
        PROVE  life'[key[c]] # "CREATING"
    <3>1. key[c] \in Generations
      BY ZenonT(30), <2>1, KeyInUse DEF PastLookup, GuardCheck, Verdicts
    <3> QED BY ZenonT(30), <3>1, <2>1, <1>b, <1>1 DEF PacketHolds
  <2> QED BY ZenonT(30), <2>1, <1>b, <1>c DEF PacketHolds, PastLookup, InSection
<1> QED BY ZenonT(30), <1>4, <1>5, <1>6, <1>7

\* A step of delete_flow keeps what the deletion itself relies on: past the
\* commit the outcome is COMMITTED, and past the removal the record is gone.
LEMMA HostStepKnows ==
  ASSUME TableInv, HostStep, UNCHANGED cpuVars
  PROVE  HostKnows'
<1>a. MapsTypeOK /\ HostTypeOK
  BY ZenonT(30) DEF TableInv, TypeOK
<1>b. HostKnows /\ hkey \in Generations /\ orig[hkey] # NoEntry /\ orig' = orig
  BY ZenonT(30), HostStepFrame DEF TableInv, HostKnows
<1> USE DEF HostKnows, Committed
<1>1. CASE FindState \/ AbsentGuard \/ AbsentOutcome \/ ScanStale \/ ScanOwned
  <2>1. CASE FindState
    BY ZenonT(30), <2>1, <1>a, <1>b DEF FindState
  <2>2. CASE AbsentGuard
    BY ZenonT(30), <2>2, <1>a, <1>b DEF AbsentGuard, HostGoto
  <2>3. CASE AbsentOutcome
    BY ZenonT(30), <2>3, <1>a, <1>b DEF AbsentOutcome, HostGoto
  <2>4. CASE ScanStale
    BY ZenonT(30), <2>4, <1>a, <1>b DEF ScanStale
  <2>5. CASE ScanOwned
    BY ZenonT(30), <2>5, <1>a, <1>b DEF ScanOwned
  <2> QED BY ZenonT(30), <1>1, <2>1, <2>2, <2>3, <2>4, <2>5
<1>2. CASE ReadGuard \/ RemoveOldGuard \/ RemoveOldOutcome \/ InsertGuard
  <2>1. CASE ReadGuard
    BY ZenonT(30), <2>1, <1>a, <1>b DEF ReadGuard, HostGoto, HostReturn
  <2>2. CASE RemoveOldGuard
    BY ZenonT(30), <2>2, <1>a, <1>b DEF RemoveOldGuard, HostGoto, HostReturn
  <2>3. CASE RemoveOldOutcome
    BY ZenonT(30), <2>3, <1>a, <1>b DEF RemoveOldOutcome, HostGoto
  <2>4. CASE InsertGuard
    BY ZenonT(30), <2>4, <1>a, <1>b DEF InsertGuard, HostGoto, HostReturn
  <2> QED BY ZenonT(30), <1>2, <2>1, <2>2, <2>3, <2>4
<1>3. CASE Drain \/ ReadState \/ Commit \/ Redrain
  <2>1. CASE Drain
    BY ZenonT(30), <2>1, <1>a, <1>b DEF Drain, HostGoto, HostNote
  <2>2. CASE ReadState
    BY ZenonT(30), <2>2, <1>a, <1>b DEF ReadState, HostGoto, HostNote
  <2>3. CASE Commit
    BY ZenonT(30), <2>3, <1>a, <1>b DEF Commit, HostGoto, HostNote, MapsTypeOK
  <2>4. CASE Redrain
    BY ZenonT(30), <2>4, <1>a, <1>b DEF Redrain, HostGoto, HostNote
  <2> QED BY ZenonT(30), <1>3, <2>1, <2>2, <2>3, <2>4
<1>4. CASE Reread \/ JournalRelease \/ RemoveState \/ Unjournal
  <2>1. CASE Reread
    BY ZenonT(30), <2>1, <1>a, <1>b DEF Reread, HostNote
  <2>2. CASE JournalRelease
    BY ZenonT(30), <2>2, <1>a, <1>b DEF JournalRelease, HostGoto, HostNote
  <2>3. CASE RemoveState
    BY ZenonT(30), <2>3, <1>a, <1>b DEF RemoveState, HostNote, MapsTypeOK
  <2>4. CASE Unjournal
    BY ZenonT(30), <2>4, <1>a, <1>b DEF Unjournal, HostGoto
  <2> QED BY ZenonT(30), <1>4, <2>1, <2>2, <2>3, <2>4
<1>5. CASE CheckIndex \/ RemoveIndex \/ RemoveInflight \/ ReadJournal \/ PushRelease
  <2>1. CASE CheckIndex
    <3>1. \A t \in hidx : t # NoEntry
      BY ZenonT(30), <1>a, TupleAssumption DEF HostTypeOK
    <3> QED BY ZenonT(30), <2>1, <1>b, <3>1 DEF CheckIndex, HostGoto
  <2>2. CASE RemoveIndex
    BY ZenonT(30), <2>2, <1>a, <1>b DEF RemoveIndex
  <2>3. CASE RemoveInflight
    BY ZenonT(30), <2>3, <1>a, <1>b DEF RemoveInflight, HostGoto, HostNote
  <2>4. CASE ReadJournal
    BY ZenonT(30), <2>4, <1>a, <1>b DEF ReadJournal, HostGoto, EndCleanup, HostNote, HostReturn
  <2>5. CASE PushRelease
    BY ZenonT(30), <2>5, <1>a, <1>b DEF PushRelease, EndCleanup, HostNote, HostReturn
  <2> QED BY ZenonT(30), <1>5, <2>1, <2>2, <2>3, <2>4, <2>5
<1>6. CASE ClearGuard \/ ClearOutcome \/ ReadFails
  <2>1. CASE ClearGuard
    BY ZenonT(30), <2>1, <1>a, <1>b DEF ClearGuard, HostGoto, HostNote
  <2>2. CASE ClearOutcome
    BY ZenonT(30), <2>2, <1>a, <1>b DEF ClearOutcome, HostReturn
  <2>3. CASE ReadFails
    BY ZenonT(30), <2>3, <1>a, <1>b DEF ReadFails, EndCleanup, HostNote, HostReturn
  <2> QED BY ZenonT(30), <1>6, <2>1, <2>2, <2>3
<1> QED BY ZenonT(30), <1>1, <1>2, <1>3, <1>4, <1>5, <1>6 DEF HostStep

\* The call of delete_flow keeps TableInv.
LEMMA CallInv ==
  ASSUME TableInv, NEW k \in Generations, NEW observed \in Observations,
         CallDeleteFlow(k, observed), UNCHANGED cpuVars
  PROVE  AllocatedKeys' /\ RecordsComplete' /\ CreatorAlone' /\ PacketHolds' /\ HostKnows'
<1>1. UNCHANGED <<maps, cpuVars>>
  BY ZenonT(30) DEF CallDeleteFlow, DeleteFlow
<1>2. AllocatedKeys' /\ RecordsComplete'
  BY ZenonT(30), <1>1 DEF TableInv, AllocatedKeys, RecordsComplete, cpuVars
<1>3. CreatorAlone'
  BY ZenonT(30), <1>1 DEF TableInv, CreatorAlone, PastLookup, cpuVars
<1>4. PacketHolds'
  BY ZenonT(30), <1>1 DEF TableInv, PacketHolds, PastLookup, InSection, cpuVars
<1>5. HostKnows'
  BY ZenonT(30) DEF CallDeleteFlow, DeleteFlow, HostKnows, Committed
<1> QED BY ZenonT(30), <1>2, <1>3, <1>4, <1>5

\* So does the passing of time.
LEMMA TimeInv ==
  ASSUME TableInv, Time, UNCHANGED <<cpuVars, hostVars>>
  PROVE  AllocatedKeys' /\ RecordsComplete' /\ CreatorAlone' /\ PacketHolds' /\ HostKnows'
<1>1. UNCHANGED <<index, life, used, orig, inflight, outcome, generation, cpuVars, hostVars>>
  BY ZenonT(30) DEF Time, Tick, DeadlinePasses
<1>2. AllocatedKeys' /\ RecordsComplete'
  BY ZenonT(30), <1>1 DEF TableInv, AllocatedKeys, RecordsComplete, cpuVars
<1>3. CreatorAlone'
  BY ZenonT(30), <1>1 DEF TableInv, CreatorAlone, PastLookup, cpuVars
<1>4. PacketHolds'
  BY ZenonT(30), <1>1 DEF TableInv, PacketHolds, PastLookup, InSection, cpuVars
<1>5. HostKnows'
  BY ZenonT(30), <1>1 DEF TableInv, HostKnows, hostVars
<1> QED BY ZenonT(30), <1>2, <1>3, <1>4, <1>5

----------------------------------------------------------------------------
\* The invariant.

\* The empty table satisfies TableInv.
LEMMA TableInit == Init => TableInv
<1> SUFFICES ASSUME Init PROVE TableInv
  OBVIOUS
<1> USE DEF Init, MapsInit, PacketInit, HostInit
<1>1. /\ 0 \in 0 .. MaxClock /\ 1 \in 1 .. MaxClock /\ 0 \in 0 .. MaxFaults
      /\ 0 \in 0 .. MaxGeneration /\ 0 \in 0 .. CounterMax /\ << >> \in Seq(Generations) /\ 0 \in Nat
  BY SMTT(30), BoundAssumption
<1>2. MapsTypeOK
  BY ZenonT(30), <1>1 DEF MapsTypeOK, Ages
<1>3. PacketTypeOK
  BY <1>1 DEF PacketTypeOK, PacketPCs, Verdicts
<1>4. HostTypeOK
  <2>1. NoReply \in [key : Generations \cup {NoEntry}, outcome : Outcomes]
    BY ZenonT(30) DEF NoReply, Outcomes
  <2>2. "idle" \in HostPCs
    BY ZenonT(30) DEF HostPCs
  <2> QED BY ZenonT(30), <2>1, <2>2, <1>1 DEF HostTypeOK
<1>5. AllocatedKeys /\ RecordsComplete
  BY SMTT(30) DEF AllocatedKeys, RecordsComplete, Verdicts, NoEntry
<1>6. CreatorAlone /\ PacketHolds
  BY ZenonT(30) DEF CreatorAlone, PacketHolds, Creating, Reserving, Inserting, RollingBack, PastLookup,
         InSection, GuardCheck
<1>7. HostKnows
  BY ZenonT(30) DEF HostKnows, Committed
<1> QED BY ZenonT(30), <1>2, <1>3, <1>4, <1>5, <1>6, <1>7 DEF TableInv, TypeOK

\* TableInv is inductive.
LEMMA TableStep == TableInv /\ [Next]_vars => TableInv'
<1> SUFFICES ASSUME TableInv, [Next]_vars PROVE TableInv'
  OBVIOUS
<1>1. ASSUME NEW c \in CPUs, PacketArrives(c), UNCHANGED hostVars
      PROVE  TableInv'
  <2>1. HostTypeOK'
    BY ZenonT(30), <1>1 DEF TableInv, TypeOK, HostTypeOK, hostVars
  <2> QED BY ZenonT(30), <2>1, <1>1, ArrivalTypes, ArrivalInv DEF TableInv, TypeOK
<1>2. ASSUME NEW c \in CPUs, PacketStep(c), UNCHANGED hostVars
      PROVE  TableInv'
  <2>1. HostTypeOK'
    BY ZenonT(30), <1>2 DEF TableInv, TypeOK, HostTypeOK, hostVars
  <2> QED
    BY ZenonT(30), <2>1, <1>2, PacketStepTypes, PacketStepKeys, PacketStepRecords, PacketStepAlone,
       PacketStepHolds, PacketStepHost
    DEF TableInv, TypeOK
<1>3. ASSUME NEW k \in Generations, NEW observed \in Observations,
             CallDeleteFlow(k, observed), UNCHANGED cpuVars
      PROVE  TableInv'
  <2>1. PacketTypeOK'
    BY ZenonT(30), <1>3 DEF TableInv, TypeOK, PacketTypeOK, cpuVars
  <2> QED BY ZenonT(30), <2>1, <1>3, CallTypes, CallInv DEF TableInv, TypeOK
<1>4. ASSUME HostStep, UNCHANGED cpuVars
      PROVE  TableInv'
  <2>1. PacketTypeOK'
    BY ZenonT(30), <1>4 DEF TableInv, TypeOK, PacketTypeOK, cpuVars
  <2> QED BY ZenonT(30), <2>1, <1>4, HostStepTypes, HostStepTable, HostStepKnows DEF TableInv, TypeOK
<1>5. ASSUME Time, UNCHANGED <<cpuVars, hostVars>>
      PROVE  TableInv'
  <2>1. PacketTypeOK' /\ HostTypeOK'
    BY ZenonT(30), <1>5 DEF TableInv, TypeOK, PacketTypeOK, HostTypeOK, cpuVars, hostVars
  <2> QED BY ZenonT(30), <2>1, <1>5, TimeTypes, TimeInv DEF TableInv, TypeOK
<1>6. CASE UNCHANGED vars
  BY ZenonT(30), <1>6 DEF vars, cpuVars, hostVars, TableInv, TypeOK, MapsTypeOK, PacketTypeOK, HostTypeOK,
              AllocatedKeys, RecordsComplete, CreatorAlone, PacketHolds, HostKnows, PastLookup,
              InSection
<1> QED BY ZenonT(30), <1>1, <1>2, <1>3, <1>4, <1>5, <1>6 DEF Next, Packets, Host

\* process_packet and delete_flow keep the flow table consistent: a creator is
\* alone on its generation until it publishes it, an ACTIVE flow has its
\* counter, packets work on allocated generations, and a deletion past its
\* commit has its outcome on record.
THEOREM TableInvariant == Spec => []TableInv
BY TableInit, TableStep, PTL DEF Spec

\* The maps, the packets and the deletion call keep their types: every key a
\* packet or the deletion works on is a generation, every index entry names
\* one, and no loop over the tuple indexes leaves its range.
THEOREM TypeInvariant == Spec => []TypeOK
<1>1. TableInv => TypeOK
  BY ZenonT(30) DEF TableInv
<1> QED BY <1>1, TableInvariant, PTL
============================================================================
