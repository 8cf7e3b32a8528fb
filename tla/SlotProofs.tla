----------------------------- MODULE SlotProofs ----------------------------
\* SlotInv and FinalInv are inductive when no flow is deleted under its creator:
\* every slot of the active-flow counter is given back once, the table stays
\* within its capacity, and a final reply of DeleteFlow leaves nothing of the
\* generation behind.
EXTENDS IndexProofs, FiniteSetTheorems

USE DEF stateMap, entered, slots, time, maps

----------------------------------------------------------------------------
\* Counting slots.

\* Releases journaled for records that are gone.
Journaled == journal \ Live

\* All the sets that are counted are finite.
LEMMA FiniteSlots ==
  ASSUME TableInv
  PROVE  /\ IsFiniteSet(Live) /\ IsFiniteSet(Journaled)
         /\ IsFiniteSet(HoldingSlot) /\ IsFiniteSet(Reserved)
<1>1. IsFiniteSet(Generations) /\ IsFiniteSet(CPUs)
  BY BoundAssumption, FS_Interval DEF Generations
<1>2. Live \subseteq Generations /\ HoldingSlot \subseteq CPUs /\ Reserved \subseteq CPUs
  BY ZenonT(30) DEF Live, HoldingSlot, Reserved
<1>3. Journaled \subseteq Generations
  BY ZenonT(30) DEF Journaled, TableInv, TypeOK, MapsTypeOK
<1> QED BY ZenonT(30), <1>1, <1>2, <1>3, FS_Subset

\* What a step does to one of the counted sets: it loses or gains the element x,
\* or keeps it as it is.
Loses(S, T, x) == x \in S /\ T = S \ {x}
Gains(S, T, x) == x \notin S /\ T = S \cup {x}

\* The size follows.
LEMMA SizeFollows ==
  ASSUME NEW S, NEW T, NEW x, IsFiniteSet(S)
  PROVE  /\ Cardinality(S) \in Nat
         /\ Loses(S, T, x) => Cardinality(S) > 0 /\ Cardinality(T) = Cardinality(S) - 1
         /\ Gains(S, T, x) => Cardinality(T) = Cardinality(S) + 1
<1>1. Cardinality(S) \in Nat
  BY ZenonT(30), FS_CardinalityType
<1>2. ASSUME Loses(S, T, x)
      PROVE  Cardinality(S) > 0 /\ Cardinality(T) = Cardinality(S) - 1
  <2>1. x \in S /\ T = S \ {x}
    BY ZenonT(30), <1>2 DEF Loses
  <2>2. IsFiniteSet(T) /\ Cardinality(T) = Cardinality(S) - 1
    BY ZenonT(30), <2>1, FS_RemoveElement
  <2>3. Cardinality(T) \in Nat
    BY ZenonT(30), <2>2, FS_CardinalityType
  <2> QED BY <2>2, <2>3, <1>1
<1>3. ASSUME Gains(S, T, x)
      PROVE  Cardinality(T) = Cardinality(S) + 1
  BY ZenonT(30), <1>3, FS_AddElement DEF Gains
<1> QED BY ZenonT(30), <1>1, <1>2, <1>3

\* A packet step moves its own CPU into or out of the sets of CPUs that hold a
\* slot.
LEMMA HoldingMoves ==
  ASSUME TableInv, NEW c \in CPUs, PacketStep(c)
  PROVE  LET H == {"insert_state", "undo", "credit", "release"}
             R == {"insert_state", "credit", "release"}
         IN  /\ (pc[c] \in H <=> pc'[c] \in H) => HoldingSlot' = HoldingSlot
             /\ pc[c] \notin H /\ pc'[c] \in H => Gains(HoldingSlot, HoldingSlot', c)
             /\ pc[c] \in H /\ pc'[c] \notin H => Loses(HoldingSlot, HoldingSlot', c)
             /\ (pc[c] \in R <=> pc'[c] \in R) => Reserved' = Reserved
             /\ pc[c] \notin R /\ pc'[c] \in R => Gains(Reserved, Reserved', c)
             /\ pc[c] \in R /\ pc'[c] \notin R => Loses(Reserved, Reserved', c)
<1>1. \A d \in CPUs \ {c} : pc'[d] = pc[d]
  BY ZenonT(30), OtherCPUs DEF TableInv, TypeOK
<1> QED BY ZenonT(30), <1>1 DEF HoldingSlot, Reserved, Gains, Loses

\* The counter as a sum: what SlotInv says of the sizes l, j, h and r of Live,
\* Journaled, HoldingSlot and Reserved.
Accounted(l, j, h, r, n, f) ==
  /\ n = l + j + h + f
  /\ Capacity # 0 => l + j + r <= Capacity

\* Accounted is SlotInv, before and after a step.
LEMMA SlotSum ==
  /\ SlotInv <=> Accounted(Cardinality(Live), Cardinality(Journaled), Cardinality(HoldingSlot),
                           Cardinality(Reserved), count, gaveUp)
  /\ SlotInv' <=> Accounted(Cardinality(Live'), Cardinality(Journaled'),
                            Cardinality(HoldingSlot'), Cardinality(Reserved'), count', gaveUp')
BY ZenonT(30) DEF SlotInv, SlotAccounting, SlotsWithin, Accounted, Journaled

\* The numbers are naturals.
LEMMA SlotNumbers ==
  ASSUME TableInv
  PROVE  /\ Cardinality(Live) \in Nat /\ Cardinality(Journaled) \in Nat
         /\ Cardinality(HoldingSlot) \in Nat /\ Cardinality(Reserved) \in Nat
         /\ count \in Nat /\ gaveUp \in Nat /\ Capacity \in Nat
<1>1. count \in Nat /\ gaveUp \in Nat /\ Capacity \in Nat
  BY BoundAssumption DEF TableInv, TypeOK, MapsTypeOK
<1> QED BY ZenonT(30), <1>1, FiniteSlots, FS_CardinalityType

\* A step that gives out and takes back nothing.
LEMMA SlotsStay ==
  ASSUME TableInv, SlotInv, count' = count, gaveUp' = gaveUp,
         Live' = Live, Journaled' = Journaled, HoldingSlot' = HoldingSlot, Reserved' = Reserved
  PROVE  SlotInv'
<1> DEFINE l == Cardinality(Live)
           j == Cardinality(Journaled)
           h == Cardinality(HoldingSlot)
           r == Cardinality(Reserved)
<1>1. l \in Nat /\ j \in Nat /\ h \in Nat /\ r \in Nat /\ count \in Nat /\ gaveUp \in Nat
  BY ZenonT(30), SlotNumbers
<1>2. Accounted(l, j, h, r, count, gaveUp)
  BY ZenonT(30), SlotSum
<1>3. SlotInv' <=> Accounted(l, j, h, r, count, gaveUp')
  BY ZenonT(30), SlotSum
<1> HIDE DEF l, j, h, r
<1> QED BY <1>1, <1>2, <1>3 DEF Accounted

\* reserve_flow_slot, third access, and the last access of a rollback: a CPU
\* gives back the slot it holds, and only a release that gave up leaves the
\* counter one too high.
LEMMA SlotReleased ==
  ASSUME TableInv, SlotInv, ReleaseFlowSlot, NEW c, Live' = Live, Journaled' = Journaled,
         Loses(HoldingSlot, HoldingSlot', c), Loses(Reserved, Reserved', c)
  PROVE  SlotInv'
<1> DEFINE l == Cardinality(Live)
           j == Cardinality(Journaled)
           h == Cardinality(HoldingSlot)
           r == Cardinality(Reserved)
<1>1. /\ l \in Nat /\ j \in Nat /\ h \in Nat /\ r \in Nat /\ count \in Nat /\ gaveUp \in Nat
      /\ Capacity \in Nat
  BY ZenonT(30), SlotNumbers
<1>2. Accounted(l, j, h, r, count, gaveUp)
  BY ZenonT(30), SlotSum
<1>3. /\ h > 0 /\ Cardinality(HoldingSlot') = h - 1
      /\ r > 0 /\ Cardinality(Reserved') = r - 1
  BY ZenonT(30), FiniteSlots, SizeFollows
<1>4. SlotInv' <=> Accounted(l, j, h - 1, r - 1, count', gaveUp')
  BY ZenonT(30), <1>3, SlotSum
<1>5. \/ count' = count - 1 /\ gaveUp' = gaveUp
      \/ count' = count /\ gaveUp' = gaveUp + 1
  <2>1. count # 0
    <3> HIDE DEF l, j, h, r
    <3> QED BY SMTT(30), <1>1, <1>2, <1>3 DEF Accounted
  <2> QED BY ZenonT(30), <2>1 DEF ReleaseFlowSlot
<1> HIDE DEF l, j, h, r
<1> QED BY SMTT(30), <1>1, <1>2, <1>3, <1>4, <1>5 DEF Accounted

\* The counter is incremented and looked at: below the capacity the CPU keeps
\* the slot, at the capacity it will take it back.
LEMMA SlotTaken ==
  ASSUME TableInv, SlotInv, NEW c, count' = count + 1, gaveUp' = gaveUp, Live' = Live,
         Journaled' = Journaled, Gains(HoldingSlot, HoldingSlot', c),
         \/ Reserved' = Reserved
         \/ Gains(Reserved, Reserved', c) /\ ~(Capacity # 0 /\ count >= Capacity)
  PROVE  SlotInv'
<1> DEFINE l == Cardinality(Live)
           j == Cardinality(Journaled)
           h == Cardinality(HoldingSlot)
           r == Cardinality(Reserved)
<1>1. /\ l \in Nat /\ j \in Nat /\ h \in Nat /\ r \in Nat /\ count \in Nat /\ gaveUp \in Nat
      /\ Capacity \in Nat
  BY ZenonT(30), SlotNumbers
<1>2. Accounted(l, j, h, r, count, gaveUp)
  BY ZenonT(30), SlotSum
<1>3. Cardinality(HoldingSlot') = h + 1
  BY ZenonT(30), FiniteSlots, SizeFollows
<1>4. r <= h
  <2>1. Reserved \subseteq HoldingSlot
    BY ZenonT(30) DEF Reserved, HoldingSlot
  <2> QED BY ZenonT(30), <2>1, FiniteSlots, FS_Subset
<1>5. CASE Reserved' = Reserved
  <2>1. SlotInv' <=> Accounted(l, j, h + 1, r, count + 1, gaveUp)
    BY ZenonT(30), <1>3, <1>5, SlotSum
  <2> HIDE DEF l, j, h, r
  <2> QED BY <2>1, <1>1, <1>2 DEF Accounted
<1>6. CASE Gains(Reserved, Reserved', c) /\ ~(Capacity # 0 /\ count >= Capacity)
  <2>1. Cardinality(Reserved') = r + 1
    BY ZenonT(30), <1>6, FiniteSlots, SizeFollows
  <2>2. SlotInv' <=> Accounted(l, j, h + 1, r + 1, count + 1, gaveUp)
    BY ZenonT(30), <1>3, <2>1, SlotSum
  <2> HIDE DEF l, j, h, r
  <2> QED BY SMTT(30), <2>2, <1>1, <1>2, <1>4, <1>6 DEF Accounted
<1> QED BY ZenonT(30), <1>5, <1>6

\* The counter is decremented again: the slot was one too many.
LEMMA SlotUndone ==
  ASSUME TableInv, SlotInv, NEW c, count' = Minus1(count), gaveUp' = gaveUp, Live' = Live,
         Journaled' = Journaled, Loses(HoldingSlot, HoldingSlot', c), Reserved' = Reserved
  PROVE  SlotInv'
<1> DEFINE l == Cardinality(Live)
           j == Cardinality(Journaled)
           h == Cardinality(HoldingSlot)
           r == Cardinality(Reserved)
<1>1. /\ l \in Nat /\ j \in Nat /\ h \in Nat /\ r \in Nat /\ count \in Nat /\ gaveUp \in Nat
      /\ Capacity \in Nat
  BY ZenonT(30), SlotNumbers
<1>2. Accounted(l, j, h, r, count, gaveUp)
  BY ZenonT(30), SlotSum
<1>3. h > 0 /\ Cardinality(HoldingSlot') = h - 1
  BY ZenonT(30), FiniteSlots, SizeFollows
<1>4. SlotInv' <=> Accounted(l, j, h - 1, r, count', gaveUp)
  BY ZenonT(30), <1>3, SlotSum
<1> HIDE DEF l, j, h, r
<1> QED BY SMTT(30), <1>1, <1>2, <1>3, <1>4 DEF Accounted, Minus1

\* A slot that moves between a CPU, a record and the journal stays accounted.
LEMMA SlotMoved ==
  ASSUME TableInv, SlotInv, count' = count, gaveUp' = gaveUp, NEW c, NEW k,
         \/ /\ Gains(Live, Live', k) /\ Journaled' = Journaled
            /\ Loses(HoldingSlot, HoldingSlot', c) /\ Loses(Reserved, Reserved', c)
         \/ /\ Loses(Live, Live', k) /\ Journaled' = Journaled
            /\ Gains(HoldingSlot, HoldingSlot', c) /\ Gains(Reserved, Reserved', c)
         \/ /\ Live' = Live /\ Loses(Journaled, Journaled', k)
            /\ Gains(HoldingSlot, HoldingSlot', c) /\ Gains(Reserved, Reserved', c)
         \/ /\ Loses(Live, Live', k) /\ Gains(Journaled, Journaled', k)
            /\ HoldingSlot' = HoldingSlot /\ Reserved' = Reserved
  PROVE  SlotInv'
<1> DEFINE l == Cardinality(Live)
           j == Cardinality(Journaled)
           h == Cardinality(HoldingSlot)
           r == Cardinality(Reserved)
           l1 == Cardinality(Live')
           j1 == Cardinality(Journaled')
           h1 == Cardinality(HoldingSlot')
           r1 == Cardinality(Reserved')
<1>1. /\ l \in Nat /\ j \in Nat /\ h \in Nat /\ r \in Nat /\ count \in Nat /\ gaveUp \in Nat
      /\ Capacity \in Nat
  BY ZenonT(30), SlotNumbers
<1>2. Accounted(l, j, h, r, count, gaveUp)
  BY ZenonT(30), SlotSum
<1>3. \/ l1 = l + 1 /\ j1 = j /\ h1 = h - 1 /\ r1 = r - 1
      \/ l1 = l - 1 /\ j1 = j /\ h1 = h + 1 /\ r1 = r + 1
      \/ l1 = l /\ j1 = j - 1 /\ h1 = h + 1 /\ r1 = r + 1
      \/ l1 = l - 1 /\ j1 = j + 1 /\ h1 = h /\ r1 = r
  BY ZenonT(30), FiniteSlots, SizeFollows
<1>4. SlotInv' <=> Accounted(l1, j1, h1, r1, count, gaveUp')
  BY ZenonT(30), SlotSum
<1> HIDE DEF l, j, h, r, l1, j1, h1, r1
<1> QED BY SMTT(30), <1>1, <1>2, <1>3, <1>4 DEF Accounted

\* The steps of process_packet that take or give back a slot.
LEMMA ReservingSlots ==
  ASSUME TableInv, ReleaseInv, SlotInv, NEW c \in CPUs, PacketStep(c),
         pc[c] \in {"claim", "credit", "add", "undo", "release"}
  PROVE  SlotInv'
<1>a. PacketTypeOK /\ MapsTypeOK
  BY ZenonT(30) DEF TableInv, TypeOK
<1>b. pc \in [CPUs -> PacketPCs]
  BY ZenonT(30), <1>a DEF PacketTypeOK
<1>c. Live' = Live
  BY ZenonT(30), PacketStepFrame DEF Live
<1>d. pc[c] # "claim" => Journaled' = Journaled
  BY ZenonT(30), <1>c, PacketSlots DEF Journaled
<1>1. CASE pc[c] = "claim"
  <2>1. ClaimRelease(c)
    BY ZenonT(30), <1>1, PacketStepAt
  <2>2. /\ count' = count /\ gaveUp' = gaveUp
        /\ \/ /\ popped[c] \in journal /\ journal' = journal \ {popped[c]}
              /\ pc'[c] = "credit"
           \/ journal' = journal /\ pc'[c] = "add"
    BY ZenonT(30), <2>1, <1>b DEF ClaimRelease
  <2>3. CASE popped[c] \in journal /\ journal' = journal \ {popped[c]} /\ pc'[c] = "credit"
    <3>1. popped[c] \notin Live
      BY SMTT(30), <2>3, <1>a DEF ReleaseInv, ReleasesEarned, Live, MapsTypeOK, Generations, NoEntry
    <3>2. Loses(Journaled, Journaled', popped[c])
      BY ZenonT(30), <3>1, <2>3, <1>c DEF Loses, Journaled
    <3>3. Gains(HoldingSlot, HoldingSlot', c) /\ Gains(Reserved, Reserved', c)
      BY ZenonT(30), <1>1, <2>3, HoldingMoves
    <3> QED BY ZenonT(30), <3>2, <3>3, <2>2, <1>c, SlotMoved
  <2>4. CASE journal' = journal /\ pc'[c] = "add"
    <3>1. Journaled' = Journaled
      BY ZenonT(30), <2>4, <1>c DEF Journaled
    <3>2. HoldingSlot' = HoldingSlot /\ Reserved' = Reserved
      BY ZenonT(30), <1>1, <2>4, HoldingMoves
    <3> QED BY ZenonT(30), <3>1, <3>2, <2>2, <1>c, SlotsStay
  <2> QED BY ZenonT(30), <2>2, <2>3, <2>4
<1>2. CASE pc[c] \in {"credit", "release"}
  <2>1. CreditRelease(c) \/ ReleaseSlot(c)
    BY ZenonT(30), <1>2, PacketStepAt
  <2>2. ReleaseFlowSlot /\ pc'[c] \in {"add", "SHOT", "relookup"}
    BY ZenonT(30), <2>1, <1>b DEF CreditRelease, ReleaseSlot, EndRollback, Goto, Return
  <2>3. Loses(HoldingSlot, HoldingSlot', c) /\ Loses(Reserved, Reserved', c)
    BY ZenonT(30), <1>2, <2>2, HoldingMoves
  <2>4. Journaled' = Journaled
    BY ZenonT(30), <1>2, <1>d
  <2> QED BY ZenonT(30), <2>2, <2>3, <2>4, <1>c, SlotReleased
<1>3. CASE pc[c] = "add"
  <2>1. ReserveSlot(c)
    BY ZenonT(30), <1>3, PacketStepAt
  <2>2. /\ count' = count + 1 /\ gaveUp' = gaveUp
        /\ \/ pc'[c] = "undo"
           \/ pc'[c] = "insert_state" /\ ~(Capacity # 0 /\ count >= Capacity)
    BY ZenonT(30), <2>1, <1>b DEF ReserveSlot, Goto
  <2>3. Gains(HoldingSlot, HoldingSlot', c)
    BY ZenonT(30), <1>3, <2>2, HoldingMoves
  <2>4. \/ Reserved' = Reserved
        \/ Gains(Reserved, Reserved', c) /\ ~(Capacity # 0 /\ count >= Capacity)
    BY ZenonT(30), <1>3, <2>2, HoldingMoves
  <2>5. Journaled' = Journaled
    BY ZenonT(30), <1>3, <1>d
  <2> QED BY ZenonT(30), <2>2, <2>3, <2>4, <2>5, <1>c, SlotTaken
<1>4. CASE pc[c] = "undo"
  <2>1. UndoReservation(c)
    BY ZenonT(30), <1>4, PacketStepAt
  <2>2. count' = Minus1(count) /\ gaveUp' = gaveUp /\ pc'[c] = "SHOT"
    BY ZenonT(30), <2>1, <1>b DEF UndoReservation, Return
  <2>3. Loses(HoldingSlot, HoldingSlot', c) /\ Reserved' = Reserved
    BY ZenonT(30), <1>4, <2>2, HoldingMoves
  <2>4. Journaled' = Journaled
    BY ZenonT(30), <1>4, <1>d
  <2> QED BY ZenonT(30), <2>2, <2>3, <2>4, <1>c, SlotUndone
<1> QED BY ZenonT(30), <1>1, <1>2, <1>3, <1>4

\* The record takes over its creator's slot, and gives it back in a rollback.
LEMMA RecordSlots ==
  ASSUME TableInv, IndexInv, ReleaseInv, SlotInv, NEW c \in CPUs, PacketStep(c),
         pc[c] \in {"insert_state", "drop_state"}
  PROVE  SlotInv'
<1>a. PacketTypeOK /\ MapsTypeOK
  BY ZenonT(30) DEF TableInv, TypeOK
<1>b. pc \in [CPUs -> PacketPCs] /\ life \in [Generations -> {"none", "CREATING", "ACTIVE"}]
  BY ZenonT(30), <1>a DEF PacketTypeOK, MapsTypeOK
<1>c. key[c] \in Generations /\ pc[c] \in Creating
  BY ZenonT(30), CreatorKey DEF Creating, Inserting, RollingBack
<1>d. key[c] \notin journal
  BY ZenonT(30), <1>c DEF ReleaseInv, ReleasesEarned, BeingCreated
<1>e. journal' = journal /\ count' = count /\ gaveUp' = gaveUp
  BY ZenonT(30), PacketSlots
<1>1. CASE pc[c] = "insert_state"
  <2>1. InsertState(c)
    BY ZenonT(30), <1>1, PacketStepAt
  <2>2. \/ /\ life[key[c]] = "none" /\ life' = [life EXCEPT ![key[c]] = "CREATING"]
           /\ pc'[c] = "insert_index"
        \/ life' = life /\ pc'[c] = "release"
    BY ZenonT(30), <2>1, <1>b DEF InsertState, Goto
  <2>3. CASE /\ life[key[c]] = "none" /\ life' = [life EXCEPT ![key[c]] = "CREATING"]
             /\ pc'[c] = "insert_index"
    <3>1. Gains(Live, Live', key[c])
      BY ZenonT(30), <2>3, <1>b, <1>c DEF Live, Gains
    <3>2. Journaled' = Journaled
      BY ZenonT(30), <3>1, <1>d, <1>e DEF Journaled, Gains
    <3>3. Loses(HoldingSlot, HoldingSlot', c) /\ Loses(Reserved, Reserved', c)
      BY ZenonT(30), <1>1, <2>3, HoldingMoves
    <3> QED BY ZenonT(30), <3>1, <3>2, <3>3, <1>e, SlotMoved
  <2>4. CASE life' = life /\ pc'[c] = "release"
    <3>1. Live' = Live /\ Journaled' = Journaled
      BY ZenonT(30), <2>4, <1>e DEF Live, Journaled
    <3>2. HoldingSlot' = HoldingSlot /\ Reserved' = Reserved
      BY ZenonT(30), <1>1, <2>4, HoldingMoves
    <3> QED BY ZenonT(30), <3>1, <3>2, <1>e, SlotsStay
  <2> QED BY ZenonT(30), <2>2, <2>3, <2>4
<1>2. CASE pc[c] = "drop_state"
  <2>1. DropState(c)
    BY ZenonT(30), <1>2, PacketStepAt
  <2>2. life' = [life EXCEPT ![key[c]] = "none"] /\ pc'[c] = "release"
    BY ZenonT(30), <2>1, <1>b DEF DropState, Goto
  <2>3. life[key[c]] = "CREATING"
    BY ZenonT(30), <1>2 DEF IndexInv, CreatorIndexed, Inserted
  <2>4. Loses(Live, Live', key[c])
    BY ZenonT(30), <2>2, <2>3, <1>b, <1>c DEF Live, Loses
  <2>5. Journaled' = Journaled
    BY ZenonT(30), <2>4, <1>d, <1>e DEF Journaled, Loses
  <2>6. Gains(HoldingSlot, HoldingSlot', c) /\ Gains(Reserved, Reserved', c)
    BY ZenonT(30), <1>2, <2>2, HoldingMoves
  <2> QED BY ZenonT(30), <2>4, <2>5, <2>6, <1>e, SlotMoved
<1> QED BY ZenonT(30), <1>1, <1>2

\* All other steps of process_packet leave the slots where they are: publishing
\* a record does not change that there is one.
LEMMA OtherSlots ==
  ASSUME TableInv, IndexInv, SlotInv, NEW c \in CPUs, PacketStep(c),
         pc[c] \notin {"claim", "credit", "add", "undo", "release", "insert_state", "drop_state"}
  PROVE  SlotInv'
<1>a. pc \in [CPUs -> PacketPCs] /\ life \in [Generations -> {"none", "CREATING", "ACTIVE"}]
  BY ZenonT(30) DEF TableInv, TypeOK, MapsTypeOK, PacketTypeOK
<1>b. journal' = journal /\ count' = count /\ gaveUp' = gaveUp
  BY ZenonT(30), PacketSlots
<1>1. Live' = Live
  <2>1. CASE pc[c] = "publish"
    <3>1. Publish(c)
      BY ZenonT(30), <2>1, PacketStepAt
    <3>2. life' = life \/ (life[key[c]] # "none" /\ life' = [life EXCEPT ![key[c]] = "ACTIVE"])
      BY ZenonT(30), <3>1 DEF Publish
    <3> QED BY ZenonT(30), <3>2, <1>a DEF Live
  <2>2. CASE pc[c] # "publish"
    BY ZenonT(30), <2>2, PacketStepFrame DEF Live
  <2> QED BY ZenonT(30), <2>1, <2>2
<1>2. Journaled' = Journaled
  BY ZenonT(30), <1>1, <1>b DEF Journaled
<1>3. pc'[c] \notin {"insert_state", "undo", "credit", "release"}
  <2>1. CASE pc[c] \notin Creating
    BY ZenonT(30), <2>1, PassiveStep DEF Creating, Reserving, Inserting, RollingBack
  <2>2. CASE pc[c] = "pop"
    <3>1. PopRelease(c)
      BY ZenonT(30), <2>2, PacketStepAt
    <3> QED BY ZenonT(30), <3>1, <1>a DEF PopRelease, Goto
  <2>3. CASE pc[c] \in {"insert_index", "insert_inflight", "publish"}
    <3>1. InsertIndex(c) \/ InsertInflight(c) \/ Publish(c)
      BY ZenonT(30), <2>3, PacketStepAt
    <3> QED BY ZenonT(30), <3>1, <1>a DEF InsertIndex, InsertInflight, Publish, NextIndex, Goto
  <2>4. CASE pc[c] \in {"drop_check", "drop_index", "drop_inflight"}
    <3>1. DropCheck(c) \/ DropIndex(c) \/ DropInflight(c)
      BY ZenonT(30), <2>4, PacketStepAt
    <3> QED BY ZenonT(30), <3>1, <1>a DEF DropCheck, DropIndex, DropInflight, NextIndex, Goto
  <2> QED BY ZenonT(30), <2>1, <2>2, <2>3, <2>4 DEF Creating, Reserving, Inserting, RollingBack
<1>4. HoldingSlot' = HoldingSlot /\ Reserved' = Reserved
  BY ZenonT(30), <1>3, HoldingMoves
<1> QED BY ZenonT(30), <1>1, <1>2, <1>4, <1>b, SlotsStay

\* The deletion moves a slot from the record to the journal, and otherwise moves
\* none: only a release whose record is still there is journaled or taken back.
LEMMA HostSlotInv ==
  ASSUME TableInv, ReleaseInv, SlotInv, HostStep, UNCHANGED cpuVars
  PROVE  SlotInv'
<1>a. HostProgress /\ life \in [Generations -> {"none", "CREATING", "ACTIVE"}]
  BY ZenonT(30) DEF ReleaseInv, TableInv, TypeOK, MapsTypeOK
<1>b. count' = count /\ gaveUp' = gaveUp
  BY ZenonT(30), HostSlots
<1>c. HoldingSlot' = HoldingSlot /\ Reserved' = Reserved
  BY ZenonT(30) DEF HoldingSlot, Reserved, cpuVars
<1>d. hkey \in Generations
  BY ZenonT(30), HostStepFrame DEF TableInv, HostKnows
<1>1. CASE life' = life
  <2>1. Live' = Live
    BY ZenonT(30), <1>1 DEF Live
  <2>2. hpc \in {"journal", "unjournal"} => hkey \in Live
    BY ZenonT(30), <1>a, <1>d DEF HostProgress, Finding, Committed, Live
  <2>3. Journaled' = Journaled
    BY ZenonT(30), <2>1, <2>2, HostSlots DEF Journaled
  <2> QED BY ZenonT(30), <2>1, <2>3, <1>b, <1>c, SlotsStay
<1>2. CASE life' # life
  <2>1. hpc = "remove_state" /\ life' = [life EXCEPT ![hkey] = "none"]
    BY ZenonT(30), <1>2, HostStepFrame
  <2>2. life[hkey] # "none" /\ hkey \in journal
    BY ZenonT(30), <2>1, <1>a DEF HostProgress, Finding, Committed
  <2>3. journal' = journal
    BY ZenonT(30), <2>1, HostSlots
  <2>4. Loses(Live, Live', hkey)
    BY ZenonT(30), <2>1, <2>2, <1>a, <1>d DEF Live, Loses
  <2>5. Gains(Journaled, Journaled', hkey)
    BY ZenonT(30), <2>2, <2>3, <2>4 DEF Journaled, Loses, Gains
  <2> QED BY ZenonT(30), <2>4, <2>5, <1>b, <1>c, SlotMoved
<1> QED BY ZenonT(30), <1>1, <1>2

\* The empty table has given out no slot.
LEMMA SlotInit == Init => SlotInv
<1> SUFFICES ASSUME Init PROVE SlotInv
  OBVIOUS
<1>1. Live = {} /\ Journaled = {} /\ HoldingSlot = {} /\ Reserved = {}
  BY ZenonT(30) DEF Init, MapsInit, PacketInit, Live, Journaled, HoldingSlot, Reserved
<1>2. Cardinality({}) = 0
  BY ZenonT(30), FS_EmptySet
<1>3. count = 0 /\ gaveUp = 0 /\ Capacity \in Nat
  BY ZenonT(30), BoundAssumption DEF Init, MapsInit
<1> QED BY SMTT(30), <1>1, <1>2, <1>3, SlotSum DEF Accounted

\* Every step keeps SlotInv.
LEMMA SlotStep ==
  ASSUME TableInv, IndexInv, ReleaseInv, SlotInv, [Next]_vars
  PROVE  SlotInv'
<1>1. ASSUME NEW c \in CPUs, PacketStep(c)
      PROVE  SlotInv'
  BY ZenonT(30), <1>1, ReservingSlots, RecordSlots, OtherSlots
<1>2. ASSUME NEW c \in CPUs, PacketArrives(c)
      PROVE  SlotInv'
  <2>1. UNCHANGED <<life, journal, count, gaveUp>>
    BY ZenonT(30), <1>2, ArrivalFrame
  <2>2. /\ pc[c] \notin {"insert_state", "undo", "credit", "release"}
        /\ pc'[c] \notin {"insert_state", "undo", "credit", "release"}
    BY ZenonT(30), <1>2, ArrivalFrame DEF Verdicts
  <2>3. \A d \in CPUs \ {c} : pc'[d] = pc[d]
    BY ZenonT(30), <1>2, OtherCPUs DEF TableInv, TypeOK
  <2>4. HoldingSlot' = HoldingSlot /\ Reserved' = Reserved
    BY ZenonT(30), <2>2, <2>3 DEF HoldingSlot, Reserved
  <2>5. Live' = Live /\ Journaled' = Journaled
    BY ZenonT(30), <2>1 DEF Live, Journaled
  <2> QED BY ZenonT(30), <2>1, <2>4, <2>5, SlotsStay
<1>3. ASSUME UNCHANGED <<life, journal, count, gaveUp, pc>>
      PROVE  SlotInv'
  <2>1. /\ HoldingSlot' = HoldingSlot /\ Reserved' = Reserved
        /\ Live' = Live /\ Journaled' = Journaled
    BY ZenonT(30), <1>3 DEF HoldingSlot, Reserved, Live, Journaled
  <2> QED BY ZenonT(30), <2>1, <1>3, SlotsStay
<1>4. ASSUME NEW k \in Generations, NEW observed \in Observations,
             CallDeleteFlow(k, observed), UNCHANGED cpuVars
      PROVE  SlotInv'
  BY ZenonT(30), <1>3, <1>4 DEF CallDeleteFlow, DeleteFlow, cpuVars
<1>5. ASSUME Time, UNCHANGED cpuVars
      PROVE  SlotInv'
  BY ZenonT(30), <1>3, <1>5 DEF Time, Tick, DeadlinePasses, cpuVars
<1>6. CASE UNCHANGED vars
  BY ZenonT(30), <1>3, <1>6 DEF vars, cpuVars
<1> QED BY ZenonT(30), <1>1, <1>2, <1>4, <1>5, <1>6, HostSlotInv DEF Next, Packets, Host

\* What holds at every moment when no flow is deleted under its creator.
SlotsInv == TableInv /\ IndexInv /\ ReleaseInv /\ SlotInv

\* It is an invariant: releases are earned before they are journaled and
\* published, and every slot of the counter is accounted for.
THEOREM SlotInvariant ==
  ASSUME ~EarlyDelete
  PROVE  Spec => []SlotsInv
<1>1. Init => SlotsInv
  BY ZenonT(30), TableInit, IndexInit, ReleaseInit, SlotInit DEF SlotsInv
<1>2. SlotsInv /\ [Next]_vars => SlotsInv'
  BY ZenonT(30), TableStep, IndexStep, ReleaseStep, SlotStep DEF SlotsInv
<1> QED BY <1>1, <1>2, PTL DEF Spec

\* The active-flow counter is never too low, and too high by exactly the releases
\* that gave up: a slot is released once, whatever is retried or duplicated.
THEOREM SlotAccountingHolds ==
  ASSUME ~EarlyDelete
  PROVE  Spec => []SlotAccounting
<1>1. SlotsInv => SlotAccounting
  BY ZenonT(30) DEF SlotsInv, SlotInv
<1> QED BY <1>1, SlotInvariant, PTL

\* The table never holds more records than active_flow_capacity, for any number
\* of CPUs that reserve slots at the same time.
THEOREM WithinCapacityHolds ==
  ASSUME ~EarlyDelete
  PROVE  Spec => []WithinCapacity
<1>1. ASSUME SlotsInv, Capacity # 0 PROVE Cardinality(Live) <= Capacity
  <2> DEFINE l == Cardinality(Live)
             j == Cardinality(Journaled)
             r == Cardinality(Reserved)
  <2>1. l \in Nat /\ j \in Nat /\ r \in Nat /\ Capacity \in Nat
    BY ZenonT(30), <1>1, SlotNumbers DEF SlotsInv
  <2>2. l + j + r <= Capacity
    BY ZenonT(30), <1>1 DEF SlotsInv, SlotInv, SlotsWithin, Journaled
  <2> HIDE DEF l, j, r
  <2>3. l <= Capacity
    BY SMTT(30), <2>1, <2>2
  <2> QED BY ZenonT(30), <2>3 DEF l
<1>2. SlotsInv => WithinCapacity
  BY ZenonT(30), <1>1 DEF WithinCapacity
<1> QED BY <1>2, SlotInvariant, PTL

----------------------------------------------------------------------------
\* Final replies.

\* A generation without a creator gains no index entry, no in-flight counter and
\* no guard, and its release is not lost by the CPU that takes it from the queue;
\* the one that claims it loses it only when the claim fails.
LEMMA GoneStays ==
  ASSUME TableInv, IndexInv, ReleaseInv, NEW c \in CPUs, PacketStep(c), NEW k \in Generations,
         ~BeingCreated(k)
  PROVE  /\ \A t \in Tuples : index'[t] = k => index[t] = k
         /\ inflight[k] = NoEntry => inflight'[k] = NoEntry
         /\ ReleaseSettled(k) => ReleaseSettled(k)'
         /\ GuardSettled(k) => GuardSettled(k)'
<1>a. k # NoEntry
  BY DEF Generations, NoEntry
<1>b. /\ queue \in Seq(Generations) /\ popped \in [CPUs -> Generations \cup {NoEntry}]
      /\ inflight \in [Generations -> Cells \cup {NoEntry}]
      /\ guard \in [Generations -> Guards \cup {NoEntry}]
  BY ZenonT(30) DEF TableInv, TypeOK, MapsTypeOK, PacketTypeOK
<1>c. \A d \in CPUs \ {c} : popped'[d] = popped[d]
  BY ZenonT(30), OtherCPUs DEF TableInv, TypeOK
<1>d. pc[c] # "claim" => popped[c] = NoEntry
  BY ZenonT(30) DEF ReleaseInv, ReleasesEarned
<1>1. ASSUME NEW t \in Tuples, index'[t] = k
      PROVE  index[t] = k
  <2>1. CreatorIndexed(c)
    BY ZenonT(30) DEF IndexInv
  <2>2. pc[c] = "insert_index" => key[c] # k
    BY ZenonT(30) DEF BeingCreated, Creating, Inserting
  <2> QED BY ZenonT(30), <2>1, <2>2, <1>1, <1>a, PacketIndex
<1>e. leftover \subseteq leftover'
  <2>1. CASE pc[c] = "claim"
    BY ZenonT(30), <2>1, PacketStepAt DEF ClaimRelease
  <2> QED BY ZenonT(30), <2>1, PacketStepFrame
<1>2. ASSUME k \in journal, k \in journal', Published(k), <<"release", k>> \notin leftover'
      PROVE  Published(k)'
  <2>1. CASE pc[c] = "pop"
    <3>1. PopRelease(c)
      BY ZenonT(30), <2>1, PacketStepAt
    <3>2. CASE \E d \in CPUs : popped[d] = k
      <4>1. PICK d \in CPUs : popped[d] = k
        BY ZenonT(30), <3>2
      <4>2. d # c
        BY ZenonT(30), <4>1, <2>1, <1>a, <1>d
      <4> QED BY ZenonT(30), <4>1, <4>2, <1>c DEF Published
    <3>3. CASE \E i \in 1 .. Len(queue) : queue[i] = k
      <4>1. PICK i \in 1 .. Len(queue) : queue[i] = k
        BY ZenonT(30), <3>3
      <4>2. queue # << >>
        BY <4>1, <1>b
      <4>3. queue' = Tail(queue) /\ popped'[c] = Head(queue)
        BY ZenonT(30), <3>1, <4>2, <1>b DEF PopRelease
      <4>4. CASE i = 1
        <5>1. popped'[c] = k
          BY ZenonT(30), <4>1, <4>2, <4>3, <4>4, <1>b, PoppedQueue
        <5> QED BY ZenonT(30), <5>1 DEF Published
      <4>5. CASE i # 1
        <5>1. i - 1 \in 1 .. Len(queue') /\ queue'[i - 1] = queue[i]
          BY SMTT(30), <4>1, <4>2, <4>3, <4>5, <1>b
        <5> QED BY ZenonT(30), <5>1, <4>1 DEF Published
      <4> QED BY ZenonT(30), <4>4, <4>5
    <3> QED BY ZenonT(30), <3>2, <3>3, <1>2 DEF Published
  <2>2. CASE pc[c] = "claim"
    <3>1. ClaimRelease(c)
      BY ZenonT(30), <2>2, PacketStepAt
    <3>2. popped[c] # k /\ queue' = queue
      BY ZenonT(30), <3>1, <1>2 DEF ClaimRelease
    <3> QED BY ZenonT(30), <3>2, <1>2, <1>c DEF Published
  <2>3. CASE pc[c] \notin {"pop", "claim"}
    <3>1. queue' = queue /\ journal' = journal
      BY ZenonT(30), <2>3, PacketSlots
    <3>2. popped[c] # k
      BY ZenonT(30), <2>3, <1>a, <1>d
    <3> QED BY ZenonT(30), <3>1, <3>2, <1>2, <1>c DEF Published
  <2> QED BY ZenonT(30), <2>1, <2>2, <2>3
<1>3. k \in journal' => k \in journal
  <2>1. CASE pc[c] = "claim"
    BY ZenonT(30), <2>1, PacketStepAt DEF ClaimRelease
  <2> QED BY ZenonT(30), <2>1, PacketSlots
<1>4. ReleaseSettled(k) => ReleaseSettled(k)'
  BY ZenonT(30), <1>e, <1>2, <1>3 DEF ReleaseSettled
<1>5. inflight[k] = NoEntry => inflight'[k] = NoEntry
  <2>1. CASE pc[c] = "insert_inflight"
    <3>1. InsertInflight(c) /\ key[c] # k
      BY ZenonT(30), <2>1, PacketStepAt DEF BeingCreated, Creating, Inserting
    <3> QED BY ZenonT(30), <3>1, <1>b DEF InsertInflight
  <2>2. CASE pc[c] = "drop_inflight"
    <3>1. DropInflight(c)
      BY ZenonT(30), <2>2, PacketStepAt
    <3> QED BY ZenonT(30), <3>1, <1>b DEF DropInflight
  <2> QED BY ZenonT(30), <2>1, <2>2, PacketStepFrame
<1>6. GuardSettled(k) => GuardSettled(k)'
  <2>1. guard'[k] # NoEntry => guard[k] # NoEntry
    <3>1. CASE pc[c] = "unguard"
      <4>1. RemoveGuard(c)
        BY ZenonT(30), <3>1, PacketStepAt
      <4> QED BY ZenonT(30), <4>1, <1>b DEF RemoveGuard
    <3> QED BY ZenonT(30), <3>1, PacketStepFrame
  <2> QED BY ZenonT(30), <2>1, <1>e DEF GuardSettled
<1> QED BY ZenonT(30), <1>1, <1>4, <1>5, <1>6

\* The same of an arriving packet.
LEMMA ArrivalGoneStays ==
  ASSUME TableInv, ReleaseInv, NEW c \in CPUs, PacketArrives(c), NEW k \in Generations
  PROVE  /\ UNCHANGED <<index, life, orig, inflight>>
         /\ ReleaseSettled(k) => ReleaseSettled(k)'
         /\ GuardSettled(k) => GuardSettled(k)'
<1>1. UNCHANGED <<index, life, orig, inflight, guard, slots>> /\ pc[c] # "claim"
  BY ZenonT(30), ArrivalFrame DEF Verdicts
<1>2. popped[c] # k
  BY <1>1 DEF ReleaseInv, ReleasesEarned, Generations, NoEntry
<1>3. \A d \in CPUs \ {c} : popped'[d] = popped[d]
  BY ZenonT(30), OtherCPUs DEF TableInv, TypeOK
<1> QED BY ZenonT(30), <1>1, <1>2, <1>3 DEF ReleaseSettled, GuardSettled, Published

\* The final outcomes of DeleteFlow.
Final == {"Complete", "AlreadyAbsent", "StaleGeneration"}

\* No packet takes from a clean call, or from a final reply, what it says.
LEMMA PacketFinal ==
  ASSUME TableInv, IndexInv, ReleaseInv, FinalInv, NEW c \in CPUs,
         PacketArrives(c) \/ PacketStep(c), UNCHANGED hostVars
  PROVE  FinalInv'
<1>a. UNCHANGED <<hpc, hkey, guarded, hidx, htup, report, reply>>
  BY ZenonT(30) DEF hostVars
<1>b. ASSUME NEW k \in Generations, orig[k] # NoEntry, ~BeingCreated(k)
      PROVE  /\ \A t \in Tuples : index'[t] = k => index[t] = k
             /\ inflight[k] = NoEntry => inflight'[k] = NoEntry
             /\ ReleaseSettled(k) => ReleaseSettled(k)'
             /\ GuardSettled(k) => GuardSettled(k)'
             /\ life[k] = "none" => life'[k] = "none"
             /\ orig'[k] # NoEntry /\ ~BeingCreated(k)'
  <2>1. CASE PacketArrives(c)
    BY ZenonT(30), <2>1, <1>b, ArrivalGoneStays, ArrivalCreates
  <2>2. CASE PacketStep(c)
    <3>1. orig'[k] = orig[k]
      BY ZenonT(30), <2>2, <1>b, OrigStays
    <3> QED BY ZenonT(30), <2>2, <3>1, <1>b, GoneStays, Uncreated
  <2> QED BY ZenonT(30), <2>1, <2>2
<1>1. CleanProgress' /\ GuardProgress'
  <2>1. CASE hpc = "idle"
    BY ZenonT(30), <2>1, <1>a DEF CleanProgress, GuardProgress, Unguarded
  <2>2. CASE hpc # "idle"
    <3>1. hkey \in Generations /\ orig[hkey] # NoEntry /\ ~BeingCreated(hkey)
      BY ZenonT(30), <2>2 DEF TableInv, HostKnows, IndexInv, Quiet
    <3>2. PICK k \in Generations : k = hkey /\ k = hkey'
      BY ZenonT(30), <3>1, <1>a
    <3>3. /\ \A t \in Tuples : index'[t] = k => index[t] = k
          /\ inflight[k] = NoEntry => inflight'[k] = NoEntry
          /\ ReleaseSettled(k) => ReleaseSettled(k)'
          /\ GuardSettled(k) => GuardSettled(k)'
          /\ life[k] = "none" => life'[k] = "none"
      BY ZenonT(30), <3>1, <3>2, <1>b
    <3>4. /\ (ReleaseSettled(k) <=> ReleaseSettled(hkey)) /\ (GuardSettled(k) <=> GuardSettled(hkey))
          /\ ReleaseSettled(k)' <=> ReleaseSettled(hkey)'
          /\ GuardSettled(k)' <=> GuardSettled(hkey)'
      BY ZenonT(30), <3>2 DEF ReleaseSettled, GuardSettled, Published
    <3>5. Unguarded' <=> Unguarded
      BY ZenonT(30), <1>a DEF Unguarded
    <3> QED
      BY ZenonT(30), <3>2, <3>3, <3>4, <3>5, <1>a
         DEF FinalInv, CleanProgress, GuardProgress, Clean, MayRelease
  <2> QED BY ZenonT(30), <2>1, <2>2
<1>2. ASSUME reply.outcome \in Final
      PROVE  /\ reply.key \in Generations /\ Gone(reply.key)'
             /\ orig'[reply.key] # NoEntry /\ ~BeingCreated(reply.key)'
  <2>1. /\ reply.key \in Generations /\ Gone(reply.key)
        /\ orig[reply.key] # NoEntry /\ ~BeingCreated(reply.key)
    BY ZenonT(30), <1>2 DEF FinalInv, Final
  <2>2. PICK k \in Generations : k = reply.key /\ k = reply'.key
    BY ZenonT(30), <2>1, <1>a
  <2>3. Gone(k) /\ orig[k] # NoEntry /\ ~BeingCreated(k)
    BY ZenonT(30), <2>1, <2>2 DEF Gone, ReleaseSettled, GuardSettled, Published, BeingCreated
  <2>4. Gone(k)' /\ orig'[k] # NoEntry /\ ~BeingCreated(k)'
    BY ZenonT(30), <2>3, <1>b DEF Gone
  <2> QED
    BY ZenonT(30), <2>1, <2>2, <2>4
       DEF Gone, ReleaseSettled, GuardSettled, Published, BeingCreated
<1> QED BY ZenonT(30), <1>1, <1>2, <1>a DEF FinalInv, Final

\* A final outcome carries none of the flags that stand against it.
LEMMA FinalMeansClean ==
  ASSUME NEW flags, ReplyOutcome(flags) \in Final
  PROVE  "partial" \notin flags /\ "error" \notin flags /\ "observation_mismatch" \notin flags
BY ZenonT(30) DEF ReplyOutcome, Final

\* A guarded call that still works on the record has nothing to answer for yet;
\* the cleanup of an absent or removed record keeps track of the entries left.
LEMMA CleanFinding ==
  ASSUME TableInv, IndexInv, ReleaseInv, FinalInv,
         \/ Reread \/ JournalRelease \/ RemoveState \/ Unjournal \/ ScanOwned
  PROVE  CleanProgress'
<1>a. hkey' = hkey /\ index' = index /\ report \subseteq report' /\ hkey \in Generations
  BY ZenonT(30) DEF Reread, JournalRelease, RemoveState, Unjournal, ScanOwned, HostGoto, HostNote,
         TableInv, HostKnows
<1>1. CASE Reread
  <2>1. life[hkey] # "none"
    BY ZenonT(30), <1>1 DEF Reread, ReleaseInv, HostProgress, Finding, Committed
  <2>2. \/ hpc' = "clear_guard" /\ "observation_mismatch" \in report'
        \/ hpc' = "journal" /\ hidx' = {IndexTuples(orig[hkey])[i] : i \in 1 .. 3}
    BY ZenonT(30), <1>1, <2>1 DEF Reread, HostNote
  <2>3. ASSUME NEW t \in Tuples, index[t] = hkey
        PROVE  \E i \in 1 .. 3 : t = IndexTuples(orig[hkey])[i]
    BY <2>3, <1>a DEF IndexInv, IndexedByOwner, Generations, NoEntry
  <2> QED BY ZenonT(30), <2>2, <2>3, <1>a DEF CleanProgress, Clean
<1>2. CASE JournalRelease
  <2>1. /\ hpc = "journal"
        /\ \/ hpc' = "clear_guard" /\ "error" \in report'
           \/ hpc' = "remove_state" /\ hidx' = hidx
    BY ZenonT(30), <1>2 DEF JournalRelease, HostNote, HostGoto
  <2> QED BY ZenonT(30), <2>1, <1>a DEF FinalInv, CleanProgress, Clean
<1>3. CASE RemoveState
  <2>1. /\ hpc = "remove_state"
        /\ \/ hpc' = "check_index" /\ hidx' = hidx
           \/ hpc' = "unjournal"
    BY ZenonT(30), <1>3 DEF RemoveState, HostNote
  <2> QED BY ZenonT(30), <2>1, <1>a DEF FinalInv, CleanProgress, Clean
<1>4. CASE Unjournal
  <2>1. "partial" \in report'
    BY ZenonT(30), <1>4 DEF Unjournal, HostGoto, ReleaseInv, HostProgress
  <2> QED BY ZenonT(30), <2>1 DEF CleanProgress, Clean
<1>5. CASE ScanOwned
  <2>1. hpc' = "check_index" /\ hidx' = {t \in Tuples : index[t] = hkey}
    BY ZenonT(30), <1>5 DEF ScanOwned
  <2> QED BY ZenonT(30), <2>1, <1>a DEF CleanProgress
<1> QED BY ZenonT(30), <1>1, <1>2, <1>3, <1>4, <1>5

\* When every index has been visited without an error, none is left.
LEMMA CleanIndexes ==
  ASSUME TableInv, IndexInv, ReleaseInv, FinalInv, CheckIndex \/ RemoveIndex \/ RemoveInflight
  PROVE  CleanProgress'
<1>a. hkey' = hkey /\ guarded' = guarded /\ report \subseteq report' /\ hkey \in Generations
  BY ZenonT(30) DEF CheckIndex, RemoveIndex, RemoveInflight, HostGoto, HostNote, TableInv, HostKnows
<1>1. CASE CheckIndex
  <2>1. hpc = "check_index" /\ index' = index
    BY ZenonT(30), <1>1 DEF CheckIndex
  <2>2. Clean => \A t \in Tuples : index[t] = hkey => t \in hidx
    BY ZenonT(30), <2>1 DEF FinalInv, CleanProgress
  <2>3. CASE hidx = {} /\ HostGoto("remove_inflight")
    BY ZenonT(30), <2>1, <2>2, <2>3, <1>a DEF CleanProgress, Clean, HostGoto
  <2>4. CASE \E t \in hidx :
               /\ hidx' = hidx \ {t}
               /\ \/ index[t] = hkey /\ hpc' = "remove_index" /\ htup' = t
                  \/ index[t] # hkey /\ hpc' = hpc
                  \/ hpc' = hpc /\ "partial" \in report'
    <3>1. PICK t \in hidx :
               /\ hidx' = hidx \ {t}
               /\ \/ index[t] = hkey /\ hpc' = "remove_index" /\ htup' = t
                  \/ index[t] # hkey /\ hpc' = hpc
                  \/ hpc' = hpc /\ "partial" \in report'
      BY ZenonT(30), <2>4
    <3> QED BY ZenonT(30), <3>1, <2>1, <2>2, <1>a DEF CleanProgress, Clean
  <2> QED BY ZenonT(30), <1>1, <2>3, <2>4 DEF CheckIndex
<1>2. CASE RemoveIndex
  <2>1. /\ hpc = "remove_index" /\ hpc' = "check_index" /\ hidx' = hidx
        /\ \/ index' = [index EXCEPT ![htup] = NoEntry]
           \/ "partial" \in report'
    BY ZenonT(30), <1>2 DEF RemoveIndex
  <2>2. Clean => \A t \in Tuples : index[t] = hkey => t \in hidx \/ t = htup
    BY ZenonT(30), <2>1 DEF FinalInv, CleanProgress
  <2>3. index \in [Tuples -> Generations \cup {NoEntry}] /\ hkey # NoEntry
    BY <1>a DEF TableInv, TypeOK, MapsTypeOK, Generations, NoEntry
  <2>4. ASSUME index' = [index EXCEPT ![htup] = NoEntry], NEW t \in Tuples, index'[t] = hkey
        PROVE  index[t] = hkey /\ t # htup
    BY ZenonT(30), <2>3, <2>4
  <2> QED BY ZenonT(30), <2>1, <2>2, <2>4, <1>a DEF CleanProgress, Clean
<1>3. CASE RemoveInflight
  <2>1. hpc = "remove_inflight" /\ hpc' = "read_journal" /\ index' = index /\ MayRelease
    BY ZenonT(30), <1>3 DEF RemoveInflight, HostGoto, HostNote, ReleaseInv, HostProgress
  <2>2. inflight'[hkey] = NoEntry \/ "partial" \in report'
    BY ZenonT(30), <1>3, <1>a DEF RemoveInflight, HostNote, TableInv, TypeOK, MapsTypeOK
  <2> QED BY ZenonT(30), <2>1, <2>2, <1>a DEF FinalInv, CleanProgress, Clean, MayRelease
<1> QED BY ZenonT(30), <1>1, <1>2, <1>3

\* All that Gone asks for but the guard.
Cleared(k) ==
  /\ life[k] = "none" /\ (\A t \in Tuples : index[t] # k) /\ inflight[k] = NoEntry
  /\ ReleaseSettled(k)

\* The release is published, or there is none, before the guard is removed.
LEMMA CleanRelease ==
  ASSUME TableInv, IndexInv, ReleaseInv, FinalInv, UNCHANGED cpuVars,
         ReadJournal \/ PushRelease \/ ClearGuard \/ ClearOutcome, NEW k \in Generations, k = hkey
  PROVE  /\ hpc' # "idle" => hkey' = k /\ report \subseteq report'
         /\ hpc' = "push" /\ Clean => inflight'[k] = NoEntry /\ \A t \in Tuples : index'[t] # k
         /\ hpc' \in {"push", "clear_guard", "clear_outcome", "idle"}
         /\ hpc' \in {"clear_guard", "clear_outcome"} /\ Clean' => Cleared(k)'
         /\ hpc' = "idle" /\ reply'.outcome \in Final => reply'.key = k /\ Cleared(k)' /\ Clean
<1>a. popped' = popped /\ queue \in Seq(Generations)
  BY ZenonT(30) DEF cpuVars, TableInv, TypeOK, MapsTypeOK
<1>1. CASE ReadJournal
  <2>1. hpc = "read_journal" /\ UNCHANGED <<index, life, inflight, journal, queue, leftover>>
    BY ZenonT(30), <1>1 DEF ReadJournal
  <2>2. Clean => /\ inflight[k] = NoEntry /\ \A t \in Tuples : index[t] # k
                 /\ MayRelease /\ life[k] = "none"
    BY ZenonT(30), <2>1 DEF FinalInv, CleanProgress, ReleaseInv, HostProgress
  <2>3. \/ hpc' = "push" /\ hkey' = hkey /\ report' = report
        \/ ~(hkey \in journal /\ MayRelease) /\ EndCleanup({})
        \/ EndCleanup({"error"})
    BY ZenonT(30), <1>1 DEF ReadJournal, HostGoto
  <2>4. CASE hpc' = "push" /\ hkey' = hkey /\ report' = report
    BY ZenonT(30), <2>1, <2>2, <2>4
  <2>5. CASE ~(hkey \in journal /\ MayRelease) /\ EndCleanup({})
    <3>1. Clean => Cleared(k)'
      BY ZenonT(30), <2>1, <2>2, <2>5 DEF Cleared, ReleaseSettled
    <3>2. \/ hpc' = "clear_guard" /\ report' = report /\ hkey' = hkey
          \/ hpc' = "idle" /\ reply'.key = hkey /\ reply'.outcome = ReplyOutcome(report)
      BY <2>5 DEF EndCleanup, HostNote, HostReturn
    <3> QED BY ZenonT(30), <3>1, <3>2, FinalMeansClean DEF Clean
  <2>6. CASE EndCleanup({"error"})
    <3>1. \/ hpc' = "clear_guard" /\ report' = report \cup {"error"} /\ hkey' = hkey
          \/ hpc' = "idle" /\ reply'.outcome = ReplyOutcome(report \cup {"error"})
      BY <2>6 DEF EndCleanup, HostNote, HostReturn
    <3> QED BY ZenonT(30), <3>1, FinalMeansClean DEF Clean
  <2> QED BY ZenonT(30), <2>3, <2>4, <2>5, <2>6
<1>2. CASE PushRelease
  <2>1. hpc = "push" /\ UNCHANGED <<index, life, inflight, journal, leftover>>
    BY ZenonT(30), <1>2 DEF PushRelease
  <2>2. Clean => inflight[k] = NoEntry /\ (\A t \in Tuples : index[t] # k) /\ life[k] = "none"
    BY ZenonT(30), <2>1 DEF FinalInv, CleanProgress, ReleaseInv, HostProgress
  <2>3. \/ queue' = Append(queue, hkey) /\ EndCleanup({})
        \/ EndCleanup({"partial"})
    BY ZenonT(30), <1>2 DEF PushRelease
  <2>4. CASE queue' = Append(queue, hkey) /\ EndCleanup({})
    <3>1. Len(queue) + 1 \in 1 .. Len(queue') /\ queue'[Len(queue) + 1] = k
      BY SMTT(30), <2>4, <1>a
    <3>2. Published(k)'
      BY ZenonT(30), <3>1 DEF Published
    <3>3. Clean => Cleared(k)'
      BY ZenonT(30), <2>1, <2>2, <3>2 DEF Cleared, ReleaseSettled
    <3>4. \/ hpc' = "clear_guard" /\ report' = report /\ hkey' = hkey
          \/ hpc' = "idle" /\ reply'.key = hkey /\ reply'.outcome = ReplyOutcome(report)
      BY <2>4 DEF EndCleanup, HostNote, HostReturn
    <3> QED BY ZenonT(30), <3>3, <3>4, FinalMeansClean DEF Clean
  <2>5. CASE EndCleanup({"partial"})
    <3>1. \/ hpc' = "clear_guard" /\ report' = report \cup {"partial"} /\ hkey' = hkey
          \/ hpc' = "idle" /\ reply'.outcome = ReplyOutcome(report \cup {"partial"})
      BY <2>5 DEF EndCleanup, HostNote, HostReturn
    <3> QED BY ZenonT(30), <3>1, FinalMeansClean DEF Clean
  <2> QED BY ZenonT(30), <2>3, <2>4, <2>5
<1>3. CASE ClearGuard \/ ClearOutcome
  <2>1. /\ hpc \in {"clear_guard", "clear_outcome"}
        /\ UNCHANGED <<index, life, inflight, journal, queue, leftover>>
    BY ZenonT(30), <1>3 DEF ClearGuard, ClearOutcome
  <2>2. Clean => Cleared(k)
    BY ZenonT(30), <2>1 DEF FinalInv, CleanProgress, Cleared, ReleaseSettled, Published
  <2>3. Clean => Cleared(k)'
    BY ZenonT(30), <2>1, <2>2, <1>a DEF Cleared, ReleaseSettled, Published
  <2>4. \/ hpc' = "clear_outcome" /\ report \subseteq report' /\ hkey' = hkey
        \/ hpc' = "idle" /\ reply'.key = hkey /\ reply'.outcome = ReplyOutcome(report)
        \/ hpc' = "idle" /\ reply'.outcome = ReplyOutcome(report \cup {"partial"})
    BY <1>3 DEF ClearGuard, ClearOutcome, HostGoto, HostNote, HostReturn
  <2> QED BY ZenonT(30), <2>3, <2>4, FinalMeansClean DEF Clean
<1> QED BY ZenonT(30), <1>1, <1>2, <1>3

\* The steps before: those that return have noted why, and the others have
\* nothing to answer for.
LEMMA NothingFinal ==
  ASSUME \/ FindState \/ AbsentGuard \/ AbsentOutcome \/ ScanStale \/ ReadGuard
         \/ RemoveOldGuard \/ RemoveOldOutcome \/ InsertGuard \/ Drain \/ ReadState
         \/ Commit \/ Redrain \/ ReadFails
  PROVE  CleanProgress' /\ (hpc' = "idle" => reply'.outcome \notin Final)
<1>1. \/ hpc' = "idle" /\ reply'.outcome \in {ReplyOutcome({"error"}),
           ReplyOutcome({"observation_mismatch"}), ReplyOutcome(report \cup {"error"})}
      \/ hpc' = "clear_guard" /\ {"error", "observation_mismatch"} \cap report' # {}
      \/ hpc' \in {"read_guard", "absent_guard", "absent_outcome", "scan_stale", "scan_owned",
                   "remove_old_guard", "remove_old_outcome", "insert_guard", "drain",
                   "read_state", "commit", "redrain", "reread"}
  <2>1. CASE FindState \/ AbsentGuard \/ AbsentOutcome \/ ScanStale
    BY ZenonT(30), <2>1 DEF FindState, AbsentGuard, AbsentOutcome, ScanStale, HostGoto
  <2>2. CASE ReadGuard
    <3>1. HostGoto("remove_old_guard") \/ HostGoto("remove_old_outcome")
          \/ HostReturn({"observation_mismatch"})
      BY ZenonT(30), <2>2 DEF ReadGuard
    <3> QED BY <3>1 DEF HostGoto, HostReturn
  <2>3. CASE RemoveOldGuard \/ RemoveOldOutcome \/ InsertGuard
    <3>1. \/ HostGoto("remove_old_outcome") \/ HostGoto("insert_guard") \/ HostGoto("drain")
          \/ HostReturn({"error"})
      BY ZenonT(30), <2>3 DEF RemoveOldGuard, RemoveOldOutcome, InsertGuard
    <3> QED BY <3>1 DEF HostGoto, HostReturn
  <2>4. CASE Drain \/ ReadState \/ Commit \/ Redrain
    BY ZenonT(30), <2>4 DEF Drain, ReadState, Commit, Redrain, HostGoto, HostNote
  <2>5. CASE ReadFails
    BY <2>5 DEF ReadFails, EndCleanup, HostNote, HostReturn
  <2> QED BY ZenonT(30), <2>1, <2>2, <2>3, <2>4, <2>5
<1>2. /\ ReplyOutcome({"error"}) \notin Final
      /\ ReplyOutcome({"observation_mismatch"}) \notin Final
      /\ ReplyOutcome(report \cup {"error"}) \notin Final
  BY ZenonT(30), FinalMeansClean
<1> QED BY ZenonT(30), <1>1, <1>2 DEF CleanProgress, Clean

\* A clean call that has removed its guard, or the one it found without a record,
\* has left none.
LEMMA HostGuard ==
  ASSUME TableInv, ReleaseInv, FinalInv, HostStep
  PROVE  GuardProgress'
<1>a. GuardProgress /\ hkey \in Generations /\ guard \in [Generations -> Guards \cup {NoEntry}]
  BY ZenonT(30), HostStepFrame DEF FinalInv, TableInv, HostKnows, TypeOK, MapsTypeOK
<1>b. SUFFICES ASSUME Unguarded', Clean'
               PROVE  GuardSettled(hkey)'
  BY ZenonT(30) DEF GuardProgress
<1>c. hpc' # "idle"
  BY ZenonT(30), <1>b DEF Unguarded
<1>1. CASE AbsentGuard
  BY ZenonT(30), <1>1, <1>a DEF AbsentGuard, HostGoto, GuardSettled
<1>2. CASE ClearGuard
  <2>1. hkey' = hkey /\ (guard'[hkey] = NoEntry \/ "partial" \in report')
    BY ZenonT(30), <1>2, <1>a DEF ClearGuard, HostGoto, HostNote
  <2> QED BY ZenonT(30), <2>1, <1>b DEF Clean, GuardSettled
<1>3. ASSUME UNCHANGED <<guard, leftover, guarded>>, hkey' = hkey, report \subseteq report', Unguarded
      PROVE  GuardSettled(hkey)'
  <2>1. GuardSettled(hkey)
    BY ZenonT(30), <1>3, <1>a, <1>b DEF GuardProgress, Clean
  <2> QED BY ZenonT(30), <2>1, <1>3 DEF GuardSettled
<1>4. CASE AbsentOutcome \/ ScanStale \/ ScanOwned
  <2>1. /\ UNCHANGED <<guard, leftover, guarded>> /\ hkey' = hkey /\ report \subseteq report'
        /\ hpc \in {"absent_outcome", "scan_stale", "scan_owned"}
    BY ZenonT(30), <1>4 DEF AbsentOutcome, ScanStale, ScanOwned, HostGoto
  <2>2. Unguarded
    BY ZenonT(30), <2>1 DEF Unguarded, ReleaseInv, HostProgress
  <2> QED BY ZenonT(30), <2>1, <2>2, <1>3
<1>5. CASE CheckIndex \/ RemoveIndex \/ RemoveInflight
  <2>1. /\ UNCHANGED <<guard, leftover, guarded>> /\ hkey' = hkey /\ report \subseteq report'
        /\ hpc \in {"check_index", "remove_index", "remove_inflight"}
        /\ hpc' \in {"check_index", "remove_index", "remove_inflight", "read_journal"}
    BY ZenonT(30), <1>5 DEF CheckIndex, RemoveIndex, RemoveInflight, HostGoto, HostNote
  <2>2. Unguarded
    BY ZenonT(30), <2>1, <1>b DEF Unguarded
  <2> QED BY ZenonT(30), <2>1, <2>2, <1>3
<1>6. CASE ReadJournal \/ PushRelease
  <2>1. \/ hpc' = "clear_guard" \/ hpc' = "idle"
        \/ /\ UNCHANGED <<guard, leftover, guarded>> /\ hkey' = hkey /\ report' = report
           /\ hpc = "read_journal" /\ hpc' = "push"
    BY ZenonT(30), <1>6 DEF ReadJournal, PushRelease, EndCleanup, HostNote, HostReturn, HostGoto
  <2>2. /\ UNCHANGED <<guard, leftover, guarded>> /\ hkey' = hkey /\ report' = report
        /\ hpc = "read_journal" /\ hpc' = "push"
    BY ZenonT(30), <2>1, <1>b DEF Unguarded
  <2>3. Unguarded
    BY ZenonT(30), <2>2, <1>b DEF Unguarded
  <2> QED BY ZenonT(30), <2>2, <2>3, <1>3
<1>7. CASE RemoveState
  <2>1. guarded' = guarded /\ guarded /\ hpc' # "clear_outcome"
    BY ZenonT(30), <1>7 DEF RemoveState, HostNote, ReleaseInv, HostProgress, Finding, Committed
  <2> QED BY ZenonT(30), <2>1, <1>b DEF Unguarded
<1>8. CASE Unjournal
  <2>1. "partial" \in report'
    BY ZenonT(30), <1>8 DEF Unjournal, HostGoto, ReleaseInv, HostProgress
  <2> QED BY ZenonT(30), <2>1, <1>b DEF Clean
<1>9. CASE \/ FindState \/ ReadGuard \/ RemoveOldGuard \/ RemoveOldOutcome \/ InsertGuard \/ Drain
           \/ ReadState \/ Commit \/ Redrain \/ Reread \/ JournalRelease \/ ClearOutcome
           \/ ReadFails
  <2>1. hpc' \in {"absent_guard", "read_guard", "remove_old_guard", "remove_old_outcome",
                  "insert_guard", "drain", "read_state", "commit", "redrain", "reread",
                  "journal", "remove_state", "clear_guard", "idle"}
    <3>1. CASE FindState \/ ReadGuard \/ RemoveOldGuard \/ RemoveOldOutcome \/ InsertGuard
      BY ZenonT(30), <3>1 DEF FindState, ReadGuard, RemoveOldGuard, RemoveOldOutcome, InsertGuard,
         HostGoto, HostReturn
    <3>2. CASE Drain \/ ReadState \/ Commit \/ Redrain \/ Reread
      BY ZenonT(30), <3>2 DEF Drain, ReadState, Commit, Redrain, Reread, HostGoto, HostNote
    <3>3. CASE JournalRelease \/ ClearOutcome \/ ReadFails
      BY ZenonT(30), <3>3 DEF JournalRelease, ClearOutcome, ReadFails, EndCleanup, HostGoto, HostNote,
         HostReturn
    <3> QED BY ZenonT(30), <1>9, <3>1, <3>2, <3>3
  <2> QED BY ZenonT(30), <2>1, <1>b DEF Unguarded
<1> QED BY ZenonT(30), <1>1, <1>2, <1>4, <1>5, <1>6, <1>7, <1>8, <1>9 DEF HostStep

\* A step of delete_flow keeps FinalInv: a final reply is given only when nothing
\* of the generation is left but a published release.
LEMMA HostFinal ==
  ASSUME TableInv, IndexInv, ReleaseInv, FinalInv, HostStep, UNCHANGED cpuVars
  PROVE  FinalInv'
<1>a. UNCHANGED <<orig, pc, key>> /\ hpc # "idle"
  BY ZenonT(30), HostStepFrame DEF cpuVars
<1>b. hkey \in Generations /\ orig[hkey] # NoEntry /\ ~BeingCreated(hkey)
  BY ZenonT(30), <1>a DEF TableInv, HostKnows, IndexInv, Quiet
<1>c. PICK k \in Generations : k = hkey
  BY ZenonT(30), <1>b
<1>d. orig'[k] # NoEntry /\ ~BeingCreated(k)'
  BY ZenonT(30), <1>a, <1>b, <1>c DEF BeingCreated
<1>1. CleanProgress' /\ (hpc' = "idle" /\ reply'.outcome \in Final => reply'.key = k /\ Gone(k)')
  <2>1. CASE ReadJournal \/ PushRelease \/ ClearGuard \/ ClearOutcome
    <3>1. /\ hpc' # "idle" => hkey' = k /\ report \subseteq report'
          /\ hpc' = "push" /\ Clean => inflight'[k] = NoEntry /\ \A t \in Tuples : index'[t] # k
          /\ hpc' \in {"push", "clear_guard", "clear_outcome", "idle"}
          /\ hpc' \in {"clear_guard", "clear_outcome"} /\ Clean' => Cleared(k)'
          /\ hpc' = "idle" /\ reply'.outcome \in Final => reply'.key = k /\ Cleared(k)' /\ Clean
      BY ZenonT(30), <2>1, <1>c, CleanRelease
    <3>2. hpc' # "idle" => (ReleaseSettled(k)' <=> ReleaseSettled(hkey)')
      BY ZenonT(30), <3>1 DEF ReleaseSettled, Published
    <3>3. CleanProgress'
      BY ZenonT(30), <3>1, <3>2 DEF CleanProgress, Clean, Cleared
    <3>4. ASSUME hpc' = "idle", Clean
          PROVE  GuardSettled(k)'
      <4>1. Unguarded /\ UNCHANGED <<guard, leftover>>
        BY ZenonT(30), <2>1, <3>4 DEF Unguarded, ReadJournal, PushRelease, ClearGuard, ClearOutcome,
           EndCleanup, HostGoto, HostNote
      <4>2. GuardSettled(hkey)
        BY ZenonT(30), <4>1, <3>4 DEF FinalInv, GuardProgress
      <4> QED BY ZenonT(30), <4>1, <4>2, <1>c DEF GuardSettled
    <3> QED BY ZenonT(30), <3>1, <3>3, <3>4 DEF Cleared, Gone
  <2>2. CASE \/ Reread \/ JournalRelease \/ RemoveState \/ Unjournal \/ ScanOwned
             \/ CheckIndex \/ RemoveIndex \/ RemoveInflight
    <3>1. hpc' # "idle"
      BY ZenonT(30), <2>2 DEF Reread, JournalRelease, RemoveState, Unjournal, ScanOwned,
         CheckIndex, RemoveIndex, RemoveInflight, HostGoto, HostNote
    <3> QED BY ZenonT(30), <3>1, <2>2, CleanFinding, CleanIndexes
  <2>3. CASE \/ FindState \/ AbsentGuard \/ AbsentOutcome \/ ScanStale \/ ReadGuard
             \/ RemoveOldGuard \/ RemoveOldOutcome \/ InsertGuard \/ Drain \/ ReadState
             \/ Commit \/ Redrain \/ ReadFails
    BY ZenonT(30), <2>3, NothingFinal
  <2> QED BY ZenonT(30), <2>1, <2>2, <2>3 DEF HostStep
<1>2. hpc' # "idle" => reply'.outcome \notin Final
  <2>1. HostProgress'
    BY ZenonT(30), HostProgressStep DEF ReleaseInv
  <2> QED BY <2>1 DEF HostProgress, NoReply, Final
<1>3. reply'.outcome \in Final =>
        reply'.key \in Generations /\ Gone(reply.key)' /\ orig'[reply'.key] # NoEntry
        /\ ~BeingCreated(reply.key)'
  BY ZenonT(30), <1>1, <1>2, <1>d
     DEF Gone, ReleaseSettled, GuardSettled, Published, BeingCreated
<1> QED BY ZenonT(30), <1>1, <1>3, HostGuard DEF FinalInv, Final

----------------------------------------------------------------------------
\* FinalInv holds of the empty table.
LEMMA FinalInit == Init => FinalInv
<1> SUFFICES ASSUME Init PROVE FinalInv
  OBVIOUS
<1>1. hpc = "idle" /\ reply = NoReply
  BY ZenonT(30) DEF Init, HostInit
<1> QED BY ZenonT(30), <1>1 DEF FinalInv, CleanProgress, GuardProgress, Unguarded, NoReply

\* Every step keeps FinalInv.
LEMMA FinalStep ==
  ASSUME TableInv, IndexInv, ReleaseInv, FinalInv, [Next]_vars
  PROVE  FinalInv'
<1>1. ASSUME NEW c \in CPUs, PacketArrives(c) \/ PacketStep(c), UNCHANGED hostVars
      PROVE  FinalInv'
  BY ZenonT(30), <1>1, PacketFinal
<1>2. ASSUME NEW k \in Generations, NEW observed \in Observations, CallDeleteFlow(k, observed)
      PROVE  FinalInv'
  <2>1. hpc' = "find_state" /\ reply' = NoReply
    BY ZenonT(30), <1>2 DEF CallDeleteFlow, DeleteFlow
  <2> QED BY ZenonT(30), <2>1 DEF FinalInv, CleanProgress, GuardProgress, Unguarded, NoReply
<1>3. ASSUME HostStep, UNCHANGED cpuVars
      PROVE  FinalInv'
  BY ZenonT(30), <1>3, HostFinal
<1>4. ASSUME UNCHANGED <<index, life, orig, inflight, guard, slots, cpuVars, hostVars>>
      PROVE  FinalInv'
  BY ZenonT(30), <1>4 DEF FinalInv, CleanProgress, GuardProgress, Clean, Unguarded, MayRelease, Gone,
     ReleaseSettled, GuardSettled, Published, BeingCreated, cpuVars, hostVars
<1>5. Time => UNCHANGED <<index, life, orig, inflight, guard, slots>>
  BY ZenonT(30) DEF Time, Tick, DeadlinePasses
<1>6. UNCHANGED vars => UNCHANGED <<index, life, orig, inflight, guard, slots, cpuVars, hostVars>>
  BY ZenonT(30) DEF vars
<1> QED BY ZenonT(30), <1>1, <1>2, <1>3, <1>4, <1>5, <1>6 DEF Next, Packets, Host

\* A reply that lets the host proxy forget a flow (Complete, AlreadyAbsent,
\* StaleGeneration) is true when it is given and until the next call is made: no
\* record, index, in-flight counter, guard or release of that generation waits
\* for another delete_flow, but for what the two ignored failures leave.
THEOREM FinalReplyMeansGoneHolds ==
  ASSUME ~EarlyDelete
  PROVE  Spec => []FinalReplyMeansGone
<1>1. Init => FinalInv
  BY ZenonT(30), FinalInit
<1>2. SlotsInv /\ FinalInv /\ [Next]_vars => FinalInv'
  BY ZenonT(30), FinalStep DEF SlotsInv
<1>3. FinalInv => FinalReplyMeansGone
  BY ZenonT(30) DEF FinalInv, FinalReplyMeansGone
<1> QED BY <1>1, <1>2, <1>3, SlotInvariant, PTL DEF Spec
=============================================================================
