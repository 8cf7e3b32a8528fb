-------------------------- MODULE DeletionProofs ---------------------------
\* The critical section of delete_flow. It does its work until the kernel hands
\* a removed in-flight element to another flow while a packet still holds a
\* pointer to it (recycled); from then on it may not, and the run 'recycled'
\* has the behaviour. As long as that has not happened the table implements the
\* lifecycle of FlowLifecycle.
EXTENDS FlowTableProofs, FiniteSetTheorems

USE DEF stateMap, entered, slots, time, maps

----------------------------------------------------------------------------
\* The packets inside the section of a flow.

\* The packets inside the section of a flow are finitely many, and fewer than
\* the counter can count.
LEMMA InsideCount ==
  ASSUME NEW k
  PROVE  /\ IsFiniteSet(Inside(k))
         /\ Cardinality(Inside(k)) \in Nat
         /\ Cardinality(Inside(k)) < CounterMax
<1>1. Inside(k) \subseteq CPUs
  BY ZenonT(30) DEF Inside
<1>2. IsFiniteSet(Inside(k)) /\ Cardinality(Inside(k)) <= Cardinality(CPUs)
  BY ZenonT(30), <1>1, FS_Subset, BoundAssumption
<1>3. Cardinality(Inside(k)) \in Nat /\ Cardinality(CPUs) \in Nat
  BY ZenonT(30), <1>2, FS_CardinalityType, BoundAssumption
<1> QED BY <1>2, <1>3, BoundAssumption

\* Only EnterSection adds a packet to the section, only BackOut and
\* LeaveSection take it out.
LEMMA InsideStep ==
  ASSUME TableInv, NEW c \in CPUs, PacketStep(c), NEW k \in Generations
  PROVE  /\ pc[c] \notin {"enter", "backout", "leave"} => Inside(k)' = Inside(k)
         /\ pc[c] \in {"enter", "backout", "leave"} /\ k # key[c] => Inside(k)' = Inside(k)
         /\ pc[c] = "enter" /\ k = key[c] => c \notin Inside(k) /\ Inside(k)' = Inside(k) \cup {c}
         /\ pc[c] \in {"backout", "leave"} /\ k = key[c] =>
              c \in Inside(k) /\ Inside(k)' = Inside(k) \ {c}
<1>a. PacketTypeOK
  BY ZenonT(30) DEF TableInv, TypeOK
<1>1. ASSUME NEW d \in CPUs, d # c
      PROVE  (d \in Inside(k))' <=> d \in Inside(k)
  <2>1. key'[d] = key[d] /\ (InSection(d)' <=> InSection(d))
    BY ZenonT(30), <1>1, <1>a, OtherCPUs DEF InSection
  <2> QED BY ZenonT(30), <2>1 DEF Inside
<1>2. (c \in Inside(k))' <=> key'[c] = k /\ InSection(c)'
  BY ZenonT(30) DEF Inside
<1>3. c \in Inside(k) <=> key[c] = k /\ InSection(c)
  BY ZenonT(30) DEF Inside
<1>4. InSection(c)' => key'[c] = key[c]
  BY ZenonT(30), PacketControl DEF PacketMove
<1>5. Inside(k) \subseteq CPUs /\ Inside(k)' \subseteq CPUs
  BY ZenonT(30) DEF Inside
<1>6. CASE pc[c] \notin {"enter", "backout", "leave"}
  <2>1. InSection(c)' <=> InSection(c)
    BY ZenonT(30), <1>6, PacketControl DEF PacketMove
  <2>2. InSection(c) => key'[c] = key[c]
    BY ZenonT(30), <2>1, <1>4
  <2> QED BY SMTT(30), <2>1, <2>2, <1>1, <1>2, <1>3, <1>5, <1>6
<1>7. CASE pc[c] = "enter"
  <2>1. InSection(c)' /\ ~InSection(c)
    BY ZenonT(30), <1>7, PacketControl DEF PacketMove
  <2> QED BY SMTT(30), <2>1, <1>1, <1>2, <1>3, <1>4, <1>5, <1>7
<1>8. CASE pc[c] \in {"backout", "leave"}
  <2>1. InSection(c) /\ ~InSection(c)'
    BY ZenonT(30), <1>8, PacketControl DEF PacketMove
  <2> QED BY SMTT(30), <2>1, <1>1, <1>2, <1>3, <1>5, <1>8
<1> QED BY ZenonT(30), <1>6, <1>7, <1>8

\* A packet that holds a counter, is inside the section or has passed its
\* second guard check is past the lookup.
LEMMA HeldPast ==
  ASSUME TableInv, NEW c \in CPUs, held[c] # NoEntry \/ InSection(c) \/ Passing(c)
  PROVE  PastLookup(c)
<1>1. held[c] # NoEntry => pc[c] = "enter" \/ InSection(c)
  BY ZenonT(30) DEF TableInv, PacketHolds
<1>2. InSection(c) => PastLookup(c)
  BY ZenonT(30) DEF InSection, PastLookup
<1>3. Passing(c) => PastLookup(c)
  BY ZenonT(30) DEF Passing, PastLookup, GuardCheck
<1>4. pc[c] = "enter" => PastLookup(c)
  BY ZenonT(30) DEF PastLookup
<1> QED BY ZenonT(30), <1>1, <1>2, <1>3, <1>4

\* A pointer to a counter comes from the lookup of the packet's own flow.
LEMMA HeldKeeps ==
  ASSUME TableInv, NEW c \in CPUs, PacketStep(c), held'[c] # NoEntry
  PROVE  /\ key'[c] = key[c]
         /\ held'[c] = held[c] \/ (pc[c] = "inflight" /\ held'[c] = inflight[key[c]])
<1>1. (pc[c] = "enter" \/ InSection(c))'
  BY ZenonT(30), PacketControl DEF PacketMove
<1>2. PastLookup(c)'
  BY ZenonT(30), <1>1 DEF PastLookup, InSection
<1> QED BY ZenonT(30), <1>2, PacketControl DEF PacketMove

\* Unless the step recycles an element under a packet, a creator takes one that
\* no flow and no packet refers to.
LEMMA FreshCell ==
  ASSUME TableInv, ~recycled', NEW c \in CPUs, InsertInflight(c), inflight' # inflight
  PROVE  \E e \in Cells : /\ inflight' = [inflight EXCEPT ![key[c]] = e]
                          /\ tally' = [tally EXCEPT ![e] = 0]
                          /\ \A k \in Generations : inflight[k] # e
                          /\ \A d \in CPUs : held[d] # e
BY ZenonT(30) DEF InsertInflight, FreeCells

----------------------------------------------------------------------------
\* A packet step keeps each conjunct of DeletionInv.

\* Each counter belongs to one flow, and a held pointer leads to the counter
\* of the packet's own flow as long as that flow has one.
LEMMA PacketStepCells ==
  ASSUME TableInv, CellsOwned, ~recycled', NEW c \in CPUs, PacketStep(c)
  PROVE  CellsOwned'
<1>a. MapsTypeOK /\ PacketTypeOK
  BY ZenonT(30) DEF TableInv, TypeOK
<1>b. key[c] \in Generations
  BY ZenonT(30), KeyInUse, PacketControl DEF PacketMove
<1>c. ASSUME NEW d \in CPUs, d # c
      PROVE  held'[d] = held[d] /\ key'[d] = key[d]
  BY ZenonT(30), <1>c, <1>a, OtherCPUs
<1>1. CASE pc[c] = "insert_inflight" /\ inflight' # inflight
  <2>1. InsertInflight(c) /\ pc[c] \in Creating
    BY ZenonT(30), <1>1, PacketStepAt DEF Creating, Inserting
  <2>2. PICK e \in Cells : /\ inflight' = [inflight EXCEPT ![key[c]] = e]
                           /\ \A k \in Generations : inflight[k] # e
                           /\ \A d \in CPUs : held[d] # e
    BY ZenonT(30), <2>1, <1>1, FreshCell
  <2>3. UNCHANGED <<held, key>>
    BY ZenonT(30), <2>1 DEF InsertInflight, Goto
  <2>4. ASSUME NEW d \in CPUs, held[d] # NoEntry
        PROVE  key[d] # key[c]
    <3>1. PastLookup(d)
      BY ZenonT(30), <2>4, HeldPast
    <3>2. d # c
      BY ZenonT(30), <3>1, <1>1 DEF PastLookup, GuardCheck
    <3> QED BY ZenonT(30), <3>1, <3>2, <2>1, Alone
  <2>5. ASSUME NEW j \in Generations, NEW k \in Generations,
               inflight'[j] # NoEntry, inflight'[j] = inflight'[k]
        PROVE  j = k
    BY ZenonT(30), <2>2, <2>5, <1>a, <1>b DEF CellsOwned, MapsTypeOK
  <2>6. ASSUME NEW d \in CPUs, NEW k \in Generations, held[d] # NoEntry, inflight'[k] # NoEntry
        PROVE  k = key[d] <=> inflight'[k] = held[d]
    BY ZenonT(30), <2>2, <2>4, <2>6, <1>a, <1>b DEF CellsOwned, MapsTypeOK
  <2> QED BY ZenonT(30), <2>3, <2>5, <2>6 DEF CellsOwned
<1>2. CASE ~(pc[c] = "insert_inflight" /\ inflight' # inflight)
  <2>1. \A k \in Generations : inflight'[k] \in {inflight[k], NoEntry}
    <3>1. CASE pc[c] = "drop_inflight"
      <4>1. DropInflight(c)
        BY ZenonT(30), <3>1, PacketStepAt
      <4> QED BY ZenonT(30), <4>1, <1>a, <1>b DEF DropInflight, MapsTypeOK
    <3>2. CASE pc[c] # "drop_inflight"
      BY ZenonT(30), <3>2, <1>2, PacketStepFrame
    <3> QED BY ZenonT(30), <3>1, <3>2
  <2>2. ASSUME NEW j \in Generations, NEW k \in Generations,
               inflight'[j] # NoEntry, inflight'[j] = inflight'[k]
        PROVE  j = k
    BY ZenonT(30), <2>1, <2>2 DEF CellsOwned
  <2>3. ASSUME NEW d \in CPUs, NEW k \in Generations, held'[d] # NoEntry, inflight'[k] # NoEntry
        PROVE  k = key'[d] <=> inflight'[k] = held'[d]
    <3>1. inflight'[k] = inflight[k]
      BY ZenonT(30), <2>1, <2>3
    <3>2. CASE held'[d] = held[d] /\ key'[d] = key[d]
      BY ZenonT(30), <3>1, <3>2, <2>3 DEF CellsOwned
    <3>3. CASE ~(held'[d] = held[d] /\ key'[d] = key[d])
      <4>1. d = c
        BY ZenonT(30), <3>3, <1>c
      <4>2. key'[c] = key[c] /\ held'[c] = inflight[key[c]]
        BY ZenonT(30), <4>1, <3>3, <2>3, HeldKeeps
      <4> QED BY ZenonT(30), <4>1, <4>2, <3>1, <2>3, <1>b DEF CellsOwned
    <3> QED BY ZenonT(30), <3>2, <3>3
  <2> QED BY ZenonT(30), <2>2, <2>3 DEF CellsOwned
<1> QED BY ZenonT(30), <1>1, <1>2

\* Each counter counts the packets inside the section of its flow.
LEMMA PacketStepCount ==
  ASSUME TableInv, CellsOwned, InFlightExact, ~recycled', NEW c \in CPUs, PacketStep(c)
  PROVE  InFlightExact'
<1>a. MapsTypeOK /\ PacketTypeOK
  BY ZenonT(30) DEF TableInv, TypeOK
<1>b. key[c] \in Generations
  BY ZenonT(30), KeyInUse, PacketControl DEF PacketMove
<1> SUFFICES ASSUME NEW k \in Generations, inflight'[k] # NoEntry
             PROVE  tally'[inflight'[k]] = Cardinality(Inside(k)')
  BY ZenonT(30) DEF InFlightExact
<1>c. /\ inflight[k] # NoEntry => tally[inflight[k]] = Cardinality(Inside(k))
      /\ Cardinality(Inside(k)) \in Nat /\ Cardinality(Inside(k)) < CounterMax
      /\ IsFiniteSet(Inside(k))
  BY ZenonT(30), InsideCount DEF InFlightExact
<1>d. inflight[k] \in Cells \cup {NoEntry}
  BY ZenonT(30), <1>a DEF MapsTypeOK
<1>1. CASE pc[c] = "insert_inflight"
  <2>1. InsertInflight(c) /\ pc[c] \in Creating /\ Inside(k)' = Inside(k)
    BY ZenonT(30), <1>1, PacketStepAt, InsideStep DEF Creating, Inserting
  <2>2. CASE inflight' = inflight
    <3>1. tally' = tally
      BY ZenonT(30), <2>1, <2>2, <1>a, <1>b, TupleAssumption DEF InsertInflight, FreeCells, MapsTypeOK
    <3> QED BY ZenonT(30), <3>1, <2>1, <2>2, <1>c
  <2>3. CASE inflight' # inflight
    <3>1. PICK e \in Cells : /\ inflight' = [inflight EXCEPT ![key[c]] = e]
                             /\ tally' = [tally EXCEPT ![e] = 0]
                             /\ \A j \in Generations : inflight[j] # e
      BY ZenonT(30), <2>1, <2>3, FreshCell
    <3>2. CASE k = key[c]
      <4>1. ASSUME NEW d \in Inside(k) PROVE FALSE
        <5>1. d \in CPUs /\ key[d] = key[c] /\ InSection(d)
          BY ZenonT(30), <4>1, <3>2 DEF Inside
        <5>2. PastLookup(d)
          BY ZenonT(30), <5>1, HeldPast
        <5>3. d # c
          BY ZenonT(30), <5>2, <1>1 DEF PastLookup, GuardCheck
        <5> QED BY ZenonT(30), <5>1, <5>2, <5>3, <2>1, Alone
      <4>2. Cardinality(Inside(k)) = 0
        BY ZenonT(30), <4>1, FS_EmptySet
      <4>3. tally'[inflight'[k]] = 0
        BY ZenonT(30), <3>1, <3>2, <1>a, <1>b DEF MapsTypeOK
      <4> QED BY ZenonT(30), <4>2, <4>3, <2>1
    <3>3. CASE k # key[c]
      <4>1. inflight'[k] = inflight[k] /\ tally'[inflight[k]] = tally[inflight[k]]
        BY ZenonT(30), <3>1, <3>3, <1>a, <1>d DEF MapsTypeOK
      <4> QED BY ZenonT(30), <4>1, <2>1, <1>c
    <3> QED BY ZenonT(30), <3>2, <3>3
  <2> QED BY ZenonT(30), <2>2, <2>3
<1>2. CASE pc[c] \in {"enter", "backout"}
  <2>1. EnterSection(c) \/ BackOut(c)
    BY ZenonT(30), <1>2, PacketStepAt
  <2>2. inflight' = inflight /\ held[c] \in Cells
    BY ZenonT(30), <2>1, <1>2, HeldCell DEF EnterSection, BackOut, InSection
  <2>3. held[c] # NoEntry /\ inflight[k] \in Cells
    BY ZenonT(30), <2>2, <1>d, TupleAssumption
  <2>4. k = key[c] <=> inflight[k] = held[c]
    BY ZenonT(30), <2>2, <2>3 DEF CellsOwned
  <2>5. CASE k # key[c]
    <3>1. tally'[inflight[k]] = tally[inflight[k]]
      BY ZenonT(30), <2>1, <2>2, <2>3, <2>4, <2>5, <1>a DEF EnterSection, BackOut, MapsTypeOK
    <3>2. Inside(k)' = Inside(k)
      BY ZenonT(30), <2>5, <1>2, InsideStep
    <3> QED BY ZenonT(30), <3>1, <3>2, <2>2, <1>c
  <2>6. CASE k = key[c] /\ pc[c] = "enter"
    <3>1. c \notin Inside(k) /\ Inside(k)' = Inside(k) \cup {c}
      BY ZenonT(30), <2>6, InsideStep
    <3>2. Cardinality(Inside(k)') = Cardinality(Inside(k)) + 1
      BY ZenonT(30), <3>1, <1>c, FS_AddElement
    <3>3. tally'[inflight[k]] = Plus1(tally[inflight[k]])
      <4>1. EnterSection(c)
        BY ZenonT(30), <2>6, PacketStepAt
      <4>2. tally' = [tally EXCEPT ![held[c]] = Plus1(tally[held[c]])]
        BY ZenonT(30), <4>1 DEF EnterSection
      <4> QED BY ZenonT(30), <4>2, <2>2, <2>4, <2>6, <1>a DEF MapsTypeOK
    <3>4. Plus1(tally[inflight[k]]) = Cardinality(Inside(k)) + 1
      <4>1. tally[inflight[k]] = Cardinality(Inside(k))
        BY ZenonT(30), <1>c, <2>3, TupleAssumption
      <4>2. Cardinality(Inside(k)) # CounterMax
        BY SMTT(30), <1>c, BoundAssumption
      <4> QED BY ZenonT(30), <4>1, <4>2 DEF Plus1
    <3> QED BY ZenonT(30), <3>2, <3>3, <3>4, <2>2
  <2>7. CASE k = key[c] /\ pc[c] = "backout"
    <3>1. c \in Inside(k) /\ Inside(k)' = Inside(k) \ {c}
      BY ZenonT(30), <2>7, InsideStep
    <3>2. Cardinality(Inside(k)') = Cardinality(Inside(k)) - 1
      BY ZenonT(30), <3>1, <1>c, FS_RemoveElement
    <3>3. Cardinality(Inside(k)) # 0
      BY ZenonT(30), <3>1, <1>c, FS_EmptySet
    <3>4. tally'[inflight[k]] = Minus1(tally[inflight[k]])
      <4>1. BackOut(c)
        BY ZenonT(30), <2>7, PacketStepAt
      <4>2. tally' = [tally EXCEPT ![held[c]] = Minus1(tally[held[c]])]
        BY ZenonT(30), <4>1 DEF BackOut
      <4> QED BY ZenonT(30), <4>2, <2>2, <2>4, <2>7, <1>a DEF MapsTypeOK
    <3>5. Minus1(tally[inflight[k]]) = Cardinality(Inside(k)) - 1
      BY ZenonT(30), <1>c, <2>2, <2>3, <3>3 DEF Minus1
    <3> QED BY ZenonT(30), <3>2, <3>4, <3>5, <2>2
  <2> QED BY ZenonT(30), <2>5, <2>6, <2>7, <1>2
<1>3. CASE pc[c] = "leave"
  <2>1. LeaveSection(c) /\ inflight' = inflight /\ inflight[k] \in Cells
    BY ZenonT(30), <1>3, <1>d, PacketStepAt DEF LeaveSection
  <2>2. CASE k # key[c]
    <3>1. tally'[inflight[k]] = tally[inflight[k]]
      <4>1. inflight[k] # inflight[key[c]]
        BY ZenonT(30), <2>1, <2>2, <1>b DEF CellsOwned
      <4> QED BY ZenonT(30), <4>1, <2>1, <1>a DEF LeaveSection, MapsTypeOK
    <3>2. Inside(k)' = Inside(k)
      BY ZenonT(30), <2>2, <1>3, InsideStep
    <3> QED BY ZenonT(30), <3>1, <3>2, <2>1, <1>c
  <2>3. CASE k = key[c]
    <3>1. c \in Inside(k) /\ Inside(k)' = Inside(k) \ {c}
      BY ZenonT(30), <2>3, <1>3, InsideStep
    <3>2. Cardinality(Inside(k)') = Cardinality(Inside(k)) - 1
      BY ZenonT(30), <3>1, <1>c, FS_RemoveElement
    <3>3. Cardinality(Inside(k)) # 0
      BY ZenonT(30), <3>1, <1>c, FS_EmptySet
    <3>4. tally'[inflight[k]] = Minus1(tally[inflight[k]])
      BY ZenonT(30), <2>1, <2>3, <1>a DEF LeaveSection, MapsTypeOK
    <3>5. Minus1(tally[inflight[k]]) = Cardinality(Inside(k)) - 1
      BY ZenonT(30), <1>c, <2>1, <3>3 DEF Minus1
    <3> QED BY ZenonT(30), <3>2, <3>4, <3>5, <2>1
  <2> QED BY ZenonT(30), <2>2, <2>3
<1>4. CASE pc[c] \notin {"insert_inflight", "enter", "backout", "leave"}
  <2>1. tally' = tally /\ Inside(k)' = Inside(k)
    BY ZenonT(30), <1>4, PacketStepFrame, InsideStep
  <2>2. inflight'[k] = inflight[k]
    <3>1. CASE pc[c] = "drop_inflight"
      <4>1. DropInflight(c)
        BY ZenonT(30), <3>1, PacketStepAt
      <4> QED BY ZenonT(30), <4>1, <1>a, <1>b DEF DropInflight, MapsTypeOK
    <3>2. CASE pc[c] # "drop_inflight"
      BY ZenonT(30), <3>2, <1>4, PacketStepFrame
    <3> QED BY ZenonT(30), <3>1, <3>2
  <2> QED BY ZenonT(30), <2>1, <2>2, <1>c
<1> QED BY ZenonT(30), <1>1, <1>2, <1>3, <1>4

\* The record a packet is updating stays ACTIVE under every packet step.
LEMMA PacketStepUse ==
  ASSUME TableInv, NoUseAfterDelete, NEW c \in CPUs, PacketStep(c)
  PROVE  NoUseAfterDelete'
<1>a. MapsTypeOK /\ PacketTypeOK
  BY ZenonT(30) DEF TableInv, TypeOK
<1>b. key[c] \in Generations
  BY ZenonT(30), KeyInUse, PacketControl DEF PacketMove
<1> SUFFICES ASSUME NEW d \in CPUs, pc'[d] \in {"touch", "leave"}
             PROVE  life'[key'[d]] = "ACTIVE"
  BY ZenonT(30) DEF NoUseAfterDelete
<1>1. /\ key'[d] = key[d] /\ life[key[d]] = "ACTIVE" /\ PastLookup(d)
      /\ d = c => pc[c] \in {"resolve", "touch"}
  <2>1. CASE d = c
    <3>1. (pc[c] = "resolve" /\ life[key[c]] = "ACTIVE") \/ pc[c] = "touch"
      BY ZenonT(30), <2>1, PacketControl DEF PacketMove
    <3>2. life[key[c]] = "ACTIVE" /\ pc[c] \in {"resolve", "touch"} /\ PastLookup(c)
      BY ZenonT(30), <3>1 DEF NoUseAfterDelete, PastLookup
    <3>3. key'[c] = key[c]
      <4>1. Passing(c)'
        BY ZenonT(30), <2>1 DEF Passing
      <4> QED BY ZenonT(30), <4>1, PacketControl DEF PacketMove
    <3> QED BY ZenonT(30), <3>2, <3>3, <2>1
  <2>2. CASE d # c
    <3>1. pc'[d] = pc[d] /\ key'[d] = key[d]
      BY ZenonT(30), <2>2, <1>a, OtherCPUs
    <3> QED BY ZenonT(30), <3>1, <2>2 DEF NoUseAfterDelete, PastLookup
  <2> QED BY ZenonT(30), <2>1, <2>2
<1>2. key[d] \in Generations
  BY ZenonT(30), <1>1, KeyInUse DEF PastLookup, GuardCheck, Verdicts
<1>3. CASE pc[c] \in {"insert_state", "drop_state"}
  <2>1. pc[c] \in Creating /\ d # c
    BY ZenonT(30), <1>1, <1>3 DEF Creating, Inserting, RollingBack
  <2>2. key[d] # key[c]
    BY ZenonT(30), <2>1, <1>1, Alone
  <2>3. InsertState(c) \/ DropState(c)
    BY ZenonT(30), <1>3, PacketStepAt
  <2>4. life'[key[d]] = life[key[d]]
    BY ZenonT(30), <2>2, <2>3, <1>2, <1>a DEF InsertState, DropState, MapsTypeOK
  <2> QED BY ZenonT(30), <2>4, <1>1
<1>4. CASE pc[c] = "publish"
  <2>1. Publish(c)
    BY ZenonT(30), <1>4, PacketStepAt
  <2>2. life' = life \/ life' = [life EXCEPT ![key[c]] = "ACTIVE"]
    BY ZenonT(30), <2>1 DEF Publish
  <2> QED BY <2>2, <1>1, <1>2, <1>a DEF MapsTypeOK
<1>5. CASE pc[c] \notin {"insert_state", "publish", "drop_state"}
  BY ZenonT(30), <1>1, <1>5, PacketStepFrame
<1> QED BY ZenonT(30), <1>3, <1>4, <1>5

\* After the second drain no packet passes its guard check: the outcome is
\* COMMITTED, and every packet reads it after it has counted itself. So the
\* record's last_used_ns is still the one the host compared.
LEMMA PacketStepQuiescent ==
  ASSUME TableInv, Quiescent, NEW c \in CPUs, PacketStep(c), UNCHANGED hostVars
  PROVE  Quiescent'
<1>a. MapsTypeOK /\ PacketTypeOK /\ HostKnows
  BY ZenonT(30) DEF TableInv, TypeOK
<1>b. key[c] \in Generations
  BY ZenonT(30), KeyInUse, PacketControl DEF PacketMove
<1>c. hpc' = hpc /\ hkey' = hkey /\ hobs' = hobs
  BY ZenonT(30) DEF hostVars
<1>1. ASSUME hpc \in {"reread", "journal", "remove_state"}, life'[hkey] # "none"
      PROVE  /\ hkey \in Generations /\ orig[hkey] # NoEntry
             /\ outcome[hkey] = "COMMITTED" /\ life[hkey] # "none"
             /\ \A d \in CPUs : key[d] = hkey => ~Passing(d)
  <2>1. hpc \in Committed /\ hpc # "idle"
    BY ZenonT(30), <1>1 DEF Committed
  <2>2. hkey \in Generations /\ orig[hkey] # NoEntry /\ outcome[hkey] = "COMMITTED"
    BY ZenonT(30), <2>1, <1>a DEF HostKnows
  <2>3. life[hkey] # "none"
    BY ZenonT(30), <2>2, <1>1, NoneStays
  <2> QED BY ZenonT(30), <2>2, <2>3, <1>1 DEF Quiescent
<1>2. ASSUME hpc \in {"reread", "journal", "remove_state"}, life'[hkey] # "none",
             NEW d \in CPUs, key'[d] = hkey, Passing(d)'
      PROVE  FALSE
  <2>1. outcome[hkey] = "COMMITTED" /\ \A e \in CPUs : key[e] = hkey => ~Passing(e)
    BY ZenonT(30), <1>1, <1>2
  <2>2. CASE d = c
    <3>1. Passing(c)'
      BY ZenonT(30), <2>2, <1>2 DEF Passing
    <3>2. key'[c] = key[c] /\ (Passing(c) \/ outcome[key[c]] # "COMMITTED")
      BY ZenonT(30), <3>1, PacketControl DEF PacketMove
    <3> QED BY ZenonT(30), <3>2, <2>1, <2>2, <1>2
  <2>3. CASE d # c
    <3>1. key[d] = key'[d] /\ Passing(d)
      BY ZenonT(30), <2>3, <1>2, <1>a, OtherCPUs DEF Passing
    <3> QED BY ZenonT(30), <3>1, <2>1, <1>2
  <2> QED BY ZenonT(30), <2>2, <2>3
<1>3. ASSUME hpc \in {"journal", "remove_state"}, life'[hkey] # "none"
      PROVE  hobs \in {0, used'[hkey]}
  <2>1. /\ hkey \in Generations /\ orig[hkey] # NoEntry /\ life[hkey] # "none"
        /\ \A e \in CPUs : key[e] = hkey => ~Passing(e)
    BY ZenonT(30), <1>1, <1>3
  <2>2. hobs \in {0, used[hkey]}
    BY ZenonT(30), <2>1, <1>3 DEF Quiescent
  <2>3. CASE pc[c] = "insert_state"
    <3>1. InsertState(c) /\ orig[key[c]] = NoEntry
      BY ZenonT(30), <2>3, PacketStepAt DEF TableInv, CreatorAlone, Creating, Inserting
    <3>2. used'[hkey] = used[hkey]
      BY ZenonT(30), <3>1, <2>1, <1>a, <1>b DEF InsertState, MapsTypeOK
    <3> QED BY ZenonT(30), <3>2, <2>2
  <2>4. CASE pc[c] = "publish"
    <3>1. Publish(c) /\ (life[key[c]] # "none" => used[key[c]] = now[c])
      BY ZenonT(30), <2>4, PacketStepAt DEF TableInv, CreatorAlone, Creating, Inserting
    <3>2. used'[hkey] = used[hkey]
      BY ZenonT(30), <3>1, <2>1, <1>a, <1>b DEF Publish, MapsTypeOK
    <3> QED BY ZenonT(30), <3>2, <2>2
  <2>5. CASE pc[c] = "touch"
    <3>1. TouchState(c) /\ Passing(c)
      BY ZenonT(30), <2>5, PacketStepAt DEF Passing
    <3>2. used'[hkey] = used[hkey]
      BY ZenonT(30), <3>1, <2>1, <1>a, <1>b DEF TouchState, MapsTypeOK
    <3> QED BY ZenonT(30), <3>2, <2>2
  <2>6. CASE pc[c] \notin {"insert_state", "publish", "touch"}
    BY ZenonT(30), <2>2, <2>6, PacketStepFrame
  <2> QED BY ZenonT(30), <2>3, <2>4, <2>5, <2>6
<1> QED BY ZenonT(30), <1>2, <1>3, <1>c DEF Quiescent, Passing

----------------------------------------------------------------------------
\* Arrivals, the deletion and time keep DeletionInv.

\* The arrival of a packet keeps DeletionInv: it is not inside any section
\* yet.
LEMMA ArrivalDeletion ==
  ASSUME TableInv, DeletionInv, NEW c \in CPUs, PacketArrives(c), UNCHANGED hostVars
  PROVE  DeletionInv'
<1>a. PacketTypeOK
  BY ZenonT(30) DEF TableInv, TypeOK
<1>b. UNCHANGED <<life, used, inflight, tally>>
  BY ZenonT(30) DEF PacketArrives, PacketHit, PacketMiss, PacketCreate
<1>c. pc[c] \in Verdicts /\ pc'[c] \in Verdicts \cup {"lookup", "pop"}
  BY ZenonT(30), <1>a DEF PacketArrives, PacketHit, PacketMiss, PacketCreate, Return, PacketTypeOK, Verdicts
<1>d. ~InSection(c) /\ ~InSection(c)' /\ ~Passing(c)' /\ pc[c] # "enter"
  BY ZenonT(30), <1>c DEF InSection, Passing, GuardCheck, Verdicts
<1>e. held'[c] = NoEntry
  <2>1. held[c] = NoEntry
    BY ZenonT(30), <1>d DEF TableInv, PacketHolds
  <2> QED BY ZenonT(30), <2>1, <1>a DEF PacketArrives, PacketHit, PacketMiss, PacketCreate, Return, PacketTypeOK
<1>f. ASSUME NEW d \in CPUs, d # c
      PROVE  /\ pc'[d] = pc[d] /\ key'[d] = key[d] /\ held'[d] = held[d]
             /\ InSection(d)' <=> InSection(d)
             /\ Passing(d)' <=> Passing(d)
  BY ZenonT(30), <1>f, <1>a, OtherCPUs DEF InSection, Passing
<1>1. CellsOwned'
  <2>1. \A j, k \in Generations : inflight'[j] # NoEntry /\ inflight'[j] = inflight'[k] => j = k
    BY ZenonT(30), <1>b DEF DeletionInv, CellsOwned
  <2>2. ASSUME NEW d \in CPUs, NEW k \in Generations, held'[d] # NoEntry, inflight'[k] # NoEntry
        PROVE  k = key'[d] <=> inflight'[k] = held'[d]
    <3>1. d # c
      BY ZenonT(30), <2>2, <1>e
    <3>2. key'[d] = key[d] /\ held'[d] = held[d]
      BY ZenonT(30), <3>1, <1>f
    <3> QED BY ZenonT(30), <3>2, <2>2, <1>b DEF DeletionInv, CellsOwned
  <2> QED BY ZenonT(30), <2>1, <2>2 DEF CellsOwned
<1>2. Quiescent'
  BY ZenonT(30), <1>b, <1>d, <1>f DEF DeletionInv, Quiescent, hostVars
<1>3. NoUseAfterDelete'
  BY ZenonT(30), <1>b, <1>c, <1>f DEF DeletionInv, NoUseAfterDelete, Verdicts
<1>4. InFlightExact'
  <2>1. ASSUME NEW k \in Generations PROVE Inside(k)' = Inside(k)
    <3>1. \A d \in CPUs : (key'[d] = k /\ InSection(d)') <=> (key[d] = k /\ InSection(d))
      BY ZenonT(30), <1>d, <1>f
    <3> QED BY ZenonT(30), <3>1 DEF Inside
  <2> QED BY ZenonT(30), <2>1, <1>b DEF DeletionInv, InFlightExact
<1> QED BY ZenonT(30), <1>1, <1>2, <1>3, <1>4 DEF DeletionInv

\* Only a drained counter leads to the re-read, only a matching observation to
\* the journal, and only the journal to the removal.
LEMMA HostStepControl ==
  ASSUME HostStep, hpc' \in {"reread", "journal", "remove_state"}
  PROVE  /\ UNCHANGED <<life, used, hkey, hobs>>
         /\ \/ hpc = "redrain" /\ hpc' = "reread" /\ InFlight = 0
            \/ hpc = "reread" /\ hpc' = "journal" /\ hobs \in {0, used[hkey]}
            \/ hpc = "journal" /\ hpc' = "remove_state"
<1>1. CASE FindState
  BY ZenonT(30), <1>1 DEF FindState
<1>2. CASE AbsentGuard
  BY ZenonT(30), <1>2 DEF AbsentGuard, HostGoto
<1>3. CASE AbsentOutcome
  BY ZenonT(30), <1>3 DEF AbsentOutcome, HostGoto
<1>4. CASE ScanStale
  BY ZenonT(30), <1>4 DEF ScanStale
<1>5. CASE ScanOwned
  BY ZenonT(30), <1>5 DEF ScanOwned
<1>6. CASE ReadGuard
  BY ZenonT(30), <1>6 DEF ReadGuard, HostGoto, HostReturn
<1>7. CASE RemoveOldGuard
  BY ZenonT(30), <1>7 DEF RemoveOldGuard, HostGoto, HostReturn
<1>8. CASE RemoveOldOutcome
  BY ZenonT(30), <1>8 DEF RemoveOldOutcome, HostGoto
<1>9. CASE InsertGuard
  BY ZenonT(30), <1>9 DEF InsertGuard, HostGoto, HostReturn
<1>10. CASE Drain
  BY ZenonT(30), <1>10 DEF Drain, HostGoto, HostNote
<1>11. CASE ReadState
  BY ZenonT(30), <1>11 DEF ReadState, HostGoto, HostNote
<1>12. CASE Commit
  BY ZenonT(30), <1>12 DEF Commit, HostGoto, HostNote
<1>13. CASE Redrain
  BY ZenonT(30), <1>13 DEF Redrain, HostGoto, HostNote
<1>14. CASE Reread
  BY ZenonT(30), <1>14 DEF Reread, HostNote
<1>15. CASE JournalRelease
  BY ZenonT(30), <1>15 DEF JournalRelease, HostGoto, HostNote
<1>16. CASE RemoveState
  BY ZenonT(30), <1>16 DEF RemoveState, HostNote
<1>17. CASE Unjournal
  BY ZenonT(30), <1>17 DEF Unjournal, HostGoto
<1>18. CASE CheckIndex
  BY ZenonT(30), <1>18 DEF CheckIndex, HostGoto
<1>19. CASE RemoveIndex
  BY ZenonT(30), <1>19 DEF RemoveIndex
<1>20. CASE RemoveInflight
  BY ZenonT(30), <1>20 DEF RemoveInflight, HostGoto, HostNote
<1>21. CASE ReadJournal
  BY ZenonT(30), <1>21 DEF ReadJournal, HostGoto, EndCleanup, HostNote, HostReturn
<1>22. CASE PushRelease
  BY ZenonT(30), <1>22 DEF PushRelease, EndCleanup, HostNote, HostReturn
<1>23. CASE ClearGuard
  BY ZenonT(30), <1>23 DEF ClearGuard, HostGoto, HostNote
<1>24. CASE ClearOutcome
  BY ZenonT(30), <1>24 DEF ClearOutcome, HostReturn
<1>25. CASE ReadFails
  BY ZenonT(30), <1>25 DEF ReadFails, EndCleanup, HostNote, HostReturn
<1> QED
  BY ZenonT(30), <1>1, <1>2, <1>3, <1>4, <1>5, <1>6, <1>7, <1>8, <1>9, <1>10, <1>11, <1>12, <1>13, <1>14,
     <1>15, <1>16, <1>17, <1>18, <1>19, <1>20, <1>21, <1>22, <1>23, <1>24, <1>25
  DEF HostStep

\* When the host reads an in-flight count of zero under a COMMITTED outcome,
\* no packet of the flow is past its second guard check: either the counter
\* exists and is exact, or the flow was never published.
LEMMA Drained ==
  ASSUME TableInv, InFlightExact, hkey \in Generations, life[hkey] # "none", InFlight = 0,
         NEW c \in CPUs, key[c] = hkey
  PROVE  ~Passing(c)
<1> SUFFICES ASSUME Passing(c) PROVE FALSE
  OBVIOUS
<1>1. PastLookup(c)
  BY ZenonT(30), HeldPast
<1>2. life[hkey] = "ACTIVE"
  BY ZenonT(30), <1>1 DEF TableInv, TypeOK, MapsTypeOK, PacketHolds
<1>3. inflight[hkey] # NoEntry
  BY ZenonT(30), <1>2 DEF TableInv, RecordsComplete
<1>4. Cardinality(Inside(hkey)) = 0
  BY ZenonT(30), <1>3 DEF InFlight, InFlightExact
<1>5. Inside(hkey) = {}
  BY ZenonT(30), <1>4, InsideCount, FS_EmptySet
<1>6. InSection(c)
  BY ZenonT(30) DEF Passing, InSection, GuardCheck
<1> QED BY ZenonT(30), <1>5, <1>6 DEF Inside

\* Every step of delete_flow keeps DeletionInv.
LEMMA HostStepDeletion ==
  ASSUME TableInv, DeletionInv, HostStep, UNCHANGED cpuVars
  PROVE  DeletionInv'
<1>a. MapsTypeOK
  BY ZenonT(30) DEF TableInv, TypeOK
<1>b. CellsOwned /\ Quiescent /\ NoUseAfterDelete /\ InFlightExact
  BY ZenonT(30) DEF DeletionInv
<1>c. hkey \in Generations
  BY ZenonT(30), HostStepFrame DEF TableInv, HostKnows
<1>d. UNCHANGED <<pc, key, held, second, tally>>
  BY ZenonT(30), HostStepFrame DEF cpuVars
<1>e. \A k \in Generations : inflight'[k] \in {inflight[k], NoEntry}
  BY ZenonT(30), <1>a, HostStepFrame DEF MapsTypeOK
<1>1. CellsOwned'
  BY SMTT(30), <1>b, <1>d, <1>e DEF CellsOwned
<1>2. InFlightExact'
  <2>1. ASSUME NEW k \in Generations PROVE Inside(k)' = Inside(k)
    BY ZenonT(30), <1>d DEF Inside, InSection
  <2> QED BY ZenonT(30), <2>1, <1>b, <1>d, <1>e DEF InFlightExact
<1>3. NoUseAfterDelete'
  <2>1. ASSUME NEW c \in CPUs, pc[c] \in {"touch", "leave"}
        PROVE  life'[key[c]] = "ACTIVE"
    <3>1. life[key[c]] = "ACTIVE" /\ Passing(c)
      BY ZenonT(30), <2>1, <1>b DEF NoUseAfterDelete, Passing
    <3>2. key[c] \in Generations
      BY ZenonT(30), <2>1, KeyInUse DEF Verdicts
    <3>3. hpc = "remove_state" => key[c] # hkey
      BY ZenonT(30), <3>1, <1>b DEF Quiescent
    <3> QED BY ZenonT(30), <3>1, <3>2, <3>3, <1>a, HostStepFrame DEF MapsTypeOK
  <2> QED BY ZenonT(30), <2>1, <1>d DEF NoUseAfterDelete
<1>4. Quiescent'
  <2>1. ASSUME hpc' \in {"reread", "journal", "remove_state"}
        PROVE  /\ UNCHANGED <<life, used, hkey, hobs>>
               /\ life[hkey] # "none" => \A c \in CPUs : key[c] = hkey => ~Passing(c)
    <3>1. UNCHANGED <<life, used, hkey, hobs>>
      BY ZenonT(30), <2>1, HostStepControl
    <3>2. CASE hpc = "redrain" /\ InFlight = 0
      BY ZenonT(30), <3>1, <3>2, <1>b, <1>c, Drained
    <3>3. CASE hpc \in {"reread", "journal"}
      BY ZenonT(30), <3>1, <3>3, <1>b DEF Quiescent
    <3> QED BY ZenonT(30), <3>2, <3>3, <2>1, HostStepControl
  <2>2. ASSUME hpc' \in {"journal", "remove_state"}, life[hkey] # "none"
        PROVE  hobs \in {0, used[hkey]}
    <3>1. CASE hpc = "journal"
      BY ZenonT(30), <3>1, <2>2, <1>b DEF Quiescent
    <3>2. CASE hpc # "journal"
      BY ZenonT(30), <3>2, <2>2, HostStepControl
    <3> QED BY ZenonT(30), <3>1, <3>2
  <2> QED BY ZenonT(30), <2>1, <2>2, <1>d DEF Quiescent, Passing
<1> QED BY ZenonT(30), <1>1, <1>2, <1>3, <1>4 DEF DeletionInv

\* The call of delete_flow keeps DeletionInv.
LEMMA CallDeletion ==
  ASSUME TableInv, DeletionInv, NEW k \in Generations, NEW observed \in Observations,
         CallDeleteFlow(k, observed), UNCHANGED cpuVars
  PROVE  DeletionInv'
<1>1. UNCHANGED <<life, used, inflight, tally, pc, key, held, second>> /\ hpc' = "find_state"
  BY ZenonT(30) DEF CallDeleteFlow, DeleteFlow, cpuVars
<1>2. CellsOwned' /\ NoUseAfterDelete' /\ Quiescent'
  BY ZenonT(30), <1>1 DEF DeletionInv, CellsOwned, NoUseAfterDelete, Quiescent
<1>3. InFlightExact'
  BY ZenonT(30), <1>1 DEF DeletionInv, InFlightExact, Inside, InSection
<1> QED BY ZenonT(30), <1>2, <1>3 DEF DeletionInv

\* So does a step that changes neither the packets, nor the deletion, nor a
\* record or a counter.
LEMMA IdleDeletion ==
  ASSUME DeletionInv, UNCHANGED <<cpuVars, hostVars>>, UNCHANGED <<life, used, inflight, tally>>
  PROVE  DeletionInv'
<1>1. UNCHANGED <<life, used, inflight, tally, pc, key, held, second, hpc, hkey, hobs>>
  BY ZenonT(30) DEF cpuVars, hostVars
<1>2. CellsOwned' /\ NoUseAfterDelete'
  BY <1>1 DEF DeletionInv, CellsOwned, NoUseAfterDelete
<1>3. Quiescent'
  BY ZenonT(30), <1>1 DEF DeletionInv, Quiescent, Passing
<1>4. InFlightExact'
  BY ZenonT(30), <1>1 DEF DeletionInv, InFlightExact, Inside, InSection
<1> QED BY ZenonT(30), <1>2, <1>3, <1>4 DEF DeletionInv

----------------------------------------------------------------------------
\* The invariant and what follows from it.

\* The empty table satisfies DeletionInv.
LEMMA DeletionInit == Init => DeletionInv
<1> SUFFICES ASSUME Init PROVE DeletionInv
  OBVIOUS
<1> USE DEF Init, MapsInit, PacketInit, HostInit
<1>1. CellsOwned /\ InFlightExact
  BY ZenonT(30) DEF CellsOwned, InFlightExact
<1>2. Quiescent /\ NoUseAfterDelete
  BY ZenonT(30) DEF Quiescent, NoUseAfterDelete
<1> QED BY ZenonT(30), <1>1, <1>2 DEF DeletionInv

\* That an element was recycled is never forgotten.
LEMMA RecycledStays ==
  ASSUME [Next]_vars, recycled
  PROVE  recycled'
<1>1. ASSUME NEW c \in CPUs, PacketArrives(c)
      PROVE  UNCHANGED recycled
  BY ZenonT(30), <1>1 DEF PacketArrives, PacketHit, PacketMiss, PacketCreate
<1>2. ASSUME NEW k \in Generations, NEW observed \in Observations, CallDeleteFlow(k, observed)
      PROVE  UNCHANGED recycled
  BY ZenonT(30), <1>2 DEF CallDeleteFlow, DeleteFlow
<1>3. ASSUME Time
      PROVE  UNCHANGED recycled
  BY ZenonT(30), <1>3 DEF Time, Tick, DeadlinePasses
<1>4. CASE UNCHANGED vars
  BY ZenonT(30), <1>4 DEF vars
<1> QED
  BY ZenonT(30), <1>1, <1>2, <1>3, <1>4, PacketStepFrame, HostStepFrame DEF Next, Packets, Host

\* TableInv and DeletionInv together are inductive.
LEMMA DeletionStep == FlowTableInv /\ [Next]_vars => FlowTableInv'
<1> SUFFICES ASSUME FlowTableInv, [Next]_vars PROVE TableInv' /\ (~recycled' => DeletionInv')
  BY ZenonT(30) DEF FlowTableInv
<1>a. TableInv
  BY ZenonT(30) DEF FlowTableInv
<1>1. TableInv'
  BY ZenonT(30), <1>a, TableStep
<1> SUFFICES ASSUME ~recycled' PROVE DeletionInv'
  BY ZenonT(30), <1>1
<1>b. DeletionInv
  BY ZenonT(30), <1>a, RecycledStays DEF FlowTableInv
<1>2. ASSUME NEW c \in CPUs, PacketStep(c), UNCHANGED hostVars
      PROVE  DeletionInv'
  <2>1. CellsOwned' /\ InFlightExact'
    BY ZenonT(30), <1>a, <1>b, <1>2, PacketStepCells, PacketStepCount DEF DeletionInv
  <2>2. Quiescent' /\ NoUseAfterDelete'
    BY ZenonT(30), <1>a, <1>b, <1>2, PacketStepQuiescent, PacketStepUse DEF DeletionInv
  <2> QED BY ZenonT(30), <2>1, <2>2 DEF DeletionInv
<1>3. ASSUME Time, UNCHANGED <<cpuVars, hostVars>>
      PROVE  DeletionInv'
  BY ZenonT(30), <1>b, <1>3, IdleDeletion DEF Time, Tick, DeadlinePasses
<1>4. CASE UNCHANGED vars
  BY ZenonT(30), <1>b, <1>4, IdleDeletion DEF vars
<1> QED
  BY ZenonT(30), <1>a, <1>b, <1>2, <1>3, <1>4, ArrivalDeletion, HostStepDeletion, CallDeletion
  DEF Next, Packets, Host

\* The table is always consistent; and until an in-flight element is recycled
\* under a held pointer, the counters are exact and a flow under removal is
\* quiescent.
THEOREM DeletionInvariant == Spec => []FlowTableInv
<1>1. Init => FlowTableInv
  BY ZenonT(30), TableInit, DeletionInit DEF FlowTableInv
<1>2. FlowTableInv /\ [Next]_vars => FlowTableInv'
  BY ZenonT(30), DeletionStep
<1> QED BY <1>1, <1>2, PTL DEF Spec

\* Until an in-flight element is recycled under a held pointer, delete_flow
\* never removes a record while a packet is updating it: what the run
\* 'recycled' exhibits is the only way in which it can go wrong.
THEOREM NoUseAfterDeleteHolds == Spec => [](~recycled => NoUseAfterDelete)
<1>1. FlowTableInv => (~recycled => NoUseAfterDelete)
  BY ZenonT(30) DEF FlowTableInv, DeletionInv
<1> QED BY <1>1, DeletionInvariant, PTL

\* Until then the in-flight counter of a flow is the number of packets between
\* the increment in enter_flow_packet and the decrement that goes with it.
THEOREM InFlightExactHolds == Spec => [](~recycled => InFlightExact)
<1>1. FlowTableInv => (~recycled => InFlightExact)
  BY ZenonT(30) DEF FlowTableInv, DeletionInv
<1> QED BY <1>1, DeletionInvariant, PTL

\* In a behaviour in which no in-flight element is recycled under a held
\* pointer, delete_flow removes a record only with the last_used_ns its caller
\* observed: a packet that was processed in between saves the flow.
THEOREM DeletedAsObservedHolds == Spec /\ []~recycled => DeletedAsObserved
<1>1. FlowTableInv /\ ~recycled =>
        \A k \in Generations :
          hpc = "remove_state" /\ hkey = k /\ life[k] # "none" => hobs \in {0, used[k]}
  BY ZenonT(30) DEF FlowTableInv, DeletionInv, Quiescent
<1>2. FlowTableInv /\ ~recycled /\ [Next]_vars =>
        [\A k \in Generations :
           hpc = "remove_state" /\ hkey = k /\ life[k] # "none" /\ life'[k] = "none"
             => hobs \in {0, used[k]}]_vars
  BY ZenonT(30), <1>1
<1> QED BY <1>2, DeletionInvariant, PTL DEF Spec, DeletedAsObserved

----------------------------------------------------------------------------
\* The report of delete_flow.

\* A packet cannot make a report untrue: a removed record stays removed.
LEMMA PacketReport ==
  ASSUME TableInv, ReportInv, NEW c \in CPUs, PacketStep(c), UNCHANGED hostVars
  PROVE  ReportInv'
<1>1. UNCHANGED <<hpc, hkey, hobs, report>>
  BY ZenonT(30) DEF hostVars
<1>2. hpc # "idle" /\ life[hkey] = "none" => life'[hkey] = "none"
  BY ZenonT(30), NoneStays DEF TableInv, HostKnows
<1>3. hpc = "idle" => report = {}
  BY ZenonT(30) DEF ReportInv, Unnoted
<1> QED BY ZenonT(30), <1>1, <1>2, <1>3 DEF ReportInv, Clean

\* Nor can an arrival, the clock, or a step that changes neither the records
\* nor the call.
LEMMA IdleReport ==
  ASSUME ReportInv, UNCHANGED <<life, hpc, hkey, hobs, report>>
  PROVE  ReportInv'
BY ZenonT(30) DEF ReportInv, Clean

\* A new call starts with nothing noted.
LEMMA CallReport ==
  ASSUME ReportInv, NEW k \in Generations, NEW observed \in Observations, CallDeleteFlow(k, observed)
  PROVE  ReportInv'
<1>1. hpc = "idle" /\ hpc' = "find_state" /\ report' = report
  BY ZenonT(30) DEF CallDeleteFlow, DeleteFlow
<1>2. report' = {}
  BY ZenonT(30), <1>1 DEF ReportInv, Unnoted
<1> QED BY ZenonT(30), <1>1, <1>2 DEF ReportInv, Clean

\* A call that has returned has nothing noted.
LEMMA ReturnReport ==
  ASSUME NEW flags, HostReturn(flags)
  PROVE  ReportInv'
<1>1. hpc' = "idle" /\ hkey' = NoEntry /\ hobs' = 0 /\ report' = {}
  BY ZenonT(30) DEF HostReturn
<1> QED BY ZenonT(30), <1>1 DEF ReportInv, Clean

\* A step that notes nothing and stays before the removal, or that ends the
\* call with a flag that stands against a final reply.
LEMMA NoteReport ==
  ASSUME ReportInv, hpc \in Unnoted, hpc # "idle", UNCHANGED hkey,
         \/ hpc' \in Unnoted \ {"idle"} /\ report' = report
         \/ /\ hpc' = "clear_guard"
            /\ \E f \in {"partial", "error", "observation_mismatch"} : report' = report \cup {f}
  PROVE  ReportInv'
<1>1. report = {}
  BY ZenonT(30) DEF ReportInv
<1>2. CASE hpc' \in Unnoted \ {"idle"} /\ report' = report
  BY ZenonT(30), <1>1, <1>2 DEF ReportInv, Clean, Unnoted, Committed
<1>3. CASE /\ hpc' = "clear_guard"
           /\ \E f \in {"partial", "error", "observation_mismatch"} : report' = report \cup {f}
  BY ZenonT(30), <1>1, <1>3 DEF ReportInv, Clean, Unnoted, Committed
<1> QED BY ZenonT(30), <1>2, <1>3

\* Every step of delete_flow keeps its report true.
LEMMA HostReport ==
  ASSUME TableInv, ReportInv, HostStep
  PROVE  ReportInv'
<1>a. hpc # "idle" /\ hkey \in Generations
  BY ZenonT(30), HostStepFrame DEF TableInv, HostKnows
<1>b. life[hkey] = "none" => life'[hkey] = "none"
  BY ZenonT(30), <1>a, HostStepFrame DEF TableInv, TypeOK, MapsTypeOK
<1>c. hpc \in {"scan_stale", "scan_owned", "check_index", "remove_index", "remove_inflight"} =>
        life[hkey] = "none"
  BY ZenonT(30) DEF TableInv, HostKnows
<1>1. CASE FindState
  BY ZenonT(30), <1>1, <1>a, NoteReport DEF FindState, Unnoted
<1>2. CASE AbsentGuard
  BY ZenonT(30), <1>2, <1>a, NoteReport DEF AbsentGuard, HostGoto, Unnoted
<1>3. CASE AbsentOutcome
  BY ZenonT(30), <1>3, <1>a, NoteReport DEF AbsentOutcome, HostGoto, Unnoted
<1>4. CASE ScanStale
  <2>1. report = {} /\ hpc' = "scan_owned" /\ hkey' = hkey
    BY ZenonT(30), <1>4 DEF ScanStale, ReportInv, Unnoted
  <2>2. "state_deleted" \notin report' /\ "index_deleted" \notin report'
    BY ZenonT(30), <1>4, <2>1 DEF ScanStale
  <2> QED BY ZenonT(30), <2>1, <2>2 DEF ReportInv, Unnoted, Committed
<1>5. CASE ScanOwned
  <2>1. hpc' = "check_index" /\ hkey' = hkey /\ report' = report
    BY ZenonT(30), <1>5 DEF ScanOwned
  <2> QED BY ZenonT(30), <2>1, <1>b DEF ReportInv, Unnoted, Committed
<1>6. CASE ReadGuard
  BY ZenonT(30), <1>6, <1>a, NoteReport, ReturnReport DEF ReadGuard, HostGoto, Unnoted
<1>7. CASE RemoveOldGuard
  BY ZenonT(30), <1>7, <1>a, NoteReport, ReturnReport DEF RemoveOldGuard, HostGoto, Unnoted
<1>8. CASE RemoveOldOutcome
  BY ZenonT(30), <1>8, <1>a, NoteReport DEF RemoveOldOutcome, HostGoto, Unnoted
<1>9. CASE InsertGuard
  BY ZenonT(30), <1>9, <1>a, NoteReport, ReturnReport DEF InsertGuard, HostGoto, Unnoted
<1>10. CASE Drain
  BY ZenonT(30), <1>10, <1>a, NoteReport DEF Drain, HostGoto, HostNote, Unnoted
<1>11. CASE ReadState
  BY ZenonT(30), <1>11, <1>a, NoteReport DEF ReadState, HostGoto, HostNote, Unnoted
<1>12. CASE Commit
  BY ZenonT(30), <1>12, <1>a, NoteReport DEF Commit, HostGoto, HostNote, Unnoted, Committed
<1>13. CASE Redrain
  BY ZenonT(30), <1>13, <1>a, NoteReport DEF Redrain, HostGoto, HostNote, Unnoted, Committed
<1>14. CASE Reread
  <2>1. CASE life[hkey] = "none" /\ HostNote("clear_guard", {})
    <3>1. hpc' = "clear_guard" /\ hkey' = hkey /\ report' = {}
      BY ZenonT(30), <1>14, <2>1 DEF Reread, HostNote, ReportInv, Unnoted, Committed
    <3> QED BY ZenonT(30), <3>1, <2>1, <1>b DEF ReportInv, Unnoted, Committed
  <2>2. CASE ~(life[hkey] = "none" /\ HostNote("clear_guard", {}))
    BY ZenonT(30), <1>14, <2>2, <1>a, NoteReport DEF Reread, HostNote, Unnoted, Committed
  <2> QED BY ZenonT(30), <2>1, <2>2
<1>15. CASE JournalRelease
  BY ZenonT(30), <1>15, <1>a, NoteReport DEF JournalRelease, HostGoto, HostNote, Unnoted, Committed
<1>16. CASE RemoveState
  <2>1. report = {} /\ hkey' = hkey
    BY ZenonT(30), <1>16 DEF RemoveState, HostNote, ReportInv, Unnoted, Committed
  <2>2. CASE hpc' = "check_index"
    <3>1. report' = {"state_deleted"} /\ life'[hkey] = "none"
      BY ZenonT(30), <1>16, <2>1, <2>2, <1>a
      DEF RemoveState, HostNote, TableInv, TypeOK, MapsTypeOK
    <3> QED BY ZenonT(30), <3>1, <2>1, <2>2 DEF ReportInv, Unnoted, Committed
  <2>3. CASE hpc' # "check_index"
    <3>1. hpc' = "unjournal" /\ report' = {"partial"}
      BY ZenonT(30), <1>16, <2>1, <2>3 DEF RemoveState, HostNote
    <3> QED BY ZenonT(30), <3>1, <2>1 DEF ReportInv, Unnoted, Committed
  <2> QED BY ZenonT(30), <2>2, <2>3
<1>17. CASE Unjournal
  <2>1. hpc = "unjournal" /\ hpc' = "read_journal" /\ hkey' = hkey /\ report' = report
    BY ZenonT(30), <1>17 DEF Unjournal, HostGoto
  <2> QED BY ZenonT(30), <2>1, <1>b DEF ReportInv, Clean, Unnoted, Committed
<1>18. CASE CheckIndex
  <2>1. /\ life[hkey] = "none" /\ hkey' = hkey
        /\ hpc' \in {"check_index", "remove_index", "remove_inflight"}
        /\ report' = report \/ report' = report \cup {"partial"}
    BY ZenonT(30), <1>18, <1>c DEF CheckIndex, HostGoto
  <2> QED BY ZenonT(30), <2>1, <1>b DEF ReportInv, Unnoted, Committed
<1>19. CASE RemoveIndex
  <2>1. /\ life[hkey] = "none" /\ hkey' = hkey /\ hpc' = "check_index"
        /\ report' = report \cup {"index_deleted"} \/ report' = report \cup {"partial"}
    BY ZenonT(30), <1>19, <1>c DEF RemoveIndex
  <2> QED BY ZenonT(30), <2>1, <1>b DEF ReportInv, Unnoted, Committed
<1>20. CASE RemoveInflight
  <2>1. /\ life[hkey] = "none" /\ hkey' = hkey /\ hpc' = "read_journal"
        /\ report' = report \/ report' = report \cup {"partial"}
    BY ZenonT(30), <1>20, <1>c DEF RemoveInflight, HostGoto, HostNote
  <2> QED BY ZenonT(30), <2>1, <1>b DEF ReportInv, Unnoted, Committed
<1>d. ASSUME NEW flags, flags \in {{}, {"error"}, {"partial"}}, EndCleanup(flags),
             hpc \in {"read_journal", "push"}
      PROVE  ReportInv'
  <2>1. CASE HostNote("clear_guard", flags)
    <3>1. hpc' = "clear_guard" /\ hkey' = hkey /\ report' = report \cup flags
      BY ZenonT(30), <2>1 DEF HostNote
    <3>2. /\ "state_deleted" \in report' => "state_deleted" \in report
          /\ "index_deleted" \in report' => "index_deleted" \in report
          /\ "observation_mismatch" \in report' => "observation_mismatch" \in report
          /\ "stale_generation" \in report' => "stale_generation" \in report
          /\ Clean' => Clean
      BY ZenonT(30), <3>1, <1>d DEF Clean
    <3> QED BY ZenonT(30), <3>1, <3>2, <1>b, <1>d DEF ReportInv, Unnoted, Committed
  <2> QED BY ZenonT(30), <2>1, <1>d, ReturnReport DEF EndCleanup
<1>21. CASE ReadJournal
  <2>1. CASE hpc' = "push"
    <3>1. hpc = "read_journal" /\ hkey' = hkey /\ report' = report
      BY ZenonT(30), <1>21, <2>1 DEF ReadJournal, HostGoto, EndCleanup, HostNote, HostReturn
    <3> QED BY ZenonT(30), <2>1, <3>1, <1>b DEF ReportInv, Clean, Unnoted, Committed
  <2>2. CASE hpc' # "push"
    BY ZenonT(30), <1>21, <2>2, <1>d DEF ReadJournal, HostGoto
  <2> QED BY ZenonT(30), <2>1, <2>2
<1>22. CASE PushRelease
  BY ZenonT(30), <1>22, <1>d DEF PushRelease
<1>23. CASE ClearGuard
  <2>1. /\ hpc = "clear_guard" /\ hpc' = "clear_outcome" /\ hkey' = hkey
        /\ report' = report \/ report' = report \cup {"partial"}
    BY ZenonT(30), <1>23 DEF ClearGuard, HostGoto, HostNote
  <2>2. Clean' => Clean
    BY ZenonT(30), <2>1 DEF Clean
  <2> QED BY ZenonT(30), <2>1, <2>2, <1>b DEF ReportInv, Unnoted, Committed
<1>24. CASE ClearOutcome
  BY ZenonT(30), <1>24, ReturnReport DEF ClearOutcome
<1>25. CASE ReadFails
  <2>1. CASE hpc' = "idle"
    BY ZenonT(30), <1>25, <2>1, ReturnReport DEF ReadFails, EndCleanup, HostNote
  <2>2. CASE hpc' # "idle"
    <3>1. /\ hpc' = "clear_guard" /\ hkey' = hkey /\ report' = report \cup {"error"}
          /\ hpc \in Unnoted \/ hpc = "scan_owned"
      BY ZenonT(30), <1>25, <2>2 DEF ReadFails, EndCleanup, HostNote, HostReturn, Unnoted, Committed
    <3>2. CASE hpc \in Unnoted
      BY ZenonT(30), <3>1, <3>2, <1>a, NoteReport
    <3>3. CASE hpc = "scan_owned"
      BY ZenonT(30), <3>1, <3>3, <1>b, <1>c DEF ReportInv, Unnoted, Committed
    <3> QED BY ZenonT(30), <3>1, <3>2, <3>3
  <2> QED BY ZenonT(30), <2>1, <2>2
<1> QED
  BY ZenonT(30), <1>1, <1>2, <1>3, <1>4, <1>5, <1>6, <1>7, <1>8, <1>9, <1>10, <1>11, <1>12, <1>13, <1>14,
     <1>15, <1>16, <1>17, <1>18, <1>19, <1>20, <1>21, <1>22, <1>23, <1>24, <1>25
  DEF HostStep

\* With the table's invariant it is inductive, whether or not elements are
\* recycled.
LEMMA ReportStep == TableInv /\ ReportInv /\ [Next]_vars => ReportInv'
<1> SUFFICES ASSUME TableInv, ReportInv, [Next]_vars PROVE ReportInv'
  OBVIOUS
<1>1. ASSUME NEW c \in CPUs, PacketArrives(c), UNCHANGED hostVars
      PROVE  ReportInv'
  <2>1. life' = life
    BY ZenonT(30), <1>1 DEF PacketArrives, PacketHit, PacketMiss, PacketCreate
  <2> QED BY ZenonT(30), <1>1, <2>1, IdleReport DEF hostVars
<1>2. ASSUME Time, UNCHANGED <<cpuVars, hostVars>>
      PROVE  ReportInv'
  BY ZenonT(30), <1>2, IdleReport DEF Time, Tick, DeadlinePasses, hostVars
<1>3. CASE UNCHANGED vars
  BY ZenonT(30), <1>3, IdleReport DEF vars, hostVars
<1> QED
  BY ZenonT(30), <1>1, <1>2, <1>3, PacketReport, HostReport, CallReport DEF Next, Packets, Host

\* Before the first call of delete_flow nothing has been reported.
LEMMA ReportInit == Init => ReportInv
BY ZenonT(30) DEF Init, HostInit, ReportInv, Clean

----------------------------------------------------------------------------
\* The refinement of FlowLifecycle.

\* The phase of a generation, by the state of its record.
LEMMA Phases ==
  ASSUME TableInv, NEW k \in Generations
  PROVE  /\ life[k] = "CREATING" => PhaseOf(k) = "creating"
         /\ life[k] = "ACTIVE" => PhaseOf(k) = "open"
         /\ life[k] = "none" /\ orig[k] = NoEntry => PhaseOf(k) = "unborn"
         /\ life[k] = "none" /\ orig[k] # NoEntry => PhaseOf(k) = "closed"
         /\ life[k] \in {"none", "CREATING", "ACTIVE"}
         /\ life[k] # "none" => orig[k] # NoEntry
<1>1. life[k] \in {"none", "CREATING", "ACTIVE"} /\ (life[k] # "none" => orig[k] # NoEntry)
  BY ZenonT(30) DEF TableInv, TypeOK, MapsTypeOK, RecordsComplete
<1> QED BY <1>1 DEF PhaseOf

\* The same after a step.
LEMMA PhasesNext ==
  ASSUME TableInv', NEW k \in Generations
  PROVE  /\ life'[k] = "CREATING" => PhaseOf(k)' = "creating"
         /\ life'[k] = "ACTIVE" => PhaseOf(k)' = "open"
         /\ life'[k] = "none" /\ orig'[k] # NoEntry => PhaseOf(k)' = "closed"
<1>1. life'[k] \in {"none", "CREATING", "ACTIVE"} /\ (life'[k] # "none" => orig'[k] # NoEntry)
  BY ZenonT(30) DEF TableInv, TypeOK, MapsTypeOK, RecordsComplete
<1> QED BY <1>1 DEF PhaseOf

\* The abstract state is a function of the records, the call and the reply.
LEMMA Stutter ==
  ASSUME UNCHANGED <<life, used, orig, hkey, hobs, reply>>,
         "state_deleted" \in report' <=> "state_deleted" \in report
  PROVE  UNCHANGED Lifecycle!lifecycleVars
<1>1. Removed' = Removed
  BY SMTT(30) DEF Removed
<1>2. \A k \in Generations : PhaseOf(k)' = PhaseOf(k) /\ LastUseOf(k)' = LastUseOf(k)
  BY ZenonT(30) DEF PhaseOf, LastUseOf
<1> QED BY <1>1, <1>2 DEF Lifecycle!lifecycleVars

\* The empty table is the abstract initial state.
LEMMA LifecycleInit == Init => Lifecycle!Init
<1> SUFFICES ASSUME Init PROVE Lifecycle!Init
  OBVIOUS
<1>1. TableInv
  BY ZenonT(30), TableInit
<1>2. \A k \in Generations : life[k] = "none" /\ orig[k] = NoEntry
  BY ZenonT(30) DEF Init, MapsInit
<1>3. \A k \in Generations : PhaseOf(k) = "unborn" /\ LastUseOf(k) = 0
  BY ZenonT(30), <1>1, <1>2, Phases DEF LastUseOf
<1>4. hkey = 0 /\ hobs = 0 /\ report = {} /\ reply.outcome = "none"
  BY DEF Init, HostInit, NoReply, NoEntry
<1>5. Removed = FALSE
  BY SMTT(30), <1>4 DEF Removed
<1> QED BY ZenonT(30), <1>3, <1>4, <1>5 DEF Lifecycle!Init, Lifecycle!NoRequest

\* A step that touches one record changes the abstract state of one generation.
LEMMA OneChanges ==
  ASSUME NEW k \in Generations, NEW p, NEW t, PhaseOf(k)' = p, LastUseOf(k)' = t,
         \A j \in Generations \ {k} : life'[j] = life[j] /\ used'[j] = used[j] /\ orig'[j] = orig[j]
  PROVE  /\ [j \in Generations |-> PhaseOf(j)]' = [[j \in Generations |-> PhaseOf(j)] EXCEPT ![k] = p]
         /\ [j \in Generations |-> LastUseOf(j)]' =
              [[j \in Generations |-> LastUseOf(j)] EXCEPT ![k] = t]
<1>1. \A j \in Generations \ {k} : PhaseOf(j)' = PhaseOf(j) /\ LastUseOf(j)' = LastUseOf(j)
  BY ZenonT(30) DEF PhaseOf, LastUseOf
<1> QED BY ZenonT(30), <1>1

\* Every map access of a packet is a step of the abstract lifecycle, or none.
LEMMA PacketLifecycle ==
  ASSUME TableInv, TableInv', NoUseAfterDelete, NEW c \in CPUs, PacketStep(c), UNCHANGED hostVars
  PROVE  [Lifecycle!Next]_(Lifecycle!lifecycleVars)
<1>a. MapsTypeOK /\ PacketTypeOK
  BY ZenonT(30) DEF TableInv, TypeOK
<1>b. PICK k \in Generations : k = key[c]
  BY ZenonT(30), KeyInUse, PacketControl DEF PacketMove
<1>c. UNCHANGED <<hkey, hobs, report, reply, Removed>>
  BY ZenonT(30) DEF hostVars, Removed
<1>d. now[c] \in 0 .. MaxClock
  BY ZenonT(30), <1>a DEF PacketTypeOK
<1>1. CASE pc[c] = "insert_state"
  <2>1. InsertState(c) /\ orig[k] = NoEntry
    BY ZenonT(30), <1>1, PacketStepAt, <1>b DEF TableInv, CreatorAlone, Creating, Inserting
  <2>2. CASE UNCHANGED stateMap
    BY ZenonT(30), <2>2, <1>c, Stutter
  <2>3. CASE ~UNCHANGED stateMap
    <3>1. /\ life[k] = "none" /\ life' = [life EXCEPT ![k] = "CREATING"]
          /\ used' = [used EXCEPT ![k] = now[c]] /\ orig' = [orig EXCEPT ![k] = tup[c]]
      BY ZenonT(30), <2>1, <2>3, <1>b DEF InsertState
    <3>2. PhaseOf(k) = "unborn"
      BY ZenonT(30), <2>1, <3>1, <1>b, Phases
    <3>3. life'[k] = "CREATING" /\ used'[k] = now[c]
      BY ZenonT(30), <3>1, <1>a, <1>b DEF MapsTypeOK
    <3>4. PhaseOf(k)' = "creating" /\ LastUseOf(k)' = now[c]
      BY ZenonT(30), <3>3, <1>b, PhasesNext DEF LastUseOf
    <3>5. \A j \in Generations \ {k} : life'[j] = life[j] /\ used'[j] = used[j] /\ orig'[j] = orig[j]
      BY ZenonT(30), <3>1, <1>a DEF MapsTypeOK
    <3>6. Lifecycle!Create(k, now[c])
      BY ZenonT(30), <3>2, <3>4, <3>5, <1>b, <1>c, OneChanges DEF Lifecycle!Create
    <3> QED BY ZenonT(30), <3>6, <1>b, <1>d DEF Lifecycle!Next
  <2> QED BY ZenonT(30), <2>2, <2>3
<1>2. CASE pc[c] = "publish"
  <2>1. Publish(c) /\ life[k] # "ACTIVE" /\ (life[k] # "none" => used[k] = now[c])
    BY ZenonT(30), <1>2, PacketStepAt, <1>b DEF TableInv, CreatorAlone, Creating, Inserting
  <2>2. CASE UNCHANGED stateMap
    BY ZenonT(30), <2>2, <1>c, Stutter
  <2>3. CASE ~UNCHANGED stateMap
    <3>1. life[k] # "none"
      BY ZenonT(30), <2>1, <2>3, <1>b DEF Publish
    <3>2. life' = [life EXCEPT ![k] = "ACTIVE"] /\ used' = [used EXCEPT ![k] = now[c]] /\ orig' = orig
      BY ZenonT(30), <2>1, <2>3, <1>b DEF Publish
    <3>3. life[k] = "CREATING" /\ PhaseOf(k) = "creating" /\ LastUseOf(k) = now[c]
      BY ZenonT(30), <2>1, <3>1, <1>b, Phases DEF LastUseOf
    <3>4. life'[k] = "ACTIVE" /\ used'[k] = now[c]
      BY ZenonT(30), <3>2, <1>a, <1>b DEF MapsTypeOK
    <3>5. PhaseOf(k)' = "open" /\ LastUseOf(k)' = LastUseOf(k)
      BY ZenonT(30), <3>3, <3>4, <1>b, PhasesNext DEF LastUseOf
    <3>6. \A j \in Generations \ {k} : life'[j] = life[j] /\ used'[j] = used[j] /\ orig'[j] = orig[j]
      BY ZenonT(30), <3>2, <1>a DEF MapsTypeOK
    <3>7. [j \in Generations |-> LastUseOf(j)]' = [j \in Generations |-> LastUseOf(j)]
      BY ZenonT(30), <3>5, <3>6 DEF LastUseOf
    <3>8. Lifecycle!Open(k)
      BY ZenonT(30), <3>3, <3>5, <3>6, <3>7, <1>b, <1>c, OneChanges DEF Lifecycle!Open
    <3> QED BY ZenonT(30), <3>8, <1>b DEF Lifecycle!Next
  <2> QED BY ZenonT(30), <2>2, <2>3
<1>3. CASE pc[c] = "drop_state"
  <2>1. DropState(c) /\ life[k] # "ACTIVE"
    BY ZenonT(30), <1>3, PacketStepAt, <1>b DEF TableInv, CreatorAlone, Creating, RollingBack
  <2>2. life' = [life EXCEPT ![k] = "none"] /\ used' = used /\ orig' = orig
    BY ZenonT(30), <2>1, <1>b DEF DropState
  <2>3. CASE life[k] = "none"
    <3>1. life' = life
      BY ZenonT(30), <2>2, <2>3, <1>a, <1>b DEF MapsTypeOK
    <3> QED BY ZenonT(30), <3>1, <2>2, <1>c, Stutter
  <2>4. CASE life[k] # "none"
    <3>1. PhaseOf(k) = "creating" /\ orig[k] # NoEntry
      BY ZenonT(30), <2>1, <2>4, <1>b, Phases
    <3>2. life'[k] = "none"
      BY ZenonT(30), <2>2, <1>a, <1>b DEF MapsTypeOK
    <3>3. PhaseOf(k)' = "closed" /\ LastUseOf(k)' = 0
      BY ZenonT(30), <3>1, <3>2, <2>2, <1>b, PhasesNext DEF LastUseOf
    <3>4. \A j \in Generations \ {k} : life'[j] = life[j] /\ used'[j] = used[j] /\ orig'[j] = orig[j]
      BY ZenonT(30), <2>2, <1>a DEF MapsTypeOK
    <3>5. Lifecycle!Abandon(k)
      BY ZenonT(30), <3>1, <3>3, <3>4, <1>b, <1>c, OneChanges DEF Lifecycle!Abandon
    <3> QED BY ZenonT(30), <3>5, <1>b DEF Lifecycle!Next
  <2> QED BY ZenonT(30), <2>3, <2>4
<1>4. CASE pc[c] = "touch"
  <2>1. TouchState(c) /\ life[k] = "ACTIVE"
    BY ZenonT(30), <1>4, PacketStepAt, <1>b DEF NoUseAfterDelete
  <2>2. life' = life /\ orig' = orig /\ used' = [used EXCEPT ![k] = now[c]]
    BY ZenonT(30), <2>1, <1>b DEF TouchState
  <2>3. PhaseOf(k) = "open" /\ used'[k] = now[c]
    BY ZenonT(30), <2>1, <2>2, <1>a, <1>b, Phases DEF MapsTypeOK
  <2>4. PhaseOf(k)' = "open" /\ LastUseOf(k)' = now[c]
    BY ZenonT(30), <2>1, <2>2, <2>3, <1>b, PhasesNext DEF LastUseOf
  <2>5. \A j \in Generations \ {k} : life'[j] = life[j] /\ used'[j] = used[j] /\ orig'[j] = orig[j]
    BY ZenonT(30), <2>2, <1>a DEF MapsTypeOK
  <2>6. [j \in Generations |-> PhaseOf(j)]' = [j \in Generations |-> PhaseOf(j)]
    BY ZenonT(30), <2>2 DEF PhaseOf
  <2>7. Lifecycle!Use(k, now[c])
    BY ZenonT(30), <2>3, <2>4, <2>5, <2>6, <1>b, <1>c, OneChanges DEF Lifecycle!Use
  <2> QED BY ZenonT(30), <2>7, <1>b, <1>d DEF Lifecycle!Next
<1>5. CASE pc[c] \notin {"insert_state", "publish", "drop_state", "touch"}
  BY ZenonT(30), <1>5, <1>c, PacketStepFrame, Stutter
<1> QED BY ZenonT(30), <1>1, <1>2, <1>3, <1>4, <1>5

\* A reply made of these flags can be answered for: a final one only of a
\* removed record, and one that denies the removal only if there was none.
Answerable(flags) ==
  /\ {"partial", "error", "observation_mismatch"} \cap flags = {} => life[hkey] = "none"
  /\ "state_deleted" \in report =>
       "state_deleted" \in flags /\ {"observation_mismatch", "stale_generation"} \cap flags = {}

\* What delete_flow's report says when the call is about to return makes an
\* answerable reply, and so does a failure before anything is noted.
LEMMA ReportAnswerable ==
  ASSUME TableInv, ReportInv,
         NEW flags,
         \/ /\ hpc \in {"read_journal", "push", "clear_outcome"}
            /\ flags \in {report, report \cup {}, report \cup {"error"}, report \cup {"partial"}}
         \/ hpc \in Unnoted /\ flags \in {{"error"}, {"observation_mismatch"}}
         \/ hpc \in Unnoted \cup {"scan_owned"} /\ flags = report \cup {"error"}
  PROVE  Answerable(flags)
<1>1. CASE /\ hpc \in {"read_journal", "push", "clear_outcome"}
           /\ flags \in {report, report \cup {}, report \cup {"error"}, report \cup {"partial"}}
  <2>1. /\ {"partial", "error", "observation_mismatch"} \cap flags = {} => Clean
        /\ "state_deleted" \in report => "state_deleted" \in flags
        /\ "observation_mismatch" \in flags => "observation_mismatch" \in report
        /\ "stale_generation" \in flags => "stale_generation" \in report
    BY ZenonT(30), <1>1 DEF Clean
  <2> QED BY ZenonT(30), <1>1, <2>1 DEF Answerable, ReportInv
<1>2. CASE hpc \in Unnoted /\ flags \in {{"error"}, {"observation_mismatch"}}
  BY ZenonT(30), <1>2 DEF Answerable, ReportInv
<1>3. CASE hpc \in Unnoted \cup {"scan_owned"} /\ flags = report \cup {"error"}
  <2>1. "error" \in flags /\ ("state_deleted" \in report => "state_deleted" \in flags)
    BY ZenonT(30), <1>3
  <2>2. "observation_mismatch" \in flags => "observation_mismatch" \in report
    BY ZenonT(30), <1>3
  <2>3. "stale_generation" \in flags => "stale_generation" \in report
    BY ZenonT(30), <1>3
  <2> QED BY ZenonT(30), <2>1, <2>2, <2>3 DEF Answerable, ReportInv
<1> QED BY ZenonT(30), <1>1, <1>2, <1>3

\* Flags other than that of the removal.
Aside == {{}, {"index_deleted"}, {"partial"}, {"error"}, {"observation_mismatch"}}

\* To note them does not tell that the record was removed.
LEMMA AsideSilent ==
  ASSUME NEW flags \in Aside, report' = report \cup flags
  PROVE  "state_deleted" \in report' <=> "state_deleted" \in report
BY ZenonT(30) DEF Aside

\* A step of delete_flow removes the record, returns, or is invisible.
LEMMA HostVisible ==
  ASSUME TableInv, ReportInv, HostStep
  PROVE  \/ /\ UNCHANGED <<life, hkey, hobs, reply>>
            /\ "state_deleted" \in report' <=> "state_deleted" \in report
         \/ /\ hpc = "remove_state" /\ life[hkey] # "none" /\ life' = [life EXCEPT ![hkey] = "none"]
            /\ "state_deleted" \in report' /\ UNCHANGED <<hkey, hobs, reply>>
         \/ /\ life' = life
            /\ \E flags : HostReturn(flags) /\ Answerable(flags)
<1>1. CASE FindState
  BY ZenonT(30), <1>1 DEF FindState
<1>2. CASE AbsentGuard
  BY ZenonT(30), <1>2 DEF AbsentGuard, HostGoto
<1>3. CASE AbsentOutcome
  BY ZenonT(30), <1>3 DEF AbsentOutcome, HostGoto
<1>4. CASE ScanStale
  BY ZenonT(30), <1>4 DEF ScanStale
<1>5. CASE ScanOwned
  BY ZenonT(30), <1>5 DEF ScanOwned
<1>6. CASE ReadGuard
  BY ZenonT(30), <1>6, ReportAnswerable DEF ReadGuard, HostGoto, Unnoted
<1>7. CASE RemoveOldGuard
  BY ZenonT(30), <1>7, ReportAnswerable DEF RemoveOldGuard, HostGoto, Unnoted
<1>8. CASE RemoveOldOutcome
  BY ZenonT(30), <1>8 DEF RemoveOldOutcome, HostGoto
<1>9. CASE InsertGuard
  BY ZenonT(30), <1>9, ReportAnswerable DEF InsertGuard, HostGoto, Unnoted
<1>10. CASE Drain
  <2>1. UNCHANGED <<life, hkey, hobs, reply>>
    BY ZenonT(30), <1>10 DEF Drain, HostGoto, HostNote
  <2>2. report' = report \/ report' = report \cup {"observation_mismatch"}
    BY ZenonT(30), <1>10 DEF Drain, HostGoto, HostNote
  <2> QED BY ZenonT(30), <2>1, <2>2, AsideSilent DEF Aside
<1>11. CASE ReadState
  <2>1. UNCHANGED <<life, hkey, hobs, reply>>
    BY ZenonT(30), <1>11 DEF ReadState, HostGoto, HostNote
  <2>2. report' = report \/ report' = report \cup {"observation_mismatch"}
    BY ZenonT(30), <1>11 DEF ReadState, HostGoto, HostNote
  <2> QED BY ZenonT(30), <2>1, <2>2, AsideSilent DEF Aside
<1>12. CASE Commit
  <2>1. UNCHANGED <<life, hkey, hobs, reply>>
    BY ZenonT(30), <1>12 DEF Commit, HostGoto, HostNote
  <2>2. report' = report \/ report' = report \cup {"observation_mismatch"}
    BY ZenonT(30), <1>12 DEF Commit, HostGoto, HostNote
  <2> QED BY ZenonT(30), <2>1, <2>2, AsideSilent DEF Aside
<1>13. CASE Redrain
  <2>1. UNCHANGED <<life, hkey, hobs, reply>>
    BY ZenonT(30), <1>13 DEF Redrain, HostGoto, HostNote
  <2>2. report' = report \/ report' = report \cup {"observation_mismatch"}
    BY ZenonT(30), <1>13 DEF Redrain, HostGoto, HostNote
  <2> QED BY ZenonT(30), <2>1, <2>2, AsideSilent DEF Aside
<1>14. CASE Reread
  <2>1. UNCHANGED <<life, hkey, hobs, reply>>
    BY ZenonT(30), <1>14 DEF Reread, HostNote
  <2>2. report' = report \/ report' = report \cup {} \/ report' = report \cup {"observation_mismatch"}
    BY ZenonT(30), <1>14 DEF Reread, HostNote
  <2> QED BY ZenonT(30), <2>1, <2>2, AsideSilent DEF Aside
<1>15. CASE JournalRelease
  <2>1. UNCHANGED <<life, hkey, hobs, reply>>
    BY ZenonT(30), <1>15 DEF JournalRelease, HostGoto, HostNote
  <2>2. report' = report \/ report' = report \cup {"error"}
    BY ZenonT(30), <1>15 DEF JournalRelease, HostGoto, HostNote
  <2> QED BY ZenonT(30), <2>1, <2>2, AsideSilent DEF Aside
<1>16. CASE RemoveState
  <2>1. hpc = "remove_state" /\ UNCHANGED <<hkey, hobs, reply>>
    BY ZenonT(30), <1>16 DEF RemoveState, HostNote
  <2>2. \/ /\ life[hkey] # "none" /\ life' = [life EXCEPT ![hkey] = "none"]
           /\ report' = report \cup {"state_deleted"}
        \/ life' = life /\ report' = report \cup {"partial"}
    BY ZenonT(30), <1>16 DEF RemoveState, HostNote
  <2>3. report' = report \cup {"state_deleted"} => "state_deleted" \in report'
    BY ZenonT(30)
  <2> QED BY ZenonT(30), <2>1, <2>2, <2>3, AsideSilent DEF Aside
<1>17. CASE Unjournal
  BY ZenonT(30), <1>17 DEF Unjournal, HostGoto
<1>18. CASE CheckIndex
  <2>1. UNCHANGED <<life, hkey, hobs, reply>>
    BY ZenonT(30), <1>18 DEF CheckIndex, HostGoto
  <2>2. report' = report \/ report' = report \cup {"partial"}
    BY ZenonT(30), <1>18 DEF CheckIndex, HostGoto
  <2> QED BY ZenonT(30), <2>1, <2>2, AsideSilent DEF Aside
<1>19. CASE RemoveIndex
  <2>1. UNCHANGED <<life, hkey, hobs, reply>>
    BY ZenonT(30), <1>19 DEF RemoveIndex
  <2>2. report' = report \cup {"index_deleted"} \/ report' = report \cup {"partial"}
    BY ZenonT(30), <1>19 DEF RemoveIndex
  <2> QED BY ZenonT(30), <2>1, <2>2, AsideSilent DEF Aside
<1>20. CASE RemoveInflight
  <2>1. UNCHANGED <<life, hkey, hobs, reply>>
    BY ZenonT(30), <1>20 DEF RemoveInflight, HostGoto, HostNote
  <2>2. report' = report \/ report' = report \cup {"partial"}
    BY ZenonT(30), <1>20 DEF RemoveInflight, HostGoto, HostNote
  <2> QED BY ZenonT(30), <2>1, <2>2, AsideSilent DEF Aside
<1>21. CASE ReadJournal
  <2>1. life' = life /\ hpc = "read_journal"
    BY ZenonT(30), <1>21 DEF ReadJournal
  <2>2. Answerable(report \cup {}) /\ Answerable(report \cup {"error"})
    BY ZenonT(30), <2>1, ReportAnswerable
  <2>3. \/ UNCHANGED <<hkey, hobs, reply>> /\ report' = report
        \/ UNCHANGED <<hkey, hobs, reply>> /\ report' = report \cup {}
        \/ UNCHANGED <<hkey, hobs, reply>> /\ report' = report \cup {"error"}
        \/ HostReturn(report \cup {}) \/ HostReturn(report \cup {"error"})
    BY ZenonT(30), <1>21 DEF ReadJournal, HostGoto, EndCleanup, HostNote
  <2> QED BY ZenonT(30), <2>1, <2>2, <2>3, AsideSilent DEF Aside
<1>22. CASE PushRelease
  <2>1. life' = life /\ hpc = "push"
    BY ZenonT(30), <1>22 DEF PushRelease
  <2>2. Answerable(report \cup {}) /\ Answerable(report \cup {"partial"})
    BY ZenonT(30), <2>1, ReportAnswerable
  <2>3. \/ UNCHANGED <<hkey, hobs, reply>> /\ report' = report
        \/ UNCHANGED <<hkey, hobs, reply>> /\ report' = report \cup {}
        \/ UNCHANGED <<hkey, hobs, reply>> /\ report' = report \cup {"partial"}
        \/ HostReturn(report \cup {}) \/ HostReturn(report \cup {"partial"})
    BY ZenonT(30), <1>22 DEF PushRelease, HostGoto, EndCleanup, HostNote
  <2> QED BY ZenonT(30), <2>1, <2>2, <2>3, AsideSilent DEF Aside
<1>23. CASE ClearGuard
  <2>1. UNCHANGED <<life, hkey, hobs, reply>>
    BY ZenonT(30), <1>23 DEF ClearGuard, HostGoto, HostNote
  <2>2. report' = report \/ report' = report \cup {"partial"}
    BY ZenonT(30), <1>23 DEF ClearGuard, HostGoto, HostNote
  <2> QED BY ZenonT(30), <2>1, <2>2, AsideSilent DEF Aside
<1>24. CASE ClearOutcome
  <2>1. life' = life /\ hpc = "clear_outcome"
    BY ZenonT(30), <1>24 DEF ClearOutcome
  <2>2. Answerable(report) /\ Answerable(report \cup {"partial"})
    BY ZenonT(30), <2>1, ReportAnswerable
  <2>3. HostReturn(report) \/ HostReturn(report \cup {"partial"})
    BY ZenonT(30), <1>24 DEF ClearOutcome
  <2> QED BY ZenonT(30), <2>1, <2>2, <2>3
<1>25. CASE ReadFails
  <2>1. life' = life
    BY ZenonT(30), <1>25 DEF ReadFails
  <2>2. CASE hpc \in {"find_state", "read_guard"} /\ HostReturn({"error"})
    <3>1. Answerable({"error"})
      BY ZenonT(30), <2>2, ReportAnswerable DEF Unnoted
    <3> QED BY ZenonT(30), <2>1, <2>2, <3>1
  <2>3. CASE /\ hpc \in {"drain", "read_state", "redrain", "reread", "scan_stale", "scan_owned"}
             /\ EndCleanup({"error"})
    <3>1. Answerable(report \cup {"error"})
      BY ZenonT(30), <2>3, ReportAnswerable DEF Unnoted, Committed
    <3>2. \/ UNCHANGED <<hkey, hobs, reply>> /\ report' = report \cup {"error"}
          \/ HostReturn(report \cup {"error"})
      BY ZenonT(30), <2>3 DEF EndCleanup, HostNote
    <3> QED BY ZenonT(30), <2>1, <3>1, <3>2, AsideSilent DEF Aside
  <2> QED BY ZenonT(30), <1>25, <2>2, <2>3 DEF ReadFails
<1> QED
  BY ZenonT(30), <1>1, <1>2, <1>3, <1>4, <1>5, <1>6, <1>7, <1>8, <1>9, <1>10, <1>11, <1>12, <1>13, <1>14,
     <1>15, <1>16, <1>17, <1>18, <1>19, <1>20, <1>21, <1>22, <1>23, <1>24, <1>25
  DEF HostStep

\* While a call is served, the abstract request is not empty.
LEMMA Requested ==
  ASSUME TableInv, hpc # "idle"
  PROVE  /\ hkey \in Generations /\ orig[hkey] # NoEntry
         /\ [key |-> hkey, observed |-> hobs, closed |-> Removed] # Lifecycle!NoRequest
<1>1. hkey \in Generations /\ orig[hkey] # NoEntry
  BY ZenonT(30) DEF TableInv, HostKnows
<1>2. hkey # 0
  BY <1>1, BoundAssumption DEF Generations
<1> QED BY <1>1, <1>2 DEF Lifecycle!NoRequest

\* The removal of the record closes the generation for the caller.
LEMMA CloseLifecycle ==
  ASSUME TableInv, TableInv', Quiescent, HostStep,
         hpc = "remove_state", life[hkey] # "none", life' = [life EXCEPT ![hkey] = "none"],
         "state_deleted" \in report', UNCHANGED <<hkey, hobs, reply>>
  PROVE  Lifecycle!Close
<1>a. MapsTypeOK
  BY ZenonT(30) DEF TableInv, TypeOK
<1>b. PICK k \in Generations : k = hkey /\ k = hkey'
  BY ZenonT(30), Requested
<1>c. UNCHANGED <<used, orig>>
  BY ZenonT(30), HostStepFrame
<1>1. PhaseOf(k) \in {"creating", "open"} /\ orig[k] # NoEntry /\ LastUseOf(k) = used[k]
  BY ZenonT(30), <1>b, Phases DEF LastUseOf
<1>2. hobs \in {0, LastUseOf(k)}
  BY ZenonT(30), <1>b, <1>1 DEF Quiescent
<1>3. life'[k] = "none" /\ orig'[k] # NoEntry
  BY ZenonT(30), <1>a, <1>b, <1>c, <1>1 DEF MapsTypeOK
<1>4. PhaseOf(k)' = "closed" /\ LastUseOf(k)' = 0
  BY ZenonT(30), <1>3, <1>b, PhasesNext DEF LastUseOf
<1>5. \A j \in Generations \ {k} : life'[j] = life[j] /\ used'[j] = used[j] /\ orig'[j] = orig[j]
  BY ZenonT(30), <1>a, <1>b, <1>c DEF MapsTypeOK
<1>6. /\ [j \in Generations |-> PhaseOf(j)]' =
           [[j \in Generations |-> PhaseOf(j)] EXCEPT ![k] = "closed"]
      /\ [j \in Generations |-> LastUseOf(j)]' = [[j \in Generations |-> LastUseOf(j)] EXCEPT ![k] = 0]
  BY ZenonT(30), <1>4, <1>5, <1>b, OneChanges
<1>7. Removed' = TRUE
  BY SMTT(30) DEF Removed
<1>8. [key |-> hkey', observed |-> hobs', closed |-> Removed'] =
        [[key |-> hkey, observed |-> hobs, closed |-> Removed] EXCEPT !.closed = TRUE]
  <2>1. \A h, o, r, t : [[key |-> h, observed |-> o, closed |-> r] EXCEPT !.closed = t] =
                      [key |-> h, observed |-> o, closed |-> t]
    BY SMTT(30)
  <2>2. [[key |-> hkey, observed |-> hobs, closed |-> Removed] EXCEPT !.closed = Removed'] =
          [key |-> hkey, observed |-> hobs, closed |-> Removed']
    BY ZenonT(30), <2>1
  <2>3. [[key |-> hkey, observed |-> hobs, closed |-> Removed] EXCEPT !.closed = Removed'] =
          [[key |-> hkey, observed |-> hobs, closed |-> Removed] EXCEPT !.closed = TRUE]
    BY ZenonT(30), <1>7
  <2> QED BY ZenonT(30), <2>2, <2>3
<1> QED BY <1>1, <1>2, <1>6, <1>8, <1>b, Requested DEF Lifecycle!Close

\* A return is an answer the abstract lifecycle allows.
LEMMA AnswerLifecycle ==
  ASSUME TableInv, hpc # "idle", UNCHANGED <<life, used, orig>>,
         NEW flags, HostReturn(flags), Answerable(flags)
  PROVE  Lifecycle!Next
<1> DEFINE a == ReplyOutcome(flags)
<1>1. a \in {"Complete", "AlreadyAbsent", "StaleGeneration", "Partial", "ObservationMismatch", "Err"}
  BY ZenonT(30) DEF ReplyOutcome
<1>2. a \in {"Complete", "AlreadyAbsent", "StaleGeneration"} => PhaseOf(hkey) = "closed"
  <2> SUFFICES ASSUME a \in {"Complete", "AlreadyAbsent", "StaleGeneration"}
               PROVE  PhaseOf(hkey) = "closed"
    OBVIOUS
  <2>1. "error" \notin flags /\ "observation_mismatch" \notin flags /\ "partial" \notin flags
    BY ZenonT(30) DEF ReplyOutcome
  <2>2. life[hkey] = "none"
    BY ZenonT(30), <2>1 DEF Answerable
  <2> QED BY ZenonT(30), <2>2, Requested, Phases
<1>3. a \in {"AlreadyAbsent", "StaleGeneration", "ObservationMismatch"} => ~Removed
  <2> SUFFICES ASSUME Removed
               PROVE  a \notin {"AlreadyAbsent", "StaleGeneration", "ObservationMismatch"}
    OBVIOUS
  <2>1. "state_deleted" \in flags /\ "observation_mismatch" \notin flags /\ "stale_generation" \notin flags
    BY ZenonT(30) DEF Answerable, Removed
  <2>2. {"state_deleted", "index_deleted"} \cap flags # {}
    BY ZenonT(30), <2>1
  <2> QED BY ZenonT(30), <2>1, <2>2 DEF ReplyOutcome
<1>4. hkey' = 0 /\ hobs' = 0 /\ Removed' = FALSE /\ reply'.outcome = a
  BY SMTT(30) DEF HostReturn, NoEntry, Removed
<1> HIDE DEF a
<1>5. [key |-> hkey', observed |-> hobs', closed |-> Removed'] = Lifecycle!NoRequest
  BY ZenonT(30), <1>4 DEF Lifecycle!NoRequest
<1>6. /\ [k \in Generations |-> PhaseOf(k)]' = [k \in Generations |-> PhaseOf(k)]
      /\ [k \in Generations |-> LastUseOf(k)]' = [k \in Generations |-> LastUseOf(k)]
  BY ZenonT(30) DEF PhaseOf, LastUseOf
<1>7. Lifecycle!Answer(a)
  BY <1>2, <1>3, <1>4, <1>5, <1>6, Requested DEF Lifecycle!Answer
<1> QED BY ZenonT(30), <1>1, <1>7 DEF Lifecycle!Next

\* The call is a request for a generation that was born.
LEMMA AskLifecycle ==
  ASSUME TableInv, ReportInv, NEW k \in Generations, NEW observed \in Observations,
         CallDeleteFlow(k, observed)
  PROVE  Lifecycle!Next
<1>1. /\ hpc = "idle" /\ orig[k] # NoEntry /\ hkey' = k /\ hobs' = observed /\ report' = report
      /\ reply' = NoReply /\ UNCHANGED <<life, used, orig>>
  BY ZenonT(30) DEF CallDeleteFlow, DeleteFlow
<1>2. hkey = 0 /\ hobs = 0 /\ report = {}
  BY ZenonT(30), <1>1 DEF ReportInv, Unnoted, NoEntry
<1>3. Removed = FALSE /\ Removed' = FALSE
  BY SMTT(30), <1>1, <1>2 DEF Removed
<1>4. PhaseOf(k) # "unborn"
  BY ZenonT(30), <1>1, Phases
<1>5. [key |-> hkey, observed |-> hobs, closed |-> Removed] = Lifecycle!NoRequest
  BY ZenonT(30), <1>2, <1>3 DEF Lifecycle!NoRequest
<1>6. /\ [j \in Generations |-> PhaseOf(j)]' = [j \in Generations |-> PhaseOf(j)]
      /\ [j \in Generations |-> LastUseOf(j)]' = [j \in Generations |-> LastUseOf(j)]
  BY ZenonT(30), <1>1 DEF PhaseOf, LastUseOf
<1>7. Lifecycle!Ask(k, observed)
  BY ZenonT(30), <1>1, <1>3, <1>4, <1>5, <1>6 DEF Lifecycle!Ask, NoReply
<1> QED BY ZenonT(30), <1>7 DEF Lifecycle!Next

\* Every step of the flow table is a step of the abstract lifecycle, or none.
LEMMA LifecycleStep ==
  ASSUME FlowTableInv, ~recycled, ReportInv, TableInv', [Next]_vars
  PROVE  [Lifecycle!Next]_(Lifecycle!lifecycleVars)
<1>a. TableInv /\ NoUseAfterDelete /\ Quiescent
  BY ZenonT(30) DEF FlowTableInv, DeletionInv
<1>1. ASSUME NEW c \in CPUs, PacketArrives(c), UNCHANGED hostVars
      PROVE  UNCHANGED Lifecycle!lifecycleVars
  <2>1. UNCHANGED <<life, used, orig>>
    BY ZenonT(30), <1>1 DEF PacketArrives, PacketHit, PacketMiss, PacketCreate
  <2> QED BY ZenonT(30), <1>1, <2>1, Stutter DEF hostVars
<1>2. ASSUME NEW c \in CPUs, PacketStep(c), UNCHANGED hostVars
      PROVE  [Lifecycle!Next]_(Lifecycle!lifecycleVars)
  BY ZenonT(30), <1>2, <1>a, PacketLifecycle
<1>3. ASSUME HostStep
      PROVE  [Lifecycle!Next]_(Lifecycle!lifecycleVars)
  <2>1. UNCHANGED <<used, orig>> /\ hpc # "idle"
    BY ZenonT(30), <1>3, HostStepFrame
  <2>2. CASE /\ UNCHANGED <<life, hkey, hobs, reply>>
             /\ "state_deleted" \in report' <=> "state_deleted" \in report
    BY ZenonT(30), <2>1, <2>2, Stutter
  <2>3. CASE /\ hpc = "remove_state" /\ life[hkey] # "none" /\ life' = [life EXCEPT ![hkey] = "none"]
             /\ "state_deleted" \in report' /\ UNCHANGED <<hkey, hobs, reply>>
    <3>1. Lifecycle!Close
      BY ZenonT(30), <1>3, <2>3, <1>a, CloseLifecycle
    <3> QED BY ZenonT(30), <3>1 DEF Lifecycle!Next
  <2>4. CASE life' = life /\ \E flags : HostReturn(flags) /\ Answerable(flags)
    BY ZenonT(30), <2>1, <2>4, <1>a, AnswerLifecycle
  <2> QED BY ZenonT(30), <1>3, <2>2, <2>3, <2>4, <1>a, HostVisible
<1>4. ASSUME NEW k \in Generations, NEW observed \in Observations, CallDeleteFlow(k, observed)
      PROVE  Lifecycle!Next
  BY ZenonT(30), <1>4, <1>a, AskLifecycle
<1>5. ASSUME Time, UNCHANGED <<cpuVars, hostVars>>
      PROVE  UNCHANGED Lifecycle!lifecycleVars
  BY ZenonT(30), <1>5, Stutter DEF Time, Tick, DeadlinePasses, hostVars
<1>6. CASE UNCHANGED vars
  BY ZenonT(30), <1>6, Stutter DEF vars, hostVars
<1> QED BY ZenonT(30), <1>1, <1>2, <1>3, <1>4, <1>5, <1>6 DEF Next, Packets, Host

\* In a behaviour in which no in-flight element is recycled under a held
\* pointer, the interleaved map accesses of process_packet and delete_flow
\* implement the abstract lifecycle: a generation is created once, used only while it is
\* open, closed only with the timestamp its deleter observed, and never comes
\* back; and the reply to DeleteFlow is final only for a closed generation.
THEOREM ImplementsLifecycle == Spec /\ []~recycled => RefinesLifecycle
<1>1. Init => Lifecycle!Init
  BY ZenonT(30), LifecycleInit
<1>2. FlowTableInv /\ FlowTableInv' /\ ~recycled /\ ReportInv /\ [Next]_vars =>
        [Lifecycle!Next]_(Lifecycle!lifecycleVars)
  BY ZenonT(30), LifecycleStep DEF FlowTableInv
<1>3. Init => ReportInv
  BY ZenonT(30), ReportInit
<1>4. FlowTableInv /\ ReportInv /\ [Next]_vars => ReportInv'
  BY ZenonT(30), ReportStep DEF FlowTableInv
<1> QED BY <1>1, <1>2, <1>3, <1>4, DeletionInvariant, PTL DEF Spec, RefinesLifecycle, Lifecycle!Spec
============================================================================
