---------------------------- MODULE AcceptProofs ----------------------------
(***************************************************************************)
(* Proofs about the conditional accept of the Windows host proxy, for any  *)
(* clients: a client is bridged to the socket connected for its own        *)
(* request, every reservation has exactly one holder, and a listener that  *)
(* is being stopped claims no further client.                              *)
(***************************************************************************)
EXTENDS ConditionalAccept, TLAPS, FiniteSetTheorems

States == {"none", "Deferred", "Ready", "Rejected", "Cancelled", "Claimed"}
Slots == [generation : Nat, tuple : {"none"} \cup {TupleOf[c] : c \in Clients},
          state : States, prepared : Nat]
PairOf == [client : Clients \cup {"none"}, outbound : Nat]
Results == [generation : Nat, ok : BOOLEAN]

Places == {"start", "off", "run", "stop", "stopping", "drop", "join", "done", "convert",
           "init", "loop", "look", "check", "connect", "top", "drain", "failed", "reject",
           "terminal", "accepted", "transfer", "send", "wait"}

QueueTypes ==
    /\ queue \in Seq(Clients) /\ asked \in Seq(Clients)
    /\ results \in Seq(Results) /\ channel \in Seq(PairOf) /\ sessions \subseteq PairOf

ContextTypes ==
    /\ slot \in Slots /\ accepting \in BOOLEAN
    /\ pending \in Nat /\ next \in Nat /\ handoffs \in Nat /\ claimed \in Nat
    /\ reserved \in BOOLEAN /\ receiving \in BOOLEAN

ThreadTypes ==
    /\ pc \in [Threads -> Places]
    /\ removed \in [Threads -> Slots] /\ pair \in [Threads -> PairOf] /\ job \in Nat

(* The types of the listener's state. *)
AcceptTypeOK == QueueTypes /\ ContextTypes /\ ThreadTypes

One(b) == IF b THEN 1 ELSE 0

(* Admissions are counted in the table and where a thread took one out. *)
Admissions ==
    /\ \A t \in Threads : removed[t] # NoSlot =>
          pc[t] = "stopping" \/ (t = "coordinator" /\ pc[t] = "reject")
    /\ pending = One(slot # NoSlot) + One(removed["owner"] # NoSlot)
                 + One(removed["coordinator"] # NoSlot) + One(removed["worker"] # NoSlot)
    /\ pending <= Limit

(* Handoff reservations are counted from the claim to the owner. *)
Reservations ==
    /\ handoffs = One(reserved) + One(pc["coordinator"] = "send") + Len(channel)
                  + One(pc["owner"] = "convert")
    /\ handoffs <= Limit

Counted == Admissions /\ Reservations

(* What has been given up by a thread that stops, or has stopped. *)
Stopped ==
    /\ ~accepting => slot = NoSlot
    /\ \A t \in Threads : pc[t] \in {"stopping", "drop", "join", "done"} =>
          ~accepting \/ pc["coordinator"] = "done"
    /\ pc["coordinator"] \in {"off", "done"} => ~reserved /\ slot = NoSlot
    /\ pc["coordinator"] = "off" => pc["owner"] = "start"
    /\ pc["owner"] \in {"start", "join", "done"} => channel = <<>> /\ sessions = {}
    /\ pc["owner"] = "start" => pc["coordinator"] = "off" /\ pc["worker"] = "off"
    /\ pc["owner"] = "join" => ~receiving
    /\ pc["owner"] = "done" => pc["coordinator"] = "done" /\ pc["worker"] = "done"

(* A pair with a socket is the client that asked for it. *)
Paired(p) == p.outbound # 0 => p.outbound \in DOMAIN asked /\ asked[p.outbound] = p.client

(* The slot is the request of the client at the head of the queue, or is about
   to be taken out by the coordinator. *)
Requests ==
    /\ next = Len(asked) + 1
    /\ slot.state = "none" => slot = NoSlot
    /\ slot # NoSlot => slot.generation \in DOMAIN asked
    /\ slot.state \in {"Ready", "Claimed"} => slot.prepared = slot.generation
    /\ slot # NoSlot =>
          \/ /\ pc["coordinator"] = "failed" /\ claimed = 0
             /\ error \notin {"would block", "try again"} /\ slot.state # "Claimed"
          \/ /\ pc["coordinator"] \in {"accepted", "failed"}
             /\ slot.state = "Claimed" /\ claimed = slot.generation
          \/ /\ slot.state # "Claimed" /\ queue # <<>> /\ Head(queue) = asked[slot.generation]
    /\ pc["coordinator"] = "accepted" =>
          /\ claimed \in DOMAIN asked /\ pair["coordinator"].outbound = 0
          /\ pair["coordinator"].client = asked[claimed]
    /\ pc["coordinator"] \notin {"accepted", "transfer", "send"} => pair["coordinator"] = NoPair
    /\ \A p \in Pairs : Paired(p)

AcceptInv == AcceptTypeOK /\ Counted /\ Stopped /\ Requests

-----------------------------------------------------------------------------
\* Slots and pairs.

\* The empty slot.
LEMMA NoSlotFacts == NoSlot \in Slots /\ NoSlot.state = "none" /\ NoSlot.generation = 0
BY DEF NoSlot, Slots, States

\* Changing one field of a slot keeps the others.
LEMMA SlotFacts ==
  /\ \A s \in Slots, st \in States :
        /\ [s EXCEPT !.state = st] \in Slots
        /\ [s EXCEPT !.state = st].state = st
        /\ [s EXCEPT !.state = st].generation = s.generation
        /\ [s EXCEPT !.state = st].prepared = s.prepared
  /\ \A s \in Slots, g \in Nat :
        /\ MarkReady(s, g) \in Slots
        /\ MarkReady(s, g).state = "Ready"
        /\ MarkReady(s, g).generation = s.generation
        /\ MarkReady(s, g).prepared = g
BY ZenonT(30) DEF NoSlot, Slots, States, MarkReady

\* What CallbackAdmits puts in the table.
Admitted(c) == [generation |-> next, tuple |-> TupleOf[c], state |-> "Deferred", prepared |-> 0]

\* What the callback puts into the slot for a new client.
LEMMA AdmittedFacts ==
  ASSUME next \in Nat, NEW c \in Clients
  PROVE  /\ Admitted(c) \in Slots /\ Admitted(c).state = "Deferred"
         /\ Admitted(c).generation = next
BY DEF Admitted, Slots, States

\* Changing one field of a pair keeps the other.
LEMMA PairFacts ==
  /\ NoPair \in PairOf /\ NoPair.outbound = 0
  /\ \A p \in PairOf, c \in Clients :
        /\ [p EXCEPT !.client = c] \in PairOf /\ [p EXCEPT !.client = c].client = c
        /\ [p EXCEPT !.client = c].outbound = p.outbound
  /\ \A p \in PairOf, g \in Nat :
        /\ [p EXCEPT !.outbound = g] \in PairOf /\ [p EXCEPT !.outbound = g].outbound = g
        /\ [p EXCEPT !.outbound = g].client = p.client
BY DEF NoPair, PairOf

\* A thread moves on alone.
LEMMA GotoFacts ==
  ASSUME pc \in [Threads -> Places], NEW t \in Threads, NEW at \in Places, Goto(t, at)
  PROVE  /\ pc' \in [Threads -> Places] /\ pc'[t] = at
         /\ \A u \in Threads \ {t} : pc'[u] = pc[u]
BY DEF Goto

-----------------------------------------------------------------------------
\* The worker: it holds nothing, and its results are of no effect until the
\* coordinator applies them.

\* The worker moves on without touching slot, counters and pairs.
LEMMA WorkerMoves ==
  ASSUME AcceptInv, NEW at \in {"loop", "look", "check", "connect", "stop", "done"},
         Goto("worker", at), UNCHANGED workerFrame,
         pc["worker"] \in {"init", "loop", "look", "check", "connect"},
         results' \in Seq(Results), job' \in Nat,
         at = "done" => ~accepting \/ pc["coordinator"] = "done"
  PROVE  AcceptInv'
<1>1. /\ pc' \in [Threads -> Places] /\ pc'["worker"] = at
      /\ pc'["owner"] = pc["owner"] /\ pc'["coordinator"] = pc["coordinator"]
  BY GotoFacts DEF AcceptInv, AcceptTypeOK, ThreadTypes, Threads, Places
<1>2. UNCHANGED <<queue, slot, accepting, pending, next, handoffs, reserved, claimed, channel,
                  receiving, removed, pair, error, sessions, asked>>
  BY DEF workerFrame, kernelVars
<1>3. AcceptTypeOK'
  BY <1>1, <1>2 DEF AcceptInv, AcceptTypeOK, QueueTypes, ContextTypes, ThreadTypes
<1>4. Counted'
  BY <1>1, <1>2 DEF AcceptInv, Counted, Admissions, Reservations, Threads, One
<1>5. Stopped'
  BY <1>1, <1>2 DEF AcceptInv, Stopped, Threads
<1>6. Requests'
  BY ZenonT(30), <1>1, <1>2 DEF AcceptInv, Requests, Pairs, Paired
<1> QED BY <1>3, <1>4, <1>5, <1>6 DEF AcceptInv

\* The worker's steps, its panic included: it connects ahead and sends results.
LEMMA WorkerKeeps ==
  ASSUME AcceptInv,
         \/ WorkerBegin \/ WorkerExit \/ WorkerReceive \/ WorkerLook \/ WorkerCheck
         \/ WorkerPanics \/ \E ok \in BOOLEAN : Preconnect(ok)
  PROVE  AcceptInv'
<1>a. results \in Seq(Results) /\ job \in Nat /\ slot \in Slots
  BY DEF AcceptInv, AcceptTypeOK, QueueTypes, ContextTypes, ThreadTypes
<1>b. UNCHANGED workerFrame
  BY ZenonT(30) DEF WorkerBegin, WorkerExit, WorkerReceive, WorkerLook, WorkerCheck, WorkerPanics, Preconnect
<1>1. CASE WorkerBegin \/ WorkerExit \/ WorkerReceive \/ WorkerPanics
  <2>1. /\ pc["worker"] \in {"init", "loop", "look", "check", "connect"}
        /\ \E at \in {"loop", "look", "stop", "done"} :
              Goto("worker", at) /\ (at = "done" => ~accepting)
        /\ UNCHANGED <<results, job>>
    BY <1>1 DEF WorkerBegin, WorkerExit, WorkerReceive, WorkerPanics
  <2> QED BY <1>a, <1>b, <2>1, WorkerMoves
<1>2. CASE WorkerLook \/ WorkerCheck
  <2>1. DeferredAttempt \in Nat
    BY <1>a DEF DeferredAttempt, Slots
  <2>2. /\ pc["worker"] \in {"look", "check"} /\ job' \in Nat /\ UNCHANGED results
        /\ \E at \in {"loop", "check", "connect"} : Goto("worker", at)
    BY <1>2, <1>a, <2>1 DEF WorkerLook, WorkerCheck
  <2> QED BY <1>a, <1>b, <2>2, WorkerMoves
<1>3. ASSUME NEW ok \in BOOLEAN, Preconnect(ok) PROVE AcceptInv'
  <2>1. pc["worker"] = "connect" /\ job' \in Nat
    BY <1>3 DEF Preconnect
  <2>2. [generation |-> job, ok |-> ok] \in Results
    BY <1>a DEF Results
  <2>3. results' \in Seq(Results)
    BY <1>3, <1>a, <2>2 DEF Preconnect
  <2>4. \E at \in {"loop", "done"} :
           Goto("worker", at) /\ (at = "done" => pc["coordinator"] = "done")
    BY <1>3 DEF Preconnect
  <2> QED BY <1>b, <2>1, <2>3, <2>4, WorkerMoves
<1> QED BY <1>1, <1>2, <1>3

-----------------------------------------------------------------------------
\* stop_and_reject_pending, in any of the threads.

\* stop_and_cancel takes the slot out, under the mutex, ...
LEMMA StopTakeKeeps ==
  ASSUME AcceptInv, NEW t \in Threads, StopTake(t)
  PROVE  AcceptInv'
<1>1. /\ pc[t] = "stop" /\ pc' \in [Threads -> Places] /\ pc'[t] = "stopping"
      /\ \A u \in Threads \ {t} : pc'[u] = pc[u]
  BY GotoFacts DEF AcceptInv, AcceptTypeOK, ThreadTypes, Places, StopTake
<1>2. /\ accepting' = FALSE /\ slot' = NoSlot /\ removed' = [removed EXCEPT ![t] = slot]
      /\ UNCHANGED <<queue, pending, next, handoffs, reserved, claimed, results, channel,
                     receiving, job, pair, error, sessions, asked>>
  BY DEF StopTake, kernelVars
<1>3. /\ removed' \in [Threads -> Slots] /\ removed'[t] = slot /\ removed[t] = NoSlot
      /\ \A u \in Threads \ {t} : removed'[u] = removed[u]
  <2>1. removed[t] = NoSlot
    BY <1>1 DEF AcceptInv, Counted, Admissions, Reservations
  <2>2. slot \in Slots /\ removed \in [Threads -> Slots]
    BY DEF AcceptInv, AcceptTypeOK, ContextTypes, ThreadTypes
  <2> QED BY <1>2, <2>1, <2>2
<1>4. AcceptTypeOK'
  <2>1. QueueTypes'
    BY <1>2 DEF AcceptInv, AcceptTypeOK, QueueTypes
  <2>2. ContextTypes'
    BY ZenonT(30), <1>2, NoSlotFacts DEF AcceptInv, AcceptTypeOK, ContextTypes
  <2>3. ThreadTypes'
    BY <1>1, <1>2, <1>3 DEF AcceptInv, AcceptTypeOK, ThreadTypes
  <2> QED BY <2>1, <2>2, <2>3 DEF AcceptTypeOK
<1>5. Counted'
  <2>1. \A u \in Threads : removed'[u] # NoSlot =>
           pc'[u] = "stopping" \/ (u = "coordinator" /\ pc'[u] = "reject")
    BY <1>1, <1>3 DEF AcceptInv, Counted, Admissions, Reservations
  <2>2. One(slot # NoSlot) + One(removed["owner"] # NoSlot)
          + One(removed["coordinator"] # NoSlot) + One(removed["worker"] # NoSlot)
        = One(slot' # NoSlot) + One(removed'["owner"] # NoSlot)
          + One(removed'["coordinator"] # NoSlot) + One(removed'["worker"] # NoSlot)
    BY <1>2, <1>3 DEF Threads, One
  <2>3. /\ pc'["coordinator"] = "send" <=> pc["coordinator"] = "send"
        /\ pc'["owner"] = "convert" <=> pc["owner"] = "convert"
    BY <1>1 DEF Threads
  <2> QED BY <1>2, <2>1, <2>2, <2>3 DEF AcceptInv, Counted, Admissions, Reservations, One
<1>6. Stopped'
  BY <1>1, <1>2 DEF AcceptInv, Stopped, Threads
<1>7. Requests'
  <2>1. slot'.state = "none"
    BY <1>2, NoSlotFacts
  <2>2. /\ pc'["coordinator"] \in {"accepted", "transfer", "send"} <=>
             pc["coordinator"] \in {"accepted", "transfer", "send"}
        /\ pc'["coordinator"] = "accepted" <=> pc["coordinator"] = "accepted"
    BY <1>1 DEF Threads
  <2> QED BY ZenonT(30), <1>2, <2>1, <2>2 DEF AcceptInv, Requests, Pairs, Paired
<1> QED BY <1>4, <1>5, <1>6, <1>7 DEF AcceptInv

\* ... and releases the admission it took once the mutex is free.
LEMMA StopReleaseKeeps ==
  ASSUME AcceptInv, NEW t \in Threads, StopRelease(t)
  PROVE  AcceptInv'
<1>1. /\ pc[t] = "stopping" /\ pc' \in [Threads -> Places]
      /\ pc'[t] = (IF t = "owner" THEN "drop" ELSE "done")
      /\ \A u \in Threads \ {t} : pc'[u] = pc[u]
  BY GotoFacts DEF AcceptInv, AcceptTypeOK, ThreadTypes, Places, StopRelease
<1>2. /\ reserved' = FALSE /\ handoffs' = (IF reserved THEN handoffs - 1 ELSE handoffs)
      /\ pending' = (IF removed[t] # NoSlot THEN pending - 1 ELSE pending)
      /\ removed' = [removed EXCEPT ![t] = NoSlot]
      /\ results' = (IF t = "coordinator" THEN <<>> ELSE results)
      /\ UNCHANGED <<queue, slot, accepting, next, claimed, channel, receiving, job, pair,
                     error, sessions, asked>>
  BY DEF StopRelease, Release, ReleaseReservation, kernelVars
<1>3. /\ removed' \in [Threads -> Slots] /\ removed'[t] = NoSlot
      /\ \A u \in Threads \ {t} : removed'[u] = removed[u]
  BY <1>2, NoSlotFacts DEF AcceptInv, AcceptTypeOK, ThreadTypes
<1>4. /\ pending = One(slot # NoSlot) + One(removed["owner"] # NoSlot)
                   + One(removed["coordinator"] # NoSlot) + One(removed["worker"] # NoSlot)
      /\ handoffs = One(reserved) + One(pc["coordinator"] = "send") + Len(channel)
                    + One(pc["owner"] = "convert")
      /\ Len(channel) \in Nat
  BY DEF AcceptInv, Counted, Admissions, Reservations, AcceptTypeOK, QueueTypes
<1>5. /\ pending' = One(slot # NoSlot) + One(removed'["owner"] # NoSlot)
                    + One(removed'["coordinator"] # NoSlot) + One(removed'["worker"] # NoSlot)
      /\ pending' \in Nat /\ pending' <= pending
  BY <1>2, <1>3, <1>4 DEF Threads, One
<1>6. /\ pc'["coordinator"] = "send" <=> pc["coordinator"] = "send"
      /\ pc'["owner"] = "convert" <=> pc["owner"] = "convert"
  BY <1>1 DEF Threads
<1>7. /\ handoffs' = One(reserved') + One(pc'["coordinator"] = "send") + Len(channel)
                     + One(pc'["owner"] = "convert")
      /\ handoffs' \in Nat /\ handoffs' <= handoffs
  <2>1. One(reserved') = 0 /\ One(reserved) \in {0, 1} /\ handoffs' = handoffs - One(reserved)
    <3>1. handoffs \in Nat /\ reserved \in BOOLEAN
      BY DEF AcceptInv, AcceptTypeOK, ContextTypes
    <3>2. CASE reserved
      BY <1>2, <3>1, <3>2 DEF One
    <3>3. CASE ~reserved
      BY <1>2, <3>1, <3>3 DEF One
    <3> QED BY <3>2, <3>3
  <2>2. /\ One(pc'["coordinator"] = "send") = One(pc["coordinator"] = "send")
        /\ One(pc'["owner"] = "convert") = One(pc["owner"] = "convert")
        /\ One(pc["coordinator"] = "send") \in Nat /\ One(pc["owner"] = "convert") \in Nat
    BY <1>6 DEF One
  <2> HIDE DEF One
  <2> QED BY <1>4, <2>1, <2>2
<1>8. AcceptTypeOK'
  <2>1. QueueTypes'
    BY <1>2 DEF AcceptInv, AcceptTypeOK, QueueTypes
  <2>2. ContextTypes'
    BY ZenonT(30), <1>2, <1>5, <1>7 DEF AcceptInv, AcceptTypeOK, ContextTypes
  <2>3. ThreadTypes'
    BY <1>1, <1>2, <1>3 DEF AcceptInv, AcceptTypeOK, ThreadTypes
  <2> QED BY <2>1, <2>2, <2>3 DEF AcceptTypeOK
<1>9. Counted'
  <2>1. \A u \in Threads : removed'[u] # NoSlot =>
           pc'[u] = "stopping" \/ (u = "coordinator" /\ pc'[u] = "reject")
    BY <1>1, <1>3 DEF AcceptInv, Counted, Admissions, Reservations
  <2>2. pending' <= Limit /\ handoffs' <= Limit
    BY <1>5, <1>7, <1>4 DEF AcceptInv, AcceptTypeOK, ContextTypes, Counted, Admissions, Reservations, Limit
  <2> QED BY <1>2, <1>5, <1>7, <2>1, <2>2 DEF Counted, Admissions, Reservations
<1>10. Stopped'
  BY <1>1, <1>2 DEF AcceptInv, Stopped, Threads
<1>11. Requests'
  <2>1. /\ pc'["coordinator"] \in {"accepted", "transfer", "send"} <=>
             pc["coordinator"] \in {"accepted", "transfer", "send"}
        /\ pc'["coordinator"] = "accepted" <=> pc["coordinator"] = "accepted"
        /\ pc'["coordinator"] = "failed" <=> pc["coordinator"] = "failed"
    BY <1>1 DEF Threads
  <2> QED BY ZenonT(30), <1>2, <2>1 DEF AcceptInv, Requests, Pairs, Paired
<1> QED BY <1>8, <1>9, <1>10, <1>11 DEF AcceptInv

-----------------------------------------------------------------------------
\* The owner.

\* A step of the owner that leaves the slot and the requests alone.
LEMMA OwnerFrameKeeps ==
  ASSUME AcceptInv, UNCHANGED ownerFrame, pc["owner"] # "stopping",
         pc' \in [Threads -> Places],
         pc'["coordinator"] = pc["coordinator"], pc'["worker"] = pc["worker"],
         pair'["coordinator"] = pair["coordinator"],
         \A p \in Pairs' : p \in Pairs \/ p = NoPair
  PROVE  Admissions' /\ Requests'
<1>1. UNCHANGED <<queue, slot, accepting, pending, next, reserved, claimed, removed, job,
                  error, asked>>
  BY DEF ownerFrame, kernelVars
<1>2. Admissions'
  BY <1>1 DEF AcceptInv, Counted, Admissions, Threads, One
<1>3. \A p \in Pairs' : Paired(p)
  BY ZenonT(30), PairFacts DEF AcceptInv, Requests, Paired
<1>4. Requests'
  BY ZenonT(30), <1>1, <1>3 DEF AcceptInv, Requests, Paired
<1> QED BY <1>2, <1>4

\* The owner takes a pair from the channel.
LEMMA OwnerReceivesKeeps ==
  ASSUME AcceptInv, OwnerReceives
  PROVE  AcceptInv'
<1>1. /\ pc["owner"] = "run" /\ pc' \in [Threads -> Places] /\ pc'["owner"] = "convert"
      /\ pc'["coordinator"] = pc["coordinator"] /\ pc'["worker"] = pc["worker"]
  BY ZenonT(30), GotoFacts DEF AcceptInv, AcceptTypeOK, ThreadTypes, Places, Threads, OwnerReceives
<1>2. /\ channel # <<>> /\ channel' = Tail(channel)
      /\ pair' = [pair EXCEPT !["owner"] = Head(channel)]
      /\ UNCHANGED <<ownerFrame, handoffs, results, receiving, sessions>>
  BY DEF OwnerReceives
<1>3. /\ channel \in Seq(PairOf) /\ Head(channel) \in PairOf /\ channel' \in Seq(PairOf)
      /\ Len(channel) \in Nat /\ Len(channel') = Len(channel) - 1
      /\ \A i \in DOMAIN channel' : channel'[i] = channel[i + 1] /\ i + 1 \in DOMAIN channel
      /\ 1 \in DOMAIN channel /\ Head(channel) = channel[1]
  BY <1>2 DEF AcceptInv, AcceptTypeOK, QueueTypes
<1>4. /\ pair' \in [Threads -> PairOf] /\ pair'["owner"] = channel[1]
      /\ pair'["coordinator"] = pair["coordinator"]
  BY <1>2, <1>3 DEF AcceptInv, AcceptTypeOK, ThreadTypes, Threads
<1>5. \A p \in Pairs' : p \in Pairs
  BY <1>2, <1>3, <1>4 DEF Pairs
<1>6. Admissions' /\ Requests'
  BY <1>1, <1>2, <1>4, <1>5, OwnerFrameKeeps
<1>7. AcceptTypeOK'
  <2>1. QueueTypes'
    BY <1>2, <1>3 DEF ownerFrame, kernelVars, AcceptInv, AcceptTypeOK, QueueTypes
  <2>2. ContextTypes'
    BY <1>2 DEF ownerFrame, AcceptInv, AcceptTypeOK, ContextTypes
  <2>3. ThreadTypes'
    BY <1>1, <1>2, <1>4 DEF ownerFrame, AcceptInv, AcceptTypeOK, ThreadTypes
  <2> QED BY <2>1, <2>2, <2>3 DEF AcceptTypeOK
<1>8. Reservations'
  <2>1. reserved' = reserved /\ handoffs' = handoffs
    BY <1>2 DEF ownerFrame
  <2> QED BY <1>1, <1>3, <2>1 DEF AcceptInv, Counted, Reservations, One
<1>9. Stopped'
  BY <1>1, <1>2 DEF ownerFrame, AcceptInv, Stopped, Threads
<1> QED BY <1>6, <1>7, <1>8, <1>9 DEF AcceptInv, Counted

\* The owner makes the pair a session, or drops it, and releases the hand-off.
LEMMA OwnerConvertsKeeps ==
  ASSUME AcceptInv, OwnerConverts
  PROVE  AcceptInv'
<1>1. /\ pc["owner"] = "convert" /\ pc' \in [Threads -> Places] /\ pc'["owner"] = "run"
      /\ pc'["coordinator"] = pc["coordinator"] /\ pc'["worker"] = pc["worker"]
  BY ZenonT(30), GotoFacts DEF AcceptInv, AcceptTypeOK, ThreadTypes, Places, Threads, OwnerConverts
<1>2. /\ sessions' \in {sessions, sessions \cup {pair["owner"]}} /\ handoffs' = handoffs - 1
      /\ pair' = [pair EXCEPT !["owner"] = NoPair]
      /\ UNCHANGED <<ownerFrame, results, channel, receiving>>
  BY DEF OwnerConverts, DropHandoff
<1>3. /\ pair' \in [Threads -> PairOf] /\ pair'["owner"] = NoPair
      /\ pair'["coordinator"] = pair["coordinator"]
      /\ pair["owner"] \in PairOf
  BY <1>2, PairFacts DEF AcceptInv, AcceptTypeOK, ThreadTypes, Threads
<1>4. \A p \in Pairs' : p \in Pairs \/ p = NoPair
  BY <1>2, <1>3 DEF Pairs
<1>5. Admissions' /\ Requests'
  BY <1>1, <1>2, <1>3, <1>4, OwnerFrameKeeps
<1>6. Reservations' /\ handoffs' \in Nat
  <2>1. reserved' = reserved /\ channel' = channel /\ Len(channel) \in Nat /\ handoffs \in Nat
    BY <1>2 DEF ownerFrame, AcceptInv, AcceptTypeOK, QueueTypes, ContextTypes
  <2>2. One(reserved) \in Nat /\ One(pc["coordinator"] = "send") \in Nat
    BY DEF One
  <2>3. One(pc["owner"] = "convert") = 1 /\ One(pc'["owner"] = "convert") = 0
    BY <1>1 DEF One
  <2>4. /\ handoffs = One(reserved) + One(pc["coordinator"] = "send") + Len(channel)
                      + One(pc["owner"] = "convert")
        /\ handoffs <= 1
    BY DEF AcceptInv, Counted, Reservations, Limit
  <2> HIDE DEF One
  <2>5. handoffs' = One(reserved) + One(pc["coordinator"] = "send") + Len(channel)
                      + One(pc'["owner"] = "convert")
    BY <1>2, <2>1, <2>2, <2>3, <2>4
  <2>6. handoffs' \in Nat /\ handoffs' <= 1
    BY <1>2, <2>1, <2>2, <2>3, <2>4
  <2> QED BY <1>1, <2>1, <2>5, <2>6 DEF Reservations, Limit
<1>7. AcceptTypeOK'
  <2>1. QueueTypes'
    BY <1>2, <1>3 DEF ownerFrame, kernelVars, AcceptInv, AcceptTypeOK, QueueTypes
  <2>2. ContextTypes'
    BY <1>2, <1>6 DEF ownerFrame, AcceptInv, AcceptTypeOK, ContextTypes
  <2>3. ThreadTypes'
    BY <1>1, <1>2, <1>3 DEF ownerFrame, AcceptInv, AcceptTypeOK, ThreadTypes
  <2> QED BY <2>1, <2>2, <2>3 DEF AcceptTypeOK
<1>8. Stopped'
  BY <1>1, <1>2 DEF ownerFrame, AcceptInv, Stopped, Threads
<1> QED BY <1>5, <1>6, <1>7, <1>8 DEF AcceptInv, Counted

\* The moves of the owner that change nothing else.
LEMMA OwnerMovesKeeps ==
  ASSUME AcceptInv, Shutdown \/ SenderGone \/ JoinThreads
  PROVE  AcceptInv'
<1>1. /\ pc' \in [Threads -> Places] /\ pc["owner"] \in {"run", "join"}
      /\ pc'["owner"] \in {"stop", "done"}
      /\ pc["owner"] = "run" => pc'["owner"] = "stop"
      /\ pc'["owner"] = "done" =>
            pc["owner"] = "join" /\ pc["coordinator"] = "done" /\ pc["worker"] = "done"
      /\ pc'["coordinator"] = pc["coordinator"] /\ pc'["worker"] = pc["worker"]
  BY ZenonT(30), GotoFacts DEF AcceptInv, AcceptTypeOK, ThreadTypes, Places, Threads, Shutdown, SenderGone,
                   JoinThreads
<1>2. UNCHANGED <<ownerFrame, handoffs, results, channel, receiving, pair, sessions>>
  BY DEF Shutdown, SenderGone, JoinThreads
<1>3. Admissions' /\ Requests'
  BY <1>1, <1>2, OwnerFrameKeeps DEF Pairs
<1>4. AcceptTypeOK'
  BY <1>1, <1>2 DEF ownerFrame, kernelVars, AcceptInv, AcceptTypeOK, QueueTypes, ContextTypes,
                    ThreadTypes
<1>5. Reservations'
  BY <1>1, <1>2 DEF ownerFrame, AcceptInv, Counted, Reservations, One
<1>6. Stopped'
  BY <1>1, <1>2 DEF ownerFrame, AcceptInv, Stopped, Threads
<1> QED BY <1>3, <1>4, <1>5, <1>6 DEF AcceptInv, Counted

\* The listener starts its threads, of which either may fail to start.
LEMMA SpawnThreadsKeeps ==
  ASSUME AcceptInv, SpawnThreads
  PROVE  AcceptInv'
<1>1. /\ pc' \in [Threads -> Places] /\ pc["owner"] = "start"
      /\ pc'["owner"] \in {"run", "stop", "done"} /\ pc'["coordinator"] \in {"top", "done"}
      /\ pc'["worker"] \in {"init", "done"}
      /\ pc'["owner"] # "run" => pc'["coordinator"] = "done"
      /\ pc'["owner"] = "done" <=> pc'["worker"] = "done"
      /\ pc'["owner"] = "run" <=> pc'["coordinator"] = "top"
  BY DEF SpawnThreads, Threads, Places
<1>2. UNCHANGED <<ownerFrame, handoffs, results, channel, receiving, pair, sessions>>
  BY DEF SpawnThreads
<1>3. pc["coordinator"] = "off" /\ pc["worker"] = "off"
  BY <1>1 DEF AcceptInv, Stopped
<1>4. AcceptTypeOK'
  BY <1>1, <1>2 DEF ownerFrame, kernelVars, AcceptInv, AcceptTypeOK, QueueTypes, ContextTypes,
                    ThreadTypes
<1>5. Admissions' /\ Reservations'
  BY ZenonT(30), <1>1, <1>2, <1>3 DEF ownerFrame, AcceptInv, Counted, Admissions, Reservations, Threads, One
<1>6. Stopped'
  BY <1>1, <1>2, <1>3 DEF ownerFrame, AcceptInv, Stopped, Threads
<1>7. Requests'
  BY ZenonT(30), <1>1, <1>2, <1>3 DEF ownerFrame, kernelVars, AcceptInv, Requests, Pairs, Paired
<1> QED BY <1>4, <1>5, <1>6, <1>7 DEF AcceptInv, Counted

\* The owner, stopping, drops the receiver with what is in the channel.
LEMMA DropReceiverKeeps ==
  ASSUME AcceptInv, DropReceiver
  PROVE  AcceptInv'
<1>1. /\ pc["owner"] = "drop" /\ pc' \in [Threads -> Places] /\ pc'["owner"] = "join"
      /\ pc'["coordinator"] = pc["coordinator"] /\ pc'["worker"] = pc["worker"]
  BY ZenonT(30), GotoFacts DEF AcceptInv, AcceptTypeOK, ThreadTypes, Places, Threads, DropReceiver
<1>2. /\ receiving' = FALSE /\ channel' = <<>> /\ sessions' = {}
      /\ handoffs' = handoffs - Len(channel)
      /\ UNCHANGED <<ownerFrame, results, pair>>
  BY DEF DropReceiver
<1>3. channel' \in Seq(PairOf) /\ Len(channel') = 0 /\ DOMAIN channel' = {}
  BY <1>2
<1>4. \A p \in Pairs' : p \in Pairs
  BY <1>2, <1>3 DEF Pairs
<1>5. Admissions' /\ Requests'
  BY <1>1, <1>2, <1>4, OwnerFrameKeeps
<1>6. Reservations' /\ handoffs' \in Nat
  <2>1. reserved' = reserved /\ Len(channel) \in Nat /\ handoffs \in Nat
    BY <1>2 DEF ownerFrame, AcceptInv, AcceptTypeOK, QueueTypes, ContextTypes
  <2>2. One(reserved) \in Nat /\ One(pc["coordinator"] = "send") \in Nat
    BY DEF One
  <2>3. One(pc["owner"] = "convert") = 0 /\ One(pc'["owner"] = "convert") = 0
    BY <1>1 DEF One
  <2>4. /\ handoffs = One(reserved) + One(pc["coordinator"] = "send") + Len(channel)
                      + One(pc["owner"] = "convert")
        /\ handoffs <= 1
    BY DEF AcceptInv, Counted, Reservations, Limit
  <2> HIDE DEF One
  <2>5. /\ handoffs' = One(reserved) + One(pc["coordinator"] = "send") + Len(channel')
                       + One(pc'["owner"] = "convert")
        /\ handoffs' \in Nat /\ handoffs' <= 1
    BY <1>2, <1>3, <2>1, <2>2, <2>3, <2>4
  <2> QED BY <1>1, <2>1, <2>5 DEF Reservations, Limit
<1>7. AcceptTypeOK'
  BY ZenonT(30), <1>1, <1>2, <1>3, <1>6 DEF ownerFrame, kernelVars, AcceptInv, AcceptTypeOK, QueueTypes,
                                ContextTypes, ThreadTypes
<1>8. Stopped'
  BY <1>1, <1>2 DEF ownerFrame, AcceptInv, Stopped, Threads
<1> QED BY <1>5, <1>6, <1>7, <1>8 DEF AcceptInv, Counted

\* What does not move a thread: a bridge ends, a client comes or goes.
LEMMA OutsideKeeps ==
  ASSUME AcceptInv, SessionEnds \/ \E c \in Clients : Arrive(c) \/ Withdraw(c)
  PROVE  AcceptInv'
<1>1. /\ UNCHANGED <<contextVars, results, channel, receiving, threadVars, asked>>
      /\ sessions' \subseteq sessions
      /\ queue' = queue \/ \E c \in Clients : queue' = Append(queue, c)
  BY DEF SessionEnds, Arrive, Withdraw, ownerFrame, kernelVars, contextVars, threadVars
<1>2. /\ queue \in Seq(Clients) /\ queue' \in Seq(Clients)
      /\ queue # <<>> => queue' # <<>> /\ Head(queue') = Head(queue)
  <2>1. queue \in Seq(Clients)
    BY DEF AcceptInv, AcceptTypeOK, QueueTypes
  <2>2. CASE queue' = queue
    BY <2>1, <2>2
  <2>3. ASSUME NEW c \in Clients, queue' = Append(queue, c)
        PROVE  /\ queue' \in Seq(Clients)
               /\ queue # <<>> => queue' # <<>> /\ Head(queue') = Head(queue)
    BY <2>1, <2>3
  <2> QED BY <1>1, <2>1, <2>2, <2>3
<1>3. \A p \in Pairs' : p \in Pairs
  BY <1>1 DEF Pairs, threadVars
<1>4. AcceptTypeOK'
  BY <1>1, <1>2 DEF contextVars, threadVars, AcceptInv, AcceptTypeOK, QueueTypes, ContextTypes,
                    ThreadTypes
<1>5. Counted'
  BY <1>1 DEF contextVars, threadVars, AcceptInv, Counted, Admissions, Reservations
<1>6. Stopped'
  BY <1>1 DEF contextVars, threadVars, AcceptInv, Stopped
<1>7. Requests'
  BY ZenonT(30), <1>1, <1>2, <1>3 DEF contextVars, threadVars, AcceptInv, Requests, Paired
<1> QED BY <1>4, <1>5, <1>6, <1>7 DEF AcceptInv

-----------------------------------------------------------------------------
\* The coordinator.

\* Its place, before and after a step that is not of stop_and_reject_pending.
CoordinatorFrom(from, to) ==
  /\ from \notin {"off", "stopping", "done"}
  /\ to \in Places \ {"off", "stopping", "drop", "join", "done", "convert"}
  /\ pc["coordinator"] = from
  /\ pc' \in [Threads -> Places] /\ pc'["coordinator"] = to
  /\ pc'["owner"] = pc["owner"] /\ pc'["worker"] = pc["worker"]

\* A move of the coordinator, ...
LEMMA CoordinatorGoto ==
  ASSUME AcceptInv, NEW from \in Places \ {"off", "stopping", "done"},
         NEW to \in Places \ {"off", "stopping", "drop", "join", "done", "convert"},
         pc["coordinator"] = from, Goto("coordinator", to)
  PROVE  CoordinatorFrom(from, to)
BY GotoFacts DEF AcceptInv, AcceptTypeOK, ThreadTypes, Threads, CoordinatorFrom

\* ... which revives nothing that was stopped, ...
LEMMA CoordinatorStopped ==
  ASSUME AcceptInv, NEW from, NEW to, CoordinatorFrom(from, to),
         UNCHANGED <<accepting, sessions, receiving>>,
         accepting \/ slot' = NoSlot, channel' = channel \/ receiving
  PROVE  Stopped'
<1>1. pc["owner"] \notin {"start", "done"}
  BY DEF AcceptInv, Stopped, CoordinatorFrom
<1>2. pc["owner"] = "join" => channel' = <<>>
  BY DEF AcceptInv, Stopped
<1> QED BY <1>1, <1>2 DEF AcceptInv, Stopped, CoordinatorFrom, Threads

\* ... keeps the admissions when the slot stays or stays empty, ...
LEMMA CoordinatorAdmissions ==
  ASSUME AcceptInv, NEW from, NEW to, CoordinatorFrom(from, to), from # "reject",
         UNCHANGED <<removed, pending>>, slot' # NoSlot <=> slot # NoSlot
  PROVE  Admissions'
<1>1. removed["coordinator"] = NoSlot
  BY DEF AcceptInv, Counted, Admissions, CoordinatorFrom, Threads
<1> QED BY <1>1 DEF AcceptInv, Counted, Admissions, CoordinatorFrom, Threads, One

\* ... and the reservations when it has nothing to do with the channel.
LEMMA CoordinatorReservations ==
  ASSUME AcceptInv, NEW from, NEW to, CoordinatorFrom(from, to), from # "send", to # "send",
         UNCHANGED <<handoffs, reserved, channel>>
  PROVE  Reservations'
BY ZenonT(30) DEF AcceptInv, Counted, Reservations, CoordinatorFrom, One

\* The slot stays, and so do the pairs.
LEMMA CoordinatorIdlesKeeps ==
  ASSUME AcceptInv, CoordinatorTop \/ CoordinatorWait
  PROVE  AcceptInv'
<1>1. PICK from \in {"top", "wait"}, to \in {"top", "drain", "stop"} : CoordinatorFrom(from, to)
  <2>1. \E from \in {"top", "wait"}, to \in {"top", "drain", "stop"} :
           pc["coordinator"] = from /\ Goto("coordinator", to)
    BY DEF CoordinatorTop, CoordinatorWait
  <2> QED BY <2>1, CoordinatorGoto DEF Places
<1>2. UNCHANGED <<kernelVars, contextVars, results, channel, receiving, removed, job, pair, error,
                  sessions, asked>>
  BY DEF CoordinatorTop, CoordinatorWait
<1>3. AcceptTypeOK'
  BY <1>1, <1>2 DEF CoordinatorFrom, kernelVars, contextVars, AcceptInv, AcceptTypeOK, QueueTypes,
                    ContextTypes, ThreadTypes
<1>4. Admissions' /\ Reservations'
  BY <1>1, <1>2, CoordinatorAdmissions, CoordinatorReservations DEF contextVars
<1>5. Stopped'
  BY ZenonT(30), <1>1, <1>2, CoordinatorStopped DEF contextVars, AcceptInv, Stopped
<1>6. Requests'
  BY ZenonT(30), <1>1, <1>2 DEF CoordinatorFrom, kernelVars, contextVars, AcceptInv, Requests, Pairs, Paired
<1> QED BY <1>3, <1>4, <1>5, <1>6 DEF AcceptInv, Counted

\* A result of the worker is applied to the attempt it was made for, or dropped.
LEMMA ApplyResultKeeps ==
  ASSUME AcceptInv, ApplyResult
  PROVE  AcceptInv'
<1>1. CoordinatorFrom("drain", "drain") /\ pc' = pc
  BY DEF ApplyResult, threadVars, CoordinatorFrom, AcceptInv, AcceptTypeOK, ThreadTypes, Places
<1>2. UNCHANGED <<kernelVars, accepting, pending, next, handoffs, reserved, claimed, channel,
                  receiving, removed, job, pair, error, sessions, asked>>
  BY DEF ApplyResult, threadVars
<1>3. results' \in Seq(Results) /\ Head(results) \in Results /\ Head(results).generation \in Nat
  <2>1. results \in Seq(Results) /\ results # <<>> /\ results' = Tail(results)
    BY DEF ApplyResult, AcceptInv, AcceptTypeOK, QueueTypes
  <2>2. results' \in Seq(Results) /\ Head(results) \in Results
    BY <2>1
  <2> QED BY <2>2 DEF Results
<1>4. /\ slot \in Slots /\ (slot.state = "none" => slot = NoSlot)
      /\ slot.state \in {"Ready", "Claimed"} => slot.prepared = slot.generation
  BY ZenonT(30) DEF AcceptInv, AcceptTypeOK, ContextTypes, Requests
<1>5. /\ slot' \in Slots /\ slot'.generation = slot.generation
      /\ slot'.state = slot.state \/ (slot.state = "Deferred" /\ slot'.state \in {"Ready", "Rejected"})
      /\ slot' # NoSlot <=> slot # NoSlot
      /\ slot'.state = "none" => slot' = NoSlot
      /\ slot'.state \in {"Ready", "Claimed"} => slot'.prepared = slot'.generation
  <2>1. CASE slot' = slot
    BY <1>4, <2>1
  <2>2. CASE /\ slot.state = "Deferred" /\ slot.generation = Head(results).generation
             /\ slot' = MarkReady(slot, Head(results).generation)
    BY <1>3, <1>4, <2>2, SlotFacts, NoSlotFacts
  <2>3. CASE slot.state = "Deferred" /\ slot' = [slot EXCEPT !.state = "Rejected"]
    <3>1. "Rejected" \in States
      BY DEF States
    <3> QED BY ZenonT(30), <1>4, <2>3, <3>1, SlotFacts, NoSlotFacts
  <2> QED BY ZenonT(30), <2>1, <2>2, <2>3 DEF ApplyResult
<1>6. AcceptTypeOK'
  BY <1>1, <1>2, <1>3, <1>5 DEF kernelVars, AcceptInv, AcceptTypeOK, QueueTypes, ContextTypes,
                                ThreadTypes
<1>7. Admissions' /\ Reservations'
  BY ZenonT(30), <1>1, <1>2, <1>5, CoordinatorAdmissions, CoordinatorReservations
<1>8. Stopped'
  BY ZenonT(30), <1>1, <1>2, <1>5, CoordinatorStopped DEF AcceptInv, Stopped
<1>9. Requests'
  BY <1>1, <1>2, <1>5 DEF CoordinatorFrom, kernelVars, AcceptInv, Requests, Pairs, Paired
<1> QED BY <1>6, <1>7, <1>8, <1>9 DEF AcceptInv, Counted

\* WSAAccept returns without a client: the slot may have been marked, and it is
\* left behind by its client only together with an error that removes it.
LEMMA AcceptFailsKeeps ==
  ASSUME AcceptInv, NEW why, NEW left, pc["coordinator"] = "drain", Fails(why, left),
         left \in Seq(Clients), claimed' = 0, UNCHANGED <<next, handoffs, reserved, pending, asked>>,
         slot' = slot \/ (slot.state = "Ready" /\ slot' = [slot EXCEPT !.state = "Rejected"]),
         left = queue \/ why \notin {"would block", "try again"}
  PROVE  AcceptInv'
<1>1. CoordinatorFrom("drain", "failed")
  BY ZenonT(30), CoordinatorGoto DEF Fails, Places
<1>2. /\ error' = why /\ queue' = left
      /\ UNCHANGED <<arrived, withdrawn, job, receiving, sessions, accepting, results, channel,
                     removed, pair>>
  BY ZenonT(30) DEF Fails, coordFrame
<1>3. /\ slot \in Slots /\ (slot.state = "none" => slot = NoSlot)
      /\ slot.state = "Ready" => slot.prepared = slot.generation
      /\ slot.state # "Claimed"
  BY ZenonT(30), NoSlotFacts DEF AcceptInv, AcceptTypeOK, ContextTypes, Requests
<1>4. /\ slot' \in Slots /\ slot'.generation = slot.generation
      /\ slot' # NoSlot <=> slot # NoSlot
      /\ slot'.state = "none" => slot' = NoSlot
      /\ slot'.state = "Ready" => slot'.prepared = slot'.generation
      /\ slot'.state # "Claimed"
  <2>1. CASE slot' = slot
    BY ZenonT(30), <1>3, <2>1
  <2>2. CASE slot.state = "Ready" /\ slot' = [slot EXCEPT !.state = "Rejected"]
    <3>1. "Rejected" \in States
      BY ZenonT(30) DEF States
    <3> QED BY ZenonT(30), <1>3, <2>2, <3>1, SlotFacts, NoSlotFacts
  <2> QED BY ZenonT(30), <2>1, <2>2
<1>5. AcceptTypeOK'
  BY ZenonT(30), <1>1, <1>2, <1>4 DEF CoordinatorFrom, AcceptInv, AcceptTypeOK, QueueTypes, ContextTypes,
                          ThreadTypes
<1>6. Admissions' /\ Reservations'
  BY ZenonT(30), <1>1, <1>2, <1>4, CoordinatorAdmissions, CoordinatorReservations
<1>7. Stopped'
  BY ZenonT(30), <1>1, <1>2, <1>4, CoordinatorStopped DEF AcceptInv, Stopped
<1>8. Requests'
  <2>1. pc["coordinator"] = "drain" /\ pc'["coordinator"] = "failed"
    BY ZenonT(30), <1>1 DEF CoordinatorFrom
  <2>2. slot # NoSlot =>
          slot.generation \in DOMAIN asked /\ queue # <<>> /\ Head(queue) = asked[slot.generation]
    BY ZenonT(30), <2>1 DEF AcceptInv, Requests
  <2>3. slot' # NoSlot =>
          /\ slot'.generation \in DOMAIN asked' /\ slot'.state # "Claimed"
          /\ \/ error' \notin {"would block", "try again"}
             \/ queue' # <<>> /\ Head(queue') = asked'[slot'.generation]
    BY <1>2, <1>4, <2>2, ZenonT(30)
  <2>4. pair'["coordinator"] = NoPair /\ next' = Len(asked') + 1
    BY <1>2, <2>1, ZenonT(30) DEF AcceptInv, Requests
  <2>5. \A p \in Pairs' : Paired(p)'
    <3>1. Pairs' = Pairs
      BY <1>2, ZenonT(30) DEF Pairs
    <3>2. \A p \in Pairs : Paired(p)
      BY ZenonT(30) DEF AcceptInv, Requests
    <3> QED BY <3>1, <3>2, ZenonT(30) DEF Paired
  <2> QED BY <1>4, <2>1, <2>3, <2>4, <2>5, ZenonT(30) DEF Requests
<1> QED BY ZenonT(30), <1>5, <1>6, <1>7, <1>8 DEF AcceptInv, Counted

\* WSAAccept returns without a claim: the attempts under way stay as they are.
LEMMA NotAcceptedKeeps ==
  ASSUME AcceptInv,
         \/ NothingToAccept \/ ListenerFails
         \/ \E c \in Clients : \/ ClientLost(c) \/ CallbackRejects(c)
                               \/ CallbackDefersAgain(c) \/ CallbackOutOfHandoffs(c)
  PROVE  AcceptInv'
<1>1. pc["coordinator"] = "drain" /\ claimed' = 0 /\ UNCHANGED <<next, handoffs, reserved, pending, asked>>
  BY ZenonT(30) DEF NothingToAccept, ListenerFails, ClientLost, CallbackRejects, CallbackDefersAgain,
         CallbackOutOfHandoffs, Matching, Asked, AtHead, Accepting
<1>2. slot' = slot \/ (slot.state = "Ready" /\ slot' = [slot EXCEPT !.state = "Rejected"])
  BY ZenonT(30) DEF NothingToAccept, ListenerFails, ClientLost, CallbackRejects, CallbackDefersAgain,
         CallbackOutOfHandoffs
<1>3. queue \in Seq(Clients)
  BY DEF AcceptInv, AcceptTypeOK, QueueTypes
<1>4. CASE NothingToAccept \/ ListenerFails \/ \E c \in Clients : CallbackDefersAgain(c)
  <2>1. \E why : Fails(why, queue)
    BY ZenonT(30), <1>4 DEF NothingToAccept, ListenerFails, CallbackDefersAgain
  <2> QED BY ZenonT(30), <1>1, <1>2, <1>3, <2>1, AcceptFailsKeeps
<1>5. CASE \E c \in Clients : ClientLost(c) \/ CallbackRejects(c) \/ CallbackOutOfHandoffs(c)
  <2>1. queue # <<>> /\ \E why \in {"lost", "refused"} : Fails(why, Tail(queue))
    BY <1>5 DEF ClientLost, CallbackRejects, CallbackOutOfHandoffs, Matching, Asked, AtHead
  <2>2. Tail(queue) \in Seq(Clients)
    BY <1>3, <2>1
  <2> QED BY ZenonT(30), <1>1, <1>2, <2>1, <2>2, AcceptFailsKeeps
<1> QED BY <1>4, <1>5

\* The callback admits the client at the head of the queue.
LEMMA CallbackAdmitsKeeps ==
  ASSUME AcceptInv, NEW c \in Clients, CallbackAdmits(c)
  PROVE  AcceptInv'
<1>1. /\ pc["coordinator"] = "drain" /\ queue # <<>> /\ c = Head(queue) /\ slot = NoSlot
      /\ accepting /\ pending < 1 /\ claimed' = 0 /\ UNCHANGED <<handoffs, reserved>>
      /\ next' = next + 1 /\ asked' = Append(asked, c)
  BY ZenonT(30) DEF CallbackAdmits, Asked, AtHead, Accepting, Reserve, Limit
<1>2. /\ UNCHANGED <<arrived, withdrawn, job, receiving, sessions, accepting, results, channel,
                     removed, pair>>
      /\ Goto("coordinator", "failed")
      /\ \/ pending' = pending + 1 /\ slot' = Admitted(c) /\ queue' = queue
         \/ queue' = Tail(queue) /\ pending' = pending /\ slot' = slot
  BY ZenonT(30) DEF CallbackAdmits, Admitted, Fails, coordFrame
<1>3. CoordinatorFrom("drain", "failed")
  BY <1>1, <1>2, CoordinatorGoto DEF Places
<1>4. /\ asked \in Seq(Clients) /\ queue \in Seq(Clients) /\ next \in Nat /\ pending \in Nat
      /\ next = Len(asked) + 1
  BY ZenonT(30) DEF AcceptInv, AcceptTypeOK, QueueTypes, ContextTypes, Requests
<1>5. /\ asked' \in Seq(Clients) /\ next' = Len(asked') + 1 /\ next' \in Nat
      /\ \A i \in DOMAIN asked : i \in DOMAIN asked' /\ asked'[i] = asked[i]
      /\ next \in DOMAIN asked' /\ asked'[next] = c
  BY <1>1, <1>4
<1>6. queue' \in Seq(Clients)
  <2>1. Tail(queue) \in Seq(Clients)
    BY <1>1, <1>4
  <2> QED BY <1>2, <1>4, <2>1, ZenonT(30)
<1>7. /\ Admitted(c) \in Slots /\ Admitted(c).state = "Deferred"
      /\ Admitted(c).generation = next /\ Admitted(c) # NoSlot
  BY <1>4, AdmittedFacts, NoSlotFacts
<1>8. slot' \in Slots /\ pending' \in Nat /\ pending' <= 1
  BY <1>1, <1>2, <1>4, <1>7, NoSlotFacts
<1>9. AcceptTypeOK'
  BY ZenonT(30), <1>1, <1>2, <1>3, <1>5, <1>6, <1>8 DEF CoordinatorFrom, AcceptInv, AcceptTypeOK, QueueTypes,
                                            ContextTypes, ThreadTypes
<1>10. Reservations'
  BY <1>1, <1>2, <1>3, CoordinatorReservations
<1>11. Admissions'
  <2>1. CASE slot' = slot /\ pending' = pending
    BY <1>2, <1>3, <2>1, CoordinatorAdmissions
  <2>2. CASE slot' = Admitted(c) /\ pending' = pending + 1
    <3>1. \A t \in Threads : removed'[t] # NoSlot =>
             pc'[t] = "stopping" \/ (t = "coordinator" /\ pc'[t] = "reject")
      BY <1>2, <1>3 DEF AcceptInv, Counted, Admissions, CoordinatorFrom, Threads
    <3>2. /\ One(slot # NoSlot) = 0 /\ One(slot' # NoSlot) = 1
          /\ One(removed["owner"] # NoSlot) \in Nat /\ One(removed["coordinator"] # NoSlot) \in Nat
          /\ One(removed["worker"] # NoSlot) \in Nat
      BY <1>1, <1>7, <2>2 DEF One
    <3>3. pending = One(slot # NoSlot) + One(removed["owner"] # NoSlot)
                    + One(removed["coordinator"] # NoSlot) + One(removed["worker"] # NoSlot)
      BY DEF AcceptInv, Counted, Admissions
    <3> HIDE DEF One
    <3>4. pending' = One(slot' # NoSlot) + One(removed["owner"] # NoSlot)
                     + One(removed["coordinator"] # NoSlot) + One(removed["worker"] # NoSlot)
      BY <2>2, <3>2, <3>3
    <3> QED BY <1>2, <1>8, <3>1, <3>4 DEF Admissions, Limit
  <2> QED BY <1>2, <2>1, <2>2
<1>12. Stopped'
  BY <1>1, <1>2, <1>3, CoordinatorStopped
<1>13. Requests'
  <2>1. \A p \in Pairs' : p \in Pairs /\ Paired(p)
    BY ZenonT(30), <1>2 DEF AcceptInv, Requests, Pairs
  <2>2. \A p \in Pairs' : Paired(p)'
    BY <1>5, <2>1 DEF Paired
  <2>3. pair'["coordinator"] = NoPair
    BY ZenonT(30), <1>1, <1>2 DEF AcceptInv, Requests
  <2>4. CASE slot' = slot
    BY ZenonT(30), <1>1, <1>3, <1>5, <2>2, <2>3, <2>4, NoSlotFacts DEF Requests, CoordinatorFrom
  <2>5. CASE slot' = Admitted(c) /\ queue' = queue
    BY ZenonT(30), <1>1, <1>3, <1>5, <1>7, <2>2, <2>3, <2>5 DEF Requests, CoordinatorFrom
  <2> QED BY <1>2, <2>4, <2>5
<1> QED BY <1>9, <1>10, <1>11, <1>12, <1>13 DEF AcceptInv, Counted

\* The callback claims the attempt that is ready, with a hand-off reserved.
LEMMA CallbackClaimsKeeps ==
  ASSUME AcceptInv, NEW c \in Clients, CallbackClaims(c)
  PROVE  AcceptInv'
<1>1. /\ pc["coordinator"] = "drain" /\ queue # <<>> /\ c = Head(queue) /\ accepting
      /\ slot.state = "Ready" /\ slot' = [slot EXCEPT !.state = "Claimed"] /\ slot # NoSlot
      /\ handoffs < 1 /\ handoffs' = handoffs + 1 /\ reserved' = TRUE
      /\ claimed' = slot.generation /\ queue' = Tail(queue)
  BY DEF CallbackClaims, Matching, Asked, AtHead, Accepting, ReserveHandoff, ClaimReadyAttempt, Limit
<1>2. /\ UNCHANGED <<arrived, withdrawn, job, receiving, sessions, accepting, pending, next, results,
                     channel, removed, asked>>
      /\ \/ /\ Goto("coordinator", "accepted")
            /\ pair' = [pair EXCEPT !["coordinator"].client = c]
         \/ Goto("coordinator", "failed") /\ pair' = pair
  BY DEF CallbackClaims, coordFrame
<1>3. PICK to \in {"accepted", "failed"} : CoordinatorFrom("drain", to)
  <2>1. \E to \in {"accepted", "failed"} : Goto("coordinator", to)
    BY <1>2
  <2> QED BY <1>1, <2>1, CoordinatorGoto DEF Places
<1>4. /\ slot \in Slots /\ queue \in Seq(Clients) /\ slot.prepared = slot.generation
      /\ slot.generation \in DOMAIN asked /\ c = asked[slot.generation]
      /\ pair["coordinator"] = NoPair /\ handoffs \in Nat /\ pair \in [Threads -> PairOf]
  BY <1>1 DEF AcceptInv, AcceptTypeOK, QueueTypes, ContextTypes, ThreadTypes, Requests
<1>5. /\ slot' \in Slots /\ slot'.generation = slot.generation /\ slot'.state = "Claimed"
      /\ slot'.prepared = slot.prepared /\ slot' # NoSlot
  <2>1. "Claimed" \in States
    BY DEF States
  <2>2. /\ slot' \in Slots /\ slot'.generation = slot.generation /\ slot'.state = "Claimed"
        /\ slot'.prepared = slot.prepared
    <3>1. slot \in Slots /\ slot' = [slot EXCEPT !.state = "Claimed"]
      BY <1>1, <1>4
    <3> QED BY <2>1, <3>1, SlotFacts, ZenonT(30)
  <2> QED BY <2>2, NoSlotFacts, ZenonT(30)
<1>6. queue' \in Seq(Clients)
  BY <1>1, <1>4
<1>7. /\ pair' \in [Threads -> PairOf] /\ pair'["coordinator"].outbound = 0
      /\ pair'["owner"] = pair["owner"]
      /\ pc'["coordinator"] = "accepted" => pair'["coordinator"].client = c
      /\ pc'["coordinator"] # "accepted" => pair'["coordinator"] = NoPair
  <2>1. CASE Goto("coordinator", "failed") /\ pair' = pair
    <3>1. pc'["coordinator"] = "failed"
      BY <2>1 DEF Goto, AcceptInv, AcceptTypeOK, ThreadTypes, Threads
    <3> QED BY <1>4, <2>1, <3>1, PairFacts
  <2>2. CASE /\ Goto("coordinator", "accepted")
             /\ pair' = [pair EXCEPT !["coordinator"].client = c]
    <3>1. pc'["coordinator"] = "accepted"
      BY <2>2 DEF Goto, AcceptInv, AcceptTypeOK, ThreadTypes, Threads
    <3>2. /\ pair' \in [Threads -> PairOf] /\ pair'["owner"] = pair["owner"]
          /\ pair'["coordinator"] = [NoPair EXCEPT !.client = c]
      BY <1>4, <2>2, PairFacts DEF Threads
    <3> QED BY <3>1, <3>2, PairFacts
  <2> QED BY <1>2, <2>1, <2>2
<1>8. AcceptTypeOK'
  <2>1. handoffs' \in Nat /\ claimed' \in Nat /\ reserved' \in BOOLEAN
    BY <1>1, <1>4 DEF Slots
  <2> QED BY <1>2, <1>3, <1>5, <1>6, <1>7, <2>1 DEF CoordinatorFrom, AcceptInv, AcceptTypeOK,
                                            QueueTypes, ContextTypes, ThreadTypes
<1>9. Admissions'
  BY <1>1, <1>2, <1>3, <1>5, CoordinatorAdmissions
<1>10. Reservations'
  <2>1. /\ One(reserved) \in Nat /\ One(reserved') = 1 /\ One(pc["owner"] = "convert") \in Nat
        /\ One(pc["coordinator"] = "send") = 0 /\ One(pc'["coordinator"] = "send") = 0
        /\ One(pc'["owner"] = "convert") = One(pc["owner"] = "convert")
    BY <1>1, <1>3 DEF One, CoordinatorFrom
  <2>2. /\ handoffs = One(reserved) + One(pc["coordinator"] = "send") + Len(channel)
                      + One(pc["owner"] = "convert")
        /\ Len(channel) \in Nat
    BY DEF AcceptInv, AcceptTypeOK, QueueTypes, Counted, Reservations
  <2>3. handoffs \in Nat /\ handoffs < 1 /\ handoffs' = handoffs + 1
    BY <1>1, <1>4
  <2> HIDE DEF One
  <2>4. /\ handoffs' = One(reserved') + One(pc'["coordinator"] = "send") + Len(channel)
                       + One(pc'["owner"] = "convert")
        /\ handoffs' <= 1
    <3> DEFINE r == One(reserved)
               d == One(pc["owner"] = "convert")
               l == Len(channel)
    <3>1. r \in Nat /\ d \in Nat /\ l \in Nat /\ handoffs = r + 0 + l + d
      BY <2>1, <2>2
    <3> HIDE DEF r, d, l
    <3>2. handoffs' = 1 + 0 + l + d /\ handoffs' <= 1
      BY <2>3, <3>1
    <3> QED BY <2>1, <3>2 DEF d, l
  <2> QED BY <1>2, <2>4 DEF Reservations, Limit
<1>11. Stopped'
  BY <1>1, <1>2, <1>3, CoordinatorStopped
<1>12. Requests'
  <2>1. \A p \in Pairs' : Paired(p)'
    <3>1. \A p \in Pairs' : p \in Pairs \/ p = pair'["coordinator"]
      BY <1>2, <1>7, ZenonT(30) DEF Pairs
    <3>2. \A p \in Pairs : Paired(p)
      BY ZenonT(30) DEF AcceptInv, Requests
    <3> QED BY <1>2, <1>7, <3>1, <3>2, ZenonT(30) DEF Paired
  <2>2. next' = Len(asked') + 1
    BY ZenonT(30), <1>2 DEF AcceptInv, Requests
  <2>3. pc'["coordinator"] \in {"accepted", "failed"}
    BY <1>3 DEF CoordinatorFrom
  <2> QED BY <1>1, <1>2, <1>4, <1>5, <1>7, <2>1, <2>2, <2>3, ZenonT(30) DEF Requests
<1> QED BY <1>8, <1>9, <1>10, <1>11, <1>12 DEF AcceptInv, Counted

\* reject_claimed_generation, reject_active_attempt and reject_terminal_attempt
\* take the slot out with what it is counted for.
LEMMA CoordinatorTakesOut ==
  ASSUME AcceptInv, NEW from \in {"failed", "terminal"}, CoordinatorFrom(from, "reject"),
         removed' = [removed EXCEPT !["coordinator"] = slot], slot' = NoSlot,
         UNCHANGED <<kernelVars, accepting, pending, next, handoffs, reserved, claimed, results,
                     channel, receiving, job, pair, error, sessions, asked>>
  PROVE  AcceptInv'
<1>1. /\ removed["coordinator"] = NoSlot /\ slot \in Slots /\ removed \in [Threads -> Slots]
      /\ removed' \in [Threads -> Slots] /\ removed'["coordinator"] = slot
      /\ removed'["owner"] = removed["owner"] /\ removed'["worker"] = removed["worker"]
  BY DEF AcceptInv, AcceptTypeOK, ContextTypes, ThreadTypes, Counted, Admissions, CoordinatorFrom,
         Threads
<1>2. AcceptTypeOK'
  BY <1>1, NoSlotFacts DEF CoordinatorFrom, kernelVars, AcceptInv, AcceptTypeOK, QueueTypes,
                           ContextTypes, ThreadTypes
<1>3. Admissions'
  <2>1. \A t \in Threads : removed'[t] # NoSlot =>
           pc'[t] = "stopping" \/ (t = "coordinator" /\ pc'[t] = "reject")
    BY <1>1 DEF AcceptInv, Counted, Admissions, CoordinatorFrom, Threads
  <2>2. One(slot # NoSlot) + One(removed["owner"] # NoSlot)
          + One(removed["coordinator"] # NoSlot) + One(removed["worker"] # NoSlot)
        = One(slot' # NoSlot) + One(removed'["owner"] # NoSlot)
          + One(removed'["coordinator"] # NoSlot) + One(removed'["worker"] # NoSlot)
    BY <1>1 DEF One
  <2> QED BY <2>1, <2>2 DEF AcceptInv, Counted, Admissions
<1>4. Reservations'
  BY CoordinatorReservations
<1>5. Stopped'
  BY CoordinatorStopped
<1>6. Requests'
  <2>1. /\ pc'["coordinator"] = "reject" /\ pair'["coordinator"] = NoPair
        /\ next' = Len(asked') + 1
    BY ZenonT(30) DEF CoordinatorFrom, AcceptInv, Requests
  <2>2. \A p \in Pairs' : Paired(p)'
    <3>1. Pairs' = Pairs
      BY DEF Pairs
    <3> QED BY <3>1, ZenonT(30) DEF AcceptInv, Requests, Paired
  <2> QED BY <2>1, <2>2, NoSlotFacts, ZenonT(30) DEF Requests
<1> QED BY <1>2, <1>3, <1>4, <1>5, <1>6 DEF AcceptInv, Counted

\* Zero is no request.
LEMMA SlotGeneration ==
  ASSUME AcceptInv
  PROVE  slot # NoSlot => slot.generation # 0
<1>1. asked \in Seq(Clients) /\ (slot # NoSlot => slot.generation \in DOMAIN asked)
  BY ZenonT(30) DEF AcceptInv, AcceptTypeOK, QueueTypes, Requests
<1>2. 0 \notin DOMAIN asked
  BY <1>1
<1> QED BY <1>1, <1>2, ZenonT(30)

\* After an error the coordinator takes the attempt out of the slot, ...
LEMMA RejectAttemptKeeps ==
  ASSUME AcceptInv, RejectAttempt
  PROVE  AcceptInv'
<1>1. /\ pc["coordinator"] = "failed"
      /\ UNCHANGED <<kernelVars, accepting, pending, next, handoffs, reserved, claimed, results,
                     channel, receiving, job, pair, error, sessions, asked>>
  BY ZenonT(30) DEF RejectAttempt
<1>2. CASE /\ removed' = [removed EXCEPT !["coordinator"] = slot] /\ slot' = NoSlot
           /\ Goto("coordinator", "reject")
  <2>1. CoordinatorFrom("failed", "reject")
    BY <1>1, <1>2, CoordinatorGoto DEF Places
  <2> QED BY <1>1, <1>2, <2>1, CoordinatorTakesOut
<1>3. CASE /\ \/ claimed # 0 /\ claimed # slot.generation
              \/ claimed = 0 /\ error \in {"would block", "try again"}
           /\ Goto("coordinator", "terminal")
           /\ UNCHANGED <<removed, slot>>
  <2>1. CoordinatorFrom("failed", "terminal")
    BY ZenonT(30), <1>1, <1>3, CoordinatorGoto DEF Places
  <2>2. slot # NoSlot => slot.state # "Claimed" /\ queue # <<>> /\ Head(queue) = asked[slot.generation]
    BY ZenonT(30), <1>1, <1>3, SlotGeneration DEF AcceptInv, Requests
  <2>3. AcceptTypeOK'
    BY ZenonT(30), <1>1, <1>3, <2>1 DEF CoordinatorFrom, kernelVars, AcceptInv, AcceptTypeOK, QueueTypes,
                            ContextTypes, ThreadTypes
  <2>4. Admissions' /\ Reservations'
    BY ZenonT(30), <1>1, <1>3, <2>1, CoordinatorAdmissions, CoordinatorReservations
  <2>5. Stopped'
    BY ZenonT(30), <1>1, <1>3, <2>1, CoordinatorStopped DEF AcceptInv, Stopped
  <2>6. Requests'
    BY ZenonT(30), <1>1, <1>3, <2>1, <2>2 DEF CoordinatorFrom, kernelVars, AcceptInv, Requests, Pairs, Paired
  <2> QED BY <2>3, <2>4, <2>5, <2>6 DEF AcceptInv, Counted
<1> QED BY ZenonT(30), <1>2, <1>3 DEF RejectAttempt

\* ... decides whether the listener goes on, ...
LEMMA AfterFailureKeeps ==
  ASSUME AcceptInv, AfterFailure
  PROVE  AcceptInv'
<1>1. /\ pc["coordinator"] = "terminal"
      /\ UNCHANGED <<kernelVars, accepting, pending, next, handoffs, reserved, claimed, results,
                     channel, receiving, job, pair, sessions, asked>>
  BY DEF AfterFailure
<1>2. CASE Terminal
  <2>1. /\ removed' = [removed EXCEPT !["coordinator"] = slot] /\ slot' = NoSlot /\ error' = error
        /\ Goto("coordinator", "reject")
    BY <1>2 DEF AfterFailure
  <2>2. CoordinatorFrom("terminal", "reject")
    BY <1>1, <2>1, CoordinatorGoto DEF Places
  <2> QED BY <1>1, <2>1, <2>2, CoordinatorTakesOut
<1>3. CASE ~Terminal
  <2>1. UNCHANGED <<removed, slot>> /\ \E to \in {"stop", "wait"} : Goto("coordinator", to)
    BY <1>3 DEF AfterFailure
  <2>2. PICK to \in {"stop", "wait"} : CoordinatorFrom("terminal", to)
    BY <1>1, <2>1, CoordinatorGoto DEF Places
  <2>3. AcceptTypeOK'
    BY <1>1, <2>1, <2>2 DEF CoordinatorFrom, kernelVars, AcceptInv, AcceptTypeOK, QueueTypes,
                            ContextTypes, ThreadTypes
  <2>4. Admissions' /\ Reservations'
    BY <1>1, <2>1, <2>2, CoordinatorAdmissions, CoordinatorReservations
  <2>5. Stopped'
    BY ZenonT(30), <1>1, <2>1, <2>2, CoordinatorStopped DEF AcceptInv, Stopped
  <2>6. Requests'
    BY ZenonT(30), <1>1, <2>1, <2>2 DEF CoordinatorFrom, kernelVars, AcceptInv, Requests, Pairs, Paired
  <2> QED BY <2>3, <2>4, <2>5, <2>6 DEF AcceptInv, Counted
<1> QED BY <1>2, <1>3

\* ... and releases what the attempt had reserved.
LEMMA ReleaseRejectedKeeps ==
  ASSUME AcceptInv, ReleaseRejected
  PROVE  AcceptInv'
<1>1. /\ pc["coordinator"] = "reject" /\ Goto("coordinator", "terminal")
      /\ pending' = (IF removed["coordinator"] # NoSlot THEN pending - 1 ELSE pending)
      /\ removed' = [removed EXCEPT !["coordinator"] = NoSlot]
      /\ \/ reserved' = FALSE /\ handoffs' = (IF reserved THEN handoffs - 1 ELSE handoffs)
         \/ reserved' = reserved /\ handoffs' = handoffs
      /\ UNCHANGED <<kernelVars, slot, accepting, next, claimed, results, channel, receiving, job,
                     pair, error, sessions, asked>>
  BY DEF ReleaseRejected, Release, ReleaseReservation
<1>2. CoordinatorFrom("reject", "terminal")
  BY <1>1, CoordinatorGoto DEF Places
<1>3. /\ removed' \in [Threads -> Slots] /\ removed'["coordinator"] = NoSlot
      /\ removed'["owner"] = removed["owner"] /\ removed'["worker"] = removed["worker"]
      /\ pending \in Nat /\ handoffs \in Nat /\ reserved \in BOOLEAN /\ Len(channel) \in Nat
  BY <1>1, NoSlotFacts DEF AcceptInv, AcceptTypeOK, QueueTypes, ContextTypes, ThreadTypes, Threads
<1>4. Admissions' /\ pending' \in Nat
  <2>1. \A t \in Threads : removed'[t] # NoSlot =>
           pc'[t] = "stopping" \/ (t = "coordinator" /\ pc'[t] = "reject")
    BY <1>2, <1>3 DEF AcceptInv, Counted, Admissions, CoordinatorFrom, Threads
  <2>2. /\ pending = One(slot # NoSlot) + One(removed["owner"] # NoSlot)
                     + One(removed["coordinator"] # NoSlot) + One(removed["worker"] # NoSlot)
        /\ pending <= 1
    BY DEF AcceptInv, Counted, Admissions, Limit
  <2>3. /\ pending' = One(slot # NoSlot) + One(removed'["owner"] # NoSlot)
                      + One(removed'["coordinator"] # NoSlot) + One(removed'["worker"] # NoSlot)
        /\ pending' \in Nat /\ pending' <= 1
    BY <1>1, <1>3, <2>2 DEF One
  <2> QED BY <1>1, <2>1, <2>3 DEF Admissions, Limit
<1>5. Reservations' /\ handoffs' \in Nat /\ reserved' \in BOOLEAN
  <2> DEFINE s == One(pc["coordinator"] = "send")
             d == One(pc["owner"] = "convert")
             l == Len(channel)
  <2>1. /\ s \in Nat /\ d \in Nat /\ l \in Nat /\ One(TRUE) = 1 /\ One(FALSE) = 0
        /\ One(pc'["coordinator"] = "send") = s /\ One(pc'["owner"] = "convert") = d
    BY <1>2, <1>3 DEF One, CoordinatorFrom
  <2>2. handoffs = One(reserved) + s + l + d /\ handoffs <= 1
    BY DEF AcceptInv, Counted, Reservations, Limit
  <2> HIDE DEF One, s, d, l
  <2>3. /\ handoffs' = One(reserved') + s + l + d /\ handoffs' <= 1 /\ handoffs' \in Nat
        /\ reserved' \in BOOLEAN
    <3>1. CASE reserved' = reserved /\ handoffs' = handoffs
      BY <1>3, <2>2, <3>1
    <3>2. CASE reserved = TRUE /\ reserved' = FALSE /\ handoffs' = handoffs - 1
      <4>1. One(reserved) = 1 /\ One(reserved') = 0 /\ reserved' \in BOOLEAN
        BY <2>1, <3>2, ZenonT(30)
      <4> QED BY <1>3, <2>1, <2>2, <3>2, <4>1
    <3> QED BY <1>1, <1>3, <3>1, <3>2, ZenonT(30)
  <2> QED BY <1>1, <2>1, <2>3 DEF Reservations, Limit, l
<1>6. AcceptTypeOK'
  BY <1>1, <1>2, <1>3, <1>4, <1>5 DEF CoordinatorFrom, kernelVars, AcceptInv, AcceptTypeOK,
                                      QueueTypes, ContextTypes, ThreadTypes
<1>7. Stopped'
  BY ZenonT(30), <1>1, <1>2, CoordinatorStopped DEF AcceptInv, Stopped
<1>8. Requests'
  BY ZenonT(30), <1>1, <1>2 DEF CoordinatorFrom, kernelVars, AcceptInv, Requests, Pairs, Paired
<1> QED BY <1>4, <1>5, <1>6, <1>7, <1>8 DEF AcceptInv, Counted

\* The accepted socket is paired with the one connected for its request.
LEMMA TakeHandoffKeeps ==
  ASSUME AcceptInv, TakeHandoff
  PROVE  AcceptInv'
<1>1. /\ pc["coordinator"] = "accepted"
      /\ UNCHANGED <<kernelVars, accepting, next, handoffs, reserved, claimed, results, channel,
                     receiving, removed, job, error, sessions, asked>>
  BY DEF TakeHandoff
<1>2. /\ pair \in [Threads -> PairOf] /\ pair["coordinator"].outbound = 0
      /\ pair["coordinator"].client = asked[claimed] /\ claimed \in DOMAIN asked
      /\ \A p \in Pairs : Paired(p)
      /\ slot \in Slots /\ pending \in Nat /\ next = Len(asked) + 1
  BY ZenonT(30), <1>1 DEF AcceptInv, AcceptTypeOK, ContextTypes, ThreadTypes, Requests
<1>3. CASE /\ slot.generation = claimed /\ slot.state = "Claimed"
           /\ slot' = NoSlot /\ pending' = pending - 1
           /\ pair' = [pair EXCEPT !["coordinator"].outbound = slot.prepared]
           /\ Goto("coordinator", "transfer")
  <2>1. CoordinatorFrom("accepted", "transfer")
    BY <1>1, <1>3, CoordinatorGoto DEF Places
  <2>2. slot.prepared = claimed /\ claimed \in Nat /\ slot # NoSlot
    BY <1>3, NoSlotFacts DEF AcceptInv, AcceptTypeOK, ContextTypes, Requests
  <2>3. /\ pair' \in [Threads -> PairOf] /\ pair'["owner"] = pair["owner"]
        /\ pair'["coordinator"].outbound = claimed
        /\ pair'["coordinator"].client = asked[claimed]
    <3>1. /\ pair' \in [Threads -> PairOf] /\ pair'["owner"] = pair["owner"]
          /\ pair'["coordinator"] = [pair["coordinator"] EXCEPT !.outbound = claimed]
          /\ pair["coordinator"] \in PairOf
      BY <1>2, <1>3, <2>2, PairFacts DEF Threads
    <3> QED BY <1>2, <2>2, <3>1, PairFacts
  <2>4. Admissions' /\ pending' \in Nat
    <3>1. \A t \in Threads : removed'[t] # NoSlot =>
             pc'[t] = "stopping" \/ (t = "coordinator" /\ pc'[t] = "reject")
      BY <1>1, <2>1 DEF AcceptInv, Counted, Admissions, CoordinatorFrom, Threads
    <3> DEFINE o == One(removed["owner"] # NoSlot)
               k == One(removed["coordinator"] # NoSlot)
               w == One(removed["worker"] # NoSlot)
    <3>2. /\ One(slot # NoSlot) = 1 /\ One(slot' # NoSlot) = 0
          /\ o \in Nat /\ k \in Nat /\ w \in Nat
      BY <1>3, <2>2 DEF One
    <3>3. pending = 1 + o + k + w /\ pending <= 1
      BY <3>2 DEF AcceptInv, Counted, Admissions, Limit
    <3>4. pending' = pending - 1
      BY <1>3
    <3> HIDE DEF One, o, k, w
    <3>5. pending' = 0 + o + k + w /\ pending' \in Nat /\ pending' <= 1
      BY <3>2, <3>3, <3>4
    <3> QED BY <1>1, <3>1, <3>2, <3>5 DEF Admissions, Limit, o, k, w
  <2>5. Reservations'
    BY <1>1, <2>1, CoordinatorReservations
  <2>6. Stopped'
    BY <1>1, <1>3, <2>1, CoordinatorStopped
  <2>7. AcceptTypeOK'
    BY <1>1, <1>3, <2>1, <2>3, <2>4, NoSlotFacts
    DEF CoordinatorFrom, kernelVars, AcceptInv, AcceptTypeOK, QueueTypes, ContextTypes, ThreadTypes
  <2>8. \A p \in Pairs' : Paired(p)'
    <3>1. \A p \in Pairs' : p \in Pairs \/ p = pair'["coordinator"]
      BY <1>1, <2>3, ZenonT(30) DEF Pairs
    <3> QED BY <1>1, <1>2, <2>3, <3>1, ZenonT(30) DEF Paired
  <2>9. Requests'
    <3>1. pc'["coordinator"] = "transfer" /\ slot' = NoSlot
      BY <1>3, <2>1 DEF CoordinatorFrom
    <3>2. next' = Len(asked') + 1
      BY <1>1, <1>2
    <3> QED BY <2>8, <3>1, <3>2, NoSlotFacts, ZenonT(30) DEF Requests
  <2> QED BY <2>4, <2>5, <2>6, <2>7, <2>9 DEF AcceptInv, Counted
<1>4. CASE /\ slot.generation # claimed
           /\ pair' = [pair EXCEPT !["coordinator"] = NoPair]
           /\ Goto("coordinator", "wait")
           /\ UNCHANGED <<slot, pending>>
  <2>1. CoordinatorFrom("accepted", "wait")
    BY <1>1, <1>4, CoordinatorGoto DEF Places
  <2>2. /\ pair' \in [Threads -> PairOf] /\ pair'["owner"] = pair["owner"]
        /\ pair'["coordinator"] = NoPair
    BY <1>2, <1>4, PairFacts DEF Threads
  <2>3. Admissions' /\ Reservations'
    BY <1>1, <1>4, <2>1, CoordinatorAdmissions, CoordinatorReservations
  <2>4. Stopped'
    BY ZenonT(30), <1>1, <1>4, <2>1, CoordinatorStopped DEF AcceptInv, Stopped
  <2>5. AcceptTypeOK'
    BY <1>1, <1>4, <2>1, <2>2
    DEF CoordinatorFrom, kernelVars, AcceptInv, AcceptTypeOK, QueueTypes, ContextTypes, ThreadTypes
  <2>6. \A p \in Pairs' : Paired(p)'
    <3>1. \A p \in Pairs' : p \in Pairs \/ p = NoPair
      BY <1>1, <2>2, ZenonT(30) DEF Pairs
    <3> QED BY <1>1, <1>2, <3>1, PairFacts, ZenonT(30) DEF Paired
  <2>7. Requests'
    BY <1>1, <1>4, <2>1, <2>2, <2>6, ZenonT(30) DEF CoordinatorFrom, kernelVars, AcceptInv, Requests
  <2> QED BY <2>3, <2>4, <2>5, <2>7 DEF AcceptInv, Counted
<1> QED BY <1>3, <1>4 DEF TakeHandoff

\* The coordinator gives up, or has sent, the pair it holds.
LEMMA PairLeft ==
  ASSUME AcceptInv, pair' = [pair EXCEPT !["coordinator"] = NoPair],
         UNCHANGED <<sessions, asked>>,
         \A p \in {channel'[i] : i \in DOMAIN channel'} : p \in Pairs
  PROVE  /\ pair' \in [Threads -> PairOf] /\ pair'["coordinator"] = NoPair
         /\ \A p \in Pairs' : Paired(p)'
<1>1. /\ pair' \in [Threads -> PairOf] /\ pair'["coordinator"] = NoPair
      /\ pair'["owner"] = pair["owner"]
  BY PairFacts DEF AcceptInv, AcceptTypeOK, ThreadTypes, Threads
<1>2. \A p \in Pairs' : p \in Pairs \/ p = NoPair
  BY <1>1, ZenonT(30) DEF Pairs
<1>3. \A p \in Pairs : Paired(p)
  BY ZenonT(30) DEF AcceptInv, Requests
<1>4. \A p \in Pairs' : Paired(p)'
  BY <1>2, <1>3, PairFacts, ZenonT(30) DEF Paired
<1> QED BY <1>1, <1>4

\* The hand-off reservation passes from the callback's context to the pair.
LEMMA TransferReservationKeeps ==
  ASSUME AcceptInv, TransferReservation
  PROVE  AcceptInv'
<1>1. /\ pc["coordinator"] = "transfer" /\ reserved' = FALSE /\ reserved \in BOOLEAN
      /\ UNCHANGED <<kernelVars, slot, accepting, pending, next, handoffs, claimed, results, channel,
                     receiving, removed, job, error, sessions, asked>>
  BY DEF TransferReservation, AcceptInv, AcceptTypeOK, ContextTypes
<1>2. PICK to \in {"send", "wait"} :
         /\ Goto("coordinator", to) /\ (to = "send" <=> reserved)
         /\ pair' = IF reserved THEN pair ELSE [pair EXCEPT !["coordinator"] = NoPair]
  BY DEF TransferReservation
<1>3. CoordinatorFrom("transfer", to)
  BY <1>1, <1>2, CoordinatorGoto DEF Places
<1>4. /\ pair' \in [Threads -> PairOf] /\ (to = "wait" => pair'["coordinator"] = NoPair)
      /\ \A p \in Pairs' : Paired(p)'
  <2>1. CASE reserved
    <3>1. pair' = pair /\ to = "send"
      BY <1>2, <2>1
    <3>2. Pairs' = Pairs
      BY <1>1, <3>1 DEF Pairs
    <3> QED BY <1>1, <3>1, <3>2, ZenonT(30) DEF AcceptInv, AcceptTypeOK, ThreadTypes, Requests, Paired
  <2>2. CASE ~reserved
    <3>1. pair' = [pair EXCEPT !["coordinator"] = NoPair]
      BY <1>2, <2>2
    <3>2. \A p \in {channel'[i] : i \in DOMAIN channel'} : p \in Pairs
      BY <1>1 DEF Pairs
    <3> QED BY <1>1, <3>1, <3>2, PairLeft
  <2> QED BY <1>1, <2>1, <2>2
<1>5. AcceptTypeOK'
  BY ZenonT(30), <1>1, <1>3, <1>4
  DEF CoordinatorFrom, kernelVars, AcceptInv, AcceptTypeOK, QueueTypes, ContextTypes, ThreadTypes
<1>6. Admissions'
  BY <1>1, <1>3, CoordinatorAdmissions
<1>7. Reservations'
  <2> DEFINE d == One(pc["owner"] = "convert")
             l == Len(channel)
  <2>1. /\ d \in Nat /\ l \in Nat /\ One(pc["coordinator"] = "send") = 0 /\ One(reserved') = 0
        /\ One(pc'["owner"] = "convert") = d
    BY <1>1, <1>3 DEF CoordinatorFrom, One, AcceptInv, AcceptTypeOK, QueueTypes
  <2>2. One(pc'["coordinator"] = "send") = One(reserved) /\ One(reserved) \in Nat
    <3>1. pc'["coordinator"] = "send" <=> reserved
      BY <1>2, <1>3, ZenonT(30) DEF CoordinatorFrom
    <3> QED BY <3>1, ZenonT(30) DEF One
  <2>3. handoffs = One(reserved) + 0 + l + d /\ handoffs <= Limit
    BY <2>1 DEF AcceptInv, Counted, Reservations
  <2> HIDE DEF One, d, l
  <2>4. handoffs = 0 + One(reserved) + l + d
    BY <2>1, <2>2, <2>3
  <2> QED BY <1>1, <2>1, <2>2, <2>3, <2>4 DEF Reservations, l
<1>8. Stopped'
  BY ZenonT(30), <1>1, <1>3, CoordinatorStopped DEF AcceptInv, Stopped
<1>9. Requests'
  BY <1>1, <1>3, <1>4, ZenonT(30) DEF CoordinatorFrom, kernelVars, AcceptInv, Requests
<1> QED BY <1>5, <1>6, <1>7, <1>8, <1>9 DEF AcceptInv, Counted

\* The pair is sent, or its reservation released when the receiver is gone.
LEMMA SendHandoffKeeps ==
  ASSUME AcceptInv, SendHandoff
  PROVE  AcceptInv'
<1>1. /\ pc["coordinator"] = "send" /\ pair' = [pair EXCEPT !["coordinator"] = NoPair]
      /\ UNCHANGED <<kernelVars, slot, accepting, pending, next, reserved, claimed, results,
                     receiving, removed, job, error, sessions, asked>>
  BY DEF SendHandoff
<1>2. PICK to \in {"wait", "stop"} : CoordinatorFrom("send", to)
  <2>1. \E to \in {"wait", "stop"} : Goto("coordinator", to)
    BY DEF SendHandoff
  <2> QED BY <1>1, <2>1, CoordinatorGoto DEF Places
<1>3. \/ receiving /\ channel' = Append(channel, pair["coordinator"]) /\ handoffs' = handoffs
      \/ channel' = channel /\ handoffs' = handoffs - 1
  BY DEF SendHandoff, DropHandoff
<1>4. channel \in Seq(PairOf) /\ pair["coordinator"] \in PairOf /\ handoffs \in Nat
  BY DEF AcceptInv, AcceptTypeOK, QueueTypes, ContextTypes, ThreadTypes, Threads
<1>5. /\ channel' \in Seq(PairOf) /\ Len(channel) \in Nat
      /\ \/ receiving /\ Len(channel') = Len(channel) + 1 /\ handoffs' = handoffs
         \/ Len(channel') = Len(channel) /\ channel' = channel /\ handoffs' = handoffs - 1
      /\ \A i \in DOMAIN channel' :
            (i \in DOMAIN channel /\ channel'[i] = channel[i]) \/ channel'[i] = pair["coordinator"]
  <2>1. CASE channel' = channel /\ handoffs' = handoffs - 1
    BY <1>4, <2>1
  <2>2. CASE receiving /\ channel' = Append(channel, pair["coordinator"]) /\ handoffs' = handoffs
    BY <1>4, <2>2
  <2> QED BY <1>3, <2>1, <2>2
<1>6. /\ pair' \in [Threads -> PairOf] /\ pair'["coordinator"] = NoPair
      /\ \A p \in Pairs' : Paired(p)'
  <2>1. \A p \in {channel'[i] : i \in DOMAIN channel'} : p \in Pairs
    BY <1>5 DEF Pairs
  <2> QED BY ZenonT(30), <1>1, <2>1, PairLeft
<1>7. Reservations' /\ handoffs' \in Nat
  <2> DEFINE r == One(reserved)
             d == One(pc["owner"] = "convert")
             l == Len(channel)
             m == Len(channel')
  <2>1. /\ r \in Nat /\ d \in Nat /\ One(pc["coordinator"] = "send") = 1
        /\ One(reserved') = r /\ One(pc'["coordinator"] = "send") = 0
        /\ One(pc'["owner"] = "convert") = d
    BY <1>1, <1>2 DEF One, CoordinatorFrom
  <2>2. handoffs = r + 1 + l + d /\ handoffs <= 1
    BY <2>1 DEF AcceptInv, Counted, Reservations, Limit
  <2>3. /\ l \in Nat
        /\ (m = l + 1 /\ handoffs' = handoffs) \/ (m = l /\ handoffs' = handoffs - 1)
    BY <1>5
  <2> HIDE DEF One, r, d, l, m
  <2>4. handoffs' = r + 0 + m + d /\ handoffs' <= 1 /\ handoffs' \in Nat
    BY <1>4, <2>1, <2>2, <2>3
  <2> QED BY <2>1, <2>4 DEF Reservations, Limit, m
<1>8. AcceptTypeOK'
  BY <1>1, <1>2, <1>5, <1>6, <1>7
  DEF CoordinatorFrom, kernelVars, AcceptInv, AcceptTypeOK, QueueTypes, ContextTypes, ThreadTypes
<1>9. Admissions'
  BY <1>1, <1>2, CoordinatorAdmissions
<1>10. Stopped'
  BY ZenonT(30), <1>1, <1>2, <1>5, CoordinatorStopped DEF AcceptInv, Stopped
<1>11. Requests'
  BY <1>1, <1>2, <1>6, ZenonT(30) DEF CoordinatorFrom, kernelVars, AcceptInv, Requests
<1> QED BY <1>7, <1>8, <1>9, <1>10, <1>11 DEF AcceptInv, Counted

-----------------------------------------------------------------------------
\* The invariant, and what follows from it.

\* AcceptInv holds of a new listener.
LEMMA AcceptInit ==
  ASSUME Init
  PROVE  AcceptInv
<1>1. /\ queue = <<>> /\ slot = NoSlot /\ accepting = TRUE /\ pending = 0 /\ next = 1
      /\ handoffs = 0 /\ reserved = FALSE /\ claimed = 0
      /\ results = <<>> /\ channel = <<>> /\ receiving = TRUE /\ job = 0
      /\ removed = [t \in Threads |-> NoSlot] /\ pair = [t \in Threads |-> NoPair]
      /\ sessions = {} /\ asked = <<>>
  BY ZenonT(30) DEF Init
<1>2. /\ pc \in [Threads -> Places]
      /\ pc["owner"] = "start" /\ pc["coordinator"] = "off" /\ pc["worker"] = "off"
  BY DEF Init, Threads, Places
<1>3. AcceptTypeOK
  <2>1. QueueTypes
    BY <1>1 DEF QueueTypes
  <2>2. ContextTypes
    BY ZenonT(30), <1>1, NoSlotFacts DEF ContextTypes
  <2>3. removed \in [Threads -> Slots] /\ pair \in [Threads -> PairOf]
    BY <1>1, NoSlotFacts, PairFacts
  <2>4. ThreadTypes
    BY <1>1, <1>2, <2>3 DEF ThreadTypes
  <2> QED BY <2>1, <2>2, <2>4 DEF AcceptTypeOK
<1>4. Counted
  BY <1>1, <1>2 DEF Counted, Admissions, Reservations, One, Limit, Threads
<1>5. Stopped
  BY <1>1, <1>2 DEF Stopped, Threads
<1>6. Requests
  <2>1. \A p \in Pairs : p = NoPair
    BY <1>1 DEF Pairs, Threads
  <2>2. pair["coordinator"] = NoPair /\ next = Len(asked) + 1
    BY <1>1 DEF Threads
  <2> QED BY <1>1, <1>2, <2>1, <2>2, NoSlotFacts, PairFacts DEF Requests, Paired
<1> QED BY <1>3, <1>4, <1>5, <1>6 DEF AcceptInv

\* Every step keeps AcceptInv.
LEMMA AcceptNext ==
  ASSUME AcceptInv, [Next]_vars
  PROVE  AcceptInv'
<1>1. CASE Worker
  BY SMTT(30), <1>1, WorkerKeeps, StopTakeKeeps, StopReleaseKeeps DEF Worker, Threads
<1>2. CASE Coordinator
  <2>1. CASE \E c \in Clients : CallbackClaims(c)
    BY <2>1, CallbackClaimsKeeps
  <2>2. CASE \E c \in Clients : CallbackAdmits(c)
    BY <2>2, CallbackAdmitsKeeps
  <2>3. CASE \/ NothingToAccept \/ ListenerFails
             \/ \E c \in Clients : \/ ClientLost(c) \/ CallbackRejects(c)
                                   \/ CallbackDefersAgain(c) \/ CallbackOutOfHandoffs(c)
    BY <2>3, NotAcceptedKeeps
  <2>4. CASE CoordinatorTop \/ CoordinatorWait \/ ApplyResult
    BY <2>4, CoordinatorIdlesKeeps, ApplyResultKeeps
  <2>5. CASE RejectAttempt \/ ReleaseRejected \/ AfterFailure
    BY <2>5, RejectAttemptKeeps, ReleaseRejectedKeeps, AfterFailureKeeps
  <2>6. CASE TakeHandoff \/ TransferReservation \/ SendHandoff
    BY <2>6, TakeHandoffKeeps, TransferReservationKeeps, SendHandoffKeeps
  <2>7. CASE StopTake("coordinator") \/ StopRelease("coordinator")
    BY <2>7, StopTakeKeeps, StopReleaseKeeps DEF Threads
  <2> QED BY <1>2, <2>1, <2>2, <2>3, <2>4, <2>5, <2>6, <2>7 DEF Coordinator, Callback
<1>3. CASE Owner
  BY <1>3, SpawnThreadsKeeps, OwnerReceivesKeeps, OwnerConvertsKeeps, OwnerMovesKeeps,
     StopTakeKeeps, StopReleaseKeeps, DropReceiverKeeps DEF Owner, Threads
<1>4. CASE SessionEnds \/ \E c \in Clients : Arrive(c) \/ Withdraw(c)
  BY <1>4, OutsideKeeps
<1>5. CASE Shutdown
  BY <1>5, OwnerMovesKeeps
<1>6. CASE UNCHANGED vars
  BY ZenonT(30), <1>6 DEF vars, kernelVars, contextVars, threadVars, AcceptInv, AcceptTypeOK, QueueTypes,
              ContextTypes, ThreadTypes, Counted, Admissions, Reservations, Stopped, Requests,
              Pairs, Paired
<1> QED BY <1>1, <1>2, <1>3, <1>4, <1>5, <1>6 DEF Next

\* The listener's invariant: its counters are exact, its slot belongs to the
\* client at the head of the queue, and a stop leaves nothing behind.
THEOREM AcceptInvariant == Spec => []AcceptInv
<1>1. Init => AcceptInv
  BY AcceptInit
<1>2. AcceptInv /\ [Next]_vars => AcceptInv'
  BY AcceptNext
<1> QED BY <1>1, <1>2, PTL DEF Spec

\* For any clients: a client is bridged to the socket that was connected for
\* its own request, however late the worker's results are applied.
THEOREM PairedByRequestHolds == Spec => []PairedByRequest
<1>1. AcceptInv => PairedByRequest
  BY ZenonT(30) DEF AcceptInv, Requests, Paired, PairedByRequest
<1> QED BY <1>1, AcceptInvariant, PTL

\* A set grows by at most the one element that is put in.
LEMMA CountOne ==
  ASSUME NEW B, IsFiniteSet(B), NEW x, x \notin B, NEW C, C = B \/ C = B \cup {x}
  PROVE  IsFiniteSet(C) /\ Cardinality(C) = Cardinality(B) + One(x \in C)
<1>1. CASE C = B
  <2>1. One(x \in C) = 0 /\ Cardinality(B) \in Nat
    BY <1>1, FS_CardinalityType DEF One
  <2> QED BY SMTT(30), <1>1, <2>1
<1>2. CASE C = B \cup {x}
  <2>1. One(x \in C) = 1
    BY <1>2 DEF One
  <2>2. IsFiniteSet(B \cup {x}) /\ Cardinality(B \cup {x}) = Cardinality(B) + 1
    BY FS_AddElement
  <2> QED BY <1>2, <2>1, <2>2
<1> QED BY ZenonT(30), <1>1, <1>2

\* The slots taken out by the three threads, counted one by one.
LEMMA HeldCount ==
  Cardinality({t \in Threads : removed[t] # NoSlot}) =
     One(removed["owner"] # NoSlot) + One(removed["coordinator"] # NoSlot)
     + One(removed["worker"] # NoSlot)
<1> DEFINE A == {t \in {"owner"} : removed[t] # NoSlot}
           B == {t \in {"owner", "coordinator"} : removed[t] # NoSlot}
           C == {t \in Threads : removed[t] # NoSlot}
<1>1. IsFiniteSet({}) /\ Cardinality({}) = 0
  BY FS_EmptySet
<1>2. /\ "owner" \notin {} /\ (A = {} \/ A = {} \cup {"owner"})
      /\ "coordinator" \notin A /\ (B = A \/ B = A \cup {"coordinator"})
      /\ "worker" \notin B /\ (C = B \/ C = B \cup {"worker"})
  BY ZenonT(30) DEF Threads
<1>3. /\ "owner" \in A <=> removed["owner"] # NoSlot
      /\ "coordinator" \in B <=> removed["coordinator"] # NoSlot
      /\ "worker" \in C <=> removed["worker"] # NoSlot
  BY DEF Threads
<1>4. /\ One("owner" \in A) = One(removed["owner"] # NoSlot)
      /\ One("coordinator" \in B) = One(removed["coordinator"] # NoSlot)
      /\ One("worker" \in C) = One(removed["worker"] # NoSlot)
  BY <1>3, ZenonT(30) DEF One
<1>5. One(removed["owner"] # NoSlot) \in Nat
  BY DEF One
<1> HIDE DEF A, B, C
<1>6. IsFiniteSet(A) /\ Cardinality(A) = 0 + One("owner" \in A)
  BY <1>1, <1>2, CountOne
<1>7. IsFiniteSet(B) /\ Cardinality(B) = Cardinality(A) + One("coordinator" \in B)
  BY <1>2, <1>6, CountOne
<1>8. IsFiniteSet(C) /\ Cardinality(C) = Cardinality(B) + One("worker" \in C)
  BY <1>2, <1>7, CountOne
<1> HIDE DEF One
<1>9. Cardinality(C) = One(removed["owner"] # NoSlot) + One(removed["coordinator"] # NoSlot)
                       + One(removed["worker"] # NoSlot)
  BY <1>4, <1>5, <1>6, <1>7, <1>8
<1> QED BY ZenonT(30), <1>9 DEF C

\* For any clients: every admission and every handoff reservation is counted
\* once, whichever threads stop the listener, and none is left at the end.
THEOREM ReservationsExactHolds == Spec => []ReservationsExact
<1>1. ASSUME AcceptInv PROVE ReservationsExact
  <2> DEFINE Held == {t \in Threads : removed[t] # NoSlot}
  <2>1. pending = One(slot # NoSlot) + Cardinality(Held)
    <3> DEFINE o == One(removed["owner"] # NoSlot)
               k == One(removed["coordinator"] # NoSlot)
               w == One(removed["worker"] # NoSlot)
               s == One(slot # NoSlot)
    <3>1. o \in Nat /\ k \in Nat /\ w \in Nat /\ s \in Nat
      BY DEF One
    <3>2. pending = s + o + k + w
      BY ZenonT(30), <1>1 DEF AcceptInv, Counted, Admissions
    <3>3. Cardinality(Held) = o + k + w
      BY HeldCount
    <3> HIDE DEF o, k, w, s, Held
    <3>4. pending = s + Cardinality(Held)
      BY <3>1, <3>2, <3>3
    <3> QED BY <3>4 DEF s
  <2>2. /\ handoffs = One(reserved) + One(pc["coordinator"] = "send") + Len(channel)
                      + One(pc["owner"] = "convert")
        /\ pending <= Limit /\ handoffs <= Limit
    BY ZenonT(30), <1>1 DEF AcceptInv, Counted, Admissions, Reservations
  <2>3. ASSUME pc["owner"] = "done"
        PROVE  pending = 0 /\ handoffs = 0 /\ sessions = {}
    <3>1. /\ pc["coordinator"] = "done" /\ pc["worker"] = "done" /\ ~reserved /\ slot = NoSlot
          /\ channel = <<>> /\ sessions = {}
      BY ZenonT(30), <1>1, <2>3 DEF AcceptInv, Stopped
    <3>2. /\ removed["owner"] = NoSlot /\ removed["coordinator"] = NoSlot
          /\ removed["worker"] = NoSlot
      BY ZenonT(30), <1>1, <2>3, <3>1 DEF AcceptInv, Counted, Admissions, Threads
    <3>3. pending = 0
      BY <1>1, <3>1, <3>2 DEF AcceptInv, Counted, Admissions, One
    <3>4. handoffs = 0
      <4>1. Len(channel) = 0
        BY <3>1
      <4>2. /\ One(reserved) = 0 /\ One(pc["coordinator"] = "send") = 0
            /\ One(pc["owner"] = "convert") = 0
        BY <2>3, <3>1 DEF One
      <4> QED BY SMTT(30), <2>2, <4>1, <4>2
    <3> QED BY <3>1, <3>3, <3>4
  <2> QED BY <2>1, <2>2, <2>3, ZenonT(30) DEF ReservationsExact, One
<1> QED BY <1>1, AcceptInvariant, PTL

\* For any clients: once some thread stopped the listener, no step of any
\* thread claims a ready attempt.
THEOREM NoClaimAfterStopHolds == Spec => NoClaimAfterStop
<1>1. ASSUME AcceptInv, [Next]_vars, slot'.state = "Claimed", slot.state # "Claimed"
      PROVE  \A t \in Threads : pc[t] \notin {"stopping", "drop", "join", "done"}
  <2>1. slot \in Slots
    BY <1>1 DEF AcceptInv, AcceptTypeOK, ContextTypes
  <2>2. \E c \in Clients : CallbackClaims(c)
    <3>1. /\ slot' # slot /\ slot' # NoSlot /\ slot' # [slot EXCEPT !.state = "Rejected"]
          /\ \A g \in Nat : slot' # MarkReady(slot, g)
          /\ \A c \in Clients : slot' # Admitted(c)
      <4>1. next \in Nat
        BY SMTT(30), <1>1 DEF AcceptInv, AcceptTypeOK, ContextTypes
      <4>2. "Rejected" \in States
        BY DEF States
      <4>3. [slot EXCEPT !.state = "Rejected"].state = "Rejected"
        BY <2>1, <4>2, SlotFacts, ZenonT(30)
      <4>4. \A g \in Nat : MarkReady(slot, g).state = "Ready"
        BY <2>1, SlotFacts, ZenonT(30)
      <4>5. \A c \in Clients : Admitted(c).state = "Deferred"
        BY <4>1, AdmittedFacts, ZenonT(30)
      <4> QED BY <1>1, <4>3, <4>4, <4>5, NoSlotFacts, ZenonT(30)
    <3>2. ~Worker /\ ~Owner /\ ~SessionEnds /\ ~Shutdown /\ slot' # slot
      BY <3>1, ZenonT(60)
      DEF Worker, WorkerBegin, WorkerExit, WorkerReceive, WorkerLook, WorkerCheck, WorkerPanics,
          Preconnect, StopTake, StopRelease, workerFrame, Owner, SpawnThreads, OwnerReceives,
          OwnerConverts, SenderGone, DropReceiver, JoinThreads, ownerFrame, SessionEnds, Shutdown
    <3>3. /\ \A c \in Clients : ~Arrive(c) /\ ~Withdraw(c)
          /\ ~(UNCHANGED vars)
      BY <3>1 DEF Arrive, Withdraw, contextVars, vars
    <3>4. ~ApplyResult
      <4>1. ApplyResult => Head(results).generation \in Nat
        <5>1. results \in Seq(Results) /\ (ApplyResult => results # <<>>)
          BY <1>1 DEF ApplyResult, AcceptInv, AcceptTypeOK, QueueTypes
        <5>2. results # <<>> => Head(results) \in Results
          BY <5>1
        <5> QED BY <5>1, <5>2 DEF Results
      <4> QED BY <3>1, <4>1, ZenonT(30) DEF ApplyResult
    <3>5. /\ ~NothingToAccept /\ ~ListenerFails /\ ~CoordinatorTop /\ ~CoordinatorWait
          /\ \A c \in Clients : /\ ~ClientLost(c) /\ ~CallbackRejects(c) /\ ~CallbackDefersAgain(c)
                                /\ ~CallbackOutOfHandoffs(c)
      BY <3>1, ZenonT(30)
      DEF NothingToAccept, ListenerFails, ClientLost, CallbackRejects, CallbackDefersAgain,
          CallbackOutOfHandoffs, CoordinatorTop, CoordinatorWait, contextVars
    <3>6. \A c \in Clients : ~CallbackAdmits(c)
      BY <3>1, ZenonT(30) DEF CallbackAdmits, Admitted
    <3>7. /\ ~RejectAttempt /\ ~ReleaseRejected /\ ~AfterFailure /\ ~TakeHandoff
          /\ ~TransferReservation /\ ~SendHandoff
          /\ ~StopTake("coordinator") /\ ~StopRelease("coordinator")
      BY <3>1, ZenonT(30)
      DEF RejectAttempt, ReleaseRejected, AfterFailure, TakeHandoff, TransferReservation,
          SendHandoff, StopTake, StopRelease
    <3> QED BY <1>1, <3>2, <3>3, <3>4, <3>5, <3>6, <3>7, ZenonT(30) DEF Next, Coordinator, Callback
  <2>3. accepting /\ pc["coordinator"] = "drain"
    BY <2>2 DEF CallbackClaims, Matching, Asked, AtHead, Accepting
  <2> QED BY ZenonT(30), <1>1, <2>3 DEF AcceptInv, Stopped
<1>2. AcceptInv /\ [Next]_vars =>
        [(\E t \in Threads : pc[t] \in {"stopping", "drop", "join", "done"})
           => (slot'.state = "Claimed" => slot.state = "Claimed")]_vars
  BY <1>1, ZenonT(30)
<1> QED BY <1>2, AcceptInvariant, PTL DEF Spec, NoClaimAfterStop
=============================================================================
