------------------------- MODULE ConditionalAccept -------------------------
(***************************************************************************)
(* The TCP listener of the Windows host proxy.  Winsock asks a condition   *)
(* callback about the client at the head of its queue.  The callback       *)
(* defers the client, a worker thread looks the client's mapping up and    *)
(* connects to the original destination, and the callback accepts the      *)
(* client once that socket is there.  The coordinator thread drives        *)
(* WSAAccept and hands the pair of sockets to the task that owns both      *)
(* threads, which bridges them.                                            *)
(*                                                                         *)
(* A critical section on the attempt's mutex is one step, and so is an     *)
(* atomic read-modify-write outside it.  The 10 ms waits are bounded, so   *)
(* the wake event only shortens them and is left out.  A connected socket  *)
(* is named by the generation of the request it was connected for.         *)
(***************************************************************************)
EXTENDS Naturals, Sequences, FiniteSets

CONSTANTS
    Clients,        \* connections that reach the listener's backlog
    TupleOf         \* the tuple of each: a client may come again with the same one

Limit       == 1
Threads     == {"owner", "coordinator", "worker"}
NoSlot      == [generation |-> 0, tuple |-> "none", state |-> "none", prepared |-> 0]
NoPair      == [client |-> "none", outbound |-> 0]

VARIABLES
    queue, withdrawn, arrived,                    \* Winsock
    slot, accepting, pending, next, tokens,       \* ConditionalContext
    handoffs, reserved, claimed,
    results, channel, receiving,                  \* the two channels
    pc, removed, job, pair, error,                \* the three threads
    sessions, asked                               \* bridges; who made each request

kernelVars  == <<queue, withdrawn, arrived>>
contextVars == <<slot, accepting, pending, next, tokens, handoffs, reserved, claimed>>
threadVars  == <<pc, removed, job, pair, error>>
vars == <<kernelVars, contextVars, results, channel, receiving, threadVars, sessions, asked>>

Init ==
    /\ queue = <<>> /\ withdrawn = {} /\ arrived = {}
    /\ slot = NoSlot /\ accepting = TRUE /\ pending = 0 /\ next = 1 /\ tokens = 0
    /\ handoffs = 0 /\ reserved = FALSE /\ claimed = 0
    /\ results = <<>> /\ channel = <<>> /\ receiving = TRUE
    /\ pc = [owner |-> "start", coordinator |-> "off", worker |-> "off"]
    /\ removed = [t \in Threads |-> NoSlot]
    /\ job = 0 /\ pair = [t \in Threads |-> NoPair] /\ error = "none"
    /\ sessions = {} /\ asked = <<>>

Goto(t, at) == pc' = [pc EXCEPT ![t] = at]

----------------------------------------------------------------------------
(* The clients. *)

Arrive(c) ==
    /\ c \notin arrived
    /\ arrived' = arrived \cup {c} /\ queue' = Append(queue, c)
    /\ UNCHANGED <<withdrawn, contextVars, results, channel, receiving, threadVars, sessions, asked>>

Withdraw(c) ==
    /\ \E i \in DOMAIN queue : queue[i] = c
    /\ c \notin withdrawn
    /\ withdrawn' = withdrawn \cup {c}
    /\ UNCHANGED <<queue, arrived, contextVars, results, channel, receiving, threadVars, sessions, asked>>

----------------------------------------------------------------------------
(* stop_and_reject_pending, called by each of the threads.  The attempt is *)
(* taken under its lock; its reservations are returned after that.         *)

StopTakeStillAccepting(t) ==
    /\ pc[t] = "stop"
    /\ removed' = [removed EXCEPT ![t] = slot] /\ slot' = NoSlot
    /\ Goto(t, "stopping")
    /\ UNCHANGED <<kernelVars, accepting, pending, next, tokens, handoffs, reserved, claimed, results,
                   channel, receiving, job, pair, error, sessions, asked>>

StopTake(t) ==
    /\ pc[t] = "stop"
    /\ accepting' = FALSE
    /\ removed' = [removed EXCEPT ![t] = slot] /\ slot' = NoSlot
    /\ Goto(t, "stopping")
    /\ UNCHANGED <<kernelVars, pending, next, tokens, handoffs, reserved, claimed, results, channel,
                   receiving, job, pair, error, sessions, asked>>

\* release and release_handoff_reservation for the slot thread t took out.
Release(t) ==
    /\ pending' = IF removed[t] # NoSlot THEN pending - 1 ELSE pending
    /\ removed' = [removed EXCEPT ![t] = NoSlot]

ReleaseReservation ==
    /\ handoffs' = IF reserved THEN handoffs - 1 ELSE handoffs
    /\ reserved' = FALSE

StopRelease(t) ==
    /\ pc[t] = "stopping"
    /\ Release(t) /\ ReleaseReservation
    /\ Goto(t, IF t = "owner" THEN "drop" ELSE "done")
    /\ results' = IF t = "coordinator" THEN <<>> ELSE results
    /\ UNCHANGED <<kernelVars, slot, accepting, next, tokens, claimed, channel, receiving, job, pair,
                   error, sessions, asked>>

----------------------------------------------------------------------------
(* The preconnect worker. *)

workerFrame == <<kernelVars, slot, accepting, pending, next, handoffs, reserved, claimed, channel,
                 receiving, removed, pair, error, sessions, asked>>

WorkerBegin ==
    /\ pc["worker"] = "init"
    /\ \E at \in {"loop", "stop"} : Goto("worker", at)
    /\ UNCHANGED <<workerFrame, tokens, results, job>>

WorkerExit ==
    /\ pc["worker"] = "loop" /\ ~accepting
    /\ Goto("worker", "done")
    /\ UNCHANGED <<workerFrame, tokens, results, job>>

WorkerReceive ==
    /\ pc["worker"] = "loop" /\ accepting
    /\ tokens > 0
    /\ tokens' = tokens - 1
    /\ Goto("worker", "look")
    /\ UNCHANGED <<workerFrame, results, job>>

DeferredAttempt == IF slot.state = "Deferred" THEN slot.generation ELSE 0

\* Whatever attempt is in the slot now, not the one the token was sent for.
WorkerLook ==
    /\ pc["worker"] = "look"
    /\ \/ /\ DeferredAttempt # 0
          /\ job' = DeferredAttempt
          /\ Goto("worker", "check")
       \/ /\ DeferredAttempt = 0
          /\ Goto("worker", "loop")
          /\ UNCHANGED job
    /\ UNCHANGED <<workerFrame, tokens, results>>

\* attempt_state of the worker's request.
StillDeferred == slot.generation = job /\ slot.state = "Deferred"

WorkerCheck ==
    /\ pc["worker"] = "check"
    /\ \/ StillDeferred /\ Goto("worker", "connect") /\ UNCHANGED job
       \/ ~StillDeferred /\ Goto("worker", "loop") /\ job' = 0
    /\ UNCHANGED <<workerFrame, tokens, results>>

\* preconnect_attempt and the send of its result: the lookup, its validation
\* and the connect succeed, or one of them fails, runs out of time or is
\* cancelled.  The receiver is gone once the coordinator is done.
Preconnect(ok) ==
    /\ pc["worker"] = "connect"
    /\ \/ /\ pc["coordinator"] # "done"
          /\ results' = Append(results, [generation |-> job, ok |-> ok])
          /\ Goto("worker", "loop")
       \/ /\ pc["coordinator"] = "done"
          /\ Goto("worker", "done")
          /\ UNCHANGED results
    /\ job' = 0
    /\ UNCHANGED <<workerFrame, tokens>>

WorkerPanics ==
    /\ pc["worker"] = "connect"
    /\ Goto("worker", "stop")
    /\ UNCHANGED <<workerFrame, tokens, results, job>>

----------------------------------------------------------------------------
(* The coordinator. *)

coordFrame == <<arrived, withdrawn, job, receiving, sessions>>

CoordinatorTop ==
    /\ pc["coordinator"] = "top"
    /\ Goto("coordinator", IF accepting THEN "drain" ELSE "stop")
    /\ UNCHANGED <<kernelVars, contextVars, results, channel, receiving, removed, job, pair, error,
                   sessions, asked>>

MarkReady(s, g) == [s EXCEPT !.prepared = g, !.state = "Ready"]

ApplyResultAnyRequest ==
    /\ pc["coordinator"] = "drain" /\ results # <<>>
    /\ results' = Tail(results)
    /\ LET r == Head(results) IN
       slot' = IF slot.state # "Deferred" THEN slot
               ELSE IF r.ok THEN MarkReady(slot, r.generation)
               ELSE [slot EXCEPT !.state = "Rejected"]
    /\ UNCHANGED <<kernelVars, accepting, pending, next, tokens, handoffs, reserved, claimed, channel,
                   receiving, threadVars, sessions, asked>>

\* apply_worker_result: only the current request, and only while it is deferred.
ApplyResult ==
    /\ pc["coordinator"] = "drain" /\ results # <<>>
    /\ results' = Tail(results)
    /\ LET r == Head(results) IN
       slot' = IF slot.generation # r.generation \/ slot.state # "Deferred" THEN slot
               ELSE IF r.ok THEN MarkReady(slot, r.generation)
               ELSE [slot EXCEPT !.state = "Rejected"]
    /\ UNCHANGED <<kernelVars, accepting, pending, next, tokens, handoffs, reserved, claimed, channel,
                   receiving, threadVars, sessions, asked>>

\* How WSAAccept returns: the client stays queued when it was deferred.
Fails(why, left) ==
    /\ error' = why /\ queue' = left
    /\ Goto("coordinator", "failed")
    /\ UNCHANGED <<coordFrame, accepting, results, channel, removed, pair>>

Accepting == pc["coordinator"] = "drain" /\ results = <<>>
AtHead(c) == Accepting /\ queue # <<>> /\ c = Head(queue)
Asked(c)  == AtHead(c) /\ c \notin withdrawn

NothingToAccept ==
    /\ Accepting /\ queue = <<>>
    /\ Fails("would block", queue)
    /\ claimed' = 0
    /\ UNCHANGED <<slot, pending, next, tokens, handoffs, reserved, asked>>

ListenerFails ==
    /\ Accepting
    /\ Fails("listener", queue)
    /\ claimed' = 0
    /\ UNCHANGED <<slot, pending, next, tokens, handoffs, reserved, asked>>

ClientLost(c) ==
    /\ AtHead(c) /\ c \in withdrawn
    /\ Fails("lost", Tail(queue))
    /\ claimed' = 0
    /\ UNCHANGED <<slot, pending, next, tokens, handoffs, reserved, asked>>

\* condition_callback refuses the client: its addresses do not decode, another
\* thread has the mutex, or none of the cases below applies.
CallbackRejects(c) ==
    /\ Asked(c)
    /\ Fails("refused", Tail(queue))
    /\ claimed' = 0
    /\ UNCHANGED <<slot, pending, next, tokens, handoffs, reserved, asked>>

Matching(c) == Asked(c) /\ slot # NoSlot /\ slot.tuple = TupleOf[c]

CallbackDefersAgain(c) ==
    /\ Matching(c) /\ accepting /\ slot.state = "Deferred"
    /\ Fails("try again", queue)
    /\ claimed' = 0
    /\ UNCHANGED <<slot, pending, next, tokens, handoffs, reserved, asked>>

\* reserve_handoff finds the previous pair still on its way to the owner.
CallbackOutOfHandoffs(c) ==
    /\ Matching(c) /\ accepting /\ slot.state = "Ready"
    /\ handoffs >= Limit
    /\ slot' = [slot EXCEPT !.state = "Rejected"]
    /\ Fails("refused", Tail(queue))
    /\ claimed' = 0
    /\ UNCHANGED <<pending, next, tokens, handoffs, reserved, asked>>

ReserveHandoff ==
    /\ handoffs < Limit
    /\ handoffs' = handoffs + 1 /\ reserved' = TRUE

ClaimReadyAttempt ==
    /\ slot.state = "Ready"
    /\ slot' = [slot EXCEPT !.state = "Claimed"]

\* CF_ACCEPT: WSAAccept returns the client's socket, or the client is lost first.
CallbackClaims(c) ==
    /\ Matching(c) /\ accepting
    /\ ReserveHandoff /\ ClaimReadyAttempt
    /\ claimed' = slot.generation
    /\ queue' = Tail(queue)
    /\ \/ /\ Goto("coordinator", "accepted")
          /\ pair' = [pair EXCEPT !["coordinator"].client = c]
          /\ UNCHANGED error
       \/ /\ Goto("coordinator", "failed")
          /\ error' = "lost"
          /\ UNCHANGED pair
    /\ UNCHANGED <<coordFrame, accepting, pending, next, tokens, results, channel, removed, asked>>

\* ConditionalAdmissions::reserve.
Reserve(c) ==
    /\ pending < Limit
    /\ next' = next + 1
    /\ asked' = Append(asked, c)

CallbackAdmitsUnqueued(c) ==
    /\ Asked(c) /\ slot = NoSlot
    /\ accepting
    /\ Reserve(c)
    /\ pending' = pending + 1
    /\ slot' = [generation |-> next, tuple |-> TupleOf[c], state |-> "Deferred", prepared |-> 0]
    /\ Fails("try again", queue)
    /\ claimed' = 0
    /\ UNCHANGED <<handoffs, reserved, tokens>>

\* A new request: reserve, then try_send to the worker.
CallbackAdmits(c) ==
    /\ Asked(c) /\ slot = NoSlot
    /\ accepting
    /\ Reserve(c)
    /\ \/ /\ tokens < Limit
          /\ tokens' = tokens + 1 /\ pending' = pending + 1
          /\ slot' = [generation |-> next, tuple |-> TupleOf[c], state |-> "Deferred", prepared |-> 0]
          /\ Fails("try again", queue)
       \/ /\ tokens >= Limit
          /\ Fails("refused", Tail(queue))
          /\ UNCHANGED <<tokens, pending, slot>>
    /\ claimed' = 0
    /\ UNCHANGED <<handoffs, reserved>>

\* reject_claimed_generation or reject_active_attempt takes the slot out, and
\* reject_terminal_attempt takes out one the callback marked.
RejectAttempt ==
    /\ pc["coordinator"] = "failed"
    /\ \/ /\ \/ slot.state = "Claimed" /\ claimed = slot.generation
             \/ claimed = 0 /\ error \notin {"would block", "try again"}
          /\ removed' = [removed EXCEPT !["coordinator"] = slot] /\ slot' = NoSlot
          /\ Goto("coordinator", "reject")
       \/ /\ \/ claimed # 0 /\ claimed # slot.generation
             \/ claimed = 0 /\ error \in {"would block", "try again"}
          /\ Goto("coordinator", "terminal")
          /\ UNCHANGED <<removed, slot>>
    /\ UNCHANGED <<kernelVars, accepting, pending, next, tokens, handoffs, reserved, claimed, results,
                   channel, receiving, job, pair, error, sessions, asked>>

\* reject_and_release, for a slot that was there.
ReleaseRejected ==
    /\ pc["coordinator"] = "reject"
    /\ Release("coordinator")
    /\ \/ removed["coordinator"] # NoSlot /\ ReleaseReservation
       \/ removed["coordinator"] = NoSlot /\ UNCHANGED <<handoffs, reserved>>
    /\ Goto("coordinator", "terminal")
    /\ UNCHANGED <<kernelVars, slot, accepting, next, tokens, claimed, results, channel, receiving, job,
                   pair, error, sessions, asked>>

\* reject_terminal_attempt: a slot marked without an error that took it out.
Terminal == slot.state \in {"Rejected", "Cancelled"}

AfterFailure ==
    /\ pc["coordinator"] = "terminal"
    /\ removed' = IF Terminal THEN [removed EXCEPT !["coordinator"] = slot] ELSE removed
    /\ slot' = IF Terminal THEN NoSlot ELSE slot
    /\ Goto("coordinator", IF Terminal THEN "reject" ELSE IF error = "listener" THEN "stop" ELSE "wait")
    /\ error' = IF Terminal THEN error ELSE "none"
    /\ UNCHANGED <<kernelVars, accepting, pending, next, tokens, handoffs, reserved, claimed, results,
                   channel, receiving, job, pair, sessions, asked>>

\* take_handoff: the claimed slot leaves the table and gives its admission
\* back.  A stop may have taken it first; the client's socket is then closed.
TakeHandoff ==
    /\ pc["coordinator"] = "accepted"
    /\ \/ /\ slot.generation = claimed /\ slot.state = "Claimed"
          /\ slot' = NoSlot /\ pending' = pending - 1
          /\ pair' = [pair EXCEPT !["coordinator"].outbound = slot.prepared]
          /\ Goto("coordinator", "transfer")
       \/ /\ slot.generation # claimed
          /\ pair' = [pair EXCEPT !["coordinator"] = NoPair]
          /\ Goto("coordinator", "wait")
          /\ UNCHANGED <<slot, pending>>
    /\ UNCHANGED <<kernelVars, accepting, next, tokens, handoffs, reserved, claimed, results, channel,
                   receiving, removed, job, error, sessions, asked>>

TransferReservationUnchecked ==
    /\ pc["coordinator"] = "transfer"
    /\ reserved' = FALSE
    /\ Goto("coordinator", "send")
    /\ UNCHANGED <<kernelVars, slot, accepting, pending, next, tokens, handoffs, claimed, results,
                   channel, receiving, removed, job, pair, error, sessions, asked>>

\* The swap of handoff_reserved: a stop may have returned the reservation.
TransferReservation ==
    /\ pc["coordinator"] = "transfer"
    /\ reserved' = FALSE
    /\ Goto("coordinator", IF reserved THEN "send" ELSE "wait")
    /\ pair' = IF reserved THEN pair ELSE [pair EXCEPT !["coordinator"] = NoPair]
    /\ UNCHANGED <<kernelVars, slot, accepting, pending, next, tokens, handoffs, claimed, results,
                   channel, receiving, removed, job, error, sessions, asked>>

\* Dropping a SocketHandoff ends its HandoffReservation.
DropHandoff == handoffs' = handoffs - 1

\* try_send to the owner.  Setting the client's socket up may fail, and the
\* owner may have dropped its receiver; either drops the pair and its
\* reservation.  The channel is never full: it holds reserved pairs only.
SendHandoff ==
    /\ pc["coordinator"] = "send"
    /\ pair' = [pair EXCEPT !["coordinator"] = NoPair]
    /\ \/ /\ receiving
          /\ channel' = Append(channel, pair["coordinator"])
          /\ Goto("coordinator", "wait")
          /\ UNCHANGED handoffs
       \/ /\ DropHandoff
          /\ Goto("coordinator", "wait")
          /\ UNCHANGED channel
       \/ /\ ~receiving
          /\ DropHandoff
          /\ Goto("coordinator", "stop")
          /\ UNCHANGED channel
    /\ UNCHANGED <<kernelVars, slot, accepting, pending, next, tokens, reserved, claimed, results,
                   receiving, removed, job, error, sessions, asked>>

\* WaitForSingleObject and ResetEvent, which may fail.
CoordinatorWait ==
    /\ pc["coordinator"] = "wait"
    /\ \E at \in {"top", "stop"} : Goto("coordinator", at)
    /\ UNCHANGED <<kernelVars, contextVars, results, channel, receiving, removed, job, pair, error,
                   sessions, asked>>

----------------------------------------------------------------------------
(* run_tcp_conditional, which owns both threads. *)

ownerFrame == <<kernelVars, slot, accepting, pending, next, tokens, reserved, claimed, removed, job,
                error, asked>>

\* Either thread may fail to start; without a coordinator the worker is stopped.
SpawnThreads ==
    /\ pc["owner"] = "start"
    /\ \E at \in {[owner |-> "run",  coordinator |-> "top",  worker |-> "init"],
                  [owner |-> "stop", coordinator |-> "done", worker |-> "init"],
                  [owner |-> "done", coordinator |-> "done", worker |-> "done"]} : pc' = at
    /\ UNCHANGED <<ownerFrame, handoffs, results, channel, receiving, pair, sessions>>

OwnerReceives ==
    /\ pc["owner"] = "run" /\ channel # <<>>
    /\ pair' = [pair EXCEPT !["owner"] = Head(channel)]
    /\ channel' = Tail(channel)
    /\ Goto("owner", "convert")
    /\ UNCHANGED <<ownerFrame, handoffs, results, receiving, sessions>>

\* into_tokio, which may fail: the reservation ends with the handoff.
OwnerConverts ==
    /\ pc["owner"] = "convert"
    /\ sessions' \in {sessions, sessions \cup {pair["owner"]}}
    /\ DropHandoff
    /\ pair' = [pair EXCEPT !["owner"] = NoPair]
    /\ Goto("owner", "run")
    /\ UNCHANGED <<ownerFrame, results, channel, receiving>>

SessionEnds ==
    /\ \E s \in sessions : sessions' = sessions \ {s}
    /\ UNCHANGED <<ownerFrame, pc, handoffs, results, channel, receiving, pair>>

Shutdown ==
    /\ pc["owner"] = "run"
    /\ Goto("owner", "stop")
    /\ UNCHANGED <<ownerFrame, handoffs, results, channel, receiving, pair, sessions>>

SenderGoneUnnoticed ==
    /\ pc["owner"] = "run" /\ channel = <<>> /\ pc["coordinator"] = "done" /\ sessions # {}
    /\ Goto("owner", "stop")
    /\ UNCHANGED <<ownerFrame, handoffs, results, channel, receiving, pair, sessions>>

\* recv returns None when the coordinator dropped its sender.
SenderGone ==
    /\ pc["owner"] = "run" /\ channel = <<>> /\ pc["coordinator"] = "done"
    /\ Goto("owner", "stop")
    /\ UNCHANGED <<ownerFrame, handoffs, results, channel, receiving, pair, sessions>>

\* Dropping the receiver drops the queued pairs with their reservations; the
\* bridges are aborted and joined.
DropReceiver ==
    /\ pc["owner"] = "drop"
    /\ receiving' = FALSE /\ channel' = <<>>
    /\ handoffs' = handoffs - Len(channel)
    /\ sessions' = {}
    /\ Goto("owner", "join")
    /\ UNCHANGED <<ownerFrame, results, pair>>

JoinThreads ==
    /\ pc["owner"] = "join" /\ pc["coordinator"] = "done" /\ pc["worker"] = "done"
    /\ Goto("owner", "done")
    /\ UNCHANGED <<ownerFrame, handoffs, results, channel, receiving, pair, sessions>>

----------------------------------------------------------------------------
Worker ==
    \/ WorkerBegin \/ WorkerExit \/ WorkerReceive \/ WorkerLook \/ WorkerCheck \/ WorkerPanics
    \/ \E ok \in BOOLEAN : Preconnect(ok)
    \/ StopTake("worker") \/ StopRelease("worker")

Callback(c) ==
    \/ CallbackRejects(c) \/ CallbackDefersAgain(c) \/ CallbackOutOfHandoffs(c)
    \/ CallbackClaims(c) \/ CallbackAdmits(c)

Coordinator ==
    \/ CoordinatorTop \/ ApplyResult \/ NothingToAccept \/ ListenerFails
    \/ \E c \in Clients : ClientLost(c) \/ Callback(c)
    \/ RejectAttempt \/ ReleaseRejected \/ AfterFailure
    \/ TakeHandoff \/ TransferReservation \/ SendHandoff \/ CoordinatorWait
    \/ StopTake("coordinator") \/ StopRelease("coordinator")

Owner ==
    \/ SpawnThreads \/ OwnerReceives \/ OwnerConverts \/ SenderGone
    \/ StopTake("owner") \/ StopRelease("owner") \/ DropReceiver \/ JoinThreads

Next ==
    \/ \E c \in Clients : Arrive(c) \/ Withdraw(c)
    \/ Worker \/ Coordinator \/ Owner \/ SessionEnds \/ Shutdown

Spec == Init /\ [][Next]_vars

\* Three schedulers run the three threads: every wait of theirs is bounded, a
\* preconnect by the five seconds from its deferral.
FairSpec == Spec /\ WF_vars(Worker) /\ WF_vars(Coordinator) /\ WF_vars(Owner)

----------------------------------------------------------------------------
\* Where a client is paired with a connected socket.
Pairs == sessions \cup {channel[i] : i \in DOMAIN channel}
         \cup {pair[t] : t \in {"owner", "coordinator"}}

\* A client is bridged to the socket that was connected for its own request: a
\* late or repeated result of the worker never reaches another client, not even
\* one that came back with the same tuple (apply_worker_result, take_handoff).
PairedByRequest ==
    /\ slot.state \in {"Ready", "Claimed"} => slot.prepared = slot.generation
    /\ \A p \in Pairs : p.outbound # 0 => asked[p.outbound] = p.client

\* Every admission and every handoff reservation has exactly one holder, whoever
\* of the three threads stops the listener and whenever it does, so that neither
\* counter exceeds its limit and nothing is reserved once the owner returned.
ReservationsExact ==
    LET Held == {t \in Threads : removed[t] # NoSlot}
        One(b) == IF b THEN 1 ELSE 0
    IN  /\ pending = One(slot # NoSlot) + Cardinality(Held)
        /\ handoffs = One(reserved) + One(pc["coordinator"] = "send") + Len(channel)
                      + One(pc["owner"] = "convert")
        /\ pending <= Limit /\ handoffs <= Limit
        /\ pc["owner"] = "done" => pending = 0 /\ handoffs = 0 /\ sessions = {}

\* Once some thread took the attempt out to stop the listener, the callback
\* claims no client any more: "a later callback cannot claim a ready socket".
NoClaimAfterStop ==
    [][(\E t \in Threads : pc[t] \in {"stopping", "drop", "join", "done"})
         => (slot'.state = "Claimed" => slot.state = "Claimed")]_vars

\* A stopped listener, whoever stopped it, comes to rest with both threads
\* joined: no thread waits for one that is gone.
StopCompletes == ~accepting ~> pc["owner"] = "done"

\* The client at the head of the queue is accepted, refused or lost, or the
\* listener closes: no deferred client waits for a worker that was never told
\* of it.
HeadLeaves ==
    \A c \in Clients :
        (queue # <<>> /\ Head(queue) = c)
            ~> (queue = <<>> \/ Head(queue) # c \/ pc["coordinator"] = "done")
=============================================================================
