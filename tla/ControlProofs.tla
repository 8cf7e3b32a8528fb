--------------------------- MODULE ControlProofs ---------------------------
(***************************************************************************)
(* Proofs about the control service under any number of host proxies and   *)
(* operators: what the backend reports as attached is installed, ownership *)
(* of the links is exact until the kernel refuses a removal, and the map   *)
(* and the snapshot agree whenever no transaction is open.                 *)
(***************************************************************************)
EXTENDS HostActivation, TLAPS

Places == {"idle", "begin", "transaction", "attach", "config", "rollback", "ready",
           "detach", "check", "clear", "write", "update", "ok", "error"}

HostStates == {"start", "attaching", "getting", "setting", "rolling back", "running",
               "leaving", "left", "failed", "operator attaching", "operator setting"}

(* The types of what the control service and its clients keep. *)
ControlTypeOK ==
    /\ call \in [Calls -> Places]
    /\ arg = [k \in Calls |-> arg[k]]
    /\ queue \in Seq(Calls)
    /\ elf \in Elfs \cup {NoElf}
    /\ links \subseteq Attachments /\ attachments \subseteq Attachments
    /\ kernel \in [Attachments -> Nat]
    /\ refusals \in BOOLEAN
    /\ host \in [Clients -> HostStates]

(* What the programs hold the adapter tracks, and whatever the adapter tracks
   or the backend reports is in the kernel. *)
OwnershipInv ==
    /\ held \subseteq links
    /\ \A a \in links \cup attachments : kernel[a] > 0
    /\ OwnershipExact

\* Places of a handler that is inside config_transaction.
InTransaction == {"attach", "config", "rollback", "ready", "write", "update"}

(* A handler inside the transaction is at the head of the queue. *)
Serialised == \A k \in Calls : call[k] \in InTransaction => Holds(k)

(* No client sends a request twice: what it has not sent yet is idle. *)
SentOnce ==
    \A c \in Clients :
        /\ host[c] = "start" => call[<<c, "attach">>] = "idle"
        /\ host[c] \in {"start", "attaching"} => call[<<c, "get">>] = "idle"
        /\ host[c] \in {"start", "attaching", "getting", "operator attaching"} =>
               call[<<c, "set">>] = "idle"
        /\ host[c] \in {"start", "attaching", "getting", "setting", "running",
                        "operator attaching", "operator setting"} =>
               call[<<c, "detach">>] = "idle"

(* The map is what readers see, or what the SetConfig in the transaction is
   about to offer to the store, or what the store then refused. *)
Published ==
    /\ elf = NoElf => written = Unwritten
    /\ \A k \in Calls :
          /\ call[k] = "config" => elf # NoElf
          /\ call[k] = "update" /\ elf # NoElf => written = arg[k]
    /\ (\A k \in Calls : call[k] # "update") =>
          written \in {Unwritten, snapshot.config} \/ RefusedByStore(written)

ControlInv == ControlTypeOK /\ OwnershipInv /\ Serialised /\ SentOnce /\ Published

-----------------------------------------------------------------------------
\* What the handlers do to their calls and to the queue.

\* A waiter that leaves the queue leaves its holder at the head.
LEMMA HeadStays ==
  ASSUME NEW k \in Calls, NEW j \in Calls, j # k, queue \in Seq(Calls), Holds(j),
         NEW i \in DOMAIN queue, queue[i] = k
  PROVE  /\ RemoveAt(queue, i) # <<>>
         /\ Head(RemoveAt(queue, i)) = j
<1>1. i \in 2 .. Len(queue)
  BY DEF Holds
<1>2. SubSeq(queue, 1, i - 1) \in Seq(Calls) /\ Len(SubSeq(queue, 1, i - 1)) = i - 1
  BY <1>1
<1>3. SubSeq(queue, i + 1, Len(queue)) \in Seq(Calls)
  BY <1>1
<1>4. SubSeq(queue, 1, i - 1)[1] = j
  BY <1>1 DEF Holds
<1> QED BY <1>1, <1>2, <1>3, <1>4 DEF RemoveAt

\* What is removed from the queue leaves a queue of calls.
LEMMA RemovedType ==
  ASSUME queue \in Seq(Calls), NEW i \in DOMAIN queue
  PROVE  RemoveAt(queue, i) \in Seq(Calls)
<1>1. SubSeq(queue, 1, i - 1) \in Seq(Calls)
  OBVIOUS
<1>2. SubSeq(queue, i + 1, Len(queue)) \in Seq(Calls)
  OBVIOUS
<1> QED BY <1>1, <1>2 DEF RemoveAt

\* One handler's step: it moves its own call only, takes nobody else's turn,
\* and goes inside the transaction only as its holder.
Moves(k) ==
    /\ call[k] # "idle"
    /\ call' \in [Calls -> Places]
    /\ arg' = [j \in Calls |-> arg'[j]]
    /\ queue' \in Seq(Calls)
    /\ \A j \in Calls \ {k} : call'[j] = call[j] /\ arg'[j] = arg[j] /\ (Holds(j) => Holds(j)')
    /\ call'[k] \in InTransaction => Holds(k)'

\* A reply moves its own call and lets the next waiter have its turn.
LEMMA ReplyMoves ==
  ASSUME ControlTypeOK, NEW k \in Calls, call[k] # "idle", NEW outcome \in {"ok", "error"},
         Reply(k, outcome)
  PROVE  Moves(k) /\ call'[k] = outcome
<1>1. call' \in [Calls -> Places] /\ call'[k] = outcome /\ \A j \in Calls \ {k} : call'[j] = call[j]
  BY DEF ControlTypeOK, Reply, Places
<1>2. arg' = [j \in Calls |-> arg'[j]] /\ \A j \in Calls \ {k} : arg'[j] = arg[j]
  BY ZenonT(30) DEF ControlTypeOK, Reply
<1>3. queue' \in Seq(Calls) /\ \A j \in Calls \ {k} : Holds(j) => Holds(j)'
  <2>1. CASE Contains(queue, k)
    <3>1. Position(k) \in DOMAIN queue /\ queue[Position(k)] = k
      BY <2>1 DEF Contains, Position, ControlTypeOK
    <3>2. queue' = RemoveAt(queue, Position(k))
      BY <2>1 DEF Reply
    <3>3. queue' \in Seq(Calls)
      BY <3>1, <3>2, RemovedType DEF ControlTypeOK
    <3>4. ASSUME NEW j \in Calls \ {k}, Holds(j) PROVE Holds(j)'
      BY <3>1, <3>2, <3>4, HeadStays DEF ControlTypeOK, Holds
    <3> QED BY <3>3, <3>4
  <2>2. CASE ~Contains(queue, k)
    BY <2>2 DEF Reply, ControlTypeOK, Holds
  <2> QED BY <2>1, <2>2
<1> QED BY <1>1, <1>2, <1>3 DEF Moves, InTransaction

\* A handler's step moves its own call only.
LEMMA GotoMoves ==
  ASSUME ControlTypeOK, NEW k \in Calls, call[k] # "idle", NEW where \in Places,
         where \in InTransaction => Holds(k), Goto(k, where)
  PROVE  Moves(k) /\ call'[k] = where /\ arg' = arg
BY DEF ControlTypeOK, Goto, Moves, Holds

\* A call that joins the queue leaves its holder at the head.
LEMMA JoinMoves ==
  ASSUME ControlTypeOK, NEW k \in Calls, JoinTransaction(k)
  PROVE  Moves(k) /\ call'[k] = "transaction"
<1>1. queue' = Append(queue, k) /\ queue' \in Seq(Calls)
  BY DEF ControlTypeOK, JoinTransaction
<1>2. ASSUME NEW j \in Calls, Holds(j) PROVE Holds(j)'
  BY <1>1, <1>2 DEF Holds, ControlTypeOK
<1>3. /\ call[k] # "idle" /\ call' = [call EXCEPT ![k] = "transaction"]
      /\ arg' = arg
  BY DEF JoinTransaction
<1> QED BY <1>1, <1>2, <1>3 DEF Moves, InTransaction, ControlTypeOK, Places

-----------------------------------------------------------------------------
\* Ownership of the links.

OwnershipTypes ==
    /\ links \subseteq Attachments /\ attachments \subseteq Attachments
    /\ kernel \in [Attachments -> Nat]
    /\ refusals \in BOOLEAN

\* The adapter's detach: only links that were installed and held leave the
\* kernel, and each is forgotten by the adapter and by its program.
LEMMA DetachOwns ==
  ASSUME NEW tracked \in SUBSET Attachments, NEW owned \in SUBSET tracked,
         NEW installed \in [Attachments -> Nat], \A a \in tracked : installed[a] > 0,
         refusals \in BOOLEAN, NEW set, NEW refused,
         AdapterDetach(tracked, owned, installed, set, refused)
  PROVE  /\ links' \subseteq tracked /\ held' \subseteq links'
         /\ kernel' \in [Attachments -> Nat] /\ refusals' \in BOOLEAN
         /\ \A a \in links' : kernel'[a] > 0
         /\ \A a \in Attachments \ Detached(owned, set, refused) : kernel'[a] = installed[a]
<1>1. Detached(owned, set, refused) \subseteq set \cap owned
  BY DEF Detached
<1>2. links' \subseteq tracked /\ held' \subseteq links'
  BY <1>1 DEF AdapterDetach
<1>3. kernel' \in [Attachments -> Nat]
  BY <1>1 DEF AdapterDetach
<1>4. refusals' \in BOOLEAN
  BY DEF AdapterDetach
<1>5. \A a \in Attachments \ Detached(owned, set, refused) : kernel'[a] = installed[a]
  BY DEF AdapterDetach
<1>6. links' \cap Detached(owned, set, refused) = {}
  BY DEF AdapterDetach
<1> QED BY <1>2, <1>3, <1>4, <1>5, <1>6

\* Where nothing was ever refused and everything agrees, a detach that is not
\* refused removes exactly its set from every record.
LEMMA DetachExact ==
  ASSUME NEW tracked \in SUBSET Attachments,
         NEW installed \in [Attachments -> Nat],
         \A a \in Attachments : installed[a] = IF a \in tracked THEN 1 ELSE 0,
         refusals \in BOOLEAN, NEW set, NEW refused,
         AdapterDetach(tracked, tracked, installed, set, refused), ~refusals'
  PROVE  /\ Detached(tracked, set, refused) = set \cap tracked
         /\ links' = tracked \ set /\ held' = tracked \ set
         /\ \A a \in Attachments : kernel'[a] = IF a \in links' THEN 1 ELSE 0
<1>1. set \cap tracked \cap refused = {}
  BY ZenonT(30) DEF AdapterDetach
<1>2. Detached(tracked, set, refused) = set \cap tracked
  BY <1>1 DEF Detached
<1>3. links' = tracked \ set /\ held' = tracked \ set
  BY <1>2 DEF AdapterDetach
<1>4. \A a \in Attachments : kernel'[a] = IF a \in links' THEN 1 ELSE 0
  BY <1>2, <1>3 DEF AdapterDetach
<1> QED BY <1>2, <1>3, <1>4

\* A detach of links the backend reports: it forgets those that are gone.
LEMMA DetachKeepsOwnership ==
  ASSUME OwnershipTypes, OwnershipInv, NEW set, NEW refused,
         AdapterDetach(links, held, kernel, set, refused),
         attachments' = attachments \ Detached(held, set, refused)
  PROVE  OwnershipTypes' /\ OwnershipInv'
<1>1. /\ links' \subseteq links /\ held' \subseteq links'
      /\ kernel' \in [Attachments -> Nat] /\ refusals' \in BOOLEAN
      /\ \A a \in links' : kernel'[a] > 0
      /\ \A a \in Attachments \ Detached(held, set, refused) : kernel'[a] = kernel[a]
  <2>1. /\ links \in SUBSET Attachments /\ held \in SUBSET links /\ refusals \in BOOLEAN
        /\ kernel \in [Attachments -> Nat] /\ \A a \in links : kernel[a] > 0
    BY DEF OwnershipTypes, OwnershipInv
  <2> QED BY <2>1, DetachOwns
<1>2. \A a \in attachments' : kernel'[a] > 0
  BY <1>1 DEF OwnershipTypes, OwnershipInv
<1>3. OwnershipExact'
  <2>1. SUFFICES ASSUME ~refusals'
                 PROVE  /\ attachments' = links' /\ links' = held'
                        /\ \A a \in Attachments : kernel'[a] = IF a \in links' THEN 1 ELSE 0
    BY DEF OwnershipExact
  <2>2. ~refusals
    BY ZenonT(30), <2>1 DEF AdapterDetach
  <2>3. /\ attachments = links /\ links = held
        /\ \A a \in Attachments : kernel[a] = IF a \in links THEN 1 ELSE 0
    BY <2>2 DEF OwnershipInv, OwnershipExact
  <2>4. AdapterDetach(links, links, kernel, set, refused)
    BY <2>3
  <2>5. /\ Detached(links, set, refused) = set \cap links
        /\ links' = links \ set /\ held' = links \ set
        /\ \A a \in Attachments : kernel'[a] = IF a \in links' THEN 1 ELSE 0
    BY ZenonT(30), <2>1, <2>3, <2>4, DetachExact DEF OwnershipTypes
  <2> QED BY <2>3, <2>5
<1> QED BY <1>1, <1>2, <1>3 DEF OwnershipTypes, OwnershipInv

\* The hooks an Attach makes are hooks.
LEMMA MissingHooks ==
  ASSUME NEW k \in Calls
  PROVE  Missing(k) \subseteq Attachments /\ Missing(k) \cap attachments = {}
BY DEF Missing, Attachments, Interfaces, Calls

\* A successful attach adds the missing hooks everywhere.
LEMMA AttachKeepsOwnership ==
  ASSUME OwnershipTypes, OwnershipInv, NEW k \in Calls, BackendAttach(k)
  PROVE  OwnershipTypes' /\ OwnershipInv'
<1> DEFINE new == Missing(k)
<1>1. new \subseteq Attachments /\ new \cap attachments = {}
  BY MissingHooks
<1>2. /\ links' = links \cup new /\ held' = held \cup (new \ links)
      /\ kernel' = Install(new \ links) /\ refusals' = refusals
      /\ attachments' = attachments \cup new
  BY DEF BackendAttach
<1> HIDE DEF new
<1>3. /\ kernel' \in [Attachments -> Nat]
      /\ \A a \in Attachments : kernel'[a] = kernel[a] + (IF a \in new \ links THEN 1 ELSE 0)
  BY <1>2 DEF Install, OwnershipTypes
<1>4. OwnershipTypes'
  BY <1>1, <1>2, <1>3 DEF OwnershipTypes
<1>5. \A a \in links' \cup attachments' : kernel'[a] > 0
  <2>1. SUFFICES ASSUME NEW a \in links \cup attachments \cup new PROVE kernel'[a] > 0
    BY <1>2
  <2>2. a \in Attachments /\ kernel[a] \in Nat
    BY <1>1 DEF OwnershipTypes
  <2>3. CASE a \in links \cup attachments
    BY <1>3, <2>2, <2>3 DEF OwnershipInv
  <2>4. CASE a \in new \ links
    BY <1>3, <2>2, <2>4
  <2> QED BY <2>3, <2>4
<1>6. held' \subseteq links'
  BY <1>2 DEF OwnershipInv
<1>7. OwnershipExact'
  <2>1. SUFFICES ASSUME ~refusals'
                 PROVE  /\ attachments' = links' /\ links' = held'
                        /\ \A a \in Attachments : kernel'[a] = IF a \in links' THEN 1 ELSE 0
    BY DEF OwnershipExact
  <2>2. /\ attachments = links /\ links = held
        /\ \A a \in Attachments : kernel[a] = IF a \in links THEN 1 ELSE 0
    BY <1>2, <2>1 DEF OwnershipInv, OwnershipExact
  <2>3. new \cap links = {}
    BY <1>1, <2>2
  <2>4. \A a \in Attachments : kernel'[a] = IF a \in links' THEN 1 ELSE 0
    BY <1>2, <1>3, <2>2, <2>3
  <2> QED BY <1>2, <2>2, <2>3, <2>4
<1> QED BY <1>4, <1>5, <1>6, <1>7 DEF OwnershipInv

\* A failed attach removes the hooks it had made, or notes the refusal.
LEMMA FailedAttachKeepsOwnership ==
  ASSUME OwnershipTypes, OwnershipInv, NEW k \in Calls, BackendAttachFails(k)
  PROVE  OwnershipTypes' /\ OwnershipInv'
<1>1. PICK failing \in Missing(k) \ links :
        \E refused \in SUBSET (Missing(k) \cap Before(failing)) :
          AdapterDetach(links \cup (Missing(k) \cap Before(failing)),
                        held \cup ((Missing(k) \cap Before(failing)) \ links),
                        Install((Missing(k) \cap Before(failing)) \ links),
                        Missing(k) \cap Before(failing), refused)
  BY ZenonT(30) DEF BackendAttachFails
<1> DEFINE made == Missing(k) \cap Before(failing)
           tracked == links \cup made
           owned == held \cup (made \ links)
           installed == Install(made \ links)
<1>2. PICK refused \in SUBSET made : AdapterDetach(tracked, owned, installed, made, refused)
  BY <1>1
<1>3. made \subseteq Attachments /\ made \cap attachments = {}
  BY MissingHooks
<1>4. attachments' = attachments
  BY DEF BackendAttachFails
<1> HIDE DEF made
<1>5. /\ installed \in [Attachments -> Nat]
      /\ \A a \in Attachments : installed[a] = kernel[a] + (IF a \in made \ links THEN 1 ELSE 0)
  BY DEF Install, OwnershipTypes
<1>6. /\ tracked \in SUBSET Attachments /\ owned \in SUBSET tracked
      /\ \A a \in tracked : installed[a] > 0
  BY <1>3, <1>5 DEF OwnershipTypes, OwnershipInv
<1> HIDE DEF tracked, owned, installed
<1>7. refusals \in BOOLEAN
  BY DEF OwnershipTypes
<1>8. /\ links' \subseteq tracked /\ held' \subseteq links'
      /\ kernel' \in [Attachments -> Nat] /\ refusals' \in BOOLEAN
      /\ \A a \in links' : kernel'[a] > 0
      /\ \A a \in Attachments \ Detached(owned, made, refused) : kernel'[a] = installed[a]
  BY ZenonT(30), <1>2, <1>5, <1>6, <1>7, DetachOwns
<1>9. Detached(owned, made, refused) \subseteq made
  BY DEF Detached
<1>10. \A a \in attachments' : kernel'[a] > 0
  BY <1>3, <1>4, <1>5, <1>8, <1>9 DEF OwnershipTypes, OwnershipInv
<1>11. OwnershipExact'
  <2>1. SUFFICES ASSUME ~refusals'
                 PROVE  /\ attachments' = links' /\ links' = held'
                        /\ \A a \in Attachments : kernel'[a] = IF a \in links' THEN 1 ELSE 0
    BY DEF OwnershipExact
  <2>2. ~refusals
    BY ZenonT(30), <1>2, <2>1 DEF AdapterDetach
  <2>3. /\ attachments = links /\ links = held
        /\ \A a \in Attachments : kernel[a] = IF a \in links THEN 1 ELSE 0
    BY <2>2 DEF OwnershipInv, OwnershipExact
  <2>4. tracked = owned
    BY <2>3 DEF tracked, owned
  <2>5. \A a \in Attachments : installed[a] = IF a \in tracked THEN 1 ELSE 0
    BY <1>5, <2>3 DEF tracked
  <2>6. AdapterDetach(tracked, tracked, installed, made, refused)
    BY <1>2, <2>4
  <2>7. /\ links' = tracked \ made /\ held' = tracked \ made
        /\ \A a \in Attachments : kernel'[a] = IF a \in links' THEN 1 ELSE 0
    BY ZenonT(30), <1>5, <1>6, <1>7, <2>1, <2>5, <2>6, DetachExact
  <2>8. tracked \ made = links
    BY <1>3, <2>3 DEF tracked
  <2> QED BY SMTT(30), <1>4, <2>3, <2>7, <2>8
<1> QED BY <1>3, <1>4, <1>6, <1>8, <1>10, <1>11 DEF OwnershipTypes, OwnershipInv

-----------------------------------------------------------------------------
\* The runtime-config map and the snapshot.

\* A step that touches neither, and reaches no place that owes them anything.
Quiet(k) ==
    /\ Moves(k)
    /\ elf' = elf /\ written' = written /\ snapshot' = snapshot
    /\ call[k] # "update"
    /\ call'[k] \notin {"config", "update"}

\* A step that leaves configuration and map alone keeps Published.
LEMMA QuietPublished ==
  ASSUME ControlTypeOK, Published, NEW k \in Calls, Quiet(k)
  PROVE  Published'
<1>1. \A j \in Calls \ {k} : call'[j] = call[j] /\ arg'[j] = arg[j]
  BY DEF Quiet, Moves
<1>2. elf = NoElf => written = Unwritten
  BY DEF Published
<1>3. ASSUME NEW j \in Calls
      PROVE  /\ call'[j] = "config" => elf # NoElf
             /\ call'[j] = "update" /\ elf # NoElf => written = arg'[j]
  BY <1>1 DEF Published, Quiet
<1>4. (\A j \in Calls : call'[j] # "update") => \A j \in Calls : call[j] # "update"
  BY <1>1 DEF Quiet
<1> QED BY ZenonT(30), <1>2, <1>3, <1>4 DEF Published, Quiet, RefusedByStore, Valid, Unwritten, NoElf

\* Loading an object: its map starts out unwritten.
LEMMA LoadElfPublished ==
  ASSUME ControlTypeOK, Serialised, Published, NEW k \in Calls, call[k] = "attach",
         LoadElf(ElfOf[k[1]]), Moves(k), snapshot' = snapshot,
         call'[k] \notin {"write", "update"}
  PROVE  Published' /\ elf' \in Elfs
<1>1. ElfOf[k[1]] \in Elfs /\ ElfOf[k[1]] # NoElf
  BY ZenonT(30), ElfAssumption DEF Calls, NoElf
<1>2. elf' = ElfOf[k[1]] /\ (written' = written \/ written' = Unwritten)
  BY DEF LoadElf
<1>3. \A j \in Calls \ {k} : call'[j] = call[j]
  BY DEF Moves
<1>4. \A j \in Calls \ {k} : call[j] \notin InTransaction
  BY DEF Serialised, InTransaction, Holds
<1>5. \A j \in Calls : call[j] # "update" /\ call'[j] \notin {"write", "update"}
  BY <1>3, <1>4 DEF InTransaction
<1>6. written \in {Unwritten, snapshot.config} \/ RefusedByStore(written)
  BY ZenonT(30), <1>5 DEF Published
<1> QED BY ZenonT(30), <1>1, <1>2, <1>5, <1>6 DEF Published, RefusedByStore, Valid, Unwritten, NoElf

\* The handlers of Attach.
LEMMA AttachSteps ==
  ASSUME ControlInv, NEW k \in Calls,
         EnterAttach(k) \/ AttachRefused(k) \/ BackendAttach(k) \/ BackendAttachFails(k)
            \/ AttachConfig(k) \/ RollbackAttach(k) \/ AttachReady(k)
  PROVE  Moves(k) /\ Published' /\ elf' \in Elfs \cup {NoElf}
<1>a. ControlTypeOK /\ Serialised /\ Published /\ elf \in Elfs \cup {NoElf}
  BY SMTT(30) DEF ControlInv, ControlTypeOK
<1>1. CASE EnterAttach(k)
  <2>1. Moves(k) /\ call'[k] = "attach"
    BY SMTT(30), <1>1, <1>a, GotoMoves DEF EnterAttach, Places
  <2>2. Quiet(k)
    BY SMTT(30), <1>1, <2>1 DEF Quiet, EnterAttach, backendVars, adapterVars, storeVars
  <2> QED BY <2>1, <2>2, <1>a, QuietPublished DEF Quiet
<1>2. CASE AttachRefused(k)
  <2>1. Moves(k) /\ call'[k] = "error"
    BY <1>2, <1>a, ReplyMoves DEF AttachRefused
  <2>2. Quiet(k)
    BY SMTT(30), <1>2, <2>1 DEF Quiet, AttachRefused, backendVars, adapterVars, storeVars
  <2> QED BY ZenonT(30), <2>1, <2>2, <1>a, QuietPublished DEF Quiet
<1>3. CASE BackendAttach(k)
  <2>1. call[k] = "attach" /\ LoadElf(ElfOf[k[1]]) /\ snapshot' = snapshot
    BY SMTT(30), <1>3 DEF BackendAttach, storeVars
  <2>2. Holds(k)
    BY <1>a, <2>1 DEF Serialised, InTransaction
  <2>3. call'[k] \in {"config", "rollback"} /\ Moves(k)
    BY <1>3, <1>a, <2>2 DEF BackendAttach, Moves, Places, ControlTypeOK, Holds
  <2> QED BY <1>a, <2>1, <2>3, LoadElfPublished
<1>4. CASE BackendAttachFails(k)
  <2>1. call[k] = "attach" /\ LoadElf(ElfOf[k[1]]) /\ snapshot' = snapshot /\ Reply(k, "error")
    BY ZenonT(30), <1>4 DEF BackendAttachFails, storeVars
  <2>2. Moves(k) /\ call'[k] = "error"
    BY <1>a, <2>1, ReplyMoves
  <2> QED BY <1>a, <2>1, <2>2, LoadElfPublished
<1>5. CASE AttachConfig(k)
  <2>1. Holds(k) /\ elf # NoElf /\ call[k] = "config"
    BY ZenonT(30), <1>5, <1>a DEF AttachConfig, Serialised, InTransaction, Published
  <2>2. CASE Goto(k, "ready") /\ written' = snapshot.config
    <3>1. Moves(k) /\ call'[k] = "ready"
      BY ZenonT(30), <1>a, <2>1, <2>2, GotoMoves DEF Places
    <3>2. elf' = elf /\ snapshot' = snapshot
      BY SMTT(30), <1>5 DEF AttachConfig, storeVars
    <3>3. \A j \in Calls \ {k} : call[j] \notin InTransaction /\ call'[j] = call[j]
      BY <1>a, <2>1, <3>1 DEF Serialised, Holds, Moves
    <3>4. \A j \in Calls : call'[j] \notin {"config", "write", "update"}
      BY <3>1, <3>3 DEF InTransaction
    <3> QED BY ZenonT(30), <1>a, <2>1, <2>2, <3>1, <3>2, <3>4 DEF Published, RefusedByStore, Valid, Unwritten, NoElf
  <2>3. CASE Goto(k, "rollback") /\ written' = written
    <3>1. Moves(k) /\ call'[k] = "rollback"
      BY SMTT(30), <1>a, <2>1, <2>3, GotoMoves DEF Places
    <3>2. Quiet(k)
      BY ZenonT(30), <1>5, <2>1, <2>3, <3>1 DEF Quiet, AttachConfig, storeVars
    <3> QED BY <3>1, <3>2, <1>a, QuietPublished DEF Quiet
  <2> QED BY SMTT(30), <1>5, <2>2, <2>3 DEF AttachConfig
<1>6. CASE RollbackAttach(k)
  <2>1. Moves(k) /\ call'[k] = "error"
    BY SMTT(30), <1>6, <1>a, ReplyMoves DEF RollbackAttach
  <2>2. Quiet(k)
    BY <1>6, <2>1 DEF Quiet, RollbackAttach, storeVars
  <2> QED BY SMTT(30), <2>1, <2>2, <1>a, QuietPublished DEF Quiet
<1>7. CASE AttachReady(k)
  <2>1. Moves(k) /\ call'[k] = "ok"
    BY SMTT(30), <1>7, <1>a, ReplyMoves DEF AttachReady
  <2>2. Quiet(k)
    BY SMTT(30), <1>7, <2>1 DEF Quiet, AttachReady, backendVars, adapterVars, storeVars
  <2> QED BY <2>1, <2>2, <1>a, QuietPublished DEF Quiet
<1> QED BY <1>1, <1>2, <1>3, <1>4, <1>5, <1>6, <1>7

\* The handlers of Detach and GetConfig, a request that is refused or joins
\* the queue, and a handler that is dropped.
LEMMA OtherSteps ==
  ASSUME ControlInv, NEW k \in Calls, NEW busy \in BOOLEAN,
         EnterDetach(k) \/ BackendDetach(k) \/ DetachCheck(k) \/ DetachClear(k) \/ GetConfig(k)
            \/ Malformed(k) \/ JoinTransaction(k) \/ Cancel(k, busy)
  PROVE  Quiet(k)
<1>a. ControlTypeOK
  BY ZenonT(30) DEF ControlInv
<1> USE DEF backendVars, adapterVars, storeVars
<1>1. CASE EnterDetach(k)
  <2>1. Moves(k) /\ call'[k] = "detach"
    BY SMTT(30), <1>1, <1>a, GotoMoves DEF EnterDetach, Places, InTransaction
  <2> QED BY <1>1, <2>1 DEF Quiet, EnterDetach
<1>2. CASE BackendDetach(k)
  <2>1. call[k] = "detach" /\ (Goto(k, "check") \/ Reply(k, "error"))
    BY <1>2 DEF BackendDetach
  <2>2. Moves(k) /\ call'[k] \in {"check", "error"}
    BY ZenonT(30), <1>a, <2>1, GotoMoves, ReplyMoves DEF Places, InTransaction
  <2> QED BY ZenonT(30), <1>2, <2>1, <2>2 DEF Quiet, BackendDetach
<1>3. CASE DetachCheck(k)
  <2>1. call[k] = "check" /\ (Goto(k, "clear") \/ Reply(k, "ok"))
    BY <1>3 DEF DetachCheck
  <2>2. Moves(k) /\ call'[k] \in {"clear", "ok"}
    BY ZenonT(30), <1>a, <2>1, GotoMoves, ReplyMoves DEF Places, InTransaction
  <2> QED BY ZenonT(30), <1>3, <2>1, <2>2 DEF Quiet, DetachCheck
<1>4. CASE DetachClear(k)
  <2>1. Moves(k) /\ call'[k] = "ok"
    BY ZenonT(30), <1>4, <1>a, ReplyMoves DEF DetachClear
  <2> QED BY ZenonT(30), <1>4, <2>1 DEF Quiet, DetachClear
<1>5. CASE GetConfig(k)
  <2>1. Moves(k) /\ call'[k] = "ok"
    BY ZenonT(30), <1>5, <1>a, ReplyMoves DEF GetConfig
  <2> QED BY ZenonT(30), <1>5, <2>1 DEF Quiet, GetConfig
<1>6. CASE Malformed(k)
  <2>1. Moves(k) /\ call'[k] = "error"
    BY SMTT(30), <1>6, <1>a, ReplyMoves DEF Malformed
  <2> QED BY ZenonT(30), <1>6, <2>1 DEF Quiet, Malformed
<1>7. CASE JoinTransaction(k)
  <2>1. Moves(k) /\ call'[k] = "transaction"
    BY <1>7, <1>a, JoinMoves
  <2> QED BY ZenonT(30), <1>7, <2>1 DEF Quiet, JoinTransaction
<1>8. CASE Cancel(k, busy)
  <2>1. call[k] \notin {"idle", "update"}
    BY SMTT(30), <1>8 DEF Cancel, OpWaiting
  <2>2. Moves(k) /\ call'[k] = "error"
    BY <1>8, <1>a, <2>1, ReplyMoves DEF Cancel
  <2> QED BY <1>8, <2>1, <2>2 DEF Quiet, Cancel
<1> QED BY <1>1, <1>2, <1>3, <1>4, <1>5, <1>6, <1>7, <1>8

\* The handler of SetConfig: the map first, then the snapshot.
LEMMA SetConfigSteps ==
  ASSUME ControlInv, NEW k \in Calls,
         SetConfigCheck(k) \/ SetConfigWrite(k) \/ SetConfigUpdate(k)
  PROVE  Moves(k) /\ Published' /\ elf' = elf
<1>a. ControlTypeOK /\ Serialised /\ Published
  BY SMTT(30) DEF ControlInv
<1> USE DEF backendVars, adapterVars, storeVars
<1>1. CASE SetConfigCheck(k)
  <2>1. call[k] = "transaction" /\ Holds(k)
    BY SMTT(30), <1>1 DEF SetConfigCheck
  <2>2. CASE Valid(arg[k], MapMaxima) /\ Goto(k, "write")
    <3>1. Moves(k) /\ call'[k] = "write" /\ arg' = arg
      BY ZenonT(30), <1>a, <2>1, <2>2, GotoMoves DEF Places
    <3>2. Quiet(k)
      BY SMTT(30), <1>1, <2>1, <3>1 DEF Quiet, SetConfigCheck
    <3> QED BY <1>a, <3>1, <3>2, QuietPublished DEF Quiet
  <2>3. CASE Reply(k, "error")
    <3>1. Moves(k) /\ call'[k] = "error"
      BY ZenonT(30), <1>a, <2>1, <2>3, ReplyMoves
    <3>2. Quiet(k)
      BY ZenonT(30), <1>1, <2>1, <3>1 DEF Quiet, SetConfigCheck
    <3> QED BY ZenonT(30), <1>a, <3>1, <3>2, QuietPublished DEF Quiet
  <2> QED BY <1>1, <2>2, <2>3 DEF SetConfigCheck
<1>2. CASE SetConfigWrite(k)
  <2>1. /\ call[k] = "write" /\ Holds(k)
        /\ elf' = elf /\ snapshot' = snapshot
    BY ZenonT(30), <1>2, <1>a DEF SetConfigWrite, Serialised, InTransaction, Published
  <2>2. CASE Goto(k, "update") /\ written' = IF elf = NoElf THEN written ELSE arg[k]
    <3>1. Moves(k) /\ call'[k] = "update" /\ arg' = arg
      BY ZenonT(30), <1>a, <2>1, <2>2, GotoMoves DEF Places
    <3>2. \A j \in Calls \ {k} : call[j] \notin InTransaction /\ call'[j] = call[j]
      BY ZenonT(30), <1>a, <2>1, <3>1 DEF Serialised, Holds, Moves
    <3>3. \A j \in Calls \ {k} : call'[j] \notin {"config", "write", "update"}
      BY <3>2 DEF InTransaction
    <3>4. elf = NoElf => written' = Unwritten
      BY <1>a, <2>2 DEF Published
    <3> QED BY ZenonT(30), <2>1, <2>2, <3>1, <3>3, <3>4 DEF Published, Unwritten, NoElf
  <2>3. CASE Reply(k, "error") /\ written' = written
    <3>1. Moves(k) /\ call'[k] = "error"
      BY ZenonT(30), <1>a, <2>1, <2>3, ReplyMoves
    <3>2. Quiet(k)
      BY SMTT(30), <2>1, <2>3, <3>1 DEF Quiet
    <3> QED BY <1>a, <2>1, <3>1, <3>2, QuietPublished
  <2> QED BY <1>2, <2>2, <2>3 DEF SetConfigWrite
<1>3. CASE SetConfigUpdate(k)
  <2>1. /\ call[k] = "update" /\ Holds(k)
        /\ elf = NoElf => written = Unwritten
        /\ elf # NoElf => written = arg[k]
        /\ elf' = elf /\ written' = written
    BY SMTT(30), <1>3, <1>a DEF SetConfigUpdate, Serialised, InTransaction, Published
  <2>2. \/ snapshot'.config = arg[k] /\ Reply(k, "ok")
        \/ RefusedByStore(arg[k]) /\ Reply(k, "error")
    <3>1. CASE Valid(arg[k], StoreMax)
      <4>1. snapshot' = [config |-> arg[k], revision |-> nextRevision] /\ Reply(k, "ok")
        BY ZenonT(30), <1>3, <3>1 DEF SetConfigUpdate
      <4> QED BY <4>1
    <3>2. CASE ~Valid(arg[k], StoreMax)
      BY ZenonT(30), <1>3, <3>2 DEF SetConfigUpdate, RefusedByStore
    <3> QED BY <3>1, <3>2
  <2>3. Moves(k) /\ call'[k] \in {"ok", "error"}
    BY ZenonT(30), <1>a, <2>1, <2>2, ReplyMoves
  <2>4. \A j \in Calls \ {k} : call[j] \notin InTransaction /\ call'[j] = call[j]
    BY <1>a, <2>1, <2>3 DEF Serialised, Holds, Moves
  <2>5. \A j \in Calls : call'[j] \notin {"config", "write", "update"}
    BY <2>3, <2>4 DEF InTransaction
  <2>6. written' \in {Unwritten, snapshot'.config} \/ RefusedByStore(written')
    BY ZenonT(30), <2>1, <2>2
  <2> QED BY ZenonT(30), <2>1, <2>3, <2>5, <2>6 DEF Published, RefusedByStore, Valid, Unwritten, NoElf
<1> QED BY <1>1, <1>2, <1>3

-----------------------------------------------------------------------------
\* The whole system.

\* A handler's step, and a handler that is dropped.
LEMMA ServerStep ==
  ASSUME ControlInv, NEW k \in Calls, Handler(k) \/ Cancel(k, Busy)
  PROVE  Moves(k) /\ Published' /\ elf' \in Elfs \cup {NoElf}
<1>a. ControlTypeOK /\ Published /\ elf \in Elfs \cup {NoElf}
  BY DEF ControlInv, ControlTypeOK
<1>1. CASE EnterDetach(k) \/ BackendDetach(k) \/ DetachCheck(k) \/ DetachClear(k) \/ GetConfig(k)
             \/ Malformed(k) \/ JoinTransaction(k) \/ Cancel(k, Busy)
  <2>1. Quiet(k)
    BY ZenonT(30), <1>1, OtherSteps DEF Busy
  <2> QED BY <1>a, <2>1, QuietPublished DEF Quiet
<1>2. CASE EnterAttach(k) \/ AttachRefused(k) \/ BackendAttach(k) \/ BackendAttachFails(k)
             \/ AttachConfig(k) \/ RollbackAttach(k) \/ AttachReady(k)
  BY <1>2, AttachSteps
<1>3. CASE SetConfigCheck(k) \/ SetConfigWrite(k) \/ SetConfigUpdate(k)
  BY <1>3, <1>a, SetConfigSteps
<1> QED BY <1>1, <1>2, <1>3 DEF Handler

\* Who owns which link changes in the backend's operations only.
LEMMA OwnershipStep ==
  ASSUME OwnershipTypes, OwnershipInv, NEW k \in Calls, Handler(k) \/ Cancel(k, Busy)
  PROVE  OwnershipTypes' /\ OwnershipInv'
<1>1. CASE UNCHANGED <<links, held, kernelVars, attachments>>
  BY ZenonT(30), <1>1 DEF OwnershipTypes, OwnershipInv, OwnershipExact, kernelVars
<1>2. CASE BackendAttach(k)
  BY <1>2, AttachKeepsOwnership
<1>3. CASE BackendAttachFails(k)
  BY <1>3, FailedAttachKeepsOwnership
<1>4. CASE RollbackAttach(k)
  BY <1>4, DetachKeepsOwnership DEF RollbackAttach
<1>5. CASE BackendDetach(k)
  BY <1>5, DetachKeepsOwnership DEF BackendDetach
<1>6. CASE \/ Malformed(k) \/ JoinTransaction(k) \/ EnterAttach(k) \/ AttachRefused(k)
           \/ AttachConfig(k) \/ AttachReady(k) \/ Cancel(k, Busy)
  <2>1. UNCHANGED <<links, held, kernelVars, attachments>>
    BY <1>6 DEF backendVars, adapterVars, Malformed, JoinTransaction, EnterAttach,
                AttachRefused, AttachConfig, AttachReady, Cancel
  <2> QED BY <1>1, <2>1
<1>7. CASE \/ EnterDetach(k) \/ DetachCheck(k) \/ DetachClear(k) \/ GetConfig(k)
           \/ SetConfigCheck(k) \/ SetConfigWrite(k) \/ SetConfigUpdate(k)
  <2>1. UNCHANGED <<links, held, kernelVars, attachments>>
    BY ZenonT(30), <1>7 DEF backendVars, adapterVars, EnterDetach, DetachCheck, DetachClear, GetConfig,
                SetConfigCheck, SetConfigWrite, SetConfigUpdate
  <2> QED BY <1>1, <2>1
<1> QED BY SMTT(30), <1>2, <1>3, <1>4, <1>5, <1>6, <1>7 DEF Handler

\* A step of a handler keeps the invariant: what a client has not sent yet is
\* idle, and no handler runs for it.
LEMMA ServerKeepsInv ==
  ASSUME ControlInv, NEW k \in Calls, Handler(k) \/ Cancel(k, Busy), UNCHANGED host
  PROVE  ControlInv'
<1>1. Moves(k) /\ Published' /\ elf' \in Elfs \cup {NoElf}
  BY SMTT(30), ServerStep
<1>2. OwnershipTypes' /\ OwnershipInv'
  BY OwnershipStep DEF ControlInv, ControlTypeOK, OwnershipTypes
<1>3. ControlTypeOK'
  BY <1>1, <1>2 DEF ControlTypeOK, OwnershipTypes, Moves, ControlInv
<1>4. Serialised'
  <2>1. ASSUME NEW j \in Calls, call'[j] \in InTransaction PROVE Holds(j)'
    BY <1>1, <2>1 DEF Moves, ControlInv, Serialised
  <2> QED BY <2>1 DEF Serialised
<1>5. SentOnce'
  <2>1. \A j \in Calls : call[j] = "idle" => call'[j] = "idle"
    BY <1>1 DEF Moves
  <2>2. \A c \in Clients : <<c, "attach">> \in Calls /\ <<c, "get">> \in Calls
                             /\ <<c, "set">> \in Calls /\ <<c, "detach">> \in Calls
    BY DEF Calls, Ops
  <2> QED BY ZenonT(30), <2>1, <2>2 DEF SentOnce, ControlInv
<1> QED BY <1>1, <1>2, <1>3, <1>4, <1>5 DEF ControlInv

\* A request that is sent for the first time disturbs no handler.
LEMMA SendKeeps ==
  ASSUME ControlInv, NEW k \in Calls, call[k] = "idle", NEW config, Send(k, config)
  PROVE  /\ OwnershipTypes' /\ OwnershipInv' /\ Serialised' /\ Published'
         /\ call' \in [Calls -> Places] /\ arg' = [j \in Calls |-> arg'[j]]
         /\ queue' \in Seq(Calls) /\ elf' \in Elfs \cup {NoElf}
         /\ \A j \in Calls \ {k} : call'[j] = call[j]
<1> USE DEF backendVars, adapterVars, kernelVars, storeVars
<1>1. OwnershipTypes' /\ OwnershipInv'
  BY SMTT(30) DEF ControlInv, ControlTypeOK, OwnershipTypes, OwnershipInv, OwnershipExact, Send
<1>2. /\ call' \in [Calls -> Places] /\ call'[k] \in {"begin", "error"}
      /\ \A j \in Calls \ {k} : call'[j] = call[j] /\ arg'[j] = arg[j]
  BY DEF ControlInv, ControlTypeOK, Send, Places
<1>3. arg' = [j \in Calls |-> arg'[j]] /\ queue' \in Seq(Calls) /\ elf' \in Elfs \cup {NoElf}
  BY ZenonT(30) DEF ControlInv, ControlTypeOK, Send
<1>4. elf' = elf /\ written' = written /\ snapshot' = snapshot /\ queue' = queue
  BY DEF Send
<1>5. Serialised'
  BY <1>2, <1>4 DEF ControlInv, Serialised, Holds, InTransaction
<1>6. Published'
  <2>1. Published
    BY DEF ControlInv
  <2>2. ASSUME NEW j \in Calls
        PROVE  /\ call'[j] = "config" => elf # NoElf
               /\ call'[j] = "update" /\ elf # NoElf => written = arg'[j]
    BY ZenonT(30), <1>2, <2>1 DEF Published
  <2>3. (\A j \in Calls : call'[j] # "update") => \A j \in Calls : call[j] # "update"
    BY ZenonT(30), <1>2
  <2> QED BY ZenonT(30), <1>4, <2>1, <2>2, <2>3 DEF Published, RefusedByStore, Valid, Unwritten, NoElf
<1> QED BY <1>1, <1>2, <1>3, <1>5, <1>6

\* The order of a client's requests: what it sends where, and what it waits
\* for then.
InOrder(c, op, state) ==
    \/ op = "attach" /\ host[c] = "start" /\ state \in {"attaching", "operator attaching"}
    \/ op = "get" /\ host[c] = "attaching" /\ state = "getting"
    \/ op = "set" /\ host[c] = "getting" /\ state = "setting"
    \/ op = "set" /\ host[c] = "operator attaching" /\ state = "operator setting"
    \/ op = "detach" /\ host[c] \in {"getting", "setting", "running", "operator setting"}
         /\ state \in {"rolling back", "leaving", "left"}

\* A client goes on to the next of its requests.
LEMMA ProcessSends ==
  ASSUME ControlInv, NEW c \in Clients, NEW op \in Ops, NEW state \in HostStates,
         InOrder(c, op, state), NEW config, Send(<<c, op>>, config), To(c, state)
  PROVE  ControlInv'
<1>1. <<c, op>> \in Calls /\ call[<<c, op>>] = "idle"
  BY ZenonT(30) DEF Calls, InOrder, ControlInv, SentOnce
<1>2. /\ OwnershipTypes' /\ OwnershipInv' /\ Serialised' /\ Published'
      /\ call' \in [Calls -> Places] /\ arg' = [j \in Calls |-> arg'[j]]
      /\ queue' \in Seq(Calls) /\ elf' \in Elfs \cup {NoElf}
      /\ \A j \in Calls \ {<<c, op>>} : call'[j] = call[j]
  BY <1>1, SendKeeps
<1>3. /\ host' \in [Clients -> HostStates] /\ host'[c] = state
      /\ \A d \in Clients \ {c} : host'[d] = host[d]
  BY SMTT(30) DEF ControlInv, ControlTypeOK, To
<1>4. ControlTypeOK'
  BY <1>2, <1>3 DEF ControlTypeOK, OwnershipTypes
<1>5. SentOnce'
  <2>1. \A d \in Clients, o \in Ops : <<d, o>> \in Calls
    BY SMTT(30) DEF Calls
  <2>2. \A d \in Clients, o \in Ops : d # c \/ o # op => call'[<<d, o>>] = call[<<d, o>>]
    BY <1>2, <2>1
  <2> DEFINE Sent(d, at, of) ==
               /\ at = "start" => of[<<d, "attach">>] = "idle"
               /\ at \in {"start", "attaching"} => of[<<d, "get">>] = "idle"
               /\ at \in {"start", "attaching", "getting", "operator attaching"} =>
                      of[<<d, "set">>] = "idle"
               /\ at \in {"start", "attaching", "getting", "setting", "running",
                          "operator attaching", "operator setting"} =>
                      of[<<d, "detach">>] = "idle"
  <2>3. \A d \in Clients : Sent(d, host[d], call)
    BY ZenonT(30) DEF SentOnce, ControlInv
  <2>4. ASSUME NEW d \in Clients \ {c} PROVE Sent(d, host'[d], call')
    BY ZenonT(30), <1>3, <2>2, <2>3 DEF Ops
  <2>5. Sent(c, state, call')
    BY ZenonT(30), <2>2, <2>3 DEF Ops, InOrder
  <2> QED BY ZenonT(30), <1>3, <2>4, <2>5 DEF SentOnce
<1> QED BY SMTT(30), <1>2, <1>4, <1>5 DEF ControlInv

\* A client that only takes note of an answer, or of a deadline.
LEMMA ProcessWaits ==
  ASSUME ControlInv, NEW c \in Clients, NEW state \in HostStates, UNCHANGED serverVars,
         To(c, state), state \in {"failed", "left"} \/ (state = "running" /\ At(c, "setting"))
  PROVE  ControlInv'
<1> USE DEF serverVars, backendVars, adapterVars, kernelVars, storeVars
<1>1. /\ host' \in [Clients -> HostStates] /\ host'[c] = state
      /\ \A d \in Clients \ {c} : host'[d] = host[d]
  BY ZenonT(30) DEF ControlInv, ControlTypeOK, To
<1>2. ControlTypeOK'
  BY <1>1 DEF ControlInv, ControlTypeOK
<1>3. OwnershipInv'
  BY ZenonT(30) DEF ControlInv, OwnershipInv, OwnershipExact
<1>4. Serialised' /\ Published'
  BY ZenonT(30) DEF ControlInv, Serialised, Holds, Published, RefusedByStore, Valid
<1>5. SentOnce'
  BY ZenonT(30), <1>1 DEF ControlInv, SentOnce, At
<1> QED BY <1>2, <1>3, <1>4, <1>5 DEF ControlInv

\* A client's steps: it sends each request once and waits for the answer.
LEMMA ProcessKeepsInv ==
  ASSUME ControlInv, NEW c \in Clients, Process(c)
  PROVE  ControlInv'
<1>a. \A op \in {"attach", "get", "set", "detach"} : op \in Ops
  BY ZenonT(30) DEF Ops
<1>b. \A state \in {"attaching", "getting", "setting", "rolling back", "running", "leaving",
                    "left", "failed", "operator attaching", "operator setting"} :
          state \in HostStates
  BY ZenonT(30) DEF HostStates
<1> USE DEF At, InOrder
<1>1. CASE StartAttach(c)
  BY ZenonT(30), <1>1, <1>a, <1>b, ProcessSends DEF StartAttach
<1>2. CASE AttachFails(c)
  BY ZenonT(30), <1>2, <1>b, ProcessWaits DEF AttachFails
<1>3. CASE StartGetConfig(c)
  BY ZenonT(30), <1>3, <1>a, <1>b, ProcessSends DEF StartGetConfig
<1>4. CASE StartSetConfig(c)
  BY ZenonT(30), <1>4, <1>a, <1>b, ProcessSends DEF StartSetConfig
<1>5. CASE RollBackActivation(c)
  BY ZenonT(30), <1>5, <1>a, <1>b, ProcessSends DEF RollBackActivation
<1>6. CASE RolledBack(c)
  BY ZenonT(30), <1>6, <1>b, ProcessWaits DEF RolledBack
<1>7. CASE Activated(c)
  BY ZenonT(30), <1>7, <1>b, ProcessWaits DEF Activated
<1>8. CASE Leave(c)
  BY ZenonT(30), <1>8, <1>a, <1>b, ProcessSends DEF Leave
<1>9. CASE Exit(c)
  BY ZenonT(30), <1>9, <1>b, ProcessWaits DEF Exit
<1>10. CASE OperatorAttaches(c)
  BY ZenonT(30), <1>10, <1>a, <1>b, ProcessSends DEF OperatorAttaches
<1>11. CASE OperatorSets(c)
  BY ZenonT(30), <1>11, <1>a, <1>b, ProcessSends DEF OperatorSets
<1>12. CASE OperatorDetaches(c)
  BY ZenonT(30), <1>12, <1>a, <1>b, ProcessSends DEF OperatorDetaches
<1> QED BY ZenonT(30), <1>1, <1>2, <1>3, <1>4, <1>5, <1>6, <1>7, <1>8, <1>9, <1>10, <1>11, <1>12 DEF Process

\* The end of the service detaches everything the backend reports.
LEMMA RuntimeKeepsInv ==
  ASSUME ControlInv, Drain \/ Shutdown, UNCHANGED host
  PROVE  ControlInv'
<1> USE DEF backendVars, adapterVars, kernelVars, storeVars
<1>1. UNCHANGED <<call, arg, queue, elf, written, snapshot, host>>
  BY ZenonT(30) DEF Drain, Shutdown
<1>2. OwnershipTypes' /\ OwnershipInv'
  <2>1. OwnershipTypes /\ OwnershipInv
    BY DEF ControlInv, ControlTypeOK, OwnershipTypes
  <2>2. CASE Drain
    BY <2>1, <2>2 DEF Drain, OwnershipTypes, OwnershipInv, OwnershipExact
  <2>3. CASE Shutdown
    BY ZenonT(30), <2>1, <2>3, DetachKeepsOwnership DEF Shutdown
  <2> QED BY <2>2, <2>3
<1>3. ControlTypeOK'
  BY SMTT(30), <1>1, <1>2 DEF ControlInv, ControlTypeOK, OwnershipTypes
<1>4. Serialised' /\ Published'
  BY <1>1 DEF ControlInv, Serialised, Holds, Published, RefusedByStore, Valid
<1>5. SentOnce'
  BY ZenonT(30), <1>1 DEF ControlInv, SentOnce
<1> QED BY SMTT(30), <1>2, <1>3, <1>4, <1>5 DEF ControlInv

\* ControlInv holds when the service starts.
LEMMA InitControl ==
  ASSUME Init
  PROVE  ControlInv
<1> USE DEF Init, ServerInit
<1>1. ControlTypeOK
  <2>1. call \in [Calls -> Places] /\ host \in [Clients -> HostStates]
    BY ZenonT(30) DEF Places, HostStates
  <2>2. arg = [k \in Calls |-> arg[k]]
    OBVIOUS
  <2>3. queue \in Seq(Calls)
    OBVIOUS
  <2>4. kernel \in [Attachments -> Nat] /\ refusals \in BOOLEAN
    OBVIOUS
  <2>5. links \subseteq Attachments /\ attachments \subseteq Attachments /\ elf \in Elfs \cup {NoElf}
    BY ZenonT(30)
  <2> QED BY ZenonT(30), <2>1, <2>2, <2>3, <2>4, <2>5 DEF ControlTypeOK
<1>2. OwnershipInv
  BY DEF OwnershipInv, OwnershipExact
<1>3. Serialised /\ Published
  BY DEF Serialised, Published, InTransaction
<1>4. SentOnce
  BY DEF SentOnce, Calls, Ops
<1> QED BY <1>1, <1>2, <1>3, <1>4 DEF ControlInv

(* The inductive invariant of the control plane: every handler, every dropped
   handler, every step of a host proxy or an operator and the end of the
   service keep it, whatever the number of clients, interfaces and objects. *)
THEOREM ControlInvariant == Spec => []ControlInv
<1>1. ControlInv /\ UNCHANGED vars => ControlInv'
  <2> SUFFICES ASSUME ControlInv, UNCHANGED vars PROVE ControlInv'
    OBVIOUS
  <2> USE DEF vars, serverVars, backendVars, adapterVars, kernelVars, storeVars
  <2>1. ControlTypeOK' /\ OwnershipInv'
    BY ZenonT(30) DEF ControlInv, ControlTypeOK, OwnershipInv, OwnershipExact
  <2>2. Serialised' /\ Published'
    BY ZenonT(30) DEF ControlInv, Serialised, Holds, Published, RefusedByStore, Valid
  <2>3. SentOnce'
    BY ZenonT(30) DEF ControlInv, SentOnce
  <2> QED BY ZenonT(30), <2>1, <2>2, <2>3 DEF ControlInv
<1>2. ControlInv /\ Next => ControlInv'
  BY ServerKeepsInv, ProcessKeepsInv, RuntimeKeepsInv DEF Next
<1> QED BY <1>1, <1>2, InitControl, PTL DEF Spec

(* What the backend reports as attached is installed in the kernel, for any
   clients and interfaces (bpf.rs, attach, rollback_attach and detach). *)
THEOREM ReportedInstalledHolds == Spec => []ReportedInstalled
<1>1. ControlInv => ReportedInstalled
  BY DEF ControlInv, OwnershipInv, ReportedInstalled
<1> QED BY <1>1, ControlInvariant, PTL

(* Until the kernel refuses a removal, the backend, the adapter, its programs
   and the kernel agree on what is attached (bpf.rs, attach, rollback_attach
   and detach). *)
THEOREM OwnershipExactHolds == Spec => []OwnershipExact
<1>1. ControlInv => OwnershipExact
  BY DEF ControlInv, OwnershipInv
<1> QED BY <1>1, ControlInvariant, PTL

(* With no transaction open, a map that was written holds what readers see, or
   a configuration that the loaded object's maps have room for and the store's
   own maxima do not (service.rs, attach and set_config under
   config_transaction; config.rs, ConfigStore::update). *)
THEOREM MapMatchesSnapshotHolds == Spec => []MapMatchesSnapshot
<1>1. ControlInv => MapMatchesSnapshot
  <2>1. SUFFICES ASSUME ControlInv, queue = <<>>, written # Unwritten
                 PROVE  written = snapshot.config \/ RefusedByStore(written)
    BY DEF MapMatchesSnapshot
  <2>2. \A k \in Calls : call[k] # "update"
    BY <2>1 DEF ControlInv, Serialised, InTransaction, Holds
  <2> QED BY SMTT(30), <2>1, <2>2 DEF ControlInv, Published
<1> QED BY <1>1, ControlInvariant, PTL
=============================================================================
