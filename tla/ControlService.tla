--------------------------- MODULE ControlService ---------------------------
(***************************************************************************)
(* The control service: its gRPC handlers for Attach, Detach, GetConfig    *)
(* and SetConfig, the backend that owns the TC links, the adapter below it *)
(* and the configuration store.                                            *)
(*                                                                         *)
(* A handler runs without interruption except where it waits for one of    *)
(* the two asynchronous mutexes: config_transaction, taken by Attach and   *)
(* SetConfig for their whole length and granted in the order of arrival,   *)
(* and operation_lock, taken around every backend operation.  A backend    *)
(* operation never awaits while it holds operation_lock, so it is one      *)
(* action here.  While a handler waits, its deadline may pass: the server  *)
(* then drops it where it stands.                                          *)
(***************************************************************************)
EXTENDS Naturals, Sequences, FiniteSets, SequencesExt

CONSTANTS
    Clients,        \* gRPC clients; each has at most one call per operation
    Operators,      \* those that are not host proxies
    InterfaceOf,    \* the interface a client names
    Elfs,           \* BPF objects
    ElfOf,          \* the object a client names
    ElfMax,         \* flow-state capacity of each object's maps
    StoreMax,       \* MapMaxima::default(), what the store validates against
    Families,       \* address families with a redirection target
    Initial         \* the configuration the service starts with

ASSUME ElfAssumption ==
    /\ StoreMax \in Nat
    /\ ElfMax \in [Elfs -> Nat]
    /\ ElfOf \in [Clients -> Elfs]
    /\ "no ELF loaded" \notin Elfs

Ops == {"attach", "detach", "get", "set"}
Calls == Clients \X Ops
Directions == {"Ingress", "Egress"}
Interfaces == {InterfaceOf[c] : c \in Clients}
Attachments == Interfaces \X Directions
NoElf == "no ELF loaded"
Unwritten == [Initial EXCEPT !.capacity = 0]   \* a map of zeros

VARIABLES
    call,           \* where the handler of each call stands
    arg,            \* the configuration a SetConfig carries, or GetConfig's reply
    queue,          \* config_transaction: its holder, then those waiting
    elf,            \* the adapter's loaded object
    links,          \* links the adapter tracks (AyaState::links)
    held,           \* links the loaded programs still hold
    kernel,         \* the number of classifiers installed at each hook
    refusals,       \* whether the kernel has ever refused to remove one
    written,        \* the runtime-config map of the loaded object
    attachments,    \* links the backend reports as owned
    created,        \* links made by the Attach in the transaction
    snapshot,       \* ConfigStore::current
    nextRevision,   \* ConfigStore::next_revision
    ready,          \* the readiness flag
    service         \* "serving", "draining", or how the process exited

kernelVars == <<kernel, refusals>>
adapterVars == <<elf, links, held, kernelVars, written>>
backendVars == <<adapterVars, attachments>>
storeVars == <<snapshot, nextRevision>>
serverVars == <<call, arg, queue, backendVars, created, storeVars,
                ready, service>>

ServerInit ==
    /\ call = [k \in Calls |-> "idle"]
    /\ arg = [k \in Calls |-> Initial]
    /\ queue = <<>>
    /\ elf = NoElf /\ links = {} /\ held = {} /\ written = Unwritten
    /\ kernel = [a \in Attachments |-> 0] /\ refusals = FALSE
    /\ attachments = {} /\ created = {}
    /\ snapshot = [config |-> Initial, revision |-> 1] /\ nextRevision = 2
    /\ ready = FALSE
    /\ service = "serving"

\* Where a handler waits for operation_lock.
OpWaiting == {k \in Calls : call[k] \in {"attach", "config", "rollback", "detach", "write"}}

Holds(k) == queue # <<>> /\ Head(queue) = k

\* A handler's step, and its reply, which ends the guards it holds and its locals.
Goto(k, where) ==
    /\ call' = [call EXCEPT ![k] = where]
    /\ UNCHANGED <<arg, queue, created>>

\* A call is in the queue at most once.
Position(k) == CHOOSE i \in DOMAIN queue : queue[i] = k

Reply(k, outcome) ==
    /\ call' = [call EXCEPT ![k] = outcome]
    /\ queue' = IF Contains(queue, k) THEN RemoveAt(queue, Position(k)) ELSE queue
    /\ created' = IF Holds(k) THEN {} ELSE created
    /\ arg' = [arg EXCEPT ![k] = IF k[2] = "get" THEN snapshot.config ELSE Initial]

MapMaxima == IF elf = NoElf THEN StoreMax ELSE ElfMax[elf]

\* validate_with_maxima; the field checks that do not depend on the maps are
\* the same in every caller.
Valid(config, maxima) == config.capacity \in 1..maxima

\* A request that does not pass the argument checks.  A host proxy's requests
\* always do.
Malformed(k) ==
    /\ k[1] \in Operators
    /\ \/ call[k] = "begin" /\ k[2] = "detach"
       \/ call[k] = "transaction" /\ Holds(k)
    /\ Reply(k, "error")
    /\ UNCHANGED <<backendVars, storeVars, ready, service>>

\* config_transaction.lock().await
JoinTransaction(k) ==
    /\ call[k] = "begin" /\ k[2] \in {"attach", "set"}
    /\ call' = [call EXCEPT ![k] = "transaction"]
    /\ queue' = Append(queue, k)
    /\ UNCHANGED <<arg, created>>
    /\ UNCHANGED <<backendVars, storeVars, ready, service>>

\* The handler is dropped at an await: its deadline passed or its connection
\* closed.  A mutex that is free is taken without waiting, so operation_lock
\* is only waited for while some other operation uses it.
Contended(k, busy) == busy \/ \E j \in OpWaiting : j # k

CancelKeepsTurn(k, busy) ==
    /\ call[k] = "transaction" \/ (k \in OpWaiting /\ Contended(k, busy))
    /\ Goto(k, "error")
    /\ UNCHANGED <<backendVars, storeVars, ready, service>>

Cancel(k, busy) ==
    /\ call[k] = "transaction" \/ (k \in OpWaiting /\ Contended(k, busy))
    /\ Reply(k, "error")
    /\ UNCHANGED <<backendVars, storeVars, ready, service>>

-----------------------------------------------------------------------------
(* The adapter. *)

\* load_elf: the object already loaded is kept; another one replaces it only
\* when no link is tracked, and brings maps of its own.
LoadElf(e) ==
    \/ /\ elf = e
       /\ UNCHANGED <<elf, written>>
    \/ /\ elf # e /\ links = {}
       /\ elf' = e /\ written' = Unwritten

\* Detaching a set of links one after the other, where the adapter tracks the
\* links in tracked, its programs hold those in owned, the kernel has those in
\* installed, and refuses to remove those in refused.  A refused link is put
\* back in the adapter's list, but the program it was taken from no longer
\* holds it: the next attempt ends at take_link, and by then the adapter has
\* forgotten it.
Detached(owned, set, refused) == (set \cap owned) \ refused

Install(set) == [a \in Attachments |-> kernel[a] + (IF a \in set THEN 1 ELSE 0)]

AdapterDetach(tracked, owned, installed, set, refused) ==
    LET done == Detached(owned, set, refused) IN
    /\ links' = tracked \ (done \cup (set \ owned))
    /\ held' = owned \ set
    /\ kernel' = [a \in Attachments |-> installed[a] - (IF a \in done THEN 1 ELSE 0)]
    /\ refusals' = (refusals \/ set \cap owned \cap refused # {})

-----------------------------------------------------------------------------
(* Attach. *)

\* The hooks still to be attached; ingress is attached before egress.
Missing(k) == ({InterfaceOf[k[1]]} \X Directions) \ attachments

Before(hook) == {a \in Attachments : a[2] = "Ingress" /\ hook[2] = "Egress"}

EnterAttach(k) ==
    /\ call[k] = "transaction" /\ Holds(k) /\ k[2] = "attach"
    /\ Goto(k, "attach")
    /\ UNCHANGED <<backendVars, storeVars, ready, service>>

\* backend.attach fails before it has attached anything: no such file or
\* interface, an object that does not load, or one that differs from the
\* object the tracked links belong to.
AttachRefused(k) ==
    /\ call[k] = "attach"
    /\ Reply(k, "error")
    /\ UNCHANGED <<backendVars, storeVars, ready, service>>

\* backend.attach: the object is loaded and every missing hook attached.  A
\* hook the adapter tracks already is taken as attached.
BackendAttach(k) ==
    /\ call[k] = "attach"
    /\ LoadElf(ElfOf[k[1]])
    /\ LET new == Missing(k) IN
       /\ links' = links \cup new
       /\ held' = held \cup (new \ links)
       /\ kernel' = Install(new \ links) /\ UNCHANGED refusals
       /\ attachments' = attachments \cup new
       /\ created' = new
    /\ call' = [call EXCEPT ![k] =
                   IF Valid(snapshot.config, ElfMax[ElfOf[k[1]]]) THEN "config" ELSE "rollback"]
    /\ UNCHANGED <<arg, queue>>
    /\ UNCHANGED <<storeVars, ready, service>>

BackendAttachFailsKeepsLinks(k) ==
    /\ call[k] = "attach"
    /\ LoadElf(ElfOf[k[1]])
    /\ \E failing \in Missing(k) \ links :
         LET made == Missing(k) \cap Before(failing) IN
         /\ links' = links \cup made /\ held' = held \cup (made \ links)
         /\ kernel' = Install(made \ links) /\ UNCHANGED refusals
    /\ Reply(k, "error")
    /\ UNCHANGED <<attachments, storeVars, ready, service>>

\* One hook fails: the ones attached before it are detached again, each of
\* which may fail too.  The backend records none of them as owned.
BackendAttachFails(k) ==
    /\ call[k] = "attach"
    /\ LoadElf(ElfOf[k[1]])
    /\ \E failing \in Missing(k) \ links :
         LET made == Missing(k) \cap Before(failing) IN
         \E refused \in SUBSET made :
            AdapterDetach(links \cup made, held \cup (made \ links),
                          Install(made \ links), made, refused)
    /\ Reply(k, "error")
    /\ UNCHANGED <<attachments, storeVars, ready, service>>

\* The current snapshot is written to the runtime-config map.
AttachConfig(k) ==
    /\ call[k] = "config"
    /\ \/ /\ written' = snapshot.config
          /\ Goto(k, "ready")
       \/ /\ UNCHANGED written
          /\ Goto(k, "rollback")
    /\ UNCHANGED <<elf, links, held, kernelVars, attachments, storeVars, ready, service>>

RollbackAttachKeepsRecord(k) ==
    /\ call[k] = "rollback"
    /\ \E refused \in SUBSET created : AdapterDetach(links, held, kernel, created, refused)
    /\ Reply(k, "error")
    /\ UNCHANGED <<elf, written, attachments, storeVars, ready, service>>

\* rollback_attach: only the links this Attach made.
RollbackAttach(k) ==
    /\ call[k] = "rollback"
    /\ \E refused \in SUBSET created :
         /\ AdapterDetach(links, held, kernel, created, refused)
         /\ attachments' = attachments \ Detached(held, created, refused)
    /\ Reply(k, "error")
    /\ UNCHANGED <<elf, written, storeVars, ready, service>>

AttachReady(k) ==
    /\ call[k] = "ready"
    /\ ready' = TRUE
    /\ Reply(k, "ok")
    /\ UNCHANGED <<backendVars, storeVars, service>>

-----------------------------------------------------------------------------
(* Detach takes no part in the transaction. *)

EnterDetach(k) ==
    /\ call[k] = "begin" /\ k[2] = "detach"
    /\ Goto(k, "detach")
    /\ UNCHANGED <<backendVars, storeVars, ready, service>>

\* A host proxy names its interface, an operator asks for all.
Selected(k) == {a \in attachments : k[1] \in Operators \/ a[1] = InterfaceOf[k[1]]}

BackendDetach(k) ==
    /\ call[k] = "detach"
    /\ \E refused \in SUBSET Selected(k) :
         /\ AdapterDetach(links, held, kernel, Selected(k), refused)
         /\ attachments' = attachments \ Detached(held, Selected(k), refused)
         /\ IF Selected(k) = Detached(held, Selected(k), refused)
            THEN Goto(k, "check")
            ELSE Reply(k, "error")
    /\ UNCHANGED <<elf, written, storeVars, ready, service>>

\* attachments().is_empty() and the store to the flag are two steps.
DetachCheck(k) ==
    /\ call[k] = "check"
    /\ IF attachments = {} THEN Goto(k, "clear") ELSE Reply(k, "ok")
    /\ UNCHANGED <<backendVars, storeVars, ready, service>>

DetachClear(k) ==
    /\ call[k] = "clear"
    /\ ready' = FALSE
    /\ Reply(k, "ok")
    /\ UNCHANGED <<backendVars, storeVars, service>>

-----------------------------------------------------------------------------
(* GetConfig and SetConfig. *)

GetConfig(k) ==
    /\ call[k] = "begin" /\ k[2] = "get"
    /\ Reply(k, "ok")
    /\ UNCHANGED <<backendVars, storeVars, ready, service>>

SetConfigCheckUnserialised(k) ==
    /\ call[k] = "transaction" /\ k[2] = "set"
    /\ IF Valid(arg[k], MapMaxima) THEN Goto(k, "write") ELSE Reply(k, "error")
    /\ UNCHANGED <<backendVars, storeVars, ready, service>>

\* The candidate is checked against the maps that are loaded.
SetConfigCheck(k) ==
    /\ call[k] = "transaction" /\ Holds(k) /\ k[2] = "set"
    /\ IF Valid(arg[k], MapMaxima) THEN Goto(k, "write") ELSE Reply(k, "error")
    /\ UNCHANGED <<backendVars, storeVars, ready, service>>

\* Without an object there is no map to write, which is not an error.
SetConfigWrite(k) ==
    /\ call[k] = "write"
    /\ \/ /\ written' = IF elf = NoElf THEN written ELSE arg[k]
          /\ Goto(k, "update")
       \/ /\ elf # NoElf
          /\ UNCHANGED written
          /\ Reply(k, "error")
    /\ UNCHANGED <<elf, links, held, kernelVars, attachments, storeVars, ready, service>>

\* ConfigStore::update validates once more, against the store's own maxima.
SetConfigUpdate(k) ==
    /\ call[k] = "update"
    /\ \/ /\ Valid(arg[k], StoreMax)
          /\ snapshot' = [config |-> arg[k], revision |-> nextRevision]
          /\ nextRevision' = nextRevision + 1
          /\ Reply(k, "ok")
       \/ /\ ~Valid(arg[k], StoreMax)
          /\ UNCHANGED storeVars
          /\ Reply(k, "error")
    /\ UNCHANGED <<backendVars, ready, service>>

-----------------------------------------------------------------------------
(* The runtime: serve ends on Ctrl-C once the calls in progress have ended,  *)
(* then everything owned is detached.                                       *)

Drain ==
    /\ service = "serving"
    /\ service' = "draining"
    /\ UNCHANGED <<call, arg, queue, backendVars, created, storeVars, ready>>

Shutdown ==
    /\ service = "draining"
    /\ \A k \in Calls : call[k] \in {"idle", "ok", "error"}
    /\ ready' = FALSE
    /\ \E refused \in SUBSET attachments :
         LET done == Detached(held, attachments, refused) IN
         /\ attachments' = attachments \ done
         /\ AdapterDetach(links, held, kernel, attachments, refused)
         /\ service' = IF done = attachments THEN "exited cleanly" ELSE "exited with an error"
    /\ UNCHANGED <<call, arg, queue, elf, written, created, storeVars>>
=============================================================================
