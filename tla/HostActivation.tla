--------------------------- MODULE HostActivation ---------------------------
(***************************************************************************)
(* The host proxy processes against the control service: activation        *)
(* (Attach, GetConfig, SetConfig with the proxy as its family's target,    *)
(* Detach of the interface when that fails), the running proxy, and the    *)
(* Detach on the way out.  Every RPC is bounded on both sides: the host    *)
(* may give up while the handler goes on, and the handler may be dropped   *)
(* before the host has given up.                                           *)
(***************************************************************************)
EXTENDS ControlService

CONSTANTS
    FamilyOf,       \* the family of a host's listener
    Capacities      \* flow capacities an operator asks for

VARIABLES
    host            \* where each host process, or operator, stands

vars == <<serverVars, host>>

Hosts == Clients \ Operators

Init == ServerInit /\ host = [c \in Clients |-> "start"]

-----------------------------------------------------------------------------
\* A request is sent; once the service drains, it is refused.
Send(k, config) ==
    /\ arg' = [arg EXCEPT ![k] = config]
    /\ call' = [call EXCEPT ![k] = IF service = "serving" THEN "begin" ELSE "error"]
    /\ UNCHANGED <<queue, backendVars, created, storeVars, ready, service>>

At(c, state) == host[c] = state

To(c, state) == host' = [host EXCEPT ![c] = state]

\* bounded_rpc: the reply, or the local deadline.
Succeeds(k) == call[k] = "ok"
Fails(k) == call[k] # "ok"

StartAttach(c) ==
    /\ At(c, "start") /\ c \in Hosts
    /\ Send(<<c, "attach">>, Initial)
    /\ To(c, "attaching")

\* A failed Attach ends activation, and the process, without a Detach.
AttachFails(c) ==
    /\ At(c, "attaching") /\ Fails(<<c, "attach">>)
    /\ To(c, "failed")
    /\ UNCHANGED serverVars

StartGetConfig(c) ==
    /\ At(c, "attaching") /\ Succeeds(<<c, "attach">>)
    /\ Send(<<c, "get">>, Initial)
    /\ To(c, "getting")

\* The configuration that was read, with this proxy as its family's target.
StartSetConfig(c) ==
    /\ At(c, "getting") /\ Succeeds(<<c, "get">>)
    /\ Send(<<c, "set">>, [arg[<<c, "get">>] EXCEPT !.target[FamilyOf[c]] = c])
    /\ To(c, "setting")

RollBackActivation(c) ==
    /\ \/ At(c, "getting") /\ Fails(<<c, "get">>)
       \/ At(c, "setting") /\ Fails(<<c, "set">>)
    /\ Send(<<c, "detach">>, Initial)
    /\ To(c, "rolling back")

\* Activation has failed whatever the Detach answers.
RolledBack(c) ==
    /\ At(c, "rolling back")
    /\ To(c, "failed")
    /\ UNCHANGED serverVars

Activated(c) ==
    /\ At(c, "setting") /\ Succeeds(<<c, "set">>)
    /\ To(c, "running")
    /\ UNCHANGED serverVars

\* Ctrl-C, or the proxy task ended by itself.
Leave(c) ==
    /\ At(c, "running")
    /\ Send(<<c, "detach">>, Initial)
    /\ To(c, "leaving")

Exit(c) ==
    /\ At(c, "leaving")
    /\ To(c, IF Succeeds(<<c, "detach">>) THEN "left" ELSE "failed")
    /\ UNCHANGED serverVars

-----------------------------------------------------------------------------
(* An operator attaches, changes the capacity of the configuration it reads, *)
(* and detaches everything, whatever its calls answer.                      *)

OperatorAttaches(c) ==
    /\ At(c, "start") /\ c \in Operators
    /\ Send(<<c, "attach">>, Initial)
    /\ To(c, "operator attaching")

OperatorSets(c) ==
    /\ At(c, "operator attaching")
    /\ \E n \in Capacities : Send(<<c, "set">>, [snapshot.config EXCEPT !.capacity = n])
    /\ To(c, "operator setting")

OperatorDetaches(c) ==
    /\ At(c, "operator setting")
    /\ Send(<<c, "detach">>, Initial)
    /\ To(c, "left")

-----------------------------------------------------------------------------
\* A running proxy's maintenance uses operation_lock as well.
Busy == \E c \in Hosts : At(c, "running")

Handler(k) ==
    \/ Malformed(k) \/ JoinTransaction(k) \/ EnterAttach(k) \/ AttachRefused(k)
    \/ BackendAttach(k) \/ BackendAttachFails(k) \/ AttachConfig(k) \/ RollbackAttach(k)
    \/ AttachReady(k) \/ EnterDetach(k) \/ BackendDetach(k) \/ DetachCheck(k) \/ DetachClear(k)
    \/ GetConfig(k) \/ SetConfigCheck(k) \/ SetConfigWrite(k) \/ SetConfigUpdate(k)

Process(c) ==
    \/ StartAttach(c) \/ AttachFails(c) \/ StartGetConfig(c) \/ StartSetConfig(c)
    \/ RollBackActivation(c) \/ RolledBack(c) \/ Activated(c) \/ Leave(c) \/ Exit(c)
    \/ OperatorAttaches(c) \/ OperatorSets(c) \/ OperatorDetaches(c)

Next ==
    \/ \E k \in Calls : (Handler(k) \/ Cancel(k, Busy)) /\ UNCHANGED host
    \/ (Drain \/ Shutdown) /\ UNCHANGED host
    \/ \E c \in Clients : Process(c)

Spec == Init /\ [][Next]_vars

\* The server's executor keeps polling handlers that can go on.  Nothing is
\* assumed of the clients.
Fairness == WF_vars((\E k \in Calls : Handler(k)) /\ UNCHANGED host)

FairSpec == Spec /\ Fairness

-----------------------------------------------------------------------------
(* What the backend reports as attached is installed, also after failed
   attaches, rollbacks that find a link already detached, and refused kernel
   operations (bpf.rs, attach, rollback_attach and detach). *)
ReportedInstalled == \A a \in attachments : kernel[a] > 0

(* As long as the kernel has not refused to remove a classifier, the backend,
   the adapter, its programs and the kernel agree on what is attached, whatever
   handlers failed, overlapped or were dropped (bpf.rs, attach, rollback_attach
   and detach). *)
OwnershipExact ==
    ~refusals =>
        /\ attachments = links /\ links = held
        /\ \A a \in Attachments : kernel[a] = IF a \in links THEN 1 ELSE 0

(* Outside of a transaction a runtime-config map that has been written holds
   the configuration that readers see (service.rs, config_transaction:
   "Serializes attach/configure publication so the BPF map and snapshot cannot
   expose different revisions"), with one exception. set_config validates
   against the maps of the loaded object and writes the map before
   ConfigStore::update validates against the default maxima: with an object
   whose maps are larger, a configuration that only the store refuses stays in
   the map until the next write of it. No other failure, dropped handler or
   interleaving separates the two. *)
RefusedByStore(config) == ~Valid(config, StoreMax)
MapMatchesSnapshot ==
    queue = <<>> /\ written # Unwritten =>
        written = snapshot.config \/ RefusedByStore(written)

(* Every request that was accepted is answered, or its handler dropped: neither
   mutex is left locked by a handler that failed or was dropped, and no two
   handlers wait for each other (service.rs, attach, detach and set_config). *)
RpcReturns == []<>(\A k \in Calls : call[k] \in {"idle", "ok", "error"})
=============================================================================
