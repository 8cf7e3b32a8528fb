-------------------------- MODULE ControlTransport --------------------------
(***************************************************************************)
(* The TLS transport between host proxies and the control service, and the *)
(* life of the two programs around it: start-up, the listener with its     *)
(* bounded pool of handshakes, the handshake as both sides see it, the     *)
(* calls that attach and detach, and the way out.                          *)
(*                                                                         *)
(* Both TLS features are covered.  With tls-rustls each side pins the leaf *)
(* certificate of the other; a TLS 1.3 client is done once it has checked  *)
(* the server and answered, before the server has checked it.  With        *)
(* tls-psk (TLS 1.2) both know one identity and secret, and the client is  *)
(* done after the server.  What a call does is the subject of              *)
(* HostActivation; here it attaches or detaches, or fails.                 *)
(***************************************************************************)
EXTENDS Naturals, FiniteSets, Sequences

CONSTANTS
    Hosts,          \* host proxy processes
    Strays,         \* other programs that reach the control port
    Leaf,           \* the leaf certificate of a process
    Pin,            \* the certificate a process expects of its peer
    Secret,         \* the PSK identity and secret of a process
    OffersH2,       \* the peers whose TLS client offers HTTP/2
    MaxHandshakes   \* handshakes in progress at a time, 64 in the code

ASSUME TransportAssumption ==
    /\ Hosts \cap Strays = {} /\ Hosts \subseteq OffersH2
    /\ \A s \in Strays : Leaf[s] # Pin["server"] /\ Secret[s] # Secret["server"]

Peers == Hosts \cup Strays
Builds == {"tls-psk", "tls-rustls"}

VARIABLES
    build,          \* the TLS feature the programs were built with
    server,         \* where the control service process stands
    backlog,        \* connections the kernel has completed, in order
    conn,           \* the service's side of each peer's connection
    phase,          \* where each peer stands
    owned,          \* the hosts whose classifiers the service has attached and recorded
    stranded        \* the hosts of which a failed attach left classifiers unrecorded

vars == <<build, server, backlog, conn, phase, owned, stranded>>

Calling == {"attaching", "detaching"}
Open == {"served"} \cup Calling
Ended == {"exit 0", "exit 1", "exit 2"}
Connected == {"connected", "waiting", "running", "leaving"}

TypeOK ==
    /\ build \in Builds
    /\ server \in {"starting", "started", "listening", "stopping", "failed"} \cup Ended
    /\ backlog \in Seq(Peers)
    /\ conn \in [Peers -> {"none", "backlog", "handshake", "dropped"} \cup Open]
    /\ phase \in [Peers -> {"starting", "connecting", "handshaking", "answered"}
                             \cup Connected \cup Ended]
    /\ owned \subseteq Hosts /\ stranded \subseteq Hosts

Init ==
    /\ build \in Builds
    /\ server = "starting"
    /\ backlog = <<>>
    /\ conn = [p \in Peers |-> "none"]
    /\ phase = [p \in Peers |-> IF p \in Hosts THEN "starting" ELSE "connecting"]
    /\ owned = {} /\ stranded = {}

-----------------------------------------------------------------------------
(* Start-up. *)

ServerGoes(where) ==
    /\ server' = where
    /\ UNCHANGED <<build, backlog, conn, phase, owned, stranded>>

\* main: exit 1 for an address or a hook layout that does not parse, exit 2 for
\* TLS settings that do not resolve or name files that do not load, exit 1 when
\* start_with_tls makes no TLS context of them.
StartServer ==
    /\ server = "starting"
    /\ \E where \in {"exit 1", "exit 2", "started"} : ServerGoes(where)

\* serve binds the listener.  When that fails the runtime is shut down all
\* the same.
Bind ==
    /\ server = "started"
    /\ ServerGoes("listening") \/ ServerGoes("failed")

HostGoes(p, where) == phase' = [phase EXCEPT ![p] = where]

\* The host's run up to ProxyConfig::validate: exit 2 for settings that do not
\* resolve.
StartHost(p) ==
    /\ p \in Hosts /\ phase[p] = "starting"
    /\ \E where \in {"exit 2", "connecting"} : HostGoes(p, where)
    /\ UNCHANGED <<build, server, backlog, conn, owned, stranded>>

-----------------------------------------------------------------------------
(* The listener. *)

Handshakes == {p \in Peers : conn[p] = "handshake"}

ConnGoes(p, where) == conn' = [conn EXCEPT ![p] = where]

\* connect_tls: the TCP connection.  A host tries once, within five seconds,
\* and its certificate files may not load; others may come back.
Connect(p) ==
    /\ phase[p] = "connecting"
    /\ \/ /\ server = "listening" /\ conn[p] \in {"none", "dropped"}
          /\ backlog' = Append(backlog, p)
          /\ ConnGoes(p, "backlog")
          /\ HostGoes(p, "handshaking")
       \/ /\ p \in Hosts
          /\ HostGoes(p, "exit 1")
          /\ UNCHANGED <<backlog, conn>>
    /\ UNCHANGED <<build, server, owned, stranded>>

\* incoming: buffer_unordered takes the next connection while fewer than
\* MaxHandshakes are in progress.
Accept ==
    /\ server = "listening" /\ backlog # <<>>
    /\ Cardinality(Handshakes) < MaxHandshakes
    /\ ConnGoes(Head(backlog), "handshake")
    /\ backlog' = Tail(backlog)
    /\ UNCHANGED <<build, server, phase, owned, stranded>>

-----------------------------------------------------------------------------
(* The handshake. *)

\* verify_server_cert, in the client.  A leaf that is pinned but expired, or of
\* the wrong usage, is as good as another.
VerifyServerCert(p) == Leaf["server"] = Pin[p]

\* verify_client_cert, in the service.
VerifyClientCert(p) == Leaf[p] = Pin["server"]

\* The PSK callbacks give the same key on both sides.
SamePsk(p) == Secret[p] = Secret["server"]

\* The host has seen the server's flight and answers it.  With a PSK there is
\* nothing to check yet.  Others may answer anything.
AnswersUnchecked(p) ==
    /\ phase[p] = "handshaking" /\ conn[p] = "handshake"
    /\ HostGoes(p, "answered")
    /\ UNCHANGED <<build, server, backlog, conn, owned, stranded>>

Answers(p) ==
    /\ phase[p] = "handshaking" /\ conn[p] = "handshake"
    /\ p \in Hosts /\ build = "tls-rustls" => VerifyServerCert(p)
    /\ HostGoes(p, "answered")
    /\ UNCHANGED <<build, server, backlog, conn, owned, stranded>>

\* The host's side of the handshake fails, or takes five seconds.
GiveUp(p) ==
    /\ phase[p] \in {"handshaking", "answered"}
    /\ HostGoes(p, IF p \in Hosts THEN "exit 1" ELSE "connecting")
    /\ UNCHANGED <<build, server, backlog, conn, owned, stranded>>

Verified(p) == IF build = "tls-psk" THEN SamePsk(p) ELSE VerifyClientCert(p)

\* accept_tls, accept_rustls: the connection goes to the gRPC server.
HandshakeDone(p) ==
    /\ conn[p] = "handshake" /\ phase[p] \in {"answered"} \cup Connected
    /\ Verified(p) /\ p \in OffersH2
    /\ ConnGoes(p, "served")
    /\ UNCHANGED <<build, server, backlog, phase, owned, stranded>>

\* drop_failed_connection: an answer that does not verify, no HTTP/2, garbage,
\* or a peer that has gone.
HandshakeFails(p) ==
    /\ conn[p] = "handshake"
    /\ \/ p \in Strays
       \/ phase[p] \in {"answered"} \cup Connected /\ ~Verified(p)
       \/ phase[p] \in Ended
    /\ ConnGoes(p, "dropped")
    /\ UNCHANGED <<build, server, backlog, phase, owned, stranded>>

AnsweredTimesOut(p) ==
    /\ conn[p] = "handshake" /\ phase[p] = "answered"
    /\ ConnGoes(p, "dropped")
    /\ UNCHANGED <<build, server, backlog, phase, owned, stranded>>

\* Five seconds in the service.
HandshakeTimesOut(p) ==
    /\ conn[p] = "handshake"
    /\ ConnGoes(p, "dropped")
    /\ UNCHANGED <<build, server, backlog, phase, owned, stranded>>

\* The host's side is done: in TLS 1.3 with its answer, ...
RustlsConnects(p) ==
    /\ p \in Hosts /\ build = "tls-rustls" /\ phase[p] = "answered"
    /\ HostGoes(p, "connected")
    /\ UNCHANGED <<build, server, backlog, conn, owned, stranded>>

\* ... and in TLS 1.2 with the server's.
PskConnects(p) ==
    /\ p \in Hosts /\ build = "tls-psk" /\ phase[p] = "answered" /\ conn[p] = "served"
    /\ HostGoes(p, "connected")
    /\ UNCHANGED <<build, server, backlog, conn, owned, stranded>>

-----------------------------------------------------------------------------
(* Calls on a connection, one at a time; see HostActivation. *)

\* activate.  A channel that finds its connection gone connects again.  A host
\* whose listener cannot be bound, or whose call is refused, exits.
Activate(p) ==
    /\ phase[p] = "connected"
    /\ \/ /\ conn[p] = "served" /\ server = "listening"
          /\ ConnGoes(p, "attaching") /\ HostGoes(p, "waiting")
       \/ conn[p] = "dropped" /\ UNCHANGED conn /\ HostGoes(p, "connecting")
       \/ UNCHANGED conn /\ HostGoes(p, "exit 1")
    /\ UNCHANGED <<build, server, backlog, owned, stranded>>

\* Ctrl-C in the host, or the end of forwarding: detach.  The connection of a
\* running host is lost only with the service itself, and then it cannot be made
\* again.
Leave(p) ==
    /\ phase[p] = "running"
    /\ \/ /\ conn[p] = "served" /\ server = "listening"
          /\ ConnGoes(p, "detaching") /\ HostGoes(p, "leaving")
       \/ UNCHANGED conn /\ HostGoes(p, "exit 1")
    /\ UNCHANGED <<build, server, backlog, owned, stranded>>

\* bounded_rpc: the host does not wait longer; the handler may go on.
Deadline(p) ==
    /\ phase[p] \in {"waiting", "leaving"}
    /\ HostGoes(p, "exit 1")
    /\ UNCHANGED <<build, server, backlog, conn, owned, stranded>>

Attached(p) ==
    /\ conn[p] = "attaching"
    /\ owned' = owned \cup {p}
    /\ ConnGoes(p, "served")
    /\ HostGoes(p, IF phase[p] = "waiting" THEN "running" ELSE phase[p])
    /\ UNCHANGED <<build, server, backlog, stranded>>

Detached(p) ==
    /\ conn[p] = "detaching"
    /\ owned' = owned \ {p}
    /\ ConnGoes(p, "served")
    /\ \E end \in {"exit 0", "exit 1"} :     \* forwarding itself may have failed
         HostGoes(p, IF phase[p] = "leaving" THEN end ELSE phase[p])
    /\ UNCHANGED <<build, server, backlog, stranded>>

\* A call fails.  What a failed Attach had attached is taken back, unless that
\* fails as well: what the backend's attach cannot take back it has not recorded
\* yet, what rollback_attach cannot take back stays recorded.  A failed Detach
\* leaves what it could not detach recorded.
CallFails(p) ==
    /\ conn[p] \in Calling
    /\ \/ UNCHANGED <<owned, stranded>>
       \/ /\ conn[p] = "attaching"
          /\ \/ stranded' = stranded \cup {p} /\ UNCHANGED owned
             \/ owned' = owned \cup {p} /\ UNCHANGED stranded
    /\ ConnGoes(p, "served")
    /\ HostGoes(p, IF phase[p] \in {"waiting", "leaving"} THEN "exit 1" ELSE phase[p])
    /\ UNCHANGED <<build, server, backlog>>

PeerCloses(p) ==
    /\ conn[p] = "served" /\ phase[p] \in Ended
    /\ ConnGoes(p, "dropped")
    /\ UNCHANGED <<build, server, backlog, phase, owned, stranded>>

-----------------------------------------------------------------------------
(* The way out of the service. *)

\* serve_with_incoming_shutdown stops listening: the stream is dropped with
\* its handshakes.  Calls in progress go on.
CtrlC ==
    /\ server = "listening"
    /\ server' = "stopping"
    /\ backlog' = <<>>
    /\ conn' = [p \in Peers |-> IF conn[p] \in {"backlog", "handshake"} THEN "dropped" ELSE conn[p]]
    /\ UNCHANGED <<build, phase, owned, stranded>>

\* shutdown detaches what is recorded, whatever serve returned; the exit status
\* tells whether either failed, and nothing of what was never recorded.
Exits ==
    /\ \E left \in SUBSET owned :
         /\ owned' = left
         /\ server' = IF server = "failed" \/ left # {} THEN "exit 1" ELSE "exit 0"
    /\ UNCHANGED <<build, backlog, phase, stranded>>

CleanupDuringCalls ==
    /\ server \in {"stopping", "failed"}
    /\ conn' = [p \in Peers |-> IF conn[p] = "served" THEN "dropped" ELSE conn[p]]
    /\ Exits

Cleanup ==
    /\ server \in {"stopping", "failed"}
    /\ \A p \in Peers : conn[p] \notin Calling
    /\ conn' = [p \in Peers |-> IF conn[p] = "served" THEN "dropped" ELSE conn[p]]
    /\ Exits

-----------------------------------------------------------------------------
Peer(p) ==
    \/ StartHost(p) \/ Connect(p) \/ Answers(p) \/ GiveUp(p)
    \/ RustlsConnects(p) \/ PskConnects(p) \/ Activate(p) \/ Leave(p) \/ Deadline(p)

Service(p) ==
    \/ HandshakeDone(p) \/ HandshakeFails(p) \/ HandshakeTimesOut(p)
    \/ Attached(p) \/ Detached(p) \/ CallFails(p) \/ PeerCloses(p)

Next ==
    \/ StartServer \/ Bind \/ Accept \/ CtrlC \/ Cleanup
    \/ \E p \in Peers : Peer(p) \/ Service(p)

Spec == Init /\ [][Next]_vars

\* The gRPC server polls the stream of connections for as long as it serves,
\* and every handshake has a timer of its own; that some timer fires while
\* handshakes are pending is enough.  Nothing is assumed of peers.
FairSpec ==
    /\ Spec
    /\ WF_vars(Accept)
    /\ WF_vars(\E p \in Peers : HandshakeTimesOut(p))

-----------------------------------------------------------------------------
(* The service takes calls only from a peer it has verified, and one of our
   hosts then has verified the service; a host believes itself connected only
   to the service it pinned, also in TLS 1.3, where it is done first
   (tls-rustls/src/lib.rs, the two verifiers; transport.rs, accept_rustls and
   build_context). *)
MutuallyPinned ==
    /\ \A p \in Peers : conn[p] \in Open =>
         /\ p \in Hosts
         /\ IF build = "tls-psk" THEN SamePsk(p) ELSE VerifyServerCert(p) /\ VerifyClientCert(p)
    /\ \A p \in Hosts : phase[p] \in Connected =>
         IF build = "tls-psk" THEN SamePsk(p) ELSE VerifyServerCert(p)

(* A service that exits successfully has detached everything it recorded,
   whatever calls were in progress when it was stopped and whatever their hosts
   still wait for.  Classifiers may be left all the same, since shutdown does
   not know of those that a failing attach could not take back; but they are of
   a host whose activation failed, never of one that was told it is attached
   (main.rs, main; lifecycle.rs, serve and shutdown; bpf.rs, attach). *)
ExitReleases ==
    server = "exit 0" => owned = {} /\ \A p \in stranded : phase[p] = "exit 1"

(* A connection does not wait for ever behind peers that never finish their
   handshakes: the pool may be full of them, but each leaves it in time
   (transport.rs, incoming, accept_tls and accept_rustls). *)
BacklogDrains == \A p \in Peers : conn[p] = "backlog" ~> conn[p] # "backlog"
=============================================================================
