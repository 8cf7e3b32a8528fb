-------------------------- MODULE TransportProofs --------------------------
(***************************************************************************)
(* Proofs about the control transport, for any hosts, other peers and      *)
(* credentials: calls are taken from verified hosts only, by a service     *)
(* those hosts have pinned, and a service that exits successfully leaves   *)
(* attached only what a failed activation could not take back.             *)
(***************************************************************************)
EXTENDS ControlTransport, TLAPS

(* Both verifications, at the points where each side has done its own. *)
Pinned ==
    /\ \A p \in Peers : conn[p] \in Open =>
          /\ p \in Hosts /\ Verified(p)
          /\ build = "tls-rustls" => VerifyServerCert(p)
    /\ \A p \in Hosts :
          /\ phase[p] \in {"answered"} \cup Connected /\ build = "tls-rustls" => VerifyServerCert(p)
          /\ phase[p] \in Connected /\ build = "tls-psk" => SamePsk(p)

(* Handshakes end with the listener, connections with the process, only a
   service that has listened owns anything, and what it does not know of is of a
   host that has given up; a host with an Attach in progress waits for it or has
   given up as well. *)
Released ==
    /\ server # "listening" => \A p \in Peers : conn[p] \notin {"backlog", "handshake"}
    /\ server \notin {"listening", "stopping"} => \A p \in Peers : conn[p] \notin Open
    /\ server \in {"starting", "started", "failed", "exit 0"} => owned = {}
    /\ \A p \in stranded : phase[p] = "exit 1"
    /\ \A p \in Peers : conn[p] = "attaching" => phase[p] \in {"waiting", "exit 1"}

TransportInv == TypeOK /\ Pinned /\ Released

Conns == {"none", "backlog", "handshake", "dropped"} \cup Open
Phases == {"starting", "connecting", "handshaking", "answered"} \cup Connected \cup Ended
Stages == {"starting", "started", "listening", "stopping", "failed"} \cup Ended

-----------------------------------------------------------------------------
\* Steps of one component.

\* A step of one peer or of its connection.
LEMMA PeerTypes ==
  ASSUME TypeOK, NEW p \in Peers
  PROVE  /\ \A where \in Phases : HostGoes(p, where) =>
                /\ phase' \in [Peers -> Phases] /\ phase'[p] = where
                /\ \A q \in Peers \ {p} : phase'[q] = phase[q]
         /\ \A where \in Conns : ConnGoes(p, where) =>
                /\ conn' \in [Peers -> Conns] /\ conn'[p] = where
                /\ \A q \in Peers \ {p} : conn'[q] = conn[q]
BY DEF TypeOK, HostGoes, ConnGoes, Phases, Conns

-----------------------------------------------------------------------------
\* The service itself.

\* Start-up and bind: nobody is connected yet.
LEMMA ServerKeeps ==
  ASSUME TransportInv, StartServer \/ Bind
  PROVE  TransportInv'
<1>1. PICK where \in {"exit 1", "exit 2", "started", "listening", "failed"} : ServerGoes(where)
  BY ZenonT(30) DEF StartServer, Bind
<1>2. server \in {"starting", "started"} /\ server' = where
  BY ZenonT(30), <1>1 DEF StartServer, Bind, ServerGoes
<1>3. UNCHANGED <<build, backlog, conn, phase, owned, stranded>>
  BY ZenonT(30), <1>1 DEF ServerGoes
<1>4. TypeOK'
  BY ZenonT(30), <1>2, <1>3 DEF TransportInv, TypeOK, Ended
<1>5. Pinned'
  BY ZenonT(30), <1>3 DEF TransportInv, Pinned, Verified
<1>6. Released'
  BY ZenonT(30), <1>2, <1>3 DEF TransportInv, Released
<1> QED BY ZenonT(30), <1>4, <1>5, <1>6 DEF TransportInv

\* The listener takes a connection into its pool of handshakes.
LEMMA AcceptKeeps ==
  ASSUME TransportInv, Accept
  PROVE  TransportInv'
<1>1. Head(backlog) \in Peers /\ Tail(backlog) \in Seq(Peers)
  BY DEF TransportInv, TypeOK, Accept
<1>2. /\ conn' \in [Peers -> Conns] /\ conn'[Head(backlog)] = "handshake"
      /\ \A q \in Peers \ {Head(backlog)} : conn'[q] = conn[q]
  BY <1>1, PeerTypes DEF TransportInv, Accept, Conns
<1>3. server = "listening" /\ backlog' = Tail(backlog) /\ UNCHANGED <<build, server, phase, owned, stranded>>
  BY DEF Accept
<1>4. TypeOK'
  BY <1>1, <1>2, <1>3 DEF TransportInv, TypeOK, Conns
<1>5. Pinned'
  BY <1>2, <1>3 DEF TransportInv, Pinned, Verified, Open, Calling
<1>6. Released'
  <2>1. \A p \in Peers : conn'[p] = "attaching" => conn[p] = "attaching"
    BY ZenonT(30), <1>2
  <2> QED BY ZenonT(30), <1>3, <2>1 DEF TransportInv, Released
<1> QED BY <1>4, <1>5, <1>6 DEF TransportInv

\* Ctrl-C ends the handshakes and leaves the calls in progress.
LEMMA CtrlCKeeps ==
  ASSUME TransportInv, CtrlC
  PROVE  TransportInv'
<1>1. /\ server = "listening" /\ server' = "stopping" /\ backlog' = <<>>
      /\ UNCHANGED <<build, phase, owned, stranded>>
  BY DEF CtrlC
<1>2. /\ conn' \in [Peers -> Conns]
      /\ \A p \in Peers : conn'[p] \in {conn[p], "dropped"}
                            /\ conn'[p] \notin {"backlog", "handshake"}
  BY DEF CtrlC, TransportInv, TypeOK, Conns
<1>3. TypeOK'
  BY <1>1, <1>2 DEF TransportInv, TypeOK, Conns
<1>4. Pinned'
  BY <1>1, <1>2 DEF TransportInv, Pinned, Verified, Open, Calling
<1>5. Released'
  <2>1. \A p \in Peers : conn'[p] = "attaching" => conn[p] = "attaching"
    BY ZenonT(30), <1>2
  <2> QED BY ZenonT(30), <1>1, <1>2, <2>1 DEF TransportInv, Released
<1> QED BY <1>3, <1>4, <1>5 DEF TransportInv

\* The clean-up releases what it can and exits accordingly.
LEMMA CleanupKeeps ==
  ASSUME TransportInv, Cleanup
  PROVE  TransportInv'
<1>1. /\ server \in {"stopping", "failed"} /\ server' \in {"exit 0", "exit 1"}
      /\ owned' \subseteq owned /\ (server' = "exit 0" => owned' = {})
      /\ UNCHANGED <<build, backlog, phase, stranded>>
  BY ZenonT(30) DEF Cleanup, Exits
<1>2. /\ conn' \in [Peers -> Conns]
      /\ \A p \in Peers : conn'[p] \in {conn[p], "dropped"} /\ conn'[p] \notin Open
  <2>1. conn \in [Peers -> Conns]
    BY DEF TransportInv, TypeOK, Conns
  <2>2. conn' = [p \in Peers |-> IF conn[p] = "served" THEN "dropped" ELSE conn[p]]
    BY DEF Cleanup
  <2>3. ASSUME NEW p \in Peers
        PROVE  conn'[p] \in Conns /\ conn'[p] \in {conn[p], "dropped"} /\ conn'[p] \notin Open
    <3>1. CASE conn[p] = "served"
      BY <2>2, <3>1 DEF Open, Calling, Conns
    <3>2. CASE conn[p] # "served"
      BY <2>1, <2>2, <3>2 DEF Open, Cleanup
    <3> QED BY <3>1, <3>2
  <2> QED BY <2>2, <2>3
<1>3. TypeOK'
  BY ZenonT(30), <1>1, <1>2 DEF TransportInv, TypeOK, Conns, Ended
<1>4. Pinned'
  BY ZenonT(30), <1>1, <1>2 DEF TransportInv, Pinned, Verified
<1>5. Released'
  BY ZenonT(30), <1>1, <1>2 DEF TransportInv, Released
<1> QED BY <1>3, <1>4, <1>5 DEF TransportInv

-----------------------------------------------------------------------------
\* Peers.

\* A peer's step that changes neither its connection nor what is owned; one that
\* waits can only give up, one that has given up takes no step.
LEMMA PhaseKeeps ==
  ASSUME TransportInv, NEW p \in Peers, NEW where \in Phases, HostGoes(p, where),
         phase[p] # "exit 1", phase[p] = "waiting" => where = "exit 1",
         UNCHANGED <<build, server, backlog, conn, owned, stranded>>,
         p \in Hosts /\ where \in {"answered"} \cup Connected /\ build = "tls-rustls"
             => VerifyServerCert(p),
         p \in Hosts /\ where \in Connected /\ build = "tls-psk" => SamePsk(p)
  PROVE  TransportInv'
<1>1. /\ phase' \in [Peers -> Phases] /\ phase'[p] = where
      /\ \A q \in Peers \ {p} : phase'[q] = phase[q]
  BY PeerTypes DEF TransportInv
<1>2. TypeOK'
  BY <1>1 DEF TransportInv, TypeOK, Phases
<1>3. Pinned'
  <2>1. ASSUME NEW q \in Hosts
        PROVE  /\ phase'[q] \in {"answered"} \cup Connected /\ build = "tls-rustls" => VerifyServerCert(q)
               /\ phase'[q] \in Connected /\ build = "tls-psk" => SamePsk(q)
    BY <1>1 DEF TransportInv, Pinned, Peers
  <2> QED BY <2>1 DEF TransportInv, Pinned, Verified
<1>4. Released'
  <2>1. Released
    BY DEF TransportInv
  <2>2. stranded \subseteq Peers
    BY DEF TransportInv, TypeOK, Peers
  <2>3. \A q \in stranded : phase'[q] = "exit 1"
    BY ZenonT(30), <1>1, <2>1, <2>2 DEF Released
  <2>4. \A q \in Peers : conn[q] = "attaching" => phase'[q] \in {"waiting", "exit 1"}
    BY ZenonT(30), <1>1, <2>1 DEF Released
  <2> QED BY ZenonT(30), <2>1, <2>3, <2>4 DEF Released
<1> QED BY <1>2, <1>3, <1>4 DEF TransportInv

\* A step of a connection: it is open only to a verified host, handshakes only
\* with a listener, and is open only in a service that runs; its host waits for
\* an Attach, and gives up when it fails.
LEMMA ConnKeeps ==
  ASSUME TransportInv, NEW p \in Peers, NEW where \in Conns, ConnGoes(p, where),
         backlog' \in Seq(Peers), UNCHANGED <<build, server>>,
         phase' \in [Peers -> Phases], owned' \in SUBSET Hosts, stranded' \in SUBSET Hosts,
         \A q \in Peers \ {p} : phase'[q] = phase[q],
         \A q \in stranded' : q \in stranded \/ q = p,
         p \in stranded' => phase'[p] = "exit 1",
         where = "attaching" => phase'[p] \in {"waiting", "exit 1"},
         \A q \in Hosts : phase'[q] \in Connected => phase[q] \in Connected,
         \A q \in Hosts : phase'[q] = "answered" => phase[q] = "answered",
         where \in Open => /\ p \in Hosts /\ Verified(p)
                           /\ build = "tls-rustls" => VerifyServerCert(p)
                           /\ server \in {"listening", "stopping"},
         where \in {"backlog", "handshake"} => server = "listening",
         owned' # owned => server \in {"listening", "stopping"}
  PROVE  TransportInv'
<1>1. /\ conn' \in [Peers -> Conns] /\ conn'[p] = where
      /\ \A q \in Peers \ {p} : conn'[q] = conn[q]
  BY PeerTypes DEF TransportInv
<1>2. TypeOK'
  BY <1>1 DEF TransportInv, TypeOK, Phases, Conns
<1>3. Pinned'
  <2>1. ASSUME NEW q \in Peers, conn'[q] \in Open
        PROVE  q \in Hosts /\ Verified(q) /\ (build = "tls-rustls" => VerifyServerCert(q))
    BY <1>1, <2>1 DEF TransportInv, Pinned
  <2> QED BY <2>1 DEF TransportInv, Pinned, Verified
<1>4. Released'
  <2>1. Released
    BY DEF TransportInv
  <2>2. stranded' \subseteq Peers
    BY DEF Peers
  <2>3. \A q \in stranded' : phase'[q] = "exit 1"
    BY ZenonT(30), <2>1, <2>2 DEF Released
  <2>4. \A q \in Peers : conn'[q] = "attaching" => phase'[q] \in {"waiting", "exit 1"}
    BY ZenonT(30), <1>1, <2>1 DEF Released
  <2> QED BY ZenonT(30), <1>1, <2>1, <2>3, <2>4 DEF Released
<1> QED BY <1>2, <1>3, <1>4 DEF TransportInv

\* A host proxy resolves its settings.
LEMMA StartHostKeeps ==
  ASSUME TransportInv, NEW p \in Peers, StartHost(p)
  PROVE  TransportInv'
<1>1. PICK where \in {"exit 2", "connecting"} : HostGoes(p, where)
  BY ZenonT(30) DEF StartHost
<1>2. where \in Phases /\ where \notin {"answered"} \cup Connected
  BY ZenonT(30) DEF Phases, Ended, Connected
<1>3. phase[p] \notin {"exit 1", "waiting"}
  BY DEF StartHost
<1> QED BY ZenonT(30), <1>1, <1>2, <1>3, PhaseKeeps DEF StartHost

\* A peer's own steps: a host verifies the service before it calls itself connected.
LEMMA PeerKeeps ==
  ASSUME TransportInv, NEW p \in Peers,
         Connect(p) \/ Answers(p) \/ GiveUp(p) \/ RustlsConnects(p) \/ PskConnects(p)
            \/ Activate(p) \/ Leave(p) \/ Deadline(p)
  PROVE  TransportInv'
<1>a. /\ TypeOK /\ owned \subseteq Hosts /\ stranded \subseteq Hosts /\ backlog \in Seq(Peers) /\ phase \in [Peers -> Phases]
      /\ build \in Builds
  BY ZenonT(30) DEF TransportInv, TypeOK, Phases
<1>b. \A where \in {"answered", "exit 1", "connecting", "handshaking", "connected", "waiting",
                    "leaving"} : where \in Phases
  BY ZenonT(30) DEF Phases, Connected, Ended
<1>c. \A where \in {"backlog", "attaching", "detaching"} : where \in Conns
  BY DEF Conns, Open, Calling
<1>d. /\ \A where \in {"exit 1", "connecting", "handshaking"} : where \notin {"answered"} \cup Connected
      /\ "answered" \notin Connected /\ "connected" \in Connected /\ "waiting" \in Connected
      /\ "running" \in Connected /\ "leaving" \in Connected
  BY DEF Connected
<1>e. /\ phase[p] # "exit 1" /\ (phase[p] = "waiting" => Deadline(p))
      /\ \A q \in stranded : phase[q] = "exit 1"
  <2>1. \A q \in stranded : phase[q] = "exit 1"
    BY DEF TransportInv, Released
  <2>2. phase[p] \in {"connecting", "handshaking", "answered", "connected", "running"} \/ Deadline(p)
    BY ZenonT(30) DEF Connect, Answers, GiveUp, RustlsConnects, PskConnects, Activate, Leave
  <2>3. Deadline(p) => phase[p] \in {"waiting", "leaving"}
    BY DEF Deadline
  <2> QED BY <2>1, <2>2, <2>3
<1>f. p \notin stranded
  BY ZenonT(30), <1>e
<1>1. CASE Connect(p)
  <2>1. CASE /\ server = "listening" /\ backlog' = Append(backlog, p)
             /\ ConnGoes(p, "backlog") /\ HostGoes(p, "handshaking")
    <3>1. backlog' \in Seq(Peers)
      BY <1>a, <2>1
    <3>2. /\ phase' \in [Peers -> Phases] /\ phase'[p] = "handshaking"
          /\ \A q \in Peers \ {p} : phase'[q] = phase[q]
      BY ZenonT(30), <1>a, <1>b, <2>1, PeerTypes
    <3>3. "backlog" \notin Open /\ UNCHANGED <<build, server, owned, stranded>>
      BY ZenonT(30), <1>1 DEF Open, Calling, Connect
    <3>4. \A q \in Hosts : /\ phase'[q] \in Connected => phase[q] \in Connected
                           /\ phase'[q] = "answered" => phase[q] = "answered"
      BY ZenonT(30), <1>d, <3>2 DEF Peers
    <3> QED BY <1>a, <1>c, <1>f, <2>1, <3>1, <3>2, <3>3, <3>4, ConnKeeps
  <2>2. CASE HostGoes(p, "exit 1") /\ UNCHANGED <<backlog, conn>>
    BY ZenonT(30), <1>1, <1>b, <1>d, <1>e, <2>2, PhaseKeeps DEF Connect, Deadline
  <2> QED BY ZenonT(30), <1>1, <2>1, <2>2 DEF Connect
<1>2. CASE Answers(p)
  BY ZenonT(30), <1>2, <1>b, <1>d, PhaseKeeps DEF Answers
<1>3. CASE GiveUp(p)
  BY ZenonT(30), <1>3, <1>b, <1>d, PhaseKeeps DEF GiveUp
<1>4. CASE RustlsConnects(p)
  <2>1. VerifyServerCert(p) /\ build = "tls-rustls"
    BY <1>4 DEF TransportInv, Pinned, RustlsConnects
  <2> QED BY ZenonT(30), <1>4, <1>b, <2>1, PhaseKeeps DEF RustlsConnects
<1>5. CASE PskConnects(p)
  <2>1. SamePsk(p) /\ build = "tls-psk"
    BY <1>5 DEF TransportInv, Pinned, PskConnects, Verified, Open
  <2> QED BY ZenonT(30), <1>5, <1>b, <2>1, PhaseKeeps DEF PskConnects
<1>6. CASE Activate(p) \/ Leave(p)
  <2>a. phase[p] \notin {"exit 1", "waiting"}
    BY <1>6 DEF Activate, Leave
  <2>1. CASE HostGoes(p, "connecting") /\ UNCHANGED <<build, server, backlog, conn, owned, stranded>>
    BY ZenonT(30), <1>b, <1>d, <2>a, <2>1, PhaseKeeps
  <2>2. CASE HostGoes(p, "exit 1") /\ UNCHANGED <<build, server, backlog, conn, owned, stranded>>
    BY ZenonT(30), <1>b, <1>d, <2>a, <2>2, PhaseKeeps
  <2>3. CASE /\ phase[p] \in Connected /\ conn[p] = "served" /\ server = "listening"
             /\ \E call \in {"attaching", "detaching"}, where \in {"waiting", "leaving"} :
                   /\ ConnGoes(p, call) /\ HostGoes(p, where)
                   /\ call = "attaching" => where = "waiting"
             /\ UNCHANGED <<build, server, backlog, owned, stranded>>
    <3>1. PICK call \in {"attaching", "detaching"}, where \in {"waiting", "leaving"} :
             /\ ConnGoes(p, call) /\ HostGoes(p, where)
             /\ call = "attaching" => where = "waiting"
      BY <2>3
    <3>2. /\ phase' \in [Peers -> Phases] /\ phase'[p] = where
          /\ \A q \in Peers \ {p} : phase'[q] = phase[q]
      BY ZenonT(30), <1>a, <1>b, <3>1, PeerTypes
    <3>3. \A q \in Hosts : /\ phase'[q] \in Connected => phase[q] \in Connected
                           /\ phase'[q] = "answered" => phase[q] = "answered"
      BY <2>3, <3>2 DEF Peers
    <3>4. p \in Hosts /\ Verified(p) /\ (build = "tls-rustls" => VerifyServerCert(p))
      BY <2>3 DEF TransportInv, Pinned, Open
    <3>5. call \notin {"backlog", "handshake"} /\ call \in Conns
      BY <1>c
    <3> QED BY <1>a, <1>f, <2>3, <3>1, <3>2, <3>3, <3>4, <3>5, ConnKeeps
  <2> QED BY ZenonT(30), <1>6, <1>d, <2>1, <2>2, <2>3 DEF Activate, Leave
<1>7. CASE Deadline(p)
  BY ZenonT(30), <1>7, <1>b, <1>d, <1>e, PhaseKeeps DEF Deadline
<1> QED BY <1>1, <1>2, <1>3, <1>4, <1>5, <1>6, <1>7

\* The service's steps on a connection: it serves only who it verified.
LEMMA ServiceKeeps ==
  ASSUME TransportInv, NEW p \in Peers, Service(p)
  PROVE  TransportInv'
<1>a. /\ TypeOK /\ owned \subseteq Hosts /\ stranded \subseteq Hosts /\ backlog \in Seq(Peers)
      /\ phase \in [Peers -> Phases] /\ build \in Builds
      /\ \A q \in stranded : phase[q] = "exit 1"
  BY ZenonT(30) DEF TransportInv, TypeOK, Phases, Released
<1>b. /\ "served" \in Conns /\ "dropped" \in Conns /\ "dropped" \notin Open
      /\ "running" \in Phases /\ "exit 0" \in Phases /\ "exit 1" \in Phases
  BY ZenonT(30) DEF Conns, Phases, Open, Calling, Connected, Ended
<1>1. CASE HandshakeDone(p)
  <2>1. p \in Hosts
    BY <1>1, TransportAssumption DEF HandshakeDone, Verified, SamePsk, VerifyClientCert, Peers
  <2>2. Verified(p) /\ server = "listening"
    BY ZenonT(30), <1>1 DEF HandshakeDone, TransportInv, Released
  <2>3. build = "tls-rustls" => VerifyServerCert(p)
    BY <1>1, <2>1 DEF HandshakeDone, TransportInv, Pinned
  <2> QED BY ZenonT(30), <1>1, <1>a, <1>b, <2>1, <2>2, <2>3, ConnKeeps DEF HandshakeDone
<1>2. CASE HandshakeFails(p) \/ HandshakeTimesOut(p) \/ PeerCloses(p)
  <2>1. ConnGoes(p, "dropped") /\ UNCHANGED <<build, server, backlog, phase, owned, stranded>>
    BY <1>2 DEF HandshakeFails, HandshakeTimesOut, PeerCloses
  <2> QED BY ZenonT(30), <1>a, <1>b, <2>1, ConnKeeps
<1>3. CASE Attached(p) \/ Detached(p) \/ CallFails(p)
  <2>1. conn[p] \in Calling /\ ConnGoes(p, "served") /\ UNCHANGED <<build, server, backlog>>
    BY ZenonT(30), <1>3 DEF Attached, Detached, CallFails, Calling
  <2>2. conn[p] \in Open
    BY <2>1 DEF Open
  <2>3. /\ p \in Hosts /\ Verified(p) /\ (build = "tls-rustls" => VerifyServerCert(p))
        /\ server \in {"listening", "stopping"}
    BY ZenonT(30), <2>2 DEF TransportInv, Pinned, Released
  <2>4. owned' \in SUBSET Hosts
    BY ZenonT(30), <1>3, <1>a, <2>3 DEF Attached, Detached, CallFails
  <2>5. PICK where \in {phase[p], "running", "exit 0", "exit 1"} :
           HostGoes(p, where) /\ (where = "running" => phase[p] \in {"waiting", "running"})
    BY ZenonT(30), <1>3 DEF Attached, Detached, CallFails
  <2>6. where \in Phases
    BY ZenonT(30), <1>a, <1>b, <2>5
  <2>7. /\ phase' \in [Peers -> Phases] /\ phase'[p] = where
        /\ \A q \in Peers \ {p} : phase'[q] = phase[q]
    BY ZenonT(30), <1>a, <2>5, <2>6, PeerTypes
  <2>8. \A q \in Hosts : /\ phase'[q] \in Connected => phase[q] \in Connected
                         /\ phase'[q] = "answered" => phase[q] = "answered"
    BY ZenonT(30), <2>5, <2>7 DEF Peers, Connected
  <2>9. /\ stranded' \in SUBSET Hosts /\ (\A q \in stranded' : q \in stranded \/ q = p)
        /\ p \in stranded' => p \in stranded \/ (conn[p] = "attaching" /\ CallFails(p))
    BY ZenonT(30), <1>3, <1>a, <2>3 DEF Attached, Detached, CallFails
  <2>10. p \in stranded' => phase'[p] = "exit 1"
    <3>1. phase[p] = "exit 1" => where = "exit 1"
      BY ZenonT(30), <1>3, <2>5, <2>7, <1>a DEF Attached, Detached, CallFails, HostGoes, TypeOK
    <3>2. conn[p] = "attaching" => phase[p] \in {"waiting", "exit 1"}
      BY DEF TransportInv, Released
    <3>3. CallFails(p) /\ phase[p] = "waiting" => phase'[p] = "exit 1"
      BY ZenonT(30), <1>a DEF CallFails, HostGoes
    <3> QED BY ZenonT(30), <1>a, <2>7, <2>9, <3>1, <3>2, <3>3
  <2>11. "served" # "attaching" /\ "served" \notin {"backlog", "handshake"}
    OBVIOUS
  <2> QED BY ZenonT(30), <1>a, <1>b, <2>1, <2>3, <2>4, <2>7, <2>8, <2>9, <2>10, <2>11, ConnKeeps
<1> QED BY ZenonT(30), <1>1, <1>2, <1>3 DEF Service

-----------------------------------------------------------------------------
(* The inductive invariant of the transport, kept by every step of the two
   programs and of every peer. *)
THEOREM TransportInvariant == Spec => []TransportInv
<1>1. Init => TransportInv
  <2>1. SUFFICES ASSUME Init PROVE TransportInv
    OBVIOUS
  <2>2. TypeOK
    <3>1. phase \in [Peers -> {"starting", "connecting"}] /\ conn \in [Peers -> {"none"}]
      BY <2>1 DEF Init
    <3>2. backlog \in Seq(Peers)
      BY <2>1 DEF Init
    <3> QED BY <2>1, <3>1, <3>2 DEF Init, TypeOK
  <2>3. Pinned
    BY ZenonT(30), <2>1 DEF Init, Pinned, Peers, Open, Calling, Connected
  <2>4. Released
    BY ZenonT(30), <2>1 DEF Init, Released, Open, Calling
  <2> QED BY <2>2, <2>3, <2>4 DEF TransportInv
<1>2. TransportInv /\ UNCHANGED vars => TransportInv'
  BY ZenonT(30) DEF vars, TransportInv, TypeOK, Pinned, Verified, Released
<1>3. TransportInv /\ Next => TransportInv'
  BY ServerKeeps, AcceptKeeps, CtrlCKeeps, CleanupKeeps, StartHostKeeps, PeerKeeps, ServiceKeeps
     DEF Next, Peer
<1> QED BY <1>1, <1>2, <1>3, PTL DEF Spec

(* Calls are taken from verified hosts only, and a host believes itself
   connected only to the service it pinned, for any certificates and secrets
   (tls-rustls/src/lib.rs, the two verifiers; transport.rs, accept_rustls and
   build_context). *)
THEOREM MutuallyPinnedHolds == Spec => []MutuallyPinned
<1>1. TransportInv => MutuallyPinned
  <2> SUFFICES ASSUME TransportInv PROVE MutuallyPinned
    OBVIOUS
  <2>1. build \in {"tls-psk", "tls-rustls"}
    BY DEF TransportInv, TypeOK, Builds
  <2>2. Pinned
    BY DEF TransportInv
  <2>3. ASSUME NEW p \in Peers, conn[p] \in Open
        PROVE  /\ p \in Hosts
               /\ IF build = "tls-psk" THEN SamePsk(p) ELSE VerifyServerCert(p) /\ VerifyClientCert(p)
    BY ZenonT(30), <2>1, <2>2, <2>3 DEF Pinned, Verified
  <2>4. ASSUME NEW p \in Hosts, phase[p] \in Connected
        PROVE  IF build = "tls-psk" THEN SamePsk(p) ELSE VerifyServerCert(p)
    BY ZenonT(30), <2>1, <2>2, <2>4 DEF Pinned
  <2> QED BY ZenonT(30), <2>3, <2>4 DEF MutuallyPinned
<1> QED BY <1>1, TransportInvariant, PTL

(* A service that exits successfully has detached everything it recorded, and
   what is left attached is of hosts whose activation failed (main.rs, main;
   lifecycle.rs, serve and shutdown; bpf.rs, attach). *)
THEOREM ExitReleasesHolds == Spec => []ExitReleases
<1>1. TransportInv => ExitReleases
  BY ZenonT(30) DEF TransportInv, Released, ExitReleases
<1> QED BY <1>1, TransportInvariant, PTL
=============================================================================
