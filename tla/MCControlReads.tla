--------------------------- MODULE MCControlReads ---------------------------
(***************************************************************************)
(* One workload host that talks to two others, over IPv4 and IPv6, and to   *)
(* the control listener; a retarget, and two requests SetConfig refuses.    *)
(***************************************************************************)
EXTENDS ControlReads

Alike == Permutations(CPUs)

At(family, host) == [family |-> family, host |-> host]

Tuple(family, protocol, from, to, destination_port) ==
    [source |-> At(family, 1), destination |-> At(family, to), protocol |-> protocol,
     source_port |-> from, destination_port |-> destination_port]

Packet(tuple, flags, shape, checksum) ==
    [tuple |-> tuple, flags |-> flags, shape |-> shape, checksum |-> checksum]

First  == Tuple(4, "tcp", 10, 2, 80)
Second == Tuple(4, "tcp", 10, 3, 80)     \* from the same port to another host
Third  == Tuple(6, "udp", 10, 2, 80)
NoPort == Tuple(4, "udp", 0, 2, 80)      \* a UDP sender that expects no answer
ToUs   == Tuple(4, "tcp", 11, 5, 50)     \* the control listener
Others == Tuple(4, "udp", 12, 2, 80)

MCWorkload ==
    {Packet(First, {"ACK"}, "whole", "full"), Packet(First, {"FIN", "ACK"}, "whole", "partial"),
     Packet(Second, {"SYN"}, "whole", "full"), Packet(Third, {}, "whole", "partial"),
     Packet(NoPort, {}, "first", "none"), Packet(ToUs, {"SYN"}, "whole", "full"),
     Packet(Others, {}, "later", "none")}

MCHash == First :> 2 @@ Second :> 1 @@ Third :> 3 @@ NoPort :> 4 @@ ToUs :> 5

MCListener == [address |-> At(4, 5), port |-> 50, ipv4_wildcard |-> FALSE, ipv6_wildcard |-> FALSE]

MCInitial ==
    [schema_version |-> 3, idle_ttl_ms |-> 6, tcp_terminal_grace_ms |-> 4, active_flow_capacity |-> 3,
     log_capacity |-> 2, ipv4_target_address |-> [length |-> 4, host |-> 7], ipv4_target_port |-> 90,
     ipv6_target_address |-> [length |-> 16, host |-> 9], ipv6_target_port |-> 92, listener |-> MCListener]

MCProposals ==
    {[MCInitial EXCEPT !.ipv4_target_address.host = 8, !.ipv4_target_port = 91,
                       !.ipv6_target_address = [length |-> 0, host |-> 0], !.ipv6_target_port = 0,
                       !.active_flow_capacity = 2, !.log_capacity = 1],
     [MCInitial EXCEPT !.ipv4_target_port = 0],
     [MCInitial EXCEPT !.listener.port = 51]}
=============================================================================
