----------------------------- MODULE MCHostProxy -----------------------------
(***************************************************************************)
(* HostProxy with up to two destinations contacted from one client port,   *)
(* whose flows have the same synthetic tuple.                              *)
(***************************************************************************)
EXTENDS HostProxy

MCSyntheticOf == [i \in Ids |-> 1]

\* The part of a behaviour before anything ends the proxy.
MCRunning == ~stop /\ tcp = "accepting"
=============================================================================
