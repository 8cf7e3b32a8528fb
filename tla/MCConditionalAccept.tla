------------------------ MODULE MCConditionalAccept ------------------------
(***************************************************************************)
(* An instance of ConditionalAccept for TLC: a client and one that comes   *)
(* with the same tuple, as a client that reconnects does.                  *)
(***************************************************************************)
EXTENDS ConditionalAccept

SameTuple == [c \in Clients |-> "tuple"]
=============================================================================
