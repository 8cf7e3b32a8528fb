-------------------------- MODULE MCHostActivation --------------------------
(* A host proxy and an operator on one interface, with an object whose maps
   are larger than the store's maxima. *)
EXTENDS HostActivation

MCClients == {"host", "operator"}
MCOperators == {"operator"}
MCInterfaceOf == [c \in MCClients |-> "eth0"]
MCElfs == {"tc"}
MCElfOf == [c \in MCClients |-> "tc"]
MCElfMax == [e \in MCElfs |-> 3]
MCFamilies == {4}
MCFamilyOf == [c \in MCClients |-> 4]
MCInitial == [capacity |-> 1, target |-> [f \in MCFamilies |-> "none"]]
MCCapacities == {2, 3}
=============================================================================
