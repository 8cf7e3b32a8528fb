------------------------- MODULE MCControlTransport -------------------------
(* A host with the right credentials, one that pins another service, one the *)
(* service does not know, and a stray client.                                *)
EXTENDS ControlTransport

MCHosts == {"right", "wrong pin", "wrong leaf"}
MCStrays == {"stray"}
MCLeaf == [p \in MCHosts \cup MCStrays \cup {"server"} |->
              IF p = "wrong pin" THEN "right" ELSE p]
MCPin == [p \in MCHosts \cup {"server"} |->
             CASE p = "server" -> "right" [] p = "wrong pin" -> "other" [] OTHER -> "server"]
MCSecret == [p \in MCHosts \cup MCStrays \cup {"server"} |->
                IF p \in {"right", "server"} THEN "shared" ELSE "other"]
=============================================================================
