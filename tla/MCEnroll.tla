------------------------------ MODULE MCEnroll ------------------------------
(* Instances of Enroll: two PRSNs of one machine, two processes. *)
EXTENDS Enroll

Ada == "ada-ai"
Bob == "bob-ai"
Prsns == {Ada, Bob}
Named == [c \in Codes |-> IF c = "c1" THEN Ada ELSE Bob]
None == {}
Mac == [forced |-> "none", mac |-> TRUE]
\* A PRSN enrolled before post-quantum keys existed.
Classical == {[handle |-> Ada, purpose |-> "signing"], [handle |-> Ada, purpose |-> "kem"]}
=============================================================================
