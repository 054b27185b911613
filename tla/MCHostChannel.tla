--------------------------- MODULE MCHostChannel ---------------------------
(* Small instances of HostChannel. *)
EXTENDS HostChannel

Ada == "ada-ai"
Bob == "bob-ai"
TwoHandles == {Ada, Bob}

Call(op, h, p) == [op |-> op, label |-> [handle |-> h, purpose |-> p],
                   alg |-> DefaultAlg(p), good |-> TRUE]

\* A call that creates a key of another handle, one that uses a key and one
\* that deletes it.
EveryCall ==
    {Call("keygen", Bob, "kem_pq"), Call("sign", Ada, "signing"),
     Call("delete", Ada, "signing")}

\* The first command creates a key, the second makes any of the calls.
Makers == {Call("keygen", Ada, "signing")}
CallsOf == [k \in Cmds |-> IF k = 1 THEN Makers ELSE EveryCall]

OneContainer == [k \in Cmds |-> 1]
AdaEverywhere == [c \in Channels |-> Ada]
=============================================================================
