---------------------------- MODULE AtomicReplace ----------------------------
(***************************************************************************)
(* What a download promises its caller: the target is absent or a file     *)
(* from before until, in one step, it is the complete new file and the     *)
(* caller is told so; a failure leaves it as it was.                       *)
(***************************************************************************)
VARIABLES target, outcome

vars == <<target, outcome>>

Init == target \in {"absent", "earlier"} /\ outcome = "running"

Succeed == outcome = "running" /\ outcome' = "ok" /\ target' = "complete"

Fail == outcome = "running" /\ outcome' = "failed" /\ UNCHANGED target

Next == Succeed \/ Fail

Spec == Init /\ [][Next]_vars
=============================================================================
