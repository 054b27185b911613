----------------------------- MODULE MCDownload -----------------------------
(* Instances of Download for TLC. *)
EXTENDS Download, TLC

CONSTANTS p1, t1, t2, t3

OneProc == {p1}
ThreeThreads == {t1, t2, t3}
OwnedByOne == [t \in ThreeThreads |-> p1]
=============================================================================
