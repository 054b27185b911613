--------------------------- MODULE MCEpochAnchors ---------------------------
(***************************************************************************)
(* Instances of EpochAnchors for TLC.  A tick is half of the transition    *)
(* bound; the cache can expire within the horizon.                         *)
(***************************************************************************)
EXTENDS EpochAnchors

CONSTANTS p1

OneProc == {p1}
Binding == {"write", "self", "attest"}
Watching == {"write", "self", "verify"}
None == {}
Second == {2}
=============================================================================
