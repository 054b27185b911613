--------------------------- MODULE MCUploadParts ---------------------------
(* Instances of UploadParts for TLC. *)
EXTENDS UploadParts

CONSTANTS w1, w2

TwoWorkers == {w1, w2}
=============================================================================
