------------------------- MODULE MCUploadLifecycle -------------------------
(* Instances of UploadLifecycle for TLC. *)
EXTENDS UploadLifecycle, TLC

CONSTANTS p1, p2

TwoProcs == {p1, p2}
=============================================================================
