-------------------------------- MODULE Http --------------------------------
(***************************************************************************)
(* The CLI's HTTP layer: what becomes of one pass of a request's retry     *)
(* loop.  A request ends in an answer or a status, or the connection fails *)
(* ("transport"), in which case the server may have done the work or not.  *)
(***************************************************************************)
EXTENDS Naturals

CONSTANT MaxRetries     \* 3 in the code

ASSUME HttpAssumption == MaxRetries \in Nat

Pass(next, err) == [next |-> next, err |-> err]

\* The server of another epoch answers 410 epoch_retired or 404 epoch_unknown.
EpochRefusal(o) == o = "epoch_moved"

ApiStatusError(o) ==
    IF EpochRefusal(o) THEN "epoch_changed"
    ELSE CASE o = "401" -> "authentication_failed"
           [] o = "403" -> "authorization_denied"
           [] o = "404" -> "not_found"
           [] o = "409" -> "conflict"
           [] OTHER     -> "network_error"

\* Mutant: one retry too many.
AttemptedOnceMore(n, o) ==
    CASE o = "ok" -> Pass("answer", "none")
      [] o \in {"5xx", "transport"} /\ n <= MaxRetries -> Pass("again", "none")
      [] OTHER -> Pass("fail", ApiStatusError(o))

\* One pass of the loop: an answer, a failure, or another pass.  Only a server
\* error or a broken connection is tried again.
Attempted(n, o) ==
    CASE o = "ok" -> Pass("answer", "none")
      [] o = "cli_outdated" -> Pass("fail", "cli_outdated")
      [] o = "400" -> Pass("fail", "invalid_data")
      [] o \in {"5xx", "transport"} /\ n < MaxRetries -> Pass("again", "none")
      [] OTHER -> Pass("fail", ApiStatusError(o))

GetText(n, o) == Attempted(n, o)

\* A write inside an epoch-bound attempt, which may run twice, is refused.
RefuseWriteIfReadOnly(readOnly) == readOnly

PostText(readOnly, n, o) ==
    IF RefuseWriteIfReadOnly(readOnly) THEN Pass("fail", "generic_error")
    ELSE Attempted(n, o)

\* Signed requests sign every pass anew: time stamp and nonce are fresh.
SignedCall(readOnly, method, n, o) ==
    IF method # "GET" /\ RefuseWriteIfReadOnly(readOnly)
    THEN Pass("fail", "generic_error") ELSE Attempted(n, o)
=============================================================================
