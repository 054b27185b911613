-------------------------- MODULE MCAgentCredential -------------------------
(* Instances of AgentCredential. *)
EXTENDS AgentCredential

\* Two commands share the credential, one of them using the broker; or one uses
\* it twice while the broker is provisioned anew.
AnyCommand == {"use", "direct", "renew", "renew_cert", "pickup"}
UsesAndAny == [a1 |-> {"use"}, a2 |-> AnyCommand, a3 |-> {"use"}]
OneOneTwo == [a1 |-> 1, a2 |-> 1, a3 |-> 2]
Pairs == {{"a1", "a2"}, {"a3", "v1"}}

\* The token has expired at the broker; it is near its end and the certificate
\* past its half; the certificate has expired.
Times == {2, 3, 5}
=============================================================================
