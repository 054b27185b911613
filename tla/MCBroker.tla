------------------------------ MODULE MCBroker ------------------------------
(* Instances of Broker for TLC. *)
EXTENDS Broker

\* Server allocations: a reallocation within the budget, one over it, one negative.
MCSlas == {<<1, 2>>, <<3, 3>>, <<-1, 2>>}
=============================================================================
