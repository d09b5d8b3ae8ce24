-------------------------- MODULE MCBrokerRestarts --------------------------
(* Instances of BrokerRestarts for TLC: every node registers a service of its own. *)
EXTENDS BrokerRestarts, TLC

MCServiceOf == [n \in Node |-> n]
=============================================================================
