----------------------------- MODULE MCFFBroker -----------------------------
(* Instances of FFBroker for TLC, with peers that send anything. *)
EXTENDS FFBroker, TLC

Symmetry == Permutations(Conn) \cup Permutations(Name)

\* What the broker has sent decides nothing it does later: no guard and no
\* property reads toNode, so states that differ in it alone are one state.
BrokerView == <<brokerEnd, nodeEnd, toBroker, session, brokerVars>>
=============================================================================
