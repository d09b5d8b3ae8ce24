---------------------------- MODULE MCRpcSystem ----------------------------
(* Instances of RpcSystem for TLC: every node registers a service of its own,
   so that nodes and their names may be exchanged together.                  *)
EXTENDS RpcSystem, TLC

MCServiceOf == [n \in Node |-> n]

Symmetry == Permutations(Conn) \cup Permutations(Node)
=============================================================================
