---------------------------- MODULE MCTaskQueue -----------------------------
(* Instances of TaskQueue for TLC: the threads are model values. *)
EXTENDS TaskQueue, TLC
=============================================================================
