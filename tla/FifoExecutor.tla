---------------------------- MODULE FifoExecutor ----------------------------
(***************************************************************************)
(* What a component that owns a TaskQueue relies on: the tasks it hands    *)
(* over are run one at a time, in the order in which the queue took them,  *)
(* each at most once, and nothing runs once the queue has stopped.         *)
(***************************************************************************)
EXTENDS Naturals, Sequences

CONSTANT Task          \* what can be handed over: a callable object

VARIABLES accepted,    \* the tasks taken, in the order they were taken
          ran,         \* the tasks started, in the order they were started
          stopped      \* the executor's thread is gone

fifoVars == <<accepted, ran, stopped>>

FifoInit == /\ accepted = <<>>
            /\ ran = <<>>
            /\ stopped = FALSE

Accept(t) == /\ accepted' = Append(accepted, t)
             /\ UNCHANGED <<ran, stopped>>

RunNext == /\ ~stopped
           /\ Len(ran) < Len(accepted)
           /\ ran' = Append(ran, accepted[Len(ran) + 1])
           /\ UNCHANGED <<accepted, stopped>>

Stop == /\ ~stopped
        /\ stopped' = TRUE
        /\ UNCHANGED <<accepted, ran>>

FifoNext == \/ \E t \in Task : Accept(t)
            \/ RunNext
            \/ Stop

FifoSpec == FifoInit /\ [][FifoNext]_fifoVars

\* While it is not stopped, the executor gets on with what it has accepted.
FairFifoSpec == FifoSpec /\ WF_fifoVars(RunNext)
=============================================================================
