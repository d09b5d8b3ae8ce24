----------------------------- MODULE MCThreads -----------------------------
(***************************************************************************)
(* Instances of SmartPtr, TimerService and SyncCall for TLC: what threads  *)
(* share besides the TaskQueue.  The modules share no variable, so their   *)
(* behaviours are explored side by side and not interleaved: a behaviour   *)
(* is one of the part chosen at its start, the variables of the others     *)
(* stay as they are.                                                       *)
(***************************************************************************)
EXTENDS SmartPtr, TimerService, SyncCall, TLC

VARIABLE part

threadVars == <<part, ptrVars, timerVars, syncVars>>

Pointers(step) == part = "pointers" /\ step /\ UNCHANGED <<part, timerVars, syncVars>>
Timers(step)   == part = "timers" /\ step /\ UNCHANGED <<part, ptrVars, syncVars>>
Calls(step)    == part = "calls" /\ step /\ UNCHANGED <<part, ptrVars, timerVars>>

ThreadsInit == part \in {"pointers", "timers", "calls"} /\ PtrInit /\ TimerInit /\ SyncInit
ThreadsNext == Pointers(PtrNext) \/ Timers(TimerNext) \/ Calls(SyncNext)

\* The fairness of TimerFair and SyncFair.
ThreadsFair == /\ ThreadsInit /\ [][ThreadsNext]_threadVars
               /\ WF_threadVars(Timers(Thread)) /\ WF_threadVars(Timers(Tick))
               /\ \A t \in Threads : SF_threadVars(Calls(Step(t)))
               /\ \A t \in Docallers : WF_threadVars(Calls(Docall(t)))
               /\ WF_threadVars(Calls(runTask)) /\ WF_threadVars(Calls(Answer))
               /\ WF_threadVars(Calls(ioTakes)) /\ SF_threadVars(Calls(ioStores))
=============================================================================
