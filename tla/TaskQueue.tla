----------------------------- MODULE TaskQueue ------------------------------
(***************************************************************************)
(* ff::TaskQueue of fflib/base/task_queue.h: a mutex, a condition          *)
(* variable, a list of tasks, a flag that the threads also read without    *)
(* the mutex, and one thread that takes the whole list and runs it.        *)
(*                                                                         *)
(* A step is what one thread does between two accesses to state that       *)
(* another thread can see: the unlocked read of m_flag, the taking of the  *)
(* mutex, the body of the critical section with its release, the start     *)
(* and the end of one task.  pthread_cond_wait may wake without a signal,  *)
(* and a task may itself post, as the callbacks of FFRpc and DbMgr do.     *)
(***************************************************************************)
EXTENDS Integers, Sequences

CONSTANTS Producers,   \* the threads that call post(), besides the queue's own
          Closers,     \* the threads that call close() or the destructor
          MaxPosts     \* bound: how many times each thread posts

ASSUME TaskQueueAssumption ==
    /\ Producers \cap Closers = {}
    /\ "run" \notin Producers \cup Closers       \* the queue's own thread
    /\ "nobody" \notin Producers \cup Closers    \* the owner of a free mutex
    /\ MaxPosts \in Nat

Posters == Producers \cup {"run"}
Threads == Posters \cup Closers
Task == Posters \X (1..MaxPosts)

VARIABLES m_flag,      \* the queue accepts and runs tasks
          m_tasklist,  \* tasks waiting for the thread
          tlist,       \* the rest of the batch the thread has taken
          mutex,       \* who holds m_mutex
          asleep,      \* the thread is in m_cond.wait(), not yet woken
          pc,          \* where each thread stands
          posted,      \* how many calls of post() each thread has begun
          accepted,    \* history: the tasks pushed, in order
          ran          \* history: the tasks started, in order

vars == <<m_flag, m_tasklist, tlist, mutex, asleep, pc, posted, accepted, ran>>
history == <<accepted, ran>>

Init == /\ m_flag = TRUE
        /\ m_tasklist = <<>>
        /\ tlist = <<>>
        /\ mutex = "nobody"
        /\ asleep = FALSE
        /\ pc = [t \in Threads |-> IF t = "run" THEN "loop" ELSE "idle"]
        /\ posted = [t \in Posters |-> 0]
        /\ accepted = <<>>
        /\ ran = <<>>

Goto(t, label) == pc' = [pc EXCEPT ![t] = label]
Acquire(t) == mutex = "nobody" /\ mutex' = t
Release(t) == mutex = t /\ mutex' = "nobody"

\* Where a thread is when it calls post(), and where post() returns to.
Caller(t) == IF t = "run" THEN "in_task" ELSE "idle"

-----------------------------------------------------------------------------
(* post(): the flag is read before the mutex is taken. *)

PostCheck(t) ==
    /\ pc[t] = Caller(t)
    /\ posted[t] < MaxPosts
    /\ posted' = [posted EXCEPT ![t] = @ + 1]
    /\ Goto(t, IF m_flag THEN "post_lock" ELSE Caller(t))
    /\ UNCHANGED <<m_flag, m_tasklist, tlist, mutex, asleep, history>>

\* Mutant: post() touches the list without its lock_guard.
PostLock_NoLock(t) ==
    /\ pc[t] = "post_lock"
    /\ Goto(t, "push")
    /\ UNCHANGED <<m_flag, m_tasklist, tlist, mutex, asleep, posted, history>>

PostLock(t) ==
    /\ pc[t] = "post_lock"
    /\ Acquire(t)
    /\ Goto(t, "push")
    /\ UNCHANGED <<m_flag, m_tasklist, tlist, asleep, posted, history>>

\* Mutant: need_sig is computed after push_back, so it is never true.
PostPush_LateNeedSig(t) ==
    /\ pc[t] = "push"
    /\ m_tasklist' = Append(m_tasklist, <<t, posted[t]>>)
    /\ accepted' = Append(accepted, <<t, posted[t]>>)
    /\ Release(t)
    /\ Goto(t, Caller(t))
    /\ UNCHANGED <<m_flag, tlist, asleep, posted, ran>>

\* Mutant: the task is pushed to the front.
PostPush_Front(t) ==
    /\ pc[t] = "push"
    /\ m_tasklist' = <<<<t, posted[t]>>>> \o m_tasklist
    /\ accepted' = Append(accepted, <<t, posted[t]>>)
    /\ asleep' = (asleep /\ m_tasklist # <<>>)
    /\ Release(t)
    /\ Goto(t, Caller(t))
    /\ UNCHANGED <<m_flag, tlist, posted, ran>>

\* The signal is sent only when the list was empty (need_sig).
PostPush(t) ==
    /\ pc[t] = "push"
    /\ m_tasklist' = Append(m_tasklist, <<t, posted[t]>>)
    /\ accepted' = Append(accepted, <<t, posted[t]>>)
    /\ asleep' = (asleep /\ m_tasklist # <<>>)
    /\ Release(t)
    /\ Goto(t, Caller(t))
    /\ UNCHANGED <<m_flag, tlist, posted, ran>>

-----------------------------------------------------------------------------
(* close(): the flag is tested without the mutex and cleared under it. *)

CloseCheck(c) ==
    /\ pc[c] = "idle"
    /\ Goto(c, IF m_flag THEN "close_lock" ELSE "returned")
    /\ UNCHANGED <<m_flag, m_tasklist, tlist, mutex, asleep, posted, history>>

CloseLock(c) ==
    /\ pc[c] = "close_lock"
    /\ Acquire(c)
    /\ Goto(c, "clear_flag")
    /\ UNCHANGED <<m_flag, m_tasklist, tlist, asleep, posted, history>>

\* Mutant: no m_cond.broadcast().
CloseBroadcast_Silent(c) ==
    /\ pc[c] = "clear_flag"
    /\ m_flag' = FALSE
    /\ Release(c)
    /\ Goto(c, "join")
    /\ UNCHANGED <<m_tasklist, tlist, asleep, posted, history>>

CloseBroadcast(c) ==
    /\ pc[c] = "clear_flag"
    /\ m_flag' = FALSE
    /\ asleep' = FALSE
    /\ Release(c)
    /\ Goto(c, "join")
    /\ UNCHANGED <<m_tasklist, tlist, posted, history>>

\* Mutant: no m_thread.join().
CloseJoin_NoJoin(c) ==
    /\ pc[c] = "join"
    /\ Goto(c, "returned")
    /\ UNCHANGED <<m_flag, m_tasklist, tlist, mutex, asleep, posted, history>>

\* Two closers that both saw the flag set both join the thread: the second
\* pthread_join of one thread is undefined, it may wait or fail at once.
CloseJoin(c) ==
    /\ pc[c] = "join"
    /\ pc["run"] = "exited" \/ \E other \in Closers \ {c} : pc[other] = "join"
    /\ Goto(c, "returned")
    /\ UNCHANGED <<m_flag, m_tasklist, tlist, mutex, asleep, posted, history>>

-----------------------------------------------------------------------------
(* run() and consume(), the queue's own thread. *)

RunLoop ==
    /\ pc["run"] = "loop"
    /\ Goto("run", IF m_flag THEN "consume" ELSE "leave")
    /\ UNCHANGED <<m_flag, m_tasklist, tlist, mutex, asleep, posted, history>>

\* consume() is entered, or wait() returns: either way the mutex is taken.
ConsumeLock ==
    /\ pc["run"] = "consume"
    /\ ~asleep
    /\ Acquire("run")
    /\ Goto("run", "look")
    /\ UNCHANGED <<m_flag, m_tasklist, tlist, asleep, posted, history>>

\* Mutant: the list is copied and not cleared.
ConsumeTake_NoClear ==
    /\ pc["run"] = "look"
    /\ m_tasklist # <<>>
    /\ tlist' = m_tasklist
    /\ Release("run")
    /\ Goto("run", "exec")
    /\ UNCHANGED <<m_flag, m_tasklist, asleep, posted, history>>

ConsumeTake ==
    /\ pc["run"] = "look"
    /\ m_tasklist # <<>>
    /\ tlist' = m_tasklist
    /\ m_tasklist' = <<>>
    /\ Release("run")
    /\ Goto("run", "exec")
    /\ UNCHANGED <<m_flag, asleep, posted, history>>

ConsumeClosed ==
    /\ pc["run"] = "look"
    /\ m_tasklist = <<>>
    /\ ~m_flag
    /\ Release("run")
    /\ Goto("run", "leave")
    /\ UNCHANGED <<m_flag, m_tasklist, tlist, asleep, posted, history>>

\* m_cond.wait(): the mutex is released and the thread sleeps, in one step.
ConsumeWait ==
    /\ pc["run"] = "look"
    /\ m_tasklist = <<>>
    /\ m_flag
    /\ asleep' = TRUE
    /\ Release("run")
    /\ Goto("run", "consume")
    /\ UNCHANGED <<m_flag, m_tasklist, tlist, posted, history>>

SpuriousWakeup ==
    /\ asleep
    /\ asleep' = FALSE
    /\ UNCHANGED <<m_flag, m_tasklist, tlist, mutex, pc, posted, history>>

\* One turn of the for loop of run(): the task runs outside the mutex.
RunTask ==
    /\ pc["run"] = "exec"
    /\ tlist # <<>>
    /\ tlist' = Tail(tlist)
    /\ ran' = Append(ran, Head(tlist))
    /\ Goto("run", "in_task")
    /\ UNCHANGED <<m_flag, m_tasklist, mutex, asleep, posted, accepted>>

\* Mutant: the for loop stops as soon as the flag is cleared.
TaskDone_ChecksFlag ==
    /\ pc["run"] = "in_task"
    /\ Goto("run", IF m_flag THEN "exec" ELSE "leave")
    /\ UNCHANGED <<m_flag, m_tasklist, tlist, mutex, asleep, posted, history>>

TaskDone ==
    /\ pc["run"] = "in_task"
    /\ Goto("run", "exec")
    /\ UNCHANGED <<m_flag, m_tasklist, tlist, mutex, asleep, posted, history>>

BatchDone ==
    /\ pc["run"] = "exec"
    /\ tlist = <<>>
    /\ Goto("run", "loop")
    /\ UNCHANGED <<m_flag, m_tasklist, tlist, mutex, asleep, posted, history>>

\* m_tasklist.clear() at the end of run() is not under the mutex.  A producer
\* that read the flag before it was cleared may push before or after it.
RunExit ==
    /\ pc["run"] = "leave"
    /\ m_tasklist' = <<>>
    /\ Goto("run", "exited")
    /\ UNCHANGED <<m_flag, tlist, mutex, asleep, posted, history>>

-----------------------------------------------------------------------------
Post(t) == PostCheck(t) \/ PostLock(t) \/ PostPush(t)
Close(c) == CloseCheck(c) \/ CloseLock(c) \/ CloseBroadcast(c) \/ CloseJoin(c)
Consume == ConsumeLock \/ ConsumeTake \/ ConsumeClosed \/ ConsumeWait
Run == RunLoop \/ Consume \/ RunTask \/ TaskDone \/ BatchDone \/ RunExit

\* Every call has returned and the thread has ended.
Terminated == /\ \A p \in Producers : pc[p] = "idle" /\ posted[p] = MaxPosts
              /\ \A c \in Closers : pc[c] = "returned"
              /\ pc["run"] = "exited"
              /\ UNCHANGED vars

Next == \/ \E t \in Posters : Post(t)
        \/ \E c \in Closers : Close(c)
        \/ Run
        \/ SpuriousWakeup
        \/ Terminated

Spec == Init /\ [][Next]_vars

\* Every thread that can run does.  Nobody is obliged to call post() or
\* close(), but a call that has begun goes on, and a task ends.  A caller is
\* not overtaken at the mutex for ever (SF), which matters only because the
\* model lets the thread wake spuriously as often as it likes.
Fairness ==
    /\ \A t \in Posters : SF_vars(PostLock(t)) /\ WF_vars(PostPush(t))
    /\ \A c \in Closers : SF_vars(CloseLock(c)) /\ WF_vars(CloseBroadcast(c))
                                                /\ WF_vars(CloseJoin(c))
    /\ WF_vars(Run)

FairSpec == Spec /\ Fairness

-----------------------------------------------------------------------------
(* Properties. *)

\* The labels a thread may be at.
Labels(t) ==
    IF t = "run" THEN {"loop", "consume", "look", "exec", "in_task", "post_lock", "push",
                       "leave", "exited"}
    ELSE IF t \in Producers THEN {"idle", "post_lock", "push"}
    ELSE {"idle", "close_lock", "clear_flag", "join", "returned"}

ControlOK == /\ pc \in [Threads -> UNION {Labels(t) : t \in Threads}]
             /\ \A t \in Threads : pc[t] \in Labels(t)

DataOK == /\ m_flag \in BOOLEAN
          /\ m_tasklist \in Seq(Task)
          /\ tlist \in Seq(Task)
          /\ mutex \in Threads \cup {"nobody"}
          /\ asleep \in BOOLEAN
          /\ ControlOK
          /\ posted \in [Posters -> 0..MaxPosts]
          /\ accepted \in Seq(Task)
          /\ ran \in Seq(Task)

\* The places where a thread uses the list or changes the flag under m_mutex.
InCritical(t) == pc[t] \in {"push", "clear_flag", "look"}

\* Whoever is there holds m_mutex, and so is there alone.
MutexGuards == \A t \in Threads : InCritical(t) <=> mutex = t

\* The queue's state is of its types, and the list is only used under the
\* mutex, save for the clear() at the end of run().
TypeOK == DataOK /\ MutexGuards

\* post() signals only when the list was empty and close() broadcasts after
\* clearing the flag: the thread never stays asleep on work or on a closed
\* queue, whatever the order of the unlocked reads.
NoLostWakeup == asleep => m_tasklist = <<>> /\ m_flag

\* While the thread lives, what was accepted is what was started, then the
\* batch, then the list: run() neither drops, repeats nor reorders a task,
\* though the list is swapped out from under the producers and tasks post
\* while their own batch is being run.
NothingLost == pc["run"] # "exited" => accepted = ran \o (tlist \o m_tasklist)

\* A task the thread has taken is run even if close() comes meanwhile: only
\* what is still in the list can be dropped.
BatchSurvivesClose == pc["run"] \in {"leave", "exited"} => tlist = <<>>

\* When every closer is back the thread has ended, though one of two closers
\* that meet may be back before it.
ClosedMeansStopped ==
    Closers # {} /\ (\A c \in Closers : pc[c] = "returned") => pc["run"] = "exited"

\* A call of post() or close() that has begun returns: close() cannot be left
\* waiting for a thread that sleeps, and neither is starved of the mutex.
CallsReturn ==
    /\ \A p \in Producers : pc[p] = "post_lock" ~> pc[p] = "idle"
    /\ \A c \in Closers : pc[c] = "close_lock" ~> pc[c] = "returned"

\* The queue is a FIFO executor, and while it is not stopped it gets on with
\* the tasks it has accepted.
Fifo == INSTANCE FifoExecutor WITH stopped <- (pc["run"] = "exited")
ImplementsFifo == Fifo!FifoSpec
ImplementsFairFifo == Fifo!FairFifoSpec
=============================================================================
