------------------------------- MODULE DbMgr -------------------------------
(***************************************************************************)
(* ff::DbMgr of fflib/server/db_mgr.cpp: a pool of connections, each with  *)
(* a TaskQueue of its own.  A query goes to the connection its modid       *)
(* selects; its callback runs on that connection's thread or is posted to  *)
(* the worker's TaskQueue.  The worker's thread opens and cleans the pool. *)
(*                                                                         *)
(* A TaskQueue is what TaskQueue shows it to be: a list, the batch its     *)
(* thread took, and close(), which lets the batch finish, drops the list   *)
(* and waits for the thread.                                               *)
(***************************************************************************)
EXTENDS Integers, Sequences, SequencesExt, Functions

CONSTANTS Modid,       \* what callers spread their queries by
          MaxConn,     \* bound: connections asked for by one initDBPool()
          MaxInits,    \* bound: calls of initDBPool()
          MaxQueries   \* bound: queries asked

ASSUME DbMgrAssumption == Modid \subseteq Nat /\ {MaxConn, MaxInits, MaxQueries} \subseteq Nat

VARIABLES m_dbPool,   \* per entry its TaskQueue, or NULL
          taskQueue,      \* the TaskQueues made: [list, batch, running, open]
          query,      \* the queries asked: [modid, cb, at]
          results,    \* answers posted to the worker's TaskQueue
          worker,     \* what the worker's thread is doing: [at, i, n]
          inits,      \* calls of initDBPool()
          thrown      \* a NULL TaskQueue was used, which throws

dbVars == <<m_dbPool, taskQueue, query, results, worker, inits, thrown>>

NULL == 0
NoQuery == 0
FreeWorker == [at |-> "free", i |-> 0, n |-> 0]
\* Where the callback of a query runs: on the connection's thread, on the worker's, or
\* there is none.
Callback == {"thread", "worker", "none"}

DbInit == /\ m_dbPool = <<>> /\ taskQueue = <<>> /\ query = <<>> /\ results = <<>>
          /\ worker = FreeWorker /\ inits = 0 /\ thrown = FALSE

\* Queries that have come to a new place.
Moved(ns, place) == query' = [n \in DOMAIN query |->
                                  IF n \in ns THEN [query[n] EXCEPT !.at = place] ELSE query[n]]

-----------------------------------------------------------------------------
(* Asking: by the worker's thread, or by a callback that runs on the thread *)
(* of a connection.                                                        *)

\* Mutant: the connections take turns.
Entry_RoundRobin(modid) == m_dbPool[(Len(query) % Len(m_dbPool)) + 1]
Entry(modid) == m_dbPool[(modid % Len(m_dbPool)) + 1]

\* What asyncQuery() does: answered at once when there is no pool (a query without a
\* callback throws there).  What is thrown on the worker's thread ends the operation only:
\* the handlers run under a catch.
Ask(modid, cb) ==
    LET n == Len(query) + 1
        asked(place) == query' = Append(query, [modid |-> modid, cb |-> cb, at |-> place])
    IN  /\ n <= MaxQueries
        /\ \/ m_dbPool = <<>> /\ asked("refused") /\ UNCHANGED <<taskQueue, thrown>>
           \/ /\ m_dbPool # <<>> /\ Entry(modid) = NULL
              /\ asked("thrown") /\ thrown' = TRUE /\ UNCHANGED taskQueue
           \/ /\ m_dbPool # <<>> /\ Entry(modid) # NULL
              /\ LET q == Entry(modid) IN
                 IF taskQueue[q].open
                 THEN /\ asked("queued")
                      /\ taskQueue' = [taskQueue EXCEPT ![q].list = Append(@, n)]
                 ELSE asked("dropped") /\ UNCHANGED taskQueue
              /\ UNCHANGED thrown

asyncQuery(modid, cb) == /\ worker = FreeWorker /\ Ask(modid, cb)
                         /\ UNCHANGED <<m_dbPool, results, worker, inits>>

\* asyncQueryByCfg(): a connection of its own on the same TaskQueue; when it cannot
\* connect nobody is told.
asyncQueryByCfg(modid, cb) ==
    /\ worker = FreeWorker
    /\ \/ Ask(modid, cb)
       \/ /\ m_dbPool # <<>> /\ Len(query) < MaxQueries
          /\ query' = Append(query, [modid |-> modid, cb |-> cb, at |-> "dropped"])
          /\ UNCHANGED <<taskQueue, thrown>>
    /\ UNCHANGED <<m_dbPool, results, worker, inits>>

-----------------------------------------------------------------------------
(* The thread of a connection. *)

consume(q) == /\ taskQueue[q].batch = <<>> /\ taskQueue[q].running = NoQuery
              /\ taskQueue[q].list # <<>> /\ taskQueue[q].open
              /\ taskQueue' = [taskQueue EXCEPT ![q].batch = @ \o taskQueue[q].list, ![q].list = <<>>]
              /\ UNCHANGED <<m_dbPool, query, results, worker, inits, thrown>>

exeSql(q) == LET n == Head(taskQueue[q].batch) IN
             /\ taskQueue[q].running = NoQuery /\ taskQueue[q].batch # <<>>
             /\ taskQueue' = [taskQueue EXCEPT ![q].running = n, ![q].batch = Tail(@)]
             /\ Moved({n}, "executed")
             /\ UNCHANGED <<m_dbPool, results, worker, inits, thrown>>

\* Mutant: the answer for the worker gets lost.
answer_Forgets(q) == LET n == taskQueue[q].running IN
    /\ n # NoQuery /\ Moved({n}, IF query[n].cb = "worker" THEN "executed" ELSE "told")
    /\ taskQueue' = [taskQueue EXCEPT ![q].running = NoQuery]
    /\ UNCHANGED <<m_dbPool, results, worker, inits, thrown>>
\* doQuery() after exeSql(): no callback, or posted, or run here; a callback that runs
\* here may ask for more.
answer(q) == LET n == taskQueue[q].running IN
    /\ n # NoQuery
    /\ \/ /\ query[n].cb = "worker"
          /\ results' = Append(results, n) /\ Moved({n}, "posted")
       \/ query[n].cb # "worker" /\ Moved({n}, "told") /\ UNCHANGED results
    /\ taskQueue' = [taskQueue EXCEPT ![q].running = NoQuery]
    /\ UNCHANGED <<m_dbPool, worker, inits, thrown>>
callbackAsks(q, modid, cb) == LET n == taskQueue[q].running IN
    /\ n # NoQuery /\ query[n].cb = "thread"
    /\ m_dbPool # <<>> => Entry(modid) # NULL
    /\ Ask(modid, cb)
    /\ UNCHANGED <<m_dbPool, results, worker, inits>>
\* Nothing catches what is thrown on the thread of a connection: the process ends.
callbackThrows(q, modid) ==
    /\ taskQueue[q].running # NoQuery /\ query[taskQueue[q].running].cb = "thread"
    /\ m_dbPool # <<>> /\ Entry(modid) = NULL
    /\ thrown' = TRUE
    /\ Moved({n \in DOMAIN query : query[n].at \in {"queued", "executed", "posted"}}, "dropped")
    /\ m_dbPool' = <<>> /\ taskQueue' = <<>> /\ results' = <<>>
    /\ worker' = [FreeWorker EXCEPT !.at = "ended"] /\ UNCHANGED inits

\* threadSafeCall() on the worker's thread, when it is not waiting in close().
threadSafeCall == /\ worker = FreeWorker /\ results # <<>>
                  /\ Moved({Head(results)}, "told")
                  /\ results' = Tail(results)
                  /\ UNCHANGED <<m_dbPool, taskQueue, worker, inits, thrown>>

-----------------------------------------------------------------------------
(* initDBPool() and cleanup() on the worker's thread. *)

\* TaskQueue::close(): the list is dropped, unless the thread is just taking it.
Close(q) == \/ /\ taskQueue' = [taskQueue EXCEPT ![q].open = FALSE, ![q].list = <<>>]
               /\ Moved(Range(taskQueue[q].list), "dropped")
            \/ /\ taskQueue[q].batch = <<>> /\ taskQueue[q].running = NoQuery /\ taskQueue[q].list # <<>>
               /\ taskQueue' = [taskQueue EXCEPT ![q].open = FALSE, ![q].batch = taskQueue[q].list,
                                         ![q].list = <<>>]
               /\ UNCHANGED query
Joined(q) == ~taskQueue[q].open /\ taskQueue[q].batch = <<>> /\ taskQueue[q].running = NoQuery

initDBPool(n) == /\ worker = FreeWorker /\ inits < MaxInits
                 /\ inits' = inits + 1
                 /\ worker' = [at |-> "init", i |-> 1, n |-> n]
                 /\ UNCHANGED <<m_dbPool, taskQueue, query, results, thrown>>

\* Its loop: an entry is appended, and it is entry i, not the new one, that gets the
\* connection and a new TaskQueue; the TaskQueue it had is destroyed, which closes it.
initEntry ==
    /\ worker.at = "init" /\ worker.i <= worker.n
    /\ LET pool == Append(m_dbPool, NULL)
           old == pool[worker.i]
       IN  \/ /\ worker' = FreeWorker /\ UNCHANGED <<m_dbPool, taskQueue, query>>      \* connect() failed
           \/ /\ old = NULL
              /\ taskQueue' = Append(taskQueue, [list |-> <<>>, batch |-> <<>>, running |-> NoQuery, open |-> TRUE])
              /\ m_dbPool' = [pool EXCEPT ![worker.i] = Len(taskQueue')]
              /\ worker' = [worker EXCEPT !.i = @ + 1]
              /\ UNCHANGED query
           \/ /\ old # NULL /\ Close(old)
              /\ m_dbPool' = pool
              /\ worker' = [worker EXCEPT !.at = "replace"]
    /\ UNCHANGED <<results, inits, thrown>>

replaceEntry ==
    /\ worker.at = "replace" /\ Joined(m_dbPool[worker.i])
    /\ taskQueue' = Append(taskQueue, [list |-> <<>>, batch |-> <<>>, running |-> NoQuery, open |-> TRUE])
    /\ m_dbPool' = [m_dbPool EXCEPT ![worker.i] = Len(taskQueue')]
    /\ worker' = [worker EXCEPT !.at = "init", !.i = @ + 1]
    /\ UNCHANGED <<query, results, inits, thrown>>

initDone == /\ worker.at = "init" /\ worker.i > worker.n
            /\ worker' = FreeWorker
            /\ UNCHANGED <<m_dbPool, taskQueue, query, results, inits, thrown>>

cleanup == /\ worker = FreeWorker /\ m_dbPool # <<>>
           /\ worker' = [at |-> "cleanup", i |-> 1, n |-> Len(m_dbPool)]
           /\ UNCHANGED <<m_dbPool, taskQueue, query, results, inits, thrown>>

\* Mutant: the queues are told to close, and nobody waits for them.
closeEntry_NoJoin ==
    /\ worker.at = "cleanup" /\ worker.i <= worker.n
    /\ LET q == m_dbPool[worker.i] IN q # NULL /\ Close(q)
    /\ worker' = [worker EXCEPT !.i = @ + 1]
    /\ UNCHANGED <<m_dbPool, results, inits, thrown>>
closeEntry ==
    /\ worker.at = "cleanup" /\ worker.i <= worker.n
    /\ LET q == m_dbPool[worker.i] IN
       \/ q = NULL /\ thrown' = TRUE /\ worker' = FreeWorker /\ UNCHANGED <<taskQueue, query>>
       \/ q # NULL /\ taskQueue[q].open /\ Close(q) /\ UNCHANGED <<worker, thrown>>
       \/ /\ q # NULL /\ Joined(q)
          /\ worker' = [worker EXCEPT !.i = @ + 1] /\ UNCHANGED <<taskQueue, query, thrown>>
    /\ UNCHANGED <<m_dbPool, results, inits>>

clearPool == /\ worker.at = "cleanup" /\ worker.i > worker.n
             /\ m_dbPool' = <<>> /\ worker' = FreeWorker
             /\ UNCHANGED <<taskQueue, query, results, inits, thrown>>

-----------------------------------------------------------------------------
PoolThreads(q) == consume(q) \/ exeSql(q) \/ answer(q)
WorkerSteps == threadSafeCall \/ initEntry \/ replaceEntry \/ initDone \/ closeEntry \/ clearPool

DbNext == \/ \E m \in Modid, cb \in Callback : asyncQuery(m, cb) \/ asyncQueryByCfg(m, cb)
          \/ \E q \in DOMAIN taskQueue : \/ PoolThreads(q)
                                         \/ \E m \in Modid, cb \in Callback : callbackAsks(q, m, cb)
                                         \/ \E m \in Modid : callbackThrows(q, m)
          \/ \E n \in 1..MaxConn : initDBPool(n)
          \/ cleanup \/ WorkerSteps

DbSpec == DbInit /\ [][DbNext]_dbVars

\* The threads of the connections and the worker's go on; the worker's TaskQueue is first
\* in, first out, so what it does later cannot keep an answer from being run.
DbFair == /\ DbSpec /\ WF_dbVars(WorkerSteps) /\ SF_dbVars(threadSafeCall)
          /\ \A q \in 1 .. MaxConn * MaxInits : WF_dbVars(q \in DOMAIN taskQueue /\ PoolThreads(q))

-----------------------------------------------------------------------------
Place == {"refused", "thrown", "dropped", "queued", "executed", "posted", "told"}

\* Type invariant: the pool, the queues and the queries stay in their ranges; what is
\* posted to the worker's thread is posted once.
DbTypeOK ==
    /\ \A i \in DOMAIN m_dbPool : m_dbPool[i] \in {NULL} \cup DOMAIN taskQueue
    /\ \A q \in DOMAIN taskQueue : /\ Range(taskQueue[q].list) \cup Range(taskQueue[q].batch) \subseteq DOMAIN query
                                   /\ taskQueue[q].running \in {NoQuery} \cup DOMAIN query
                                   /\ taskQueue[q].open \in BOOLEAN
    /\ query \in Seq([modid : Modid, cb : Callback, at : Place])
    /\ Range(results) = {n \in DOMAIN query : query[n].at = "posted"} /\ IsInjective(results)
    /\ worker.at \in {"free", "init", "replace", "cleanup", "ended"}
    /\ inits \in 0..MaxInits /\ thrown \in BOOLEAN

\* Every entry of the pool has its TaskQueue, as the code expects that uses them.
PoolIsWhole == NULL \notin Range(m_dbPool)

\* The queries of one modid are executed in the order in which they were asked, by
\* whatever thread and with whatever connection (one TaskQueue per modid).
ExecutedInOrder ==
    \A n \in DOMAIN query : query[n].at # "executed" /\ query'[n].at = "executed" =>
        \A k \in 1..n - 1 : query[k].modid = query[n].modid => query[k].at # "queued"

\* The answers of one modid come back to the worker's thread in that order too, also
\* while the pool is cleaned up.
AnsweredInOrder ==
    \A n \in DOMAIN query : query[n].at = "posted" /\ query'[n].at = "told" =>
        \A k \in 1..n - 1 : query[k].modid = query[n].modid /\ query[k].cb = "worker" =>
            query[k].at \notin {"queued", "executed", "posted"}

\* Queries and answers of one modid keep their order while the pool is whole: set up,
\* however often it was cleaned up before, and not set up once more on top of that.
OrderIsKept == [][PoolIsWhole => ExecutedInOrder /\ AnsweredInOrder]_dbVars

\* They keep it whatever initDBPool() does: "modid % m_dbPool.size()" chooses one connection
\* for a modid.
OrderIsAlwaysKept == [][ExecutedInOrder /\ AnsweredInOrder]_dbVars

\* When cleanup() has cleared the pool no thread of it runs a query any more, and no
\* callback that runs on such a thread has met the empty pool (every queue is closed
\* and joined before the pool is cleared).
CleanMeansQuiet ==
    m_dbPool = <<>> => \A q \in DOMAIN taskQueue : Joined(q)

\* The pool is whole, and quiet when it is empty.
PoolIsSound == DbTypeOK /\ CleanMeansQuiet

\* Every query that was accepted is answered or dropped by a queue that is closed.
QueriesAreSettled ==
    \A n \in 1..MaxQueries :
        n \in DOMAIN query ~> n \in DOMAIN query /\ query[n].at \notin {"queued", "executed", "posted"}

\* Every TaskQueue that is used is there: FF_ASSERT(NULL != m_dest_ptr) of smart_ptr.h.
QueuesAreThere == ~thrown
=============================================================================
