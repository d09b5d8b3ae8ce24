------------------------------ MODULE SyncCall ------------------------------
(***************************************************************************)
(* FFRpc::call() of fflib/rpc/ffrpc.h: a thread sends a request itself and *)
(* waits on m_dataSyncCallInfo, under its mutex, for the answer, which the *)
(* IO thread recognises by its callback id (FFRpc::handleSocketProtocol).  *)
(* asyncCall() leaves the sending to the TaskQueue and has a callback.     *)
(*                                                                         *)
(* The other side answers each request once, in any order, and other nodes *)
(* ask services of this one: a request has the callback id its caller gave *)
(* it, and is routed to this node by the same message as an answer.  The   *)
(* connection lasts (FFRpc models what happens when it does not).  What is *)
(* not recognised goes to the TaskQueue and does nothing here.             *)
(***************************************************************************)
EXTENDS Integers, Sequences, FiniteSets, Functions

CONSTANTS Threads,    \* the threads that call
          MaxCalls,   \* bound: calls of each, of either kind
          Kinds,      \* the kinds of calls made: sync, async, unknown (sync, no such service)
          MaxAsked,   \* bound: requests other nodes make of this one
          Spurious    \* whether pthread_cond_wait() may return without a signal

ASSUME SyncCallAssumption ==
    /\ MaxCalls \in Nat /\ MaxAsked \in Nat /\ Spurious \in BOOLEAN
    /\ Kinds \subseteq {"sync", "async", "unknown"}
    /\ "TaskQueue" \notin Threads /\ "nobody" \notin Threads

Docallers == Threads \cup {"TaskQueue"}
Nothing == <<>>

VARIABLES pc,               \* where each thread is; that of the TaskQueue only runs docall()
          made,             \* how many calls each thread has made
          req,              \* the request each thread works on: <<thread, number>>, or Nothing
          id,               \* callbackId of docall(), in each thread
          tasks,            \* docalls posted to the TaskQueue
          gCallBackIDGen,   \* the counter of callback ids, a static that nothing protects
          nSyncCallBackId, strResult, mutex,   \* m_dataSyncCallInfo; who holds its mutex
          sent,             \* history: the requests sent, in order
          pending,          \* [req, id] sent and not answered yet
          answers,          \* [req, id] on their way to the IO thread; req is Nothing in
                            \* what another node asks
          asked,            \* how many requests other nodes have made
          io,               \* what the IO thread has taken for the answer, or Nothing
          results           \* history: <<call, its id, what it returned>>

answerVars == <<pending, answers, asked, io>>
infoVars == <<nSyncCallBackId, strResult, mutex>>
syncVars == <<pc, made, req, id, tasks, gCallBackIDGen, infoVars, sent, answerVars, results>>

SyncInit == /\ pc = [t \in Docallers |-> "idle"] /\ made = [t \in Threads |-> 0]
            /\ req = [t \in Docallers |-> Nothing] /\ id = [t \in Docallers |-> 0]
            /\ tasks = <<>> /\ gCallBackIDGen = 0
            /\ nSyncCallBackId = 0 /\ strResult = Nothing /\ mutex = "nobody"
            /\ sent = <<>> /\ pending = {} /\ answers = <<>> /\ asked = 0 /\ io = Nothing
            /\ results = {}

Goes(t, place) == pc' = [pc EXCEPT ![t] = place]
NewCall(t) == pc[t] = "idle" /\ made[t] < MaxCalls /\ made' = [made EXCEPT ![t] = @ + 1]

-----------------------------------------------------------------------------
asyncCall(t) == /\ "async" \in Kinds /\ NewCall(t)
                /\ tasks' = Append(tasks, <<t, made'[t]>>)
                /\ UNCHANGED <<pc, req, id, gCallBackIDGen, infoVars, sent, answerVars, results>>

runTask == /\ pc["TaskQueue"] = "idle" /\ tasks # <<>>
           /\ req' = [req EXCEPT !["TaskQueue"] = Head(tasks)]
           /\ tasks' = Tail(tasks)
           /\ Goes("TaskQueue", "docall")
           /\ UNCHANGED <<made, id, gCallBackIDGen, infoVars, sent, answerVars, results>>

\* call() up to the mutex.
call(t) == /\ NewCall(t)
           /\ req' = [req EXCEPT ![t] = <<t, made'[t]>>]
           /\ \E kind \in Kinds \ {"async"} : Goes(t, IF kind = "sync" THEN "lock" ELSE "lockUnknown")
           /\ UNCHANGED <<id, tasks, gCallBackIDGen, infoVars, sent, answerVars, results>>

\* LockGuard; a service that does not exist makes docall() return -1 at once.
lock(t) == /\ pc[t] \in {"lock", "lockUnknown"} /\ mutex = "nobody"
           /\ mutex' = t
           /\ \/ pc[t] = "lock" /\ Goes(t, "docall") /\ UNCHANGED id
              \/ pc[t] = "lockUnknown" /\ Goes(t, "store") /\ id' = [id EXCEPT ![t] = -1]
           /\ UNCHANGED <<made, req, tasks, gCallBackIDGen, nSyncCallBackId, strResult, sent,
                          answerVars, results>>

-----------------------------------------------------------------------------
(* docall(), on the thread that calls or on the TaskQueue's. *)

\* ++gCallBackIDGen is a load and a store.
loadId(t) == /\ pc[t] = "docall"
             /\ id' = [id EXCEPT ![t] = gCallBackIDGen + 1]
             /\ Goes(t, "send")
             /\ UNCHANGED <<made, req, tasks, gCallBackIDGen, infoVars, sent, answerVars, results>>

send(t) == /\ pc[t] = "send"
           /\ gCallBackIDGen' = id[t]
           /\ sent' = Append(sent, req[t])
           /\ pending' = pending \cup {[req |-> req[t], id |-> id[t]]}
           /\ Goes(t, IF t = "TaskQueue" THEN "idle" ELSE "store")
           /\ UNCHANGED <<made, req, id, tasks, infoVars, answers, asked, io, results>>

-----------------------------------------------------------------------------
(* The rest of call(). *)

\* The id is stored when the request is on its way already.
store(t) == /\ pc[t] = "store"
            /\ nSyncCallBackId' = id[t]
            /\ Goes(t, "wait")
            /\ UNCHANGED <<made, req, id, tasks, gCallBackIDGen, strResult, mutex, sent,
                           answerVars, results>>

wait(t) == /\ pc[t] = "wait"
           /\ mutex' = "nobody"
           /\ Goes(t, "asleep")
           /\ UNCHANGED <<made, req, id, tasks, gCallBackIDGen, nSyncCallBackId, strResult, sent,
                          answerVars, results>>

wakeUp(t) == /\ Spurious /\ pc[t] = "asleep"
             /\ Goes(t, "woken")
             /\ UNCHANGED <<made, req, id, tasks, gCallBackIDGen, infoVars, sent, answerVars, results>>

\* wait() has the mutex again, strResult is what call() returns.
return(t) == /\ pc[t] = "woken" /\ mutex = "nobody"
             /\ results' = results \cup {<<req[t], id[t], strResult>>}
             /\ strResult' = Nothing
             /\ Goes(t, "idle")
             /\ UNCHANGED <<made, req, id, tasks, gCallBackIDGen, nSyncCallBackId, mutex, sent, answerVars>>

-----------------------------------------------------------------------------
answer(m) == /\ pending' = pending \ {m}
             /\ answers' = Append(answers, m)
             /\ UNCHANGED <<pc, made, req, id, tasks, gCallBackIDGen, infoVars, sent, asked, io,
                            results>>

\* A request of another node; its callback id is one of that node's counter.
request(n) == /\ asked < MaxAsked /\ asked' = asked + 1
              /\ answers' = Append(answers, [req |-> Nothing, id |-> n])
              /\ UNCHANGED <<pc, made, req, id, tasks, gCallBackIDGen, infoVars, sent, pending, io,
                             results>>

\* handleSocketProtocol(): the id is compared before the mutex is taken, and nothing
\* tells an answer from a request.
ioTakes == /\ io = Nothing /\ answers # <<>>
           /\ io' = IF Head(answers).id = nSyncCallBackId THEN Head(answers) ELSE Nothing
           /\ answers' = Tail(answers)
           /\ UNCHANGED <<pc, made, req, id, tasks, gCallBackIDGen, infoVars, sent, pending, asked, results>>

\* Mutant: the caller is not woken.
ioStores_NoSignal == /\ io # Nothing /\ mutex = "nobody"
                     /\ nSyncCallBackId' = 0 /\ strResult' = io
                     /\ io' = Nothing
                     /\ UNCHANGED <<pc, made, req, id, tasks, gCallBackIDGen, mutex, sent, pending,
                                    answers, asked, results>>
\* The signal wakes one of those that wait.
ioStores == /\ io # Nothing /\ mutex = "nobody"
            /\ nSyncCallBackId' = 0 /\ strResult' = io
            /\ \/ \E t \in Threads : pc[t] = "asleep" /\ Goes(t, "woken")
               \/ (\A t \in Threads : pc[t] # "asleep") /\ UNCHANGED pc
            /\ io' = Nothing
            /\ UNCHANGED <<made, req, id, tasks, gCallBackIDGen, mutex, sent, pending, answers, asked,
                           results>>

-----------------------------------------------------------------------------
Docall(t) == loadId(t) \/ send(t)
Step(t) == lock(t) \/ store(t) \/ wait(t) \/ return(t)
Answer == \E m \in pending : answer(m)
Asked == \E n \in 1..MaxCalls : request(n)

SyncNext == \/ \E t \in Threads : asyncCall(t) \/ call(t) \/ Step(t) \/ wakeUp(t)
            \/ \E t \in Docallers : Docall(t)
            \/ runTask \/ Answer \/ Asked \/ ioTakes \/ ioStores

SyncSpec == SyncInit /\ [][SyncNext]_syncVars

\* Threads go on, and the other side answers; nobody has to call.
SyncFair == /\ SyncSpec
            /\ \A t \in Threads : SF_syncVars(Step(t))
            /\ \A t \in Docallers : WF_syncVars(Docall(t))
            /\ WF_syncVars(runTask) /\ WF_syncVars(Answer)
            /\ WF_syncVars(ioTakes) /\ SF_syncVars(ioStores)

-----------------------------------------------------------------------------
\* Type invariant: the mutex is held by a thread that is in its critical section.
SyncTypeOK == /\ pc \in [Docallers -> {"idle", "lock", "lockUnknown", "docall", "send", "store",
                                       "wait", "asleep", "woken"}]
              /\ \A t \in Threads : mutex = t <=> pc[t] \in {"docall", "send", "store", "wait"}
              /\ gCallBackIDGen \in Nat

\* A call that has stored its id before its answer is taken does return: whether it waits
\* already or still holds the mutex the signal is not lost, and nothing else that comes,
\* answers of other calls, requests or spurious wake-ups, leaves it waiting (one calling
\* thread).
AwaitedMeansReturned ==
    \A t \in Threads :
        (/\ pc[t] \in {"wait", "asleep"}
         /\ \/ [req |-> req[t], id |-> id[t]] \in pending \cup Range(answers)
            \/ io # Nothing) ~> pc[t] = "idle"

\* An answer ends the call that waits for it, while the mutex is held as it should be.
AnswersEndTheirCall == []SyncTypeOK /\ AwaitedMeansReturned

\* ffrpc.h: call() calls a remote interface synchronously, so that what it returns is
\* the answer to its own request.
CallsReturnTheirAnswer == \A r \in results : r[3] # Nothing => r[3].req = r[1]

\* ffrpc.h: ... and it does return when the request is answered.
CallsComeBack == \A t \in Threads : pc[t] = "lock" ~> pc[t] = "idle"

\* ffrpc.h, at docall(): call() posts the request to the TaskQueue, so that all
\* requests are in order: those of one thread are sent in the order of its calls.
RequestsInOrder == \A i, j \in 1..Len(sent) : i < j /\ sent[i][1] = sent[j][1] => sent[i][2] < sent[j][2]
=============================================================================
