--------------------------- MODULE SessionSystem ---------------------------
(***************************************************************************)
(* Clients, a gate and the workers behind it.                              *)
(***************************************************************************)
EXTENDS FFGate, FFWorker

sessionVars == <<socketVars, gateVars, workerVars, sessionNetVars>>

SessionInit == NetInit /\ GateInit /\ WorkerInit

\* A connection breaks, or the process behind a broken one ends.
Crash == /\ \E w \in Worker : (ConnectionBreaks(w) /\ UNCHANGED workerVars) \/ WorkerEnds(w)
         /\ UNCHANGED <<socketVars, gateVars>>
Recovery == /\ (\E w \in Worker : WorkerRegisters(w)) \/ GateLearnsRegistry
            /\ UNCHANGED <<socketVars, gateVars, workerVars>>

SessionNext == \/ (ClientSteps \/ GateSteps \/ close_impl \/ queueClosed) /\ UNCHANGED workerVars
               \/ (WorkerSteps \/ GameSteps) /\ UNCHANGED <<socketVars, gateVars>>
               \/ Crash \/ Recovery

SessionSpec == SessionInit /\ [][SessionNext]_sessionVars

\* No connection breaks, and the gate is not closed.
SteadyNext == \/ (ClientSteps \/ GateSteps) /\ UNCHANGED workerVars
              \/ (WorkerSteps \/ GameSteps) /\ UNCHANGED <<socketVars, gateVars>>
SteadySpec == SessionInit /\ [][SteadyNext]_sessionVars

\* The TaskQueue of the gate and that of each worker go on as long as they
\* have tasks, each task in its turn; the broker's broadcast arrives.
Fairness ==
    /\ \A c \in Client : WF_sessionVars((handleMsg(c) \/ handleBroken(c)) /\ UNCHANGED workerVars)
    /\ \A w \in Worker :
           /\ WF_sessionVars((changeSessionLogic(w) \/ closeSession(w) \/ routeMsgToSession(w)
                                 \/ broadcastMsgToSession(w)) /\ UNCHANGED workerVars)
           /\ WF_sessionVars((processSessionReq(w) \/ processSessionOffline(w)
                                 \/ processSessionEnter(w)) /\ UNCHANGED <<socketVars, gateVars>>)
    /\ WF_sessionVars(GateLearnsRegistry /\ UNCHANGED <<socketVars, gateVars, workerVars>>)

FairSteadySpec == SteadySpec /\ Fairness

-----------------------------------------------------------------------------
(* Types. *)

\* The names a session may be bound to.
Named == Worker \cup Targets

\* Type invariant: every variable of the gate, of the workers and of what joins
\* them stays in its range.
SessionTypeOK ==
    /\ nodeId \in [Worker -> 0 .. NWorker + MaxRestarts]
    /\ m_for_allocID \in NWorker .. NWorker + MaxRestarts
    /\ DOMAIN service2nodeId \subseteq Worker
    /\ sock \in [Client -> {"none", "open", "closed"}]
    /\ num \in [Client -> 0..MaxMsgs]
    /\ \A c \in Client : inbox[c] \in Seq(0..MaxMsgs)
    /\ m_allocID \in 0..Cardinality(Client)
    /\ sessionId \in [Client -> 0..m_allocID]
    /\ DOMAIN m_client_set \subseteq 1..m_allocID
    /\ \A id \in DOMAIN m_client_set :
           m_client_set[id] \in [sock : Client \cup {NoSock}, allocWorker : Named \cup {NoWorker}]
    /\ toClient \in [Client -> SUBSET (0..m_allocID)]
    /\ gate \in {"open", "closing", "closed"}
    /\ requests \in 0..MaxRequests
    /\ missed \cup asked \subseteq 1..m_allocID
    /\ \A w \in Worker : /\ DOMAIN m_worker_client[w] \cup DOMAIN served[w] \cup movedAway[w]
                                 \subseteq 1..m_allocID
                         /\ \A id \in DOMAIN served[w] : served[w][id] \subseteq 1..MaxMsgs
                         /\ \A i \in 1..Len(toWorker[w]) : toWorker[w][i].sessionId \in 1..m_allocID
                         /\ \A i \in 1..Len(toGate[w]) : toGate[w][i].sessionId \in 0..m_allocID

-----------------------------------------------------------------------------
(* Sessions and their clients. *)

\* The sessions that have started and not ended; the entries that m_client_set[id]
\* made for one that ended are not among them.
Live == {id \in DOMAIN m_client_set : m_client_set[id].sock # NoSock}

\* A client that has a session and is still connected is found under its session
\* id, with its own socket and a worker to send to, whatever was moved, closed or
\* lost meanwhile (FFGate::handleMsg, changeSessionLogic, cleanup_session).
OpenSessionsAreBound ==
    \A c \in Client : sock[c] = "open" /\ sessionId[c] # 0 =>
        /\ sessionId[c] \in DOMAIN m_client_set
        /\ m_client_set[sessionId[c]].sock = c
        /\ m_client_set[sessionId[c]].allocWorker # NoWorker

\* The entity under which a worker handles a session was made for the very client
\* whose messages come under that session id, also when messages outlive a move or
\* a close (FFWorker::processSessionReq finds the client by session id alone).
EntitiesAreTheirClients ==
    \A w \in Worker : \A id \in DOMAIN m_worker_client[w] :
        /\ m_worker_client[w][id] # NoEntity => sessionId[m_worker_client[w][id]] = id
        /\ \A i \in 1..Len(toWorker[w]) :
               toWorker[w][i].cmd = "RouteLogicMsgReq" /\ toWorker[w][i].sessionId = id =>
                   m_worker_client[w][id] \in {NoEntity, toWorker[w][i].client}

\* What a worker sends to a session reaches the client of that session or nobody,
\* however late it comes (FFGate::routeMsgToSession).
RepliesReachTheirClient == \A c \in Client : toClient[c] \subseteq {0, sessionId[c]}

\* Once a session has ended the gate sends no worker a message about it any more:
\* the offline message is the last one (FFGate::cleanup_session erases the entry,
\* and a request for a session that is not found is dropped).  It holds as long as
\* no handler has failed half way: changeSessionLogic gives the entry without a
\* socket that m_client_set[id] made a worker before it uses the socket.
EndedSessionsAreSilent ==
    [][\A w \in Worker : thrown = {} /\ Len(toWorker'[w]) > Len(toWorker[w]) =>
           toWorker'[w][Len(toWorker'[w])].sessionId \in Live \cup Live']_sessionVars

\* The gate hands out, moves and ends sessions as SessionDirectory says.
Directory == INSTANCE SessionDirectory WITH
                 Server <- Named, last <- m_allocID,
                 owner <- [id \in Live |-> m_client_set[id].allocWorker]
DirectorySpec == Directory!DirectorySpec

\* No handler of the gate uses a NULL socket: FF_ASSERT(NULL != m_dest_ptr) of
\* smart_ptr.h holds in changeSessionLogic, closeSession and close_impl.
SocketsAreNotNull == thrown = {}

-----------------------------------------------------------------------------
(* Sessions and their workers. *)

\* The messages of a session that one worker handles are handled in the order the
\* client sent them, through every move (one FIFO from the socket to the worker).
ServedInOrder ==
    [][\A w \in Worker : \A id \in DOMAIN served[w] \cap DOMAIN served'[w] :
           \A n \in served'[w][id] \ served[w][id] : \A k \in served[w][id] : k < n]_sessionVars

\* A worker that is about to handle a message of a session it does not know, and
\* did not itself move away, hears first that the session started or entered
\* (FFGate::changeSessionLogic sends SessionEnterWorkerReq before any message is
\* routed to the new worker); see EndedSessionsAreSilent for "thrown".
StrangersAreIntroduced ==
    thrown = {} => \A w \in Worker : \A j \in 1..Len(toWorker[w]) :
        LET id == toWorker[w][j].sessionId IN
        toWorker[w][j].cmd = "RouteLogicMsgReq" /\ id \notin DOMAIN m_worker_client[w] \cup movedAway[w]
            => \E i \in 1..j : /\ toWorker[w][i].sessionId = id
                               /\ \/ toWorker[w][i].cmd = "SessionEnterWorkerReq"
                                  \/ toWorker[w][i].cmd = "RouteLogicMsgReq" /\ toWorker[w][i].first

Quiet == /\ \A c \in Client : inbox[c] = <<>>
         /\ \A w \in Worker : toWorker[w] = <<>> /\ toGate[w] = <<>>

\* When nothing is under way the worker a session is bound to has a client for it,
\* after any number of moves that crossed messages and other moves
\* (sessionChangeWorker forgets at once, changeSessionLogic binds later).
TheBoundWorkerKnows ==
    Quiet => \A id \in Live : m_client_set[id].allocWorker \in Worker =>
                 id \in DOMAIN m_worker_client[m_client_set[id].allocWorker]

\* When nothing is under way a worker has a client only for a session that lives
\* and is bound to it, also after its connection broke and came back with the
\* clients it had, or its process was another one since.  There are three ways to
\* be left behind, and no fourth: a game asked that the session be moved or closed;
\* its SessionOfflineReq was lost, and nothing repeats it; it was the first thing
\* the worker heard of the session, and the hook threw before the erase
\* (FFGate::handleBroken, FFWorker::processSessionOffline).
NobodyIsLeftBehind ==
    Quiet => \A w \in Worker : \A id \in DOMAIN m_worker_client[w] \ (asked \cup missed) :
                 \/ id \in Live /\ m_client_set[id].allocWorker = w
                 \/ ThrowingHook /\ m_worker_client[w][id] = NoEntity

\* The same without the second exception: once every worker is connected again and
\* the gate knows, the clients of sessions that ended have left (no code of the
\* worker looks through m_worker_client when it registers again).
ReturnedWorkersAgree ==
    Quiet /\ (\A w \in Worker : Reachable(w)) =>
        \A w \in Worker : \A id \in DOMAIN m_worker_client[w] \ asked :
            m_worker_client[w][id] # NoEntity => id \in Live

\* Gate, workers and clients agree about who a session is and where it is, from its
\* start to its end.
SessionsAgree == /\ SessionTypeOK /\ OpenSessionsAreBound /\ EntitiesAreTheirClients
                 /\ RepliesReachTheirClient /\ TheBoundWorkerKnows

\* What the game does when a client leaves finds the entity of that client: the
\* pointer that the LOGOUT_CMD handlers use satisfies FF_ASSERT(NULL != m_dest_ptr)
\* (processSessionOffline makes the client when there is none).
LogoutFindsEntity ==
    \A w \in Worker : toWorker[w] # <<>> /\ Head(toWorker[w]).cmd = "SessionOfflineReq" =>
        LET id == Head(toWorker[w]).sessionId
        IN  id \in DOMAIN m_worker_client[w] /\ m_worker_client[w][id] # NoEntity

-----------------------------------------------------------------------------
(* Progress. *)

\* A message of a client is at last handled by a worker, although the session is
\* moved while the message is under way and the client may leave.
MessagesAreServed ==
    \A c \in Client : \A n \in 1..MaxMsgs :
        num[c] >= n ~> \E w \in Worker : /\ sessionId[c] \in DOMAIN served[w]
                                         /\ n \in served[w][sessionId[c]]
=============================================================================
