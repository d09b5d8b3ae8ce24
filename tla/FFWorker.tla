------------------------------ MODULE FFWorker ------------------------------
(***************************************************************************)
(* ff::FFWorker of fflib/server/ffworker.cpp: the clients of each worker,  *)
(* and what the game that runs on it may ask of the gate.  The handlers of *)
(* a worker run on its one TaskQueue.                                      *)
(*                                                                         *)
(* The game is any program: it sends to, moves and closes the sessions of  *)
(* its worker when it likes, to any index. ThrowingHook says whether what  *)
(* it listens with for a client that leaves uses the entity without a      *)
(* test, as cmdValidCheckFunctor() of src/chat/chat.cpp does.              *)
(***************************************************************************)
EXTENDS SessionNet

CONSTANTS ThrowingHook,  \* see above
          Requests,      \* what the game does: a subset of send, broadcast, close, move
          Targets,       \* the indices it moves sessions to, of workers or of none
          MaxRequests    \* bound: how many requests the workers make of the gate

ASSUME FFWorkerAssumption == /\ ThrowingHook \in BOOLEAN /\ MaxRequests \in Nat
                             /\ Targets \subseteq Nat
                             /\ Requests \subseteq {"send", "broadcast", "close", "move"}

VARIABLES m_worker_client,  \* per worker: session id -> the client its entity was made for
          requests,         \* how many requests were made
          served,           \* per worker: session id -> the messages handled
          movedAway,        \* per worker: the sessions it moved away, not entered since
          asked             \* history: the sessions a game asked to move or to close

workerVars == <<m_worker_client, requests, served, movedAway, asked>>

NoEntity == "NULL"   \* WorkerClient::entity after a session entered

WorkerInit == /\ m_worker_client = [w \in Worker |-> Empty]
              /\ requests = 0
              /\ served = [w \in Worker |-> Empty]
              /\ movedAway = [w \in Worker |-> {}]
              /\ asked = {}

-----------------------------------------------------------------------------
\* The worker takes its next message, which is a cmd.
Received(w, cmd) == /\ toWorker[w] # <<>> /\ Head(toWorker[w]).cmd = cmd
                    /\ toWorker' = [toWorker EXCEPT ![w] = Tail(@)]
                    /\ UNCHANGED <<toGate, nodeId, service2nodeId, m_for_allocID, missed>>
                    /\ UNCHANGED <<requests, asked>>

\* processSessionReq(): a session the worker does not know gets a client and an
\* entity of its own; the game then sees the message.
processSessionReq(w) ==
    LET msg == Head(toWorker[w])
        id == msg.sessionId
    IN  /\ Received(w, "RouteLogicMsgReq")
        /\ m_worker_client' = IF id \in DOMAIN m_worker_client[w] THEN m_worker_client
                              ELSE [m_worker_client EXCEPT ![w] = Insert(@, id, msg.client)]
        /\ served' = [served EXCEPT ![w] =
                         Insert(@, id, (IF id \in DOMAIN @ THEN @[id] ELSE {}) \cup {msg.num})]
        /\ UNCHANGED movedAway

\* processSessionOffline(): m_worker_client[id] makes a client when there is
\* none; what listens for LOGOUT_CMD may throw, and then the client stays.
processSessionOffline(w) ==
    LET id == Head(toWorker[w]).sessionId
        entity == IF id \in DOMAIN m_worker_client[w] THEN m_worker_client[w][id] ELSE NoEntity
    IN  /\ Received(w, "SessionOfflineReq")
        /\ \/ /\ entity = NoEntity /\ ThrowingHook
              /\ m_worker_client' = [m_worker_client EXCEPT ![w] = Insert(@, id, NoEntity)]
           \/ /\ ~(entity = NoEntity /\ ThrowingHook)
              /\ m_worker_client' = [m_worker_client EXCEPT ![w] = Erase(@, id)]
        /\ UNCHANGED <<served, movedAway>>

\* processSessionEnter(): a client without entity, or the one there is.
processSessionEnter(w) ==
    LET id == Head(toWorker[w]).sessionId
    IN  /\ Received(w, "SessionEnterWorkerReq")
        /\ m_worker_client' = IF id \in DOMAIN m_worker_client[w] THEN m_worker_client
                              ELSE [m_worker_client EXCEPT ![w] = Insert(@, id, NoEntity)]
        /\ movedAway' = [movedAway EXCEPT ![w] = @ \ {id}]
        /\ UNCHANGED served

-----------------------------------------------------------------------------
(* What the game asks for. *)

\* asyncCall() of the worker: what it sends while its connection is down is lost.
Requesting(w, kind, msg) ==
    /\ kind \in Requests /\ requests < MaxRequests
    /\ requests' = requests + 1
    /\ \/ nodeId[w] # 0 /\ toGate' = [toGate EXCEPT ![w] = Append(@, msg)]
       \/ nodeId[w] = 0 /\ toGate' = toGate
    /\ UNCHANGED <<toWorker, nodeId, service2nodeId, m_for_allocID, missed, served>>

sessionSendMsg(w, id) == /\ id \in DOMAIN m_worker_client[w]
                         /\ Requesting(w, "send", GateRouteMsgToSessionReq(id))
                         /\ UNCHANGED <<m_worker_client, movedAway, asked>>

gateBroadcastMsg(w) == /\ Requesting(w, "broadcast", GateBroadcastMsgToSessionReq)
                       /\ UNCHANGED <<m_worker_client, movedAway, asked>>

\* sessionClose(): the client itself goes when its session is gone, or never.
sessionClose(w, id) == /\ id \in DOMAIN m_worker_client[w]
                       /\ Requesting(w, "close", GateCloseSessionReq(id))
                       /\ asked' = asked \cup {id}
                       /\ UNCHANGED <<m_worker_client, movedAway>>

\* sessionChangeWorker(): the worker forgets the client at once; nobody checks
\* that there is a worker of that index.
sessionChangeWorker(w, id, to) ==
    /\ id \in DOMAIN m_worker_client[w]
    /\ Requesting(w, "move", GateChangeLogicNodeReq(id, to))
    /\ m_worker_client' = [m_worker_client EXCEPT ![w] = Erase(@, id)]
    /\ movedAway' = [movedAway EXCEPT ![w] = @ \cup {id}]
    /\ asked' = asked \cup {id}

\* The process of a worker ends, which breaks its connection before: its clients
\* and what it has not handled go with it.
WorkerEnds(w) ==
    /\ nodeId[w] = 0
    /\ m_worker_client' = [m_worker_client EXCEPT ![w] = Empty]
    /\ served' = [served EXCEPT ![w] = Empty]
    /\ toWorker' = [toWorker EXCEPT ![w] = <<>>]
    /\ UNCHANGED <<requests, movedAway, asked>>
    /\ UNCHANGED <<toGate, nodeId, service2nodeId, m_for_allocID, missed>>

-----------------------------------------------------------------------------
WorkerSteps ==
    \E w \in Worker : \/ processSessionReq(w) \/ processSessionOffline(w) \/ processSessionEnter(w)

GameSteps ==
    \E w \in Worker :
        \/ gateBroadcastMsg(w)
        \/ \E id \in DOMAIN m_worker_client[w] :
               \/ sessionSendMsg(w, id) \/ sessionClose(w, id)
               \/ \E to \in Targets : sessionChangeWorker(w, id, to)
=============================================================================
