------------------------------- MODULE FFGate -------------------------------
(***************************************************************************)
(* ff::FFGate of fflib/server/ffgate.cpp: the sessions of the clients, the *)
(* worker each belongs to, and the messages between the two.  All handlers *)
(* run on the gate's one TaskQueue, so a handler is one step.              *)
(*                                                                         *)
(* A client is one connection: its socket object and the SessionData in    *)
(* it.  inbox[c] holds the tasks the IO thread posted for that socket, its *)
(* messages (numbered from 1) and after them Broken, exactly once.         *)
(***************************************************************************)
EXTENDS SessionNet

CONSTANTS Client,    \* the clients
          MaxMsgs    \* bound: messages a client sends

NoSock == "NULL"      \* client_info_t::sock of an entry nobody filled in

ASSUME FFGateAssumption == MaxMsgs \in Nat /\ IsFiniteSet(Client) /\ NoSock \notin Client

VARIABLES sock,          \* a client's socket: none, open, closed
          inbox,         \* the tasks posted for it
          num,           \* how many messages the client has sent
          sessionId,     \* SessionData::sessionId in the socket object
          m_client_set,  \* session id -> client_info_t
          m_allocID,     \* the last session id handed out
          toClient,      \* what was sent to a client: session ids, 0 for a broadcast or a refusal
          gate,          \* open, closing (close_impl ran), closed
          thrown         \* handlers that ended in the exception of FF_ASSERT

socketVars == <<sock, inbox, num>>
gateVars == <<sessionId, m_client_set, m_allocID, toClient, gate, thrown>>

Broken == 0           \* a task of inbox that is no message
\* client_info_t(), what m_client_set[id] makes of an id it does not hold.
NewInfo == [sock |-> NoSock, allocWorker |-> NoWorker]
At(map, id) == IF id \in DOMAIN map THEN map ELSE Insert(map, id, NewInfo)

GateInit == /\ sock = [c \in Client |-> "none"]
            /\ inbox = [c \in Client |-> <<>>]
            /\ num = [c \in Client |-> 0]
            /\ sessionId = [c \in Client |-> 0]
            /\ m_client_set = Empty
            /\ m_allocID = 0
            /\ toClient = [c \in Client |-> {}]
            /\ gate = "open"
            /\ thrown = {}

-----------------------------------------------------------------------------
(* The clients, and the IO thread that posts what their sockets bring.      *)

Connect(c) == /\ sock[c] = "none"
              /\ sock' = [sock EXCEPT ![c] = "open"]
              /\ UNCHANGED <<inbox, num, gateVars, sessionNetVars>>

Send(c) == /\ sock[c] = "open" /\ num[c] < MaxMsgs
           /\ num' = [num EXCEPT ![c] = @ + 1]
           /\ inbox' = [inbox EXCEPT ![c] = Append(@, num'[c])]
           /\ UNCHANGED <<sock, gateVars, sessionNetVars>>

\* close() of a socket, by the peer or by the gate: Broken is posted, once.
CloseSocks(S) ==
    LET open == {c \in S : sock[c] = "open"}
    IN  /\ sock' = [c \in Client |-> IF c \in open THEN "closed" ELSE sock[c]]
        /\ inbox' = [c \in Client |-> IF c \in open THEN Append(inbox[c], Broken) ELSE inbox[c]]
        /\ num' = num

Disconnect(c) == /\ sock[c] = "open"
                 /\ CloseSocks({c})
                 /\ UNCHANGED <<gateVars, sessionNetVars>>

Handled(c) == /\ inbox' = [inbox EXCEPT ![c] = Tail(@)]
              /\ UNCHANGED <<sock, num>>

-----------------------------------------------------------------------------
(* Tasks of the sockets. *)

\* Mutant: every new session is given the first id.
allocID_Same == 1
\* m_gate_index is never assigned: the id is the counter.
allocID == m_allocID + 1

\* Among the workers of the registry, in the order of their names, the one at
\* place id % size.
allocWorker(id) ==
    LET allwoker == DOMAIN service2nodeId
    IN  CHOOSE w \in allwoker :
            Cardinality({x \in allwoker : x < w}) = id % Cardinality(allwoker)

\* Mutant: the message overtakes what waits for the worker.
routeLogicMsg_Overtakes(c, n, id, clients, first) ==
    LET w == clients[id].allocWorker
        sent == asyncCall(w, RouteLogicMsgReq(id, c, n, first))
    IN  /\ toWorker' = IF sent = toWorker THEN toWorker
                       ELSE [sent EXCEPT ![w] = <<sent[w][Len(sent[w])]>> \o toWorker[w]]
        /\ m_client_set' = At(clients, id)
\* Mutant: a new session's first message is not forwarded.
routeLogicMsg_NotFirst(c, n, id, clients, first) ==
    /\ m_client_set' = At(clients, id)
    /\ toWorker' = IF first THEN toWorker
                   ELSE asyncCall(At(clients, id)[id].allocWorker, RouteLogicMsgReq(id, c, n, first))
\* m_client_set[id] makes an entry when the session was closed meanwhile: it
\* names no worker and the message is lost.
routeLogicMsg(c, n, id, clients, first) ==
    /\ m_client_set' = At(clients, id)
    /\ toWorker' = asyncCall(At(clients, id)[id].allocWorker, RouteLogicMsgReq(id, c, n, first))

\* handleMsg(): the first message of a client starts its session.
handleMsg(c) ==
    /\ gate # "closed" /\ inbox[c] # <<>> /\ Head(inbox[c]) # Broken
    /\ Handled(c)
    /\ \/ /\ sessionId[c] = 0 /\ DOMAIN service2nodeId = {}
          /\ toClient' = [toClient EXCEPT ![c] = @ \cup {0}]   \* server is busy
          /\ UNCHANGED <<sessionId, m_client_set, m_allocID, toWorker>>
       \/ /\ sessionId[c] = 0 /\ DOMAIN service2nodeId # {}
          /\ m_allocID' = m_allocID + 1
          /\ sessionId' = [sessionId EXCEPT ![c] = allocID]
          /\ routeLogicMsg(c, Head(inbox[c]), allocID,
                 Insert(m_client_set, allocID, [sock |-> c, allocWorker |-> allocWorker(allocID)]),
                 TRUE)
          /\ UNCHANGED toClient
       \/ /\ sessionId[c] # 0
          /\ routeLogicMsg(c, Head(inbox[c]), sessionId[c], m_client_set, FALSE)
          /\ UNCHANGED <<sessionId, m_allocID, toClient>>
    /\ UNCHANGED <<gate, thrown, toGate, nodeId, service2nodeId, m_for_allocID, missed>>

\* Mutant: the worker is not told.
cleanup_session_Silent(c, clients, closesend) ==
    /\ m_client_set' = IF clients[sessionId[c]].sock = c THEN Erase(clients, sessionId[c]) ELSE clients
    /\ UNCHANGED <<toWorker, missed>>
\* cleanup_session(): only for the socket the entry belongs to.
cleanup_session(c, clients, closesend) ==
    LET id == sessionId[c]
        w == clients[id].allocWorker
    IN  \/ /\ clients[id].sock = c
           /\ toWorker' = IF closesend THEN asyncCall(w, SessionOfflineReq(id)) ELSE toWorker
           /\ missed' = IF closesend /\ ~Reachable(w) THEN missed \cup {id} ELSE missed
           /\ m_client_set' = Erase(clients, id)
        \/ clients[id].sock # c /\ m_client_set' = clients /\ UNCHANGED <<toWorker, missed>>

\* handleBroken(): m_client_set[id] again makes an entry, which then stays.
handleBroken(c) ==
    /\ gate # "closed" /\ inbox[c] # <<>> /\ Head(inbox[c]) = Broken
    /\ Handled(c)
    /\ \/ sessionId[c] = 0 /\ UNCHANGED <<m_client_set, toWorker, missed>>
       \/ sessionId[c] # 0 /\ cleanup_session(c, At(m_client_set, sessionId[c]), TRUE)
    /\ UNCHANGED <<sessionId, m_allocID, toClient, gate, thrown,
                   toGate, nodeId, service2nodeId, m_for_allocID>>

-----------------------------------------------------------------------------
(* Requests of the workers. *)

\* The gate takes the next message of worker w, which is a cmd.
Requested(w, cmd) == /\ gate # "closed" /\ toGate[w] # <<>> /\ Head(toGate[w]).cmd = cmd
                     /\ toGate' = [toGate EXCEPT ![w] = Tail(@)]
                     /\ UNCHANGED <<gate, nodeId, service2nodeId, m_for_allocID, missed>>

\* Mutant: the worker the session leaves is told that it entered.
changeSessionLogic_TellsOld(w) ==
    LET req == Head(toGate[w])
        id == req.sessionId
    IN  /\ Requested(w, "GateChangeLogicNodeReq")
        /\ IF id \in DOMAIN m_client_set
           THEN /\ m_client_set' = [m_client_set EXCEPT ![id].allocWorker = req.allocWorker]
                /\ toWorker' = asyncCall(m_client_set[id].allocWorker,
                                         SessionEnterWorkerReq(id, m_client_set[id].allocWorker))
           ELSE UNCHANGED <<m_client_set, toWorker>>
        /\ UNCHANGED <<thrown, socketVars, sessionId, m_allocID, toClient>>
\* Mutant: a session that ended is moved as well.
changeSessionLogic_NoFind(w) ==
    LET req == Head(toGate[w])
        id == req.sessionId
    IN  /\ Requested(w, "GateChangeLogicNodeReq")
        /\ m_client_set' = [At(m_client_set, id) EXCEPT ![id].allocWorker = req.allocWorker]
        /\ toWorker' = asyncCall(req.allocWorker, SessionEnterWorkerReq(id, NoWorker))
        /\ UNCHANGED <<thrown, socketVars, sessionId, m_allocID, toClient>>
\* changeSessionLogic(): the new worker is asked for from here on and hears of
\* the session; the address of the client is read from its socket, after the
\* entry was changed.
changeSessionLogic(w) ==
    LET req == Head(toGate[w])
        id == req.sessionId
    IN  /\ Requested(w, "GateChangeLogicNodeReq")
        /\ \/ id \notin DOMAIN m_client_set /\ UNCHANGED <<m_client_set, toWorker, thrown>>
           \/ /\ id \in DOMAIN m_client_set
              /\ m_client_set' = [m_client_set EXCEPT ![id].allocWorker = req.allocWorker]
              /\ \/ /\ m_client_set[id].sock = NoSock
                    /\ thrown' = thrown \cup {"changeSessionLogic"}
                    /\ UNCHANGED toWorker
                 \/ /\ m_client_set[id].sock # NoSock
                    /\ toWorker' = asyncCall(req.allocWorker,
                                       SessionEnterWorkerReq(id, m_client_set[id].allocWorker))
                    /\ UNCHANGED thrown
        /\ UNCHANGED <<socketVars, sessionId, m_allocID, toClient>>

\* closeSession(): the socket is closed, which posts its Broken, and the entry
\* goes without a word to the worker.
closeSession(w) ==
    LET id == Head(toGate[w]).sessionId
    IN  /\ Requested(w, "GateCloseSessionReq")
        /\ \/ id \notin DOMAIN m_client_set /\ UNCHANGED <<m_client_set, toWorker, socketVars, thrown>>
           \/ /\ id \in DOMAIN m_client_set /\ m_client_set[id].sock = NoSock
              /\ thrown' = thrown \cup {"closeSession"}
              /\ UNCHANGED <<m_client_set, toWorker, socketVars>>
           \/ /\ id \in DOMAIN m_client_set /\ m_client_set[id].sock # NoSock
              /\ CloseSocks({m_client_set[id].sock})
              /\ cleanup_session(m_client_set[id].sock, m_client_set, FALSE)
              /\ UNCHANGED thrown
        /\ UNCHANGED <<sessionId, m_allocID, toClient>>

\* Bytes written to a socket that is gone are lost; a NULL socket is skipped.
Reach(socks, id) ==
    toClient' = [c \in Client |-> IF c \in socks /\ sock[c] = "open" THEN toClient[c] \cup {id}
                                  ELSE toClient[c]]

routeMsgToSession(w) ==
    LET id == Head(toGate[w]).sessionId
    IN  /\ Requested(w, "GateRouteMsgToSessionReq")
        /\ Reach({m_client_set[i].sock : i \in DOMAIN m_client_set \cap {id}}, id)
        /\ UNCHANGED <<m_client_set, thrown, toWorker, socketVars, sessionId, m_allocID>>

broadcastMsgToSession(w) ==
    /\ Requested(w, "GateBroadcastMsgToSessionReq")
    /\ Reach({m_client_set[i].sock : i \in DOMAIN m_client_set}, 0)
    /\ UNCHANGED <<m_client_set, thrown, toWorker, socketVars, sessionId, m_allocID>>

\* close_impl(): the sockets are closed in the order of the session ids, up to
\* an entry without one: it is a task of its own, and nothing catches what it
\* throws, so that the gate's process ends there.
close_impl ==
    LET ghosts == {i \in DOMAIN m_client_set : m_client_set[i].sock = NoSock}
        reached == {i \in DOMAIN m_client_set : \A g \in ghosts : i < g}
    IN  /\ gate = "open" /\ gate' = IF ghosts = {} THEN "closing" ELSE "closed"
        /\ CloseSocks({m_client_set[i].sock : i \in reached})
        /\ thrown' = IF ghosts # {} THEN thrown \cup {"close_impl"} ELSE thrown
        /\ UNCHANGED <<m_client_set, sessionId, m_allocID, toClient, sessionNetVars>>

\* close() goes on to close the FFRpc and with it the TaskQueue.
queueClosed == /\ gate = "closing" /\ gate' = "closed"
               /\ UNCHANGED <<m_client_set, sessionId, m_allocID, toClient, thrown, socketVars,
                              sessionNetVars>>

-----------------------------------------------------------------------------
GateSteps == \/ \E c \in Client : handleMsg(c) \/ handleBroken(c)
             \/ \E w \in Worker : \/ changeSessionLogic(w) \/ closeSession(w)
                                  \/ routeMsgToSession(w) \/ broadcastMsgToSession(w)

ClientSteps == \E c \in Client : Connect(c) \/ Send(c) \/ Disconnect(c)
=============================================================================
