------------------------------- MODULE FFRpc -------------------------------
(***************************************************************************)
(* ff::FFRpc of fflib/rpc/ffrpc.cpp: a node that registers a service with  *)
(* the broker, calls the services of other nodes, answers their calls, and *)
(* comes back when its connection is lost.                                 *)
(*                                                                         *)
(* A node has two threads.  The one that called open() or close() polls    *)
(* m_nodeId and m_master_broker_sock and sets m_runing; everything else is *)
(* a handler and runs on the node's TaskQueue, one step each.              *)
(***************************************************************************)
EXTENDS RpcNet, FiniteSets

CONSTANTS Node,          \* the nodes: each is one FFRpc object
          ServiceOf,     \* node -> the name under which it registers
          Kinds,         \* kinds of calls made: ask, tell (no callback), unknown (no such interface)
          MaxCalls,      \* bound: calls made by all nodes together
          MaxRestarts    \* bound: nodes closed, given up by open(), or whose process is killed

NULL == "NULL"
NoOne == "NoOne"

ASSUME FFRpcAssumption == /\ InProc \subseteq Node
                          /\ DOMAIN ServiceOf = Node
                          /\ Kinds \subseteq {"ask", "tell", "unknown"}
                          /\ MaxCalls \in Nat /\ MaxRestarts \in Nat
                          /\ NULL \notin Conn /\ NoOne \notin Node

VARIABLES
    pc,                    \* where the thread that opens and closes the node is
    m_runing,              \* open() has succeeded and close() has not been called
    m_nodeId,              \* the id the broker gave, 0 before
    m_master_broker_sock,  \* the connection to the broker, or NULL
    m_broker_data,         \* the node's copy of the registry
    m_rpcTmpCallBack,      \* the callbacks of calls not answered yet, with the tag of the call
    gCallBackIDGen,        \* the last callback id; a static of the process, which has one node
    reconnectTimers,       \* timers set to call timerReconnectBroker()
    owner,                 \* connection -> the node that made it
    calls, restarts,       \* how many of the bounds are used up
    ran,                   \* <<t, u>>: the callback of call t was run with the result of call u
    served                 \* <<s, n>>: a call for service s was handled by node n

nodeVars == <<pc, m_runing, m_nodeId, m_master_broker_sock, m_broker_data, m_rpcTmpCallBack,
              gCallBackIDGen, reconnectTimers>>
rpcVars == <<nodeVars, owner, calls, restarts, ran, served>>

RpcInit == /\ pc = [n \in Node |-> "start"]
           /\ m_runing = [n \in Node |-> FALSE]
           /\ m_nodeId = [n \in Node |-> 0]
           /\ m_master_broker_sock = [n \in Node |-> NULL]
           /\ m_broker_data = [n \in Node |-> Empty]
           /\ m_rpcTmpCallBack = [n \in Node |-> {}]
           /\ gCallBackIDGen = [n \in Node |-> 0]
           /\ reconnectTimers = [n \in Node |-> 0]
           /\ owner = [c \in Conn |-> NoOne]
           /\ calls = 0 /\ restarts = 0
           /\ ran = {} /\ served = {}

\* The handlers run until close() closes the TaskQueue or the process ends.
Alive(n) == pc[n] \in {"polling", "open", "failed", "closing", "forgetting"}

\* The links on which messages for node n come in.
LinksOf(n) == {c \in Conn : owner[c] = n} \cup ({n} \cap InProc)

-----------------------------------------------------------------------------
(* Connecting: connectToBroker(). *)

connectToBroker(n) ==
    \E c \in Conn : /\ Connect(c, <<RegisterReq("RPC_NODE", ServiceOf[n])>>)
                    /\ owner' = [owner EXCEPT ![c] = n]
                    /\ m_master_broker_sock' = [m_master_broker_sock EXCEPT ![n] = c]

\* open() up to the loop that waits for an id.
OpenConnects(n) ==
    /\ pc[n] = "start"
    /\ connectToBroker(n)
    /\ pc' = [pc EXCEPT ![n] = "polling"]
    /\ UNCHANGED <<m_node_info, m_runing, m_nodeId, m_broker_data, m_rpcTmpCallBack,
                   gCallBackIDGen, reconnectTimers, calls, restarts, ran, served>>

\* open() sees the id and returns 0.
OpenSucceeds(n) ==
    /\ pc[n] = "polling"
    /\ m_nodeId[n] # 0
    /\ pc' = [pc EXCEPT ![n] = "open"]
    /\ m_runing' = [m_runing EXCEPT ![n] = TRUE]
    /\ UNCHANGED <<netVars, m_node_info, m_nodeId, m_master_broker_sock, m_broker_data,
                   m_rpcTmpCallBack, gCallBackIDGen, reconnectTimers, owner, calls, restarts,
                   ran, served>>

\* open() sees that the socket is gone and returns -1.  The id may have come
\* since it was last looked at.
OpenFails(n) ==
    /\ pc[n] = "polling"
    /\ m_master_broker_sock[n] = NULL
    /\ pc' = [pc EXCEPT ![n] = "failed"]
    /\ UNCHANGED <<netVars, m_node_info, m_runing, m_nodeId, m_master_broker_sock, m_broker_data,
                   m_rpcTmpCallBack, gCallBackIDGen, reconnectTimers, owner, calls, restarts,
                   ran, served>>

\* open() has waited long enough: it closes the socket, whatever is under way on
\* it, and returns -1.
OpenTimesOut(n) ==
    LET c == m_master_broker_sock[n] IN
    /\ pc[n] = "polling"
    /\ c # NULL
    /\ restarts < MaxRestarts /\ restarts' = restarts + 1
    /\ pc' = [pc EXCEPT ![n] = "failed"]
    /\ m_master_broker_sock' = [m_master_broker_sock EXCEPT ![n] = NULL]
    /\ IF Up(c) THEN Break(c, toBroker, toNode)
                ELSE UNCHANGED <<brokerEnd, nodeEnd, toBroker, toNode>>
    /\ UNCHANGED <<session, m_node_info, m_runing, m_nodeId, m_broker_data, m_rpcTmpCallBack,
                   gCallBackIDGen, reconnectTimers, owner, calls, ran, served>>

\* timerReconnectBroker().
timerReconnectBroker(n) ==
    /\ Alive(n)
    /\ reconnectTimers[n] > 0
    /\ reconnectTimers' = [reconnectTimers EXCEPT ![n] = @ - 1]
    /\ IF m_runing[n] /\ m_master_broker_sock[n] = NULL
       THEN connectToBroker(n)
       ELSE UNCHANGED <<netVars, m_master_broker_sock, owner>>
    /\ UNCHANGED <<m_node_info, pc, m_runing, m_nodeId, m_broker_data, m_rpcTmpCallBack,
                   gCallBackIDGen, calls, restarts, ran, served>>

-----------------------------------------------------------------------------
(* Events of the connection. *)

Arrives(n, l, cmd) ==
    /\ Alive(n)
    /\ l \in LinksOf(n)
    /\ toNode[l] # <<>>
    /\ Head(toNode[l]).cmd = cmd

\* handleBrokerRegResponse() with the flag -1: the socket is closed, and its
\* BROKEN event is still to come.
RegistrationRefused(n, c) ==
    /\ Arrives(n, c, "REGISTER_TO_BROKER_RET")
    /\ Head(toNode[c]).registerFlag = -1
    /\ m_master_broker_sock[n] # NULL
    /\ IF Up(m_master_broker_sock[n])
       THEN Break(m_master_broker_sock[n], toBroker, Taken(toNode, c))
       ELSE /\ toNode' = Taken(toNode, c)
            /\ UNCHANGED <<brokerEnd, nodeEnd, toBroker>>
    /\ m_master_broker_sock' = [m_master_broker_sock EXCEPT ![n] = NULL]
    /\ UNCHANGED <<session, m_node_info, pc, m_runing, m_nodeId, m_broker_data,
                   m_rpcTmpCallBack, gCallBackIDGen, reconnectTimers, owner, calls, restarts,
                   ran, served>>

\* The same when the socket is gone already: it is dereferenced all the same.
RefusalCrashes(n, c) ==
    /\ Arrives(n, c, "REGISTER_TO_BROKER_RET")
    /\ Head(toNode[c]).registerFlag = -1
    /\ m_master_broker_sock[n] = NULL
    /\ pc' = [pc EXCEPT ![n] = "crashed"]
    /\ UNCHANGED <<netVars, m_node_info, m_runing, m_nodeId, m_master_broker_sock, m_broker_data,
                   m_rpcTmpCallBack, gCallBackIDGen, reconnectTimers, owner, calls, restarts,
                   ran, served>>

\* Mutant: a node that has an id keeps it.
LearnsId_Once(n, ret) == ret.registerFlag = 1 /\ m_nodeId[n] = 0
\* The registration that is confirmed is the node's own.
LearnsId(n, ret) == ret.registerFlag = 1

\* handleBrokerRegResponse() with the flag 1, for this node, or 0, for all.
RegistryArrives(n, c) ==
    LET ret == Head(toNode[c]) IN
    /\ Arrives(n, c, "REGISTER_TO_BROKER_RET")
    /\ ret.registerFlag # -1
    /\ IF LearnsId(n, ret)
       THEN /\ m_nodeId' = [m_nodeId EXCEPT ![n] = ret.nodeId]
            /\ m_node_info' = IF n \in InProc THEN addNode(m_node_info, ret.nodeId, n)
                              ELSE m_node_info
       ELSE UNCHANGED <<m_nodeId, m_node_info>>
    /\ m_broker_data' = [m_broker_data EXCEPT ![n] = ret.service2nodeId]
    /\ toNode' = Taken(toNode, c)
    /\ UNCHANGED <<brokerEnd, nodeEnd, toBroker, session, pc, m_runing, m_master_broker_sock,
                   m_rpcTmpCallBack, gCallBackIDGen, reconnectTimers, owner, calls, restarts,
                   ran, served>>

\* Mutant: no timer when the socket was forgotten already, as after a refusal.
SetsTimer_SocketOnly(n) == m_runing[n] /\ m_master_broker_sock[n] # NULL
SetsTimer(n) == m_runing[n]

\* handleBroken(): it does not look whose BROKEN event this is.
HandleNodeBroken(n, c) ==
    /\ Alive(n)
    /\ owner[c] = n /\ nodeEnd[c] = "broken" /\ toNode[c] = <<>>
    /\ nodeEnd' = [nodeEnd EXCEPT ![c] = "none"]
    /\ owner' = [owner EXCEPT ![c] = NoOne]
    /\ m_master_broker_sock' = [m_master_broker_sock EXCEPT ![n] = NULL]
    /\ reconnectTimers' = [reconnectTimers EXCEPT ![n] = IF SetsTimer(n) THEN @ + 1 ELSE @]
    /\ UNCHANGED <<brokerEnd, toBroker, toNode, session, m_node_info, pc, m_runing, m_nodeId,
                   m_broker_data, m_rpcTmpCallBack, gCallBackIDGen, calls, restarts, ran, served>>

-----------------------------------------------------------------------------
(* Calls. *)

\* sendToDestNode(): straight to the broker's TaskQueue when the broker lives in
\* this process, else through the socket; without a socket the message is lost.
Sent(queues, n, service, name, dest, callback, err, tag) ==
    LET msg == RouteMsg(service, name, dest, m_nodeId[n], callback, err, tag)
    IN IF n \in InProc THEN Put(queues, n, msg)
       ELSE IF m_master_broker_sock[n] = NULL THEN queues
       ELSE Put(queues, m_master_broker_sock[n], msg)

\* docall() when the registry does not know the service: the callback gets an
\* error at once.
CallWithoutService(n, service, kind) ==
    /\ pc[n] = "open"
    /\ calls < MaxCalls /\ calls' = calls + 1
    /\ service \notin DOMAIN m_broker_data[n]
    /\ ran' = IF kind = "tell" THEN ran ELSE ran \cup {<<calls', calls'>>}
    /\ UNCHANGED <<netVars, m_node_info, nodeVars, owner, restarts, served>>

\* Mutant: the generator of callback ids is not advanced.
NewCallbackId_Stuck(n) == 1
NewCallbackId(n) == gCallBackIDGen[n] + 1

docall(n, service, kind) ==
    LET callbackId == IF kind = "tell" THEN 0 ELSE NewCallbackId(n) IN
    /\ pc[n] = "open"
    /\ calls < MaxCalls /\ calls' = calls + 1
    /\ service \in DOMAIN m_broker_data[n]
    /\ IF kind = "tell"
       THEN UNCHANGED <<gCallBackIDGen, m_rpcTmpCallBack>>
       ELSE /\ gCallBackIDGen' = [gCallBackIDGen EXCEPT ![n] = callbackId]
            /\ m_rpcTmpCallBack' = [m_rpcTmpCallBack EXCEPT ![n] =
                                      @ \cup {[id |-> callbackId, tag |-> calls']}]
    /\ toBroker' = Sent(toBroker, n, service, kind, m_broker_data[n][service], callbackId,
                        FALSE, calls')
    /\ UNCHANGED <<brokerEnd, nodeEnd, toNode, session, m_node_info, pc, m_runing, m_nodeId,
                   m_master_broker_sock, m_broker_data, reconnectTimers, owner, restarts,
                   ran, served>>

\* Mutant: a call for an unknown interface is logged and dropped.
IsAnswered_KnownOnly(msg) == msg.destMsgName # "unknown" /\ msg.callbackId # 0
IsAnswered(msg) == msg.destMsgName = "unknown" \/ msg.callbackId # 0

\* handleRpcCallMsg() for a call.  A service answers with response() when the
\* caller left a callback; a call for an interface that was never registered is
\* answered with an error, callback or not.
HandleCall(n, l) ==
    LET msg == Head(toNode[l])
        known == msg.destMsgName # "unknown"
    IN /\ Arrives(n, l, "BROKER_TO_CLIENT_MSG")
       /\ msg.destServiceName # ""
       /\ toNode' = Taken(toNode, l)
       /\ served' = IF known THEN served \cup {<<msg.destServiceName, n>>} ELSE served
       /\ toBroker' = IF IsAnswered(msg)
                      THEN Sent(toBroker, n, "", "", msg.fromNodeId, msg.callbackId, ~known, msg.tag)
                      ELSE toBroker
       /\ UNCHANGED <<brokerEnd, nodeEnd, session, m_node_info, nodeVars, owner, calls, restarts, ran>>

\* handleRpcCallMsg() for an answer, or for a message the broker sent back: both
\* are told from a call by the empty destServiceName, and from each other not at
\* all.  (An error for callback 0 is dropped at once; 0 is nobody's callback id.)
HandleAnswer(n, l) ==
    LET msg == Head(toNode[l])
        found == {cb \in m_rpcTmpCallBack[n] : cb.id = msg.callbackId}
    IN /\ Arrives(n, l, "BROKER_TO_CLIENT_MSG")
       /\ msg.destServiceName = ""
       /\ toNode' = Taken(toNode, l)
       /\ ran' = ran \cup {<<cb.tag, msg.tag>> : cb \in found}
       /\ m_rpcTmpCallBack' = [m_rpcTmpCallBack EXCEPT ![n] = @ \ found]
       /\ UNCHANGED <<brokerEnd, nodeEnd, toBroker, session, m_node_info, pc, m_runing, m_nodeId,
                      m_master_broker_sock, m_broker_data, gCallBackIDGen, reconnectTimers, owner,
                      calls, restarts, served>>

-----------------------------------------------------------------------------
(* The end of a node. *)

\* close() up to the wait for the TaskQueue.
CloseStarts(n) ==
    /\ pc[n] = "open"
    /\ restarts < MaxRestarts /\ restarts' = restarts + 1
    /\ pc' = [pc EXCEPT ![n] = "closing"]
    /\ IF m_master_broker_sock[n] # NULL /\ Up(m_master_broker_sock[n])
       THEN Break(m_master_broker_sock[n], toBroker, toNode)
       ELSE UNCHANGED <<brokerEnd, nodeEnd, toBroker, toNode>>
    /\ UNCHANGED <<session, m_node_info, m_runing, m_nodeId, m_master_broker_sock, m_broker_data,
                   m_rpcTmpCallBack, gCallBackIDGen, reconnectTimers, owner, calls,
                   ran, served>>

\* close() has waited for the BROKEN event, though not for ever.
CloseForgets(n) ==
    /\ pc[n] = "closing"
    /\ pc' = [pc EXCEPT ![n] = "forgetting"]
    /\ m_runing' = [m_runing EXCEPT ![n] = FALSE]
    /\ m_master_broker_sock' = [m_master_broker_sock EXCEPT ![n] = NULL]
    /\ UNCHANGED <<netVars, m_node_info, m_nodeId, m_broker_data, m_rpcTmpCallBack,
                   gCallBackIDGen, reconnectTimers, owner, calls, restarts, ran, served>>

\* The end of close(): the TaskQueue is closed and no handler runs any more.
CloseEnds(n) ==
    /\ pc[n] = "forgetting"
    /\ pc' = [pc EXCEPT ![n] = "closed"]
    /\ UNCHANGED <<netVars, m_node_info, m_runing, m_nodeId, m_master_broker_sock, m_broker_data,
                   m_rpcTmpCallBack, gCallBackIDGen, reconnectTimers, owner, calls, restarts,
                   ran, served>>

\* The node's process ends, killed or not, and is started again.
ProcessRestarts(n) ==
    /\ n \notin InProc
    /\ pc[n] # "start"
    /\ IF pc[n] \in {"closed", "failed", "crashed"} THEN UNCHANGED restarts
       ELSE restarts < MaxRestarts /\ restarts' = restarts + 1
    /\ pc' = [pc EXCEPT ![n] = "start"]
    /\ m_runing' = [m_runing EXCEPT ![n] = FALSE]
    /\ m_nodeId' = [m_nodeId EXCEPT ![n] = 0]
    /\ m_master_broker_sock' = [m_master_broker_sock EXCEPT ![n] = NULL]
    /\ m_broker_data' = [m_broker_data EXCEPT ![n] = Empty]
    /\ m_rpcTmpCallBack' = [m_rpcTmpCallBack EXCEPT ![n] = {}]
    /\ gCallBackIDGen' = [gCallBackIDGen EXCEPT ![n] = 0]
    /\ reconnectTimers' = [reconnectTimers EXCEPT ![n] = 0]
    /\ \/ \E c \in Conn : /\ owner[c] = n
                          /\ Abandon(c)
                          /\ owner' = [owner EXCEPT ![c] = NoOne]
       \/ /\ \A c \in Conn : owner[c] # n
          /\ UNCHANGED <<brokerEnd, nodeEnd, toBroker, toNode, owner>>
    /\ UNCHANGED <<session, m_node_info, calls, ran, served>>
=============================================================================
