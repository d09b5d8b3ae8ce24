------------------------------ MODULE FFBroker ------------------------------
(***************************************************************************)
(* ff::FFBroker of fflib/rpc/ffbroker.cpp: the registry of services, the   *)
(* table of the sockets of the nodes, the routing of messages between      *)
(* nodes.  All handlers run on the broker's one TaskQueue, so a handler is *)
(* one step.                                                               *)
(*                                                                         *)
(* The module is a specification of its own: the peers at the other end of *)
(* the connections send any message of the protocol in any order and drop  *)
(* the connection at any moment (the Peer actions).  RpcSystem puts FFRpc  *)
(* nodes in their place.                                                   *)
(***************************************************************************)
EXTENDS RpcNet

CONSTANTS Name,        \* names of services
          MaxAlloc,    \* bound: how many node ids are allocated
          MaxInFlight  \* bound: messages a peer has under way on one connection

ASSUME FFBrokerAssumption == "" \notin Name /\ MaxAlloc \in Nat /\ MaxInFlight \in Nat

VARIABLES node_sockets,    \* node id -> connection of that node
          service2nodeId,  \* service name -> node id
          m_for_allocID    \* the last node id handed out

brokerVars == <<node_sockets, service2nodeId, m_for_allocID, m_node_info>>

BrokerInit == /\ node_sockets = Empty
              /\ service2nodeId = Empty
              /\ m_for_allocID = 0

-----------------------------------------------------------------------------
(* What is sent to the nodes. *)

Refusal == RegisterRet(-1, 0, Empty)

\* syncNodeInfo(): the registry goes to every node, and the one that is being
\* registered (origin) learns from the flag that the id is its own.
syncNodeInfo(queues, sockets, registry, id, origin) ==
    [l \in Link |->
        IF l \in {sockets[i] : i \in DOMAIN sockets} /\ Up(l)
        THEN Append(queues[l], RegisterRet(IF l = origin THEN 1 ELSE 0, id, registry))
        ELSE queues[l]]

\* sendToRPcNode(): to a node of this process, to the node's socket, or, when
\* there is no such node, back to the sender with an error.
sendToRPcNode(queues, msg) ==
    CASE msg.destNodeId \in DOMAIN m_node_info ->
            Put(queues, m_node_info[msg.destNodeId], AsDelivered(msg))
      [] msg.destNodeId \notin DOMAIN m_node_info /\ msg.destNodeId \in DOMAIN node_sockets ->
            Put(queues, node_sockets[msg.destNodeId], AsDelivered(msg))
      [] msg.destNodeId \notin DOMAIN m_node_info \cup DOMAIN node_sockets
            /\ msg.fromNodeId \in DOMAIN node_sockets ->
            Put(queues, node_sockets[msg.fromNodeId],
                [AsDelivered(msg) EXCEPT !.errinfo = TRUE, !.destServiceName = ""])
      [] OTHER -> queues

-----------------------------------------------------------------------------
(* The handlers. *)

Receives(l, cmd) == toBroker[l] # <<>> /\ Head(toBroker[l]).cmd = cmd

\* Mutant: the counter is read and never advanced.
allocNodeId_NotAdvanced == UNCHANGED m_for_allocID
allocNodeId == m_for_allocID' = m_for_allocID + 1

\* Mutant: a connection that has an id may register again.
MayRegister_Twice(c, req) == /\ req.nodeType = "RPC_NODE"
                             /\ req.strServiceName \notin DOMAIN service2nodeId
\* Mutant: a name that is taken may be taken over.
MayRegister_NameTaken(c, req) == session[c].nodeId = 0 /\ req.nodeType = "RPC_NODE"
\* The three tests of handleRegisterToBroker().
MayRegister(c, req) == /\ session[c].nodeId = 0
                       /\ req.nodeType = "RPC_NODE"
                       /\ req.strServiceName \notin DOMAIN service2nodeId

\* Mutant: a node without a service name stays in the table.
SocketsWithout_NamedOnly(c) == IF session[c].strServiceName = "" THEN node_sockets
                               ELSE Erase(node_sockets, session[c].nodeId)
\* Mutant: the name of the service stays in the registry.
ServicesWithout_KeepsName(c) == service2nodeId
\* What is left when connection c is gone.
SocketsWithout(c) == Erase(node_sockets, session[c].nodeId)
ServicesWithout(c) == Erase(service2nodeId, session[c].strServiceName)

\* handleRegisterToBroker() for a connection that has a node id already.
RegisterTwice(c) ==
    /\ Receives(c, "REGISTER_TO_BROKER_REQ")
    /\ session[c].nodeId # 0
    /\ IF Up(c) THEN Break(c, Taken(toBroker, c), toNode)
                ELSE /\ toBroker' = Taken(toBroker, c)
                     /\ UNCHANGED <<brokerEnd, nodeEnd, toNode>>
    /\ UNCHANGED <<session, brokerVars>>

\* The name is taken, or the peer is not an RPC node.
RegisterRefused(c) ==
    /\ Receives(c, "REGISTER_TO_BROKER_REQ")
    /\ session[c].nodeId = 0
    /\ ~MayRegister(c, Head(toBroker[c]))
    /\ toBroker' = Taken(toBroker, c)
    /\ toNode' = Put(toNode, c, Refusal)
    /\ UNCHANGED <<brokerEnd, nodeEnd, session, brokerVars>>

RegisterAccepted(c) ==
    LET req == Head(toBroker[c])
        nodeId == m_for_allocID + 1
        sockets == Insert(node_sockets, nodeId, c)
        registry == IF req.strServiceName = "" THEN service2nodeId
                    ELSE Insert(service2nodeId, req.strServiceName, nodeId)
    IN /\ Receives(c, "REGISTER_TO_BROKER_REQ")
       /\ MayRegister(c, req)
       /\ m_for_allocID < MaxAlloc
       /\ allocNodeId
       /\ session' = [session EXCEPT ![c] =
                        [nodeType |-> "RPC_NODE", nodeId |-> nodeId,
                         strServiceName |-> req.strServiceName]]
       /\ node_sockets' = sockets
       /\ service2nodeId' = registry
       /\ toBroker' = Taken(toBroker, c)
       /\ toNode' = syncNodeInfo(toNode, sockets, registry, nodeId, c)
       /\ UNCHANGED <<brokerEnd, nodeEnd, m_node_info>>

handleBrokerRouteMsg(c) ==
    /\ Receives(c, "BROKER_ROUTE_MSG")
    /\ toBroker' = Taken(toBroker, c)
    /\ toNode' = IF session[c].nodeType = "RPC_NODE"
                 THEN sendToRPcNode(toNode, Head(toBroker[c]))
                 ELSE toNode
    /\ UNCHANGED <<brokerEnd, nodeEnd, session, brokerVars>>

\* A node of this process posts sendToRPcNode() itself, past the session check.
PostedRoute(n) ==
    /\ Receives(n, "BROKER_ROUTE_MSG")
    /\ toBroker' = Taken(toBroker, n)
    /\ toNode' = sendToRPcNode(toNode, Head(toBroker[n]))
    /\ UNCHANGED <<brokerEnd, nodeEnd, session, brokerVars>>

\* processSyncClientReq(): a client that is no node gets an id with its first
\* request; the id doubles as the callback id, by which the answer finds it.
SyncClientReq(c) ==
    LET req == Head(toBroker[c])
        isNew == session[c].nodeType = "UNKNOWN_NODE"
        id == IF isNew THEN m_for_allocID + 1 ELSE session[c].nodeId
        msg == [req EXCEPT !.fromNodeId = id]
    IN /\ Receives(c, "SYNC_CLIENT_REQ")
       /\ IF isNew
          THEN /\ m_for_allocID < MaxAlloc
               /\ allocNodeId
               /\ session' = [session EXCEPT ![c] = [nodeType |-> "SYNC_CLIENT_NODE", nodeId |-> id,
                                                     strServiceName |-> session[c].strServiceName]]
               /\ node_sockets' = Insert(node_sockets, id, c)
          ELSE UNCHANGED <<m_for_allocID, session, node_sockets>>
       /\ toBroker' = Taken(toBroker, c)
       /\ toNode' = IF req.destServiceName \in DOMAIN service2nodeId
                    THEN sendToRPcNode(toNode,
                            [msg EXCEPT !.destNodeId = service2nodeId[req.destServiceName],
                                        !.callbackId = id])
                    ELSE Put(toNode, c, [msg EXCEPT !.cmd = "BROKER_ROUTE_MSG", !.errinfo = TRUE])
       /\ UNCHANGED <<brokerEnd, nodeEnd, service2nodeId, m_node_info>>

\* Mutant: the id of the node that went away is given back.
HandleBroken_FreesId(c) ==
    /\ brokerEnd[c] = "broken"
    /\ toBroker[c] = <<>>
    /\ session[c].nodeId # 0
    /\ brokerEnd' = [brokerEnd EXCEPT ![c] = "none"]
    /\ node_sockets' = SocketsWithout(c)
    /\ service2nodeId' = ServicesWithout(c)
    /\ m_for_allocID' = m_for_allocID - 1
    /\ UNCHANGED <<nodeEnd, toBroker, toNode, session, m_node_info>>

\* handleBroken(), the last task of a connection.
HandleBroken(c) ==
    /\ brokerEnd[c] = "broken"
    /\ toBroker[c] = <<>>
    /\ brokerEnd' = [brokerEnd EXCEPT ![c] = "none"]
    /\ IF session[c].nodeId = 0
       THEN UNCHANGED <<node_sockets, service2nodeId, toNode>>
       ELSE /\ node_sockets' = SocketsWithout(c)
            /\ service2nodeId' = ServicesWithout(c)
            /\ toNode' = syncNodeInfo(toNode, node_sockets', service2nodeId', 0, c)
    /\ UNCHANGED <<nodeEnd, toBroker, session, m_for_allocID, m_node_info>>

BrokerHandles(c) == \/ RegisterTwice(c) \/ RegisterRefused(c) \/ RegisterAccepted(c)
                    \/ handleBrokerRouteMsg(c) \/ SyncClientReq(c) \/ HandleBroken(c)
BrokerNext == \/ \E c \in Conn : BrokerHandles(c)
              \/ \E n \in InProc : PostedRoute(n)

-----------------------------------------------------------------------------
(* Peers that send anything and drop the connection at any moment. *)

PeerConnects(c) == Connect(c, <<>>) /\ UNCHANGED brokerVars

\* What a node takes for its own id: that of its session, or of the memory route.
KnownAs(l) == IF l \in InProc THEN {id \in DOMAIN m_node_info : m_node_info[id] = l}
                              ELSE {session[l].nodeId}

PeerMessages(l) ==
    {RouteMsg("", "", dest, from, 1, FALSE, 0) :
        dest \in 1..MaxAlloc, from \in KnownAs(l)}
    \cup IF l \in InProc THEN {}
         ELSE {RegisterReq(type, name) : type \in {"RPC_NODE", "MASTER_BROKER"}, name \in Name \cup {""}}
              \cup {[RouteMsg(name, "", 0, 0, 0, FALSE, 0) EXCEPT !.cmd = "SYNC_CLIENT_REQ"] : name \in Name}

PeerSends(l) ==
    /\ Up(l)
    /\ Len(toBroker[l]) < MaxInFlight
    /\ \E m \in PeerMessages(l) : toBroker' = Put(toBroker, l, m)
    /\ UNCHANGED <<brokerEnd, nodeEnd, toNode, session, brokerVars>>

PeerReceives(l) ==
    /\ toNode[l] # <<>>
    /\ toNode' = Taken(toNode, l)
    /\ UNCHANGED <<brokerEnd, nodeEnd, toBroker, session, brokerVars>>

PeerBreaks(c) ==
    /\ Up(c)
    /\ Break(c, toBroker, toNode)
    /\ UNCHANGED <<session, brokerVars>>

PeerForgets(c) ==
    /\ nodeEnd[c] # "none"
    /\ Abandon(c)
    /\ UNCHANGED <<session, brokerVars>>

\* A node of the broker's process learns its id: FFRpcMemoryRoute::addNode(),
\* after which the node is found under no other id.
PeerJoinsMemoryRoute(n) ==
    /\ \E id \in 1..m_for_allocID : m_node_info' = addNode(m_node_info, id, n)
    /\ UNCHANGED <<netVars, node_sockets, service2nodeId, m_for_allocID>>

PeerNext == \/ \E c \in Conn : PeerConnects(c) \/ PeerBreaks(c) \/ PeerForgets(c)
            \/ \E l \in Link : PeerSends(l) \/ PeerReceives(l)
            \/ \E n \in InProc : PeerJoinsMemoryRoute(n)

(* What the broker relies on: whatever the peers do, they leave the registry *)
(* alone, and a connection is left as it is, or breaks, or is made anew     *)
(* where none was.                                                          *)

Ends == {"none", "open", "broken"}

EnvStep ==
    /\ UNCHANGED <<node_sockets, service2nodeId, m_for_allocID>>
    /\ brokerEnd' \in [Conn -> Ends]
    /\ nodeEnd' \in [Conn -> Ends]
    /\ DOMAIN session' = Conn
    /\ DOMAIN toBroker' = Link
    /\ \A c \in Conn :
        \/ /\ session'[c] = session[c]
           /\ brokerEnd'[c] = "none" <=> brokerEnd[c] = "none"
           /\ brokerEnd[c] = "none" => toBroker'[c] = <<>>
        \/ /\ brokerEnd[c] = "none" /\ brokerEnd'[c] = "open"
           /\ session'[c] = NoSession

RegistryInit == NetInit /\ BrokerInit

AnyPeersSpec == RegistryInit /\ [][BrokerNext \/ EnvStep]_<<netVars, brokerVars>>

BrokerSpec == RegistryInit /\ [][BrokerNext \/ PeerNext]_<<netVars, brokerVars>>

-----------------------------------------------------------------------------
(* Properties. *)

RegistryTypeOK ==
    /\ brokerEnd \in [Conn -> Ends]
    /\ nodeEnd \in [Conn -> Ends]
    /\ m_for_allocID \in Nat
    /\ DOMAIN node_sockets \subseteq 1..m_for_allocID
    /\ \A id \in DOMAIN node_sockets : node_sockets[id] \in Conn
    /\ DOMAIN session = Conn
    /\ \A c \in Conn : session[c].nodeId \in 0..m_for_allocID

\* A socket is found under the node id of its own session and under no other,
\* whatever connections break and are made anew: a message routed by id goes to
\* the node that was given the id, never to a later one.
SocketsAreTheirOwners ==
    \A id \in DOMAIN node_sockets : session[node_sockets[id]].nodeId = id

\* A name in the registry leads to a socket of the node that registered it.
ServicesAreRoutable ==
    \A s \in DOMAIN service2nodeId :
        /\ service2nodeId[s] \in DOMAIN node_sockets
        /\ session[node_sockets[service2nodeId[s]]].strServiceName = s

\* Conversely a node the broker has not seen broken keeps its name: the BROKEN
\* event of one connection never unregisters the service of another.
NodesKeepTheirNames ==
    \A c \in Conn : session[c].strServiceName # "" /\ brokerEnd[c] # "none" =>
        /\ session[c].strServiceName \in DOMAIN service2nodeId
        /\ service2nodeId[session[c].strServiceName] = session[c].nodeId

\* A connection that is gone for the broker is not in its table.
GoneAreForgotten ==
    \A id \in DOMAIN node_sockets : brokerEnd[node_sockets[id]] # "none"

\* A node id is given out once: the counter never goes back, and no step makes
\* an id up to it, whether it is in use or was, name another connection.
IdsAreNeverReused ==
    [][/\ m_for_allocID' >= m_for_allocID
       /\ \A id \in DOMAIN node_sockets' :
            \/ id \in DOMAIN node_sockets /\ node_sockets'[id] = node_sockets[id]
            \/ id > m_for_allocID]_<<netVars, brokerVars>>
=============================================================================
