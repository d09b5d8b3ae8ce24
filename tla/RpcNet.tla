------------------------------- MODULE RpcNet -------------------------------
(***************************************************************************)
(* What joins an FFRpc node to the broker: TCP connections, and for a node *)
(* that lives in the broker's own process the memory route of rpcbase.h.   *)
(*                                                                         *)
(* A link is a pair of queues.  A queue stands for the bytes under way and *)
(* for the tasks the receiver's IO thread has already posted: the IO       *)
(* thread and the TaskQueue both keep the order, so for the handlers they  *)
(* are one FIFO.  When a connection breaks each side still handles some of *)
(* what was sent to it, and then its BROKEN event, exactly once.           *)
(***************************************************************************)
EXTENDS Integers, Sequences

CONSTANTS Conn,     \* identities of TCP connections; reused once both sides forgot them
          InProc    \* the nodes that live in the broker's process

ASSUME RpcNetAssumption == Conn \cap InProc = {}

Link == Conn \cup InProc

VARIABLES brokerEnd,   \* the broker's side of a connection: none, open, broken (event not handled)
          nodeEnd,     \* the node's side, likewise
          toBroker,    \* messages not yet handled by the broker, per link
          toNode,      \* messages not yet handled by the node, per link
          session,     \* the SessionData the broker keeps in the socket object
          m_node_info  \* FFRpcMemoryRoute: node id -> node of the broker's process

netVars == <<brokerEnd, nodeEnd, toBroker, toNode, session>>

Empty == [x \in {} |-> x]
\* std::map: operator[] with an assignment, and erase().
Insert(map, k, v) == [x \in DOMAIN map \cup {k} |-> IF x = k THEN v ELSE map[x]]
Erase(map, k) == [x \in DOMAIN map \ {k} |-> map[x]]

\* FFRpcMemoryRoute::addNode(): a node is known under one id.
addNode(map, id, n) == Insert([i \in {j \in DOMAIN map : map[j] # n} |-> map[i]], id, n)

-----------------------------------------------------------------------------
(* Messages.  A BrokerRouteMsgReq is a call when destServiceName is set and  *)
(* an answer when it is empty; errinfo is reduced to whether there is one.   *)
(* "tag" is no field of the code: it names the call a message belongs to.    *)

RegisterReq(type, name) ==
    [cmd |-> "REGISTER_TO_BROKER_REQ", nodeType |-> type, strServiceName |-> name]
RegisterRet(flag, id, registry) ==
    [cmd |-> "REGISTER_TO_BROKER_RET", registerFlag |-> flag, nodeId |-> id,
     service2nodeId |-> registry]
RouteMsg(service, name, dest, from, callback, err, tag) ==
    [cmd |-> "BROKER_ROUTE_MSG", destServiceName |-> service, destMsgName |-> name,
     destNodeId |-> dest, fromNodeId |-> from, callbackId |-> callback, errinfo |-> err,
     tag |-> tag]
AsDelivered(msg) == [msg EXCEPT !.cmd = "BROKER_TO_CLIENT_MSG"]

-----------------------------------------------------------------------------
(* Links. *)

NoSession == [nodeType |-> "UNKNOWN_NODE", nodeId |-> 0, strServiceName |-> ""]

NetInit == /\ brokerEnd = [c \in Conn |-> "none"]
           /\ nodeEnd = [c \in Conn |-> "none"]
           /\ toBroker = [l \in Link |-> <<>>]
           /\ toNode = [l \in Link |-> <<>>]
           /\ session = [c \in Conn |-> NoSession]
           /\ m_node_info = Empty

Up(l) == l \in Conn => (brokerEnd[l] = "open" /\ nodeEnd[l] = "open")

\* asyncSend() on a socket that is gone, or whose peer is, loses the bytes.
Put(queues, l, m) == IF Up(l) THEN [queues EXCEPT ![l] = Append(@, m)] ELSE queues

\* The receiver of link l has handled its first message.
Taken(queues, l) == [queues EXCEPT ![l] = Tail(@)]

\* A connection that broke: the receiver gets a prefix of what was under way.
Truncated(queues, c) == {[queues EXCEPT ![c] = SubSeq(@, 1, k)] : k \in 0..Len(queues[c])}

\* Mutant: a socket object is used again with the session of its last connection.
Connect_KeepsSession(c, first) ==
    /\ brokerEnd[c] = "none" /\ nodeEnd[c] = "none"
    /\ brokerEnd' = [brokerEnd EXCEPT ![c] = "open"]
    /\ nodeEnd' = [nodeEnd EXCEPT ![c] = "open"]
    /\ toBroker' = [toBroker EXCEPT ![c] = first]
    /\ toNode' = [toNode EXCEPT ![c] = <<>>]
    /\ UNCHANGED session

\* Connector::connect() and AcceptorTcp::handleEvent(): a new socket object on
\* both sides, with a new session, and the first messages already sent.
Connect(c, first) ==
    /\ brokerEnd[c] = "none" /\ nodeEnd[c] = "none"
    /\ brokerEnd' = [brokerEnd EXCEPT ![c] = "open"]
    /\ nodeEnd' = [nodeEnd EXCEPT ![c] = "open"]
    /\ toBroker' = [toBroker EXCEPT ![c] = first]
    /\ toNode' = [toNode EXCEPT ![c] = <<>>]
    /\ session' = [session EXCEPT ![c] = NoSession]

\* SocketTcp::close() on either side, or the loss of the connection, given the
\* queues as the step leaves them.
Break(c, toB, toN) ==
    /\ brokerEnd' = [brokerEnd EXCEPT ![c] = "broken"]
    /\ nodeEnd' = [nodeEnd EXCEPT ![c] = "broken"]
    /\ toBroker' \in Truncated(toB, c)
    /\ toNode' \in Truncated(toN, c)

\* The node's process is done with its side: it has handled all that was left
\* for it, or it has ended.
Abandon(c) ==
    /\ nodeEnd' = [nodeEnd EXCEPT ![c] = "none"]
    /\ brokerEnd' = [brokerEnd EXCEPT ![c] = IF @ = "open" THEN "broken" ELSE @]
    /\ toBroker' \in Truncated(toBroker, c)
    /\ toNode' = [toNode EXCEPT ![c] = <<>>]
=============================================================================
