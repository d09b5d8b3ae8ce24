------------------------ MODULE BrokerRestartsProofs ------------------------
(***************************************************************************)
(* Nodes find their way to the next broker: however often the broker's     *)
(* process ends, connections are lost and nodes are restarted.             *)
(*                                                                         *)
(* Of the invariant of RpcSystemProofs the part holds that does not rely   *)
(* on one process of the broker, RpcInv(FALSE): ids agree, and the last    *)
(* registry that is under way is the one.  WayInv adds where the thread    *)
(* that opens a node is, which has one connection or one timer to make the *)
(* next; RefusalInv, that a node whose registration is under way or was    *)
(* refused has not closed the socket.                                      *)
(***************************************************************************)
EXTENDS BrokerRestarts, RpcSystemProofs, FiniteSetTheorems

USE RpcNetAssumption, FFRpcAssumption

-----------------------------------------------------------------------------
(* The broker's process ends. *)

\* What arrives then is a prefix of what was under way.
LEMMA CutIs ==
    ASSUME toNode \in Queues(ForNode), NEW q \in CutShort(toNode)
    PROVE  /\ q \in Queues(ForNode)
           /\ \A l \in Link : /\ \A i \in DOMAIN q[l] : i \in DOMAIN toNode[l] /\ q[l][i] = toNode[l][i]
                              /\ toNode[l] = <<>> => q[l] = <<>>
<1>1. DOMAIN q = Link /\ q = [l \in Link |-> q[l]]
  BY DEF CutShort
<1>2. ASSUME NEW l \in Link
      PROVE  /\ q[l] \in Seq(ForNode)
             /\ \A i \in DOMAIN q[l] : i \in DOMAIN toNode[l] /\ q[l][i] = toNode[l][i]
             /\ toNode[l] = <<>> => q[l] = <<>>
  <2>1. toNode[l] \in Seq(ForNode)
    BY DEF Queues
  <2>2. PICK k \in 0..Len(toNode[l]) : q[l] = SubSeq(toNode[l], 1, k)
    BY DEF CutShort, Prefixes
  <2>3. /\ SubSeq(toNode[l], 1, k) \in Seq(ForNode) /\ Len(SubSeq(toNode[l], 1, k)) = k
        /\ \A i \in DOMAIN SubSeq(toNode[l], 1, k) :
               i \in DOMAIN toNode[l] /\ SubSeq(toNode[l], 1, k)[i] = toNode[l][i]
    BY <2>1, <2>2
  <2>4. toNode[l] = <<>> => q[l] = <<>>
    BY <2>1, <2>2, <2>3
  <2> QED BY <2>2, <2>3, <2>4
<1> QED BY <1>1, <1>2 DEF Queues

\* What is left of connections, sessions and tables.
LEMMA BrokerEndsIs ==
    ASSUME RpcInv(FALSE), BrokerEnds
    PROVE  /\ QueueTypeInv' /\ brokerEnd' \in [Conn -> Ends] /\ nodeEnd' \in [Conn -> Ends]
           /\ DOMAIN toBroker' = Link /\ DOMAIN session' = Conn
           /\ \A l \in Link : /\ toBroker'[l] = <<>>
                              /\ toNode[l] = <<>> => toNode'[l] = <<>>
                              /\ \A i \in DOMAIN toNode'[l] : i \in DOMAIN toNode[l] /\ toNode'[l][i] = toNode[l][i]
           /\ \A c \in Conn : /\ c \in Link /\ session'[c] = NoSession /\ ~Up(c)'
                              /\ nodeEnd'[c] = "none" <=> nodeEnd[c] = "none"
<1>1. toNode \in Queues(ForNode) /\ nodeEnd \in [Conn -> Ends] /\ \A c \in Conn : c \in Link
  BY DEF RpcInv, LinkInv, QueueTypeInv, IInv, RegistryTypeOK, Link
<1>2. /\ brokerEnd' = [c \in Conn |-> "none"]
      /\ nodeEnd' = [c \in Conn |-> IF nodeEnd[c] = "open" THEN "broken" ELSE nodeEnd[c]]
      /\ toBroker' = [l \in Link |-> <<>>] /\ toNode' \in CutShort(toNode)
      /\ session' = [c \in Conn |-> NoSession]
  BY DEF BrokerEnds
<1>3. toBroker' \in Queues(ForBroker) /\ DOMAIN toBroker' = Link /\ \A l \in Link : toBroker'[l] = <<>>
  BY <1>2 DEF Queues
<1>4. PICK q : q = toNode'
  OBVIOUS
<1>5. /\ q \in Queues(ForNode)
      /\ \A l \in Link : /\ \A i \in DOMAIN q[l] : i \in DOMAIN toNode[l] /\ q[l][i] = toNode[l][i]
                         /\ toNode[l] = <<>> => q[l] = <<>>
  BY <1>1, <1>2, <1>4, CutIs
<1>6. QueueTypeInv'
  BY <1>3, <1>4, <1>5 DEF QueueTypeInv
<1>7. brokerEnd' \in [Conn -> Ends] /\ nodeEnd' \in [Conn -> Ends] /\ DOMAIN session' = Conn
  BY <1>1, <1>2 DEF Ends
<1>8. \A c \in Conn : /\ c \in Link /\ session'[c] = NoSession /\ ~Up(c)'
                      /\ nodeEnd'[c] = "none" <=> nodeEnd[c] = "none"
  BY <1>1, <1>2 DEF Up
<1> QED BY <1>3, <1>4, <1>5, <1>6, <1>7, <1>8

\* The broker is as at its start.
LEMMA BrokerEndsTables ==
    ASSUME RpcInv(FALSE), BrokerEnds
    PROVE  IInv'
<1>1. /\ brokerEnd' \in [Conn -> Ends] /\ nodeEnd' \in [Conn -> Ends]
      /\ DOMAIN toBroker' = Link /\ DOMAIN session' = Conn
      /\ \A c \in Conn : c \in Link /\ toBroker'[c] = <<>> /\ session'[c] = NoSession
  BY BrokerEndsIs
<1>2. m_for_allocID' = 0 /\ DOMAIN node_sockets' = {} /\ DOMAIN service2nodeId' = {}
  BY EmptyIs DEF BrokerEnds
<1>3. \A c \in Conn : /\ session'[c].nodeType = "UNKNOWN_NODE" /\ session'[c].nodeId = 0
                      /\ session'[c].strServiceName = ""
  BY <1>1, NoSessionIs
<1>4. RegistryTypeOK'
  <2>1. m_for_allocID' \in Nat /\ DOMAIN node_sockets' \subseteq 1..m_for_allocID'
    BY <1>2
  <2>2. \A id \in DOMAIN node_sockets' : node_sockets'[id] \in Conn
    BY <1>2
  <2>3. 0 \in 0..m_for_allocID'
    BY <1>2
  <2>4. \A c \in Conn : session'[c].nodeId \in 0..m_for_allocID'
    BY <1>3, <2>3, Zenon
  <2> QED BY <1>1, <2>1, <2>2, <2>4, Zenon DEF RegistryTypeOK
<1>5. SocketsAreTheirOwners' /\ ServicesAreRoutable' /\ GoneAreForgotten'
  BY <1>2 DEF SocketsAreTheirOwners, ServicesAreRoutable, GoneAreForgotten
<1>6. NodesKeepTheirNames' /\ OwnersAreFound' /\ SessionsConsistent'
  BY <1>3 DEF NodesKeepTheirNames, OwnersAreFound, SessionsConsistent
<1>7. QuietWhenGone'
  BY <1>1 DEF QuietWhenGone
<1> QED BY <1>4, <1>5, <1>6, <1>7 DEF IInv

\* Nodes and links are as the next broker needs them.
LEMMA BrokerEndsKeeps ==
    ASSUME RpcInv(FALSE), BrokerEnds
    PROVE  RpcInv(FALSE)'
<1>1. /\ NodeTypeInv /\ CallTypeInv /\ OneWayInv /\ OwnerInv /\ TableTypeInv
  BY DEF RpcInv, NodeInv, LinkInv
<1>2. /\ QueueTypeInv'
      /\ \A c \in Conn : /\ c \in Link /\ toBroker'[c] = <<>> /\ (toNode[c] = <<>> => toNode'[c] = <<>>)
                         /\ session'[c] = NoSession /\ ~Up(c)'
                         /\ nodeEnd'[c] = "none" <=> nodeEnd[c] = "none"
  BY BrokerEndsIs
<1>3. UNCHANGED rpcVars /\ m_node_info' = m_node_info /\ service2nodeId' = Empty
  BY DEF BrokerEnds
<1>4. UNCHANGED <<pc, m_runing, m_nodeId, m_master_broker_sock, m_broker_data, m_rpcTmpCallBack,
                  gCallBackIDGen, reconnectTimers, owner, calls>>
  BY <1>3 DEF rpcVars, nodeVars
<1>5. NodeInv(FALSE)'
  BY <1>1, <1>4 DEF NodeInv, NodeTypeInv, CallTypeInv, OneWayInv, IdInv
<1>6. TableTypeInv' /\ OwnerInv'
  BY <1>1, <1>2, <1>3, <1>4, EmptyRegistry DEF TableTypeInv, OwnerInv
<1>7. RegisterInv(FALSE)'
  <2>1. \A c \in Conn : session'[c].nodeId = 0 /\ DOMAIN toBroker'[c] = {}
    <3>1. \A c \in Conn : session'[c].nodeId = 0
      BY <1>2, NoSessionIs, Zenon
    <3>2. DOMAIN <<>> = {}
      OBVIOUS
    <3>3. \A c \in Conn : DOMAIN toBroker'[c] = {}
      BY <1>2, <3>2, Zenon
    <3> QED BY <3>1, <3>3
  <2> QED BY <2>1 DEF RegisterInv
<1>8. BindingsInv(FALSE)' /\ MemoryInv(FALSE)' /\ RouteInv(FALSE)' /\ ServedInv(FALSE)'
  BY DEF BindingsInv, MemoryInv, RouteInv, ServedInv
<1>9. IdsAgree' /\ NodesLearnTheRegistry'
  BY <1>2 DEF IdsAgree, NodesLearnTheRegistry
<1>10. LinkInv(FALSE)'
  BY <1>2, <1>6, <1>7, <1>8, <1>9 DEF LinkInv
<1> QED BY <1>5, <1>10, BrokerEndsTables DEF RpcInv

-----------------------------------------------------------------------------
(* Ids and the registry, from one broker to the next. *)

\* open() that cannot connect.
LEMMA CannotConnectKeeps ==
    ASSUME RpcInv(FALSE), NEW n \in Node, OpenCannotConnect(n)
    PROVE  RpcInv(FALSE)'
<1>1. FALSE \in BOOLEAN /\ NodeTypeInv /\ IInv /\ LinkInv(FALSE)
  BY DEF RpcInv, NodeInv
<1>2. /\ pc' = [pc EXCEPT ![n] = "closed"]
      /\ UNCHANGED <<netVars, brokerVars, m_runing, m_nodeId, m_master_broker_sock, m_broker_data,
                     m_rpcTmpCallBack, gCallBackIDGen, reconnectTimers, owner, calls, served>>
  BY DEF OpenCannotConnect
<1>3. UNCHANGED <<service2nodeId, m_for_allocID, m_node_info>>
  BY <1>2 DEF brokerVars
<1>4. /\ pc' \in [Node -> Labels] /\ m_runing' \in [Node -> BOOLEAN]
      /\ m_master_broker_sock' \in [Node -> Conn \cup {NULL}]
      /\ \A m \in Node : pc'[m] = "start" => pc[m] = "start"
  BY <1>1, <1>2 DEF NodeTypeInv, Labels
<1>5. NodeInv(FALSE)'
  BY <1>1, <1>2, <1>3, <1>4, ThreadKeeps
<1>6. LinkInv(FALSE)'
  BY <1>1, <1>2, <1>3, LinksAlone
<1>7. IInv'
  BY <1>1, <1>2, UnchangedKeeps
<1> QED BY <1>5, <1>6, <1>7 DEF RpcInv

\* Every step.
LEMMA RpcStill ==
    ASSUME RpcInv(FALSE), [RestartsNext]_restartVars
    PROVE  RpcInv(FALSE)'
<1>1. FALSE \in BOOLEAN
  OBVIOUS
<1>2. ASSUME RpcSystemNext \/ UNCHANGED systemVars PROVE RpcInv(FALSE)'
  BY <1>1, <1>2, RpcKeeps
<1>3. CASE BrokerEnds
  BY <1>3, BrokerEndsKeeps
<1>4. CASE BrokerStarts
  BY <1>2, <1>4 DEF BrokerStarts
<1>5. CASE \E n \in Node : OpenCannotConnect(n)
  BY <1>5, CannotConnectKeeps
<1>6. CASE RpcSystemNext /\ CanConnect /\ Unrestarted
  BY <1>2, <1>6
<1>7. CASE UNCHANGED restartVars
  BY <1>2, <1>7 DEF restartVars
<1> QED BY <1>3, <1>4, <1>5, <1>6, <1>7 DEF RestartsNext

\* Broker and connected nodes agree about ids and services (handleBrokerRegResponse,
\* syncNodeInfo), whatever broker it is that the nodes have found: the ids that were given out
\* by one that ended do no harm.
THEOREM RestartsAgree == RestartsSpec => [](IdsAgree /\ NodesLearnTheRegistry)
<1>1. RestartsInit => RpcInv(FALSE)
  <2>1. FALSE \in BOOLEAN
    OBVIOUS
  <2> QED BY <2>1, RpcInitHolds DEF RestartsInit
<1>2. RpcInv(FALSE) /\ [RestartsNext]_restartVars => RpcInv(FALSE)'
  BY RpcStill
<1>3. RpcInv(FALSE) => IdsAgree /\ NodesLearnTheRegistry
  BY DEF RpcInv, LinkInv
<1> QED BY <1>1, <1>2, <1>3, PTL DEF RestartsSpec

-----------------------------------------------------------------------------
(* Registrations under way. *)

\* The answers to a registration.
IsRefusal(m) == m.cmd = "REGISTER_TO_BROKER_RET" /\ m.registerFlag = -1
IsConfirmation(m) == m.cmd = "REGISTER_TO_BROKER_RET" /\ m.registerFlag = 1
Refused(c) == \E i \in DOMAIN toNode[c] : IsRefusal(toNode[c][i])
Confirmed(c) == \E i \in DOMAIN toNode[c] : IsConfirmation(toNode[c][i])
RefusedFirst(c) == \A i \in DOMAIN toNode[c] : IsRefusal(toNode[c][i]) => i = 1

\* Nothing of the kind came to be under way on connection c.
NoRequest(c) == Registers(c)' => Registers(c)
NoReply(c) == /\ Refused(c)' => Refused(c)
              /\ Confirmed(c)' => Confirmed(c)
              /\ RefusedFirst(c) => RefusedFirst(c)'

\* The registrations under way were under way before.
LEMMA RequestsStill ==
    ASSUME NEW c \in Conn,
           \A i \in DOMAIN toBroker'[c] : toBroker'[c][i].cmd = "REGISTER_TO_BROKER_REQ" =>
               i \in DOMAIN toBroker[c] /\ toBroker'[c][i] = toBroker[c][i]
    PROVE  NoRequest(c)
BY DEF NoRequest, Registers, Messages

\* An answer under way was there before, in its place or in the next one.
LEMMA RepliesStill ==
    ASSUME NEW c \in Conn,
           \A i \in DOMAIN toNode'[c] :
               \/ ~IsRefusal(toNode'[c][i]) /\ ~IsConfirmation(toNode'[c][i])
               \/ i \in DOMAIN toNode[c] /\ toNode'[c][i] = toNode[c][i]
               \/ i + 1 # 1 /\ i + 1 \in DOMAIN toNode[c] /\ toNode'[c][i] = toNode[c][i + 1]
    PROVE  NoReply(c)
<1>1. Refused(c)' => Refused(c)
  BY Zenon DEF Refused
<1>2. Confirmed(c)' => Confirmed(c)
  BY Zenon DEF Confirmed
<1>3. ASSUME RefusedFirst(c), NEW i \in DOMAIN toNode'[c], IsRefusal(toNode'[c][i]) PROVE i = 1
  <2>1. CASE i \in DOMAIN toNode[c] /\ toNode'[c][i] = toNode[c][i]
    BY <1>3, <2>1 DEF RefusedFirst
  <2>2. CASE i + 1 # 1 /\ i + 1 \in DOMAIN toNode[c] /\ toNode'[c][i] = toNode[c][i + 1]
    <3>1. IsRefusal(toNode[c][i + 1])
      BY <1>3, <2>2, Zenon
    <3> QED BY <1>3, <2>2, <3>1, Zenon DEF RefusedFirst
  <2> QED BY <1>3, <2>1, <2>2, Zenon
<1> QED BY <1>1, <1>2, <1>3 DEF NoReply, RefusedFirst

\* Nothing changed on the connection.
LEMMA QuietLink ==
    ASSUME NEW c \in Conn, toBroker'[c] = toBroker[c], toNode'[c] = toNode[c]
    PROVE  NoRequest(c) /\ NoReply(c)
BY RequestsStill, RepliesStill

\* A message that is no answer was added.
LEMMA AddedStill ==
    ASSUME NEW c \in Conn, toNode[c] \in Seq(ForNode), NEW m \in ForNode,
           ~IsRefusal(m), ~IsConfirmation(m), toNode'[c] = Append(toNode[c], m)
    PROVE  NoReply(c)
<1>1. ASSUME NEW queue \in Seq(ForNode), NEW q, q = Append(queue, m), NEW i \in DOMAIN q
      PROVE  q[i] = m \/ (i \in DOMAIN queue /\ q[i] = queue[i])
  <2>1. Len(q) = Len(queue) + 1 /\ DOMAIN q = 1..Len(q) /\ DOMAIN queue = 1..Len(queue) /\ Len(queue) \in Nat
    BY <1>1
  <2> QED BY <1>1, <2>1
<1>2. \A i \in DOMAIN toNode'[c] :
          \/ toNode'[c][i] = m
          \/ i \in DOMAIN toNode[c] /\ toNode'[c][i] = toNode[c][i]
  <2>1. PICK q : q = toNode'[c]
    OBVIOUS
  <2>2. PICK queue \in Seq(ForNode) : queue = toNode[c]
    OBVIOUS
  <2>3. \A i \in DOMAIN q : q[i] = m \/ (i \in DOMAIN queue /\ q[i] = queue[i])
    BY <1>1, <2>1, <2>2
  <2> QED BY <2>1, <2>2, <2>3
<1> QED BY <1>2, RepliesStill

\* A message was handled.
LEMMA HandledStill ==
    ASSUME NEW c \in Conn, toNode[c] \in Seq(ForNode), toNode[c] # <<>>, toNode'[c] = Tail(toNode[c])
    PROVE  NoReply(c)
<1>1. \A i \in DOMAIN toNode'[c] :
          i + 1 # 1 /\ i + 1 \in DOMAIN toNode[c] /\ toNode'[c][i] = toNode[c][i + 1]
  OBVIOUS
<1> QED BY <1>1, RepliesStill

\* A connection broke.
LEMMA BrokenStill ==
    ASSUME RpcInv(FALSE), NEW c \in Conn, Up(c), NEW queues \in Queues(ForNode),
           queues[c] = toNode[c] \/ (toNode[c] # <<>> /\ queues[c] = Tail(toNode[c])),
           \A d \in Conn \ {c} : queues[d] = toNode[d],
           Break(c, toBroker, queues)
    PROVE  /\ \A d \in Conn : NoRequest(d) /\ NoReply(d)
           /\ \A d \in Conn : Up(d)' <=> Up(d) /\ d # c
<1>1. /\ toBroker \in Queues(ForBroker) /\ c \in Link /\ (\A d \in Conn : d \in Link)
      /\ toNode[c] \in Seq(ForNode) /\ brokerEnd \in [Conn -> Ends] /\ nodeEnd \in [Conn -> Ends]
  BY DEF RpcInv, LinkInv, QueueTypeInv, Link, Queues, IInv, RegistryTypeOK
<1>2. /\ \A d \in Link \ {c} : toBroker'[d] = toBroker[d]
      /\ \A i \in DOMAIN toBroker'[c] : i \in DOMAIN toBroker[c] /\ toBroker'[c][i] = toBroker[c][i]
  <2>1. toBroker' \in Truncated(toBroker, c)
    BY DEF Break
  <2> QED BY <1>1, <2>1, TruncatedQueue
<1>3. /\ \A d \in Link \ {c} : toNode'[d] = queues[d]
      /\ \A i \in DOMAIN toNode'[c] : i \in DOMAIN queues[c] /\ toNode'[c][i] = queues[c][i]
  <2>1. toNode' \in Truncated(queues, c)
    BY DEF Break
  <2> QED BY <1>1, <2>1, TruncatedQueue
<1>4. \A i \in DOMAIN toNode'[c] :
          \/ i \in DOMAIN toNode[c] /\ toNode'[c][i] = toNode[c][i]
          \/ i + 1 # 1 /\ i + 1 \in DOMAIN toNode[c] /\ toNode'[c][i] = toNode[c][i + 1]
  <2>1. CASE queues[c] = toNode[c]
    BY <1>3, <2>1
  <2>2. CASE toNode[c] # <<>> /\ queues[c] = Tail(toNode[c])
    <3>1. \A i \in DOMAIN queues[c] :
              i + 1 # 1 /\ i + 1 \in DOMAIN toNode[c] /\ queues[c][i] = toNode[c][i + 1]
      BY <1>1, <2>2
    <3> QED BY <1>3, <3>1
  <2> QED BY <2>1, <2>2
<1>5. NoRequest(c) /\ NoReply(c)
  BY <1>2, <1>4, RequestsStill, RepliesStill
<1>6. \A d \in Conn \ {c} : NoRequest(d) /\ NoReply(d)
  BY <1>1, <1>2, <1>3, QuietLink
<1>7. \A d \in Conn : Up(d)' <=> Up(d) /\ d # c
  BY <1>1 DEF Break, Up
<1> QED BY <1>5, <1>6, <1>7

-----------------------------------------------------------------------------
(* What the broker makes of them. *)

\* The broker took a message: a registration from this connection is not under way any more.
LEMMA TookStill ==
    ASSUME RpcInv(FALSE), NEW k \in Link, NEW cmd, Receives(k, cmd), toBroker' = Taken(toBroker, k)
    PROVE  /\ \A d \in Conn : NoRequest(d)
           /\ k \in Conn => ~Registers(k)'
<1>1. PICK q : q = toBroker'
  OBVIOUS
<1>2. \A c \in Conn : \A i \in DOMAIN q[c] : q[c][i].cmd = "REGISTER_TO_BROKER_REQ" =>
          c # k /\ i \in DOMAIN toBroker[c] /\ q[c][i] = toBroker[c][i]
  <2>1. PICK lasting \in BOOLEAN : RpcInv(lasting)
    OBVIOUS
  <2>2. q = Taken(toBroker, k)
    BY <1>1
  <2> QED BY <2>1, <2>2, ReceivesIs
<1>3. \A d \in Conn : NoRequest(d)
  BY <1>1, <1>2, RequestsStill
<1>4. k \in Conn => ~Registers(k)'
  BY <1>1, <1>2 DEF Registers, Messages
<1> QED BY <1>3, <1>4

\* A message is passed on.
LEMMA RoutedStill ==
    ASSUME RpcInv(FALSE), NEW k \in Link, Receives(k, "BROKER_ROUTE_MSG"), toBroker' = Taken(toBroker, k),
           toNode' = toNode \/ toNode' = sendToRPcNode(toNode, Head(toBroker[k]))
    PROVE  \A d \in Conn : NoRequest(d) /\ NoReply(d)
<1>1. toNode \in Queues(ForNode) /\ TableTypeInv /\ FALSE \in BOOLEAN /\ \A d \in Conn : d \in Link
  BY DEF RpcInv, LinkInv, QueueTypeInv, Link
<1>2. PICK msg : msg = Head(toBroker[k])
  OBVIOUS
<1>3. msg \in RouteMsgs("BROKER_ROUTE_MSG")
  <2>1. PICK q : q = Taken(toBroker, k)
    OBVIOUS
  <2>2. msg \in ForBroker /\ msg.cmd = "BROKER_ROUTE_MSG"
    BY <1>1, <1>2, <2>1, ReceivesIs
  <2> QED BY <2>2, MessageKinds
<1>4. PICK back : back = [AsDelivered(msg) EXCEPT !.errinfo = TRUE, !.destServiceName = NoName]
  OBVIOUS
<1>5. /\ AsDelivered(msg) \in RouteMsgs("BROKER_TO_CLIENT_MSG")
      /\ back \in RouteMsgs("BROKER_TO_CLIENT_MSG")
  BY <1>3, <1>4, DeliveredIs, Zenon
<1>6. PICK q : q = toNode'
  OBVIOUS
<1>7. \/ q = toNode
      \/ \E l \in Link, m \in RouteMsgs("BROKER_TO_CLIENT_MSG") : q = Put(toNode, l, m)
  <2>1. CASE toNode' = toNode
    BY <1>6, <2>1
  <2>2. CASE q = sendToRPcNode(toNode, msg)
    <3>1. \A id \in DOMAIN m_node_info : m_node_info[id] \in Link
      BY <1>1 DEF TableTypeInv, Link
    <3>2. \A id \in DOMAIN node_sockets : node_sockets[id] \in Link
      BY <1>1, SocketIs
    <3>3. \/ q = toNode
          \/ msg.destNodeId \in DOMAIN m_node_info /\ q = Put(toNode, m_node_info[msg.destNodeId], AsDelivered(msg))
          \/ msg.destNodeId \in DOMAIN node_sockets /\ q = Put(toNode, node_sockets[msg.destNodeId], AsDelivered(msg))
          \/ msg.fromNodeId \in DOMAIN node_sockets /\ q = Put(toNode, node_sockets[msg.fromNodeId], back)
      BY <1>4, <2>2, RouteIs, Zenon
    <3> QED BY <1>5, <3>1, <3>2, <3>3, Zenon
  <2> QED BY <1>2, <1>6, <2>1, <2>2
<1>8. ASSUME NEW l \in Link, NEW m \in RouteMsgs("BROKER_TO_CLIENT_MSG"), q = Put(toNode, l, m),
             NEW d \in Conn
      PROVE  NoReply(d)
  <2>1. m \in ForNode /\ m.cmd = "BROKER_TO_CLIENT_MSG"
    BY DEF ForNode, RouteMsgs
  <2>2. q[d] = toNode[d] \/ q[d] = Append(toNode[d], m)
    <3>1. (\A x \in Link \ {l} : q[x] = toNode[x]) /\ (~Up(l) => q = toNode)
          /\ (Up(l) => q[l] = Append(toNode[l], m))
      BY <1>1, <1>8, <2>1, PutQueue
    <3> QED BY <1>1, <3>1
  <2>3. ~IsRefusal(m) /\ ~IsConfirmation(m)
    BY <2>1 DEF IsRefusal, IsConfirmation
  <2>4. toNode[d] \in Seq(ForNode)
    BY <1>1 DEF Queues
  <2>5. CASE q[d] = toNode[d]
    BY <1>6, <2>5, RepliesStill
  <2>6. CASE q[d] = Append(toNode[d], m)
    BY <1>6, <2>1, <2>3, <2>4, <2>6, AddedStill
  <2> QED BY <2>2, <2>5, <2>6
<1>9. \A d \in Conn : NoReply(d)
  BY <1>6, <1>7, <1>8, RepliesStill
<1> QED BY <1>9, TookStill

\* The registry is sent to all nodes: all but one, the origin, see only that it changed.
LEMMA SyncedStill ==
    ASSUME RpcInv(FALSE), NEW sockets, NEW registry \in Registry, NEW id \in Nat, NEW origin,
           toNode' = syncNodeInfo(toNode, sockets, registry, id, origin), NEW d \in Conn,
           d # origin \/ ~Up(d)
    PROVE  NoReply(d)
<1>1. toNode[d] \in Seq(ForNode) /\ d \in Link
  BY DEF RpcInv, LinkInv, QueueTypeInv, Queues, Link
<1>2. PICK m : m = RegisterRet(0, id, registry)
  OBVIOUS
<1>3. m \in ForNode /\ ~IsRefusal(m) /\ ~IsConfirmation(m)
  <2>1. m \in RegisterRets
    BY <1>2 DEF RegisterRet, RegisterRets
  <2>2. m.registerFlag = 0
    BY <1>2 DEF RegisterRet
  <2> QED BY <2>1, <2>2 DEF ForNode, IsRefusal, IsConfirmation
<1>4. toNode'[d] = toNode[d] \/ toNode'[d] = Append(toNode[d], m)
  BY <1>1, <1>2 DEF syncNodeInfo
<1>5. CASE toNode'[d] = toNode[d]
  BY <1>5, RepliesStill
<1>6. CASE toNode'[d] = Append(toNode[d], m)
  BY <1>1, <1>3, <1>6, AddedStill
<1> QED BY <1>4, <1>5, <1>6

\* A registration is refused: it was under way, and is not any more.
LEMMA RefusalIs ==
    ASSUME RpcInv(FALSE), NEW c \in Conn, RegisterRefused(c)
    PROVE  /\ \A d \in Conn \ {c} : NoRequest(d) /\ NoReply(d)
           /\ Registers(c) /\ ~Registers(c)' /\ ~Confirmed(c)' /\ RefusedFirst(c)'
           /\ UNCHANGED <<brokerEnd, nodeEnd, session>>
<1>1. /\ Receives(c, "REGISTER_TO_BROKER_REQ") /\ toBroker' = Taken(toBroker, c)
      /\ toNode' = Put(toNode, c, Refusal) /\ UNCHANGED <<brokerEnd, nodeEnd, session>>
  BY DEF RegisterRefused
<1>2. toNode \in Queues(ForNode) /\ FALSE \in BOOLEAN /\ (\A d \in Conn : d \in Link) /\ RegisterInv(FALSE)
  BY DEF RpcInv, LinkInv, QueueTypeInv, Link
<1>3. /\ 1 \in DOMAIN toBroker[c] /\ toBroker[c][1].cmd = "REGISTER_TO_BROKER_REQ"
  <2>1. c \in Link /\ toBroker \in Queues(ForBroker)
    BY <1>2 DEF RpcInv, LinkInv, QueueTypeInv
  <2>2. toBroker[c] \in Seq(ForBroker) /\ toBroker[c] # <<>> /\ Head(toBroker[c]).cmd = "REGISTER_TO_BROKER_REQ"
    BY <1>1, <2>1 DEF Receives, Queues
  <2>3. \A queue \in Seq(ForBroker) : queue # <<>> => 1 \in DOMAIN queue /\ Head(queue) = queue[1]
    OBVIOUS
  <2> QED BY <2>2, <2>3
<1>4. Registers(c) /\ toNode[c] = <<>>
  BY <1>2, <1>3 DEF RegisterInv, Registers, Messages
<1>5. (\A d \in Conn : NoRequest(d)) /\ ~Registers(c)'
  BY <1>1, <1>2, TookStill
<1>6. /\ \A d \in Link \ {c} : toNode'[d] = toNode[d]
      /\ toNode'[c] = toNode[c] \/ toNode'[c] = <<Refusal>>
  BY <1>1, <1>2, <1>4 DEF Put, Queues
<1>7. \A d \in Conn \ {c} : NoReply(d)
  BY <1>2, <1>6, RepliesStill
<1>8. ~Confirmed(c)' /\ RefusedFirst(c)'
  <2>1. ~IsConfirmation(Refusal)
    BY DEF Refusal, RegisterRet, IsConfirmation
  <2>2. \A i \in DOMAIN toNode'[c] : i = 1 /\ toNode'[c][i] = Refusal
    BY <1>4, <1>6
  <2> QED BY <2>1, <2>2, Zenon DEF Confirmed, RefusedFirst
<1> QED BY <1>1, <1>4, <1>5, <1>7, <1>8

\* A registration is accepted: the session has an id, and no refusal is under way.
LEMMA AcceptanceIs ==
    ASSUME RpcInv(FALSE), RpcInv(FALSE)', NEW c \in Conn, RegisterAccepted(c)
    PROVE  /\ \A d \in Conn \ {c} : NoRequest(d) /\ NoReply(d) /\ session'[d] = session[d]
           /\ ~Registers(c)' /\ ~Refused(c)' /\ RefusedFirst(c)' /\ session'[c].nodeId # 0
           /\ Confirmed(c)' => Confirmed(c) \/ Up(c)
           /\ UNCHANGED <<brokerEnd, nodeEnd>>
<1> DEFINE id == m_for_allocID + 1
           sockets == Insert(node_sockets, id, c)
<1>1. /\ Receives(c, "REGISTER_TO_BROKER_REQ") /\ toBroker' = Taken(toBroker, c)
      /\ toNode' = syncNodeInfo(toNode, sockets, service2nodeId', id, c)
      /\ session' = [session EXCEPT ![c] = [nodeType |-> "RPC_NODE", nodeId |-> id,
                                            strServiceName |-> Head(toBroker[c]).strServiceName]]
      /\ UNCHANGED <<brokerEnd, nodeEnd>>
  BY Zenon DEF RegisterAccepted
<1>2. /\ DOMAIN session = Conn /\ m_for_allocID \in Nat /\ (\A d \in Conn : d \in Link) /\ FALSE \in BOOLEAN
      /\ service2nodeId' \in Registry /\ RegisterInv(FALSE)'
  BY DEF RpcInv, LinkInv, TableTypeInv, IInv, RegistryTypeOK, Link
<1>3. id \in Nat /\ id # 0
  BY <1>2
<1> HIDE DEF id, sockets
<1>4. (\A d \in Conn : NoRequest(d)) /\ ~Registers(c)'
  BY <1>1, <1>2, TookStill
<1>5. ASSUME NEW d \in Conn, d # c \/ ~Up(d) PROVE NoReply(d)
  <2>1. PICK registry \in Registry : registry = service2nodeId'
    BY <1>2
  <2> QED BY <1>1, <1>3, <1>5, <2>1, SyncedStill
<1>6. session'[c].nodeId = id /\ \A d \in Conn \ {c} : session'[d] = session[d]
  BY <1>1, <1>2
<1>7. ~Refused(c)'
  <2>1. \A m \in Messages(toNode'[c]) : m.cmd = "REGISTER_TO_BROKER_RET" => m.registerFlag # -1
    BY <1>2, <1>3, <1>6 DEF RegisterInv
  <2> QED BY <2>1, Zenon DEF Refused, IsRefusal, Messages
<1>8. RefusedFirst(c)'
  BY <1>7 DEF Refused, RefusedFirst
<1>9. Confirmed(c)' => Confirmed(c) \/ Up(c)
  BY <1>5 DEF NoReply
<1>10. \A d \in Conn \ {c} : NoReply(d)
  BY <1>5
<1> QED BY <1>1, <1>3, <1>4, <1>6, <1>7, <1>8, <1>9, <1>10

\* A node is gone for the broker.
LEMMA GoneStill ==
    ASSUME RpcInv(FALSE), RpcInv(FALSE)', NEW c \in Conn, HandleBroken(c)
    PROVE  /\ \A d \in Conn : NoRequest(d) /\ NoReply(d)
           /\ \A d \in Conn : Up(d)' <=> Up(d)
           /\ UNCHANGED session
<1>1. /\ brokerEnd[c] = "broken" /\ brokerEnd' = [brokerEnd EXCEPT ![c] = "none"]
      /\ toNode' = toNode \/ toNode' = syncNodeInfo(toNode, node_sockets', service2nodeId', 0, c)
      /\ UNCHANGED <<nodeEnd, toBroker, session>>
  BY DEF HandleBroken
<1>2. /\ brokerEnd \in [Conn -> Ends] /\ service2nodeId' \in Registry
  BY DEF RpcInv, LinkInv, TableTypeInv, IInv, RegistryTypeOK
<1>3. ~Up(c) /\ \A d \in Conn : Up(d)' <=> Up(d)
  BY <1>1, <1>2 DEF Up
<1>4. \A d \in Conn : NoRequest(d)
  BY <1>1, RequestsStill
<1>5. ASSUME NEW d \in Conn PROVE NoReply(d)
  <2>1. CASE toNode' = toNode
    BY <2>1, RepliesStill
  <2>2. CASE toNode' = syncNodeInfo(toNode, node_sockets', service2nodeId', 0, c)
    <3>1. PICK registry \in Registry : registry = service2nodeId'
      BY <1>2
    <3>2. PICK sockets : sockets = node_sockets'
      OBVIOUS
    <3>3. d # c \/ ~Up(d)
      BY <1>3
    <3>4. PICK id \in Nat : id = 0
      OBVIOUS
    <3> QED BY <2>2, <3>1, <3>2, <3>3, <3>4, SyncedStill
  <2> QED BY <1>1, <2>1, <2>2
<1> QED BY <1>1, <1>3, <1>4, <1>5

-----------------------------------------------------------------------------
(* Where a node is on its way to the broker. *)

\* open() waits: on a connection that is up, or for the BROKEN event and without an id.  The
\* node has an id only when the session it would lose has one.
Waits(n) == \/ \E c \in Conn : owner[c] = n /\ Up(c) /\ (m_nodeId[n] # 0 => session[c].nodeId # 0)
            \/ m_nodeId[n] = 0 /\ \A c \in Conn : owner[c] = n => ~Confirmed(c)
WayOf(n) ==
    /\ m_master_broker_sock[n] # NULL => owner[m_master_broker_sock[n]] = n
    /\ pc[n] \in {"start", "polling"} => ~m_runing[n] /\ reconnectTimers[n] = 0
    /\ pc[n] = "start" => m_nodeId[n] = 0
    /\ pc[n] = "polling" => Waits(n)
    /\ pc[n] = "open" =>
           /\ m_runing[n]
           /\ reconnectTimers[n] # 0 => m_master_broker_sock[n] = NULL
           /\ reconnectTimers[n] # 0 \/ \E c \in Conn : owner[c] = n
ConfirmInv == \A c \in Conn : Up(c) /\ Confirmed(c) => session[c].nodeId # 0
WayInv == ConfirmInv /\ \A n \in Node : WayOf(n)

\* Nobody is closed or killed; a node whose registration is under way, or was refused,
\* has its socket.
RefusalInv ==
    /\ restarts = 0
    /\ \A n \in Node : pc[n] \in {"start", "polling", "open", "failed", "closed"}
    /\ \A c \in Conn : RefusedFirst(c)
    /\ \A c \in Conn : (Registers(c) \/ Refused(c)) /\ owner[c] # NoOne =>
           m_master_broker_sock[owner[c]] = c

\* A node is where it was.
NodeStill(n) == /\ pc'[n] = pc[n] /\ m_runing'[n] = m_runing[n] /\ m_nodeId'[n] = m_nodeId[n]
                /\ m_master_broker_sock'[n] = m_master_broker_sock[n]
                /\ reconnectTimers'[n] = reconnectTimers[n]
LinkStill(n, c) ==
    /\ owner'[c] = n <=> owner[c] = n
    /\ owner[c] = n =>
           /\ Up(c)' => Up(c)
           /\ Up(c) /\ ~Up(c)' => pc[n] # "polling"
           /\ Up(c)' => session'[c].nodeId # 0 \/ session'[c].nodeId = session[c].nodeId
           /\ Confirmed(c)' => Confirmed(c) \/ Up(c)'

\* So it is as far as it was.
LEMMA WayStill ==
    ASSUME NodeTypeInv, NEW n \in Node, WayOf(n), NodeStill(n), \A c \in Conn : LinkStill(n, c)
    PROVE  WayOf(n)'
<1>1. m_master_broker_sock[n] \in Conn \cup {NULL}
  BY DEF NodeTypeInv
<1>2. m_master_broker_sock'[n] # NULL => owner'[m_master_broker_sock'[n]] = n
  BY <1>1 DEF WayOf, NodeStill, LinkStill
<1>3. /\ pc'[n] \in {"start", "polling"} => ~m_runing'[n] /\ reconnectTimers'[n] = 0
      /\ pc'[n] = "start" => m_nodeId'[n] = 0
      /\ pc'[n] = "open" =>
             m_runing'[n] /\ (reconnectTimers'[n] # 0 => m_master_broker_sock'[n] = NULL)
  BY DEF WayOf, NodeStill
<1>4. pc'[n] = "open" => reconnectTimers'[n] # 0 \/ \E c \in Conn : owner'[c] = n
  BY DEF WayOf, NodeStill, LinkStill
<1>5. ASSUME pc'[n] = "polling" PROVE Waits(n)'
  <2>1. pc[n] = "polling" /\ Waits(n) /\ m_nodeId'[n] = m_nodeId[n]
    BY <1>5 DEF WayOf, NodeStill
  <2>2. CASE \E c \in Conn : owner[c] = n /\ Up(c) /\ (m_nodeId[n] # 0 => session[c].nodeId # 0)
    <3>1. PICK c \in Conn : owner[c] = n /\ Up(c) /\ (m_nodeId[n] # 0 => session[c].nodeId # 0)
      BY <2>2
    <3>2. /\ owner'[c] = n /\ Up(c)'
          /\ session'[c].nodeId # 0 \/ session'[c].nodeId = session[c].nodeId
      BY <2>1, <3>1 DEF LinkStill
    <3>3. m_nodeId'[n] # 0 => session'[c].nodeId # 0
      BY <2>1, <3>1, <3>2
    <3> QED BY <3>2, <3>3 DEF Waits
  <2>3. CASE m_nodeId[n] = 0 /\ \A c \in Conn : owner[c] = n => ~Confirmed(c)
    <3>1. CASE \E c \in Conn : owner[c] = n /\ Up(c)
      BY <2>2, <2>3, <3>1
    <3>2. CASE \A c \in Conn : owner[c] = n => ~Up(c)
      <4>1. \A c \in Conn : owner'[c] = n => ~Confirmed(c)'
        BY <2>3, <3>2 DEF LinkStill
      <4> QED BY <2>1, <2>3, <4>1 DEF Waits
    <3> QED BY <3>1, <3>2
  <2> QED BY <2>1, <2>2, <2>3 DEF Waits
<1> QED BY <1>2, <1>3, <1>4, <1>5 DEF WayOf

\* A step of node n: what it leaves alone of the others.
Others(n) ==
    /\ \A m \in Node \ {n} : NodeStill(m)
    /\ \A c \in Conn :
           /\ \/ owner'[c] = owner[c]
              \/ owner[c] = n /\ owner'[c] = NoOne
              \/ owner[c] = NoOne /\ owner'[c] = n
           /\ owner[c] \notin {n, NoOne} =>
                  /\ Up(c)' <=> Up(c)
                  /\ session'[c] = session[c]
                  /\ Confirmed(c)' => Confirmed(c)

\* The others are where they were, and the node itself is where the step says.
LEMMA WayOfOthers ==
    ASSUME NodeTypeInv, WayInv, NEW n \in Node, Others(n), WayOf(n)',
           \A c \in Conn : Up(c)' /\ Confirmed(c)' => Up(c) /\ Confirmed(c) /\ session'[c] = session[c]
    PROVE  WayInv'
<1>1. n # NoOne /\ \A m \in Node : m # NoOne
  OBVIOUS
<1>2. ASSUME NEW m \in Node \ {n} PROVE WayOf(m)'
  <2>1. ASSUME NEW c \in Conn PROVE LinkStill(m, c)
    <3>0. m # n /\ m # NoOne /\ n # NoOne
      BY <1>1
    <3>1. owner'[c] = m <=> owner[c] = m
      <4>1. \/ owner'[c] = owner[c]
            \/ owner[c] = n /\ owner'[c] = NoOne
            \/ owner[c] = NoOne /\ owner'[c] = n
        BY Zenon DEF Others
      <4> QED BY <3>0, <4>1
    <3>2. owner[c] = m => /\ Up(c)' <=> Up(c)
                          /\ session'[c] = session[c]
                          /\ Confirmed(c)' => Confirmed(c)
      <4>1. owner[c] \notin {n, NoOne} => /\ Up(c)' <=> Up(c)
                                          /\ session'[c] = session[c]
                                          /\ Confirmed(c)' => Confirmed(c)
        BY Zenon DEF Others
      <4> QED BY <3>0, <4>1
    <3> QED BY <3>1, <3>2 DEF LinkStill
  <2>2. WayOf(m) /\ NodeStill(m)
    BY DEF WayInv, Others
  <2> QED BY <2>1, <2>2, WayStill
<1>3. ConfirmInv'
  BY DEF WayInv, ConfirmInv
<1> QED BY <1>2, <1>3 DEF WayInv

\* Steps in which nothing is asked or answered, and no node gets on.
Quiet == /\ UNCHANGED <<pc, m_runing, m_nodeId, m_master_broker_sock, reconnectTimers, owner, restarts>>
         /\ \A c \in Conn : NoRequest(c) /\ NoReply(c) /\ (Up(c)' => Up(c) /\ session'[c] = session[c])
SparesOpening == \A c \in Conn : Up(c) /\ ~Up(c)' /\ owner[c] # NoOne => pc[owner[c]] # "polling"

\* Nodes that do nothing are as far as they were, if no connection is lost in open().
LEMMA NodesStill ==
    ASSUME NodeTypeInv, WayInv, SparesOpening,
           UNCHANGED <<pc, m_runing, m_nodeId, m_master_broker_sock, reconnectTimers, owner>>,
           \A c \in Conn :
               /\ Up(c)' => Up(c) /\ (session'[c].nodeId # 0 \/ session'[c] = session[c])
               /\ Confirmed(c)' => Confirmed(c) \/ (Up(c)' /\ session'[c].nodeId # 0)
    PROVE  WayInv'
<1>1. ASSUME NEW n \in Node PROVE WayOf(n)'
  <2>1. n # NoOne /\ WayOf(n)
    BY DEF WayInv
  <2>2. NodeStill(n)
    BY DEF NodeStill
  <2>3. ASSUME NEW c \in Conn PROVE LinkStill(n, c)
    <3>1. owner[c] = n => (Up(c) /\ ~Up(c)' => pc[n] # "polling")
      BY <2>1 DEF SparesOpening
    <3>2. /\ Up(c)' => Up(c) /\ (session'[c].nodeId # 0 \/ session'[c].nodeId = session[c].nodeId)
          /\ Confirmed(c)' => Confirmed(c) \/ Up(c)'
      OBVIOUS
    <3> QED BY <3>1, <3>2 DEF LinkStill
  <2> QED BY <2>1, <2>2, <2>3, WayStill
<1>2. ConfirmInv'
  BY DEF WayInv, ConfirmInv
<1> QED BY <1>1, <1>2 DEF WayInv

\* A refusal finds its socket as long as none is forgotten.
LEMMA RefusalStill ==
    ASSUME RefusalInv, UNCHANGED <<pc, m_master_broker_sock, owner, restarts>>,
           \A c \in Conn : /\ RefusedFirst(c)'
                           /\ Registers(c)' \/ Refused(c)' => Registers(c) \/ Refused(c)
    PROVE  RefusalInv'
BY DEF RefusalInv

\* Quiet steps leave both invariants alone.
LEMMA QuietKeeps ==
    ASSUME NodeTypeInv, Quiet
    PROVE  /\ WayInv /\ SparesOpening => WayInv'
           /\ RefusalInv => RefusalInv'
<1>1. ASSUME WayInv, SparesOpening PROVE WayInv'
  <2>1. \A c \in Conn : (Up(c)' => Up(c) /\ session'[c] = session[c]) /\ (Confirmed(c)' => Confirmed(c))
    BY DEF Quiet, NoReply
  <2> QED BY <1>1, <2>1, NodesStill DEF Quiet
<1>2. ASSUME RefusalInv PROVE RefusalInv'
  <2>1. \A c \in Conn : RefusedFirst(c)
    BY <1>2 DEF RefusalInv
  <2>2. \A c \in Conn : /\ RefusedFirst(c)'
                        /\ Registers(c)' \/ Refused(c)' => Registers(c) \/ Refused(c)
    BY <2>1 DEF Quiet, NoRequest, NoReply
  <2> QED BY <1>2, <2>2, RefusalStill DEF Quiet
<1> QED BY <1>1, <1>2

-----------------------------------------------------------------------------
(* Quiet steps: calls, and what the broker does but for registrations. *)

\* A node sends no registration but the first message of a connection.
LEMMA SentStill ==
    ASSUME RpcInv(FALSE), NEW n \in Node, NEW service, NEW name, NEW dest, NEW callback, NEW err, NEW tag,
           toBroker' = Sent(toBroker, n, service, name, dest, callback, err, tag)
    PROVE  \A d \in Conn : NoRequest(d)
<1>1. toBroker \in Queues(ForBroker) /\ m_master_broker_sock[n] \in Conn \cup {NULL} /\ \A d \in Conn : d \in Link
  BY DEF RpcInv, LinkInv, QueueTypeInv, NodeInv, NodeTypeInv, Link
<1>2. PICK q : q = toBroker'
  OBVIOUS
<1>3. PICK m : m = RouteMsg(service, name, dest, m_nodeId[n], callback, err, tag)
  OBVIOUS
<1>4. m.cmd = "BROKER_ROUTE_MSG"
  BY <1>3 DEF RouteMsg
<1>5. q = toBroker \/ \E l \in Link : q = Put(toBroker, l, m)
  BY <1>1, <1>2, <1>3, SentIs
<1>6. CASE q = toBroker
  BY <1>2, <1>6, RequestsStill
<1>7. CASE \E l \in Link : q = Put(toBroker, l, m)
  <2>1. PICK l \in Link : q = Put(toBroker, l, m)
    BY <1>7
  <2>2. PICK S : S = ForBroker \cup {m}
    OBVIOUS
  <2>3. toBroker \in Queues(S) /\ m \in S
    BY <1>1, <2>2 DEF Queues
  <2>4. /\ \A d \in Link \ {l} : q[d] = toBroker[d]
        /\ \A i \in DOMAIN q[l] : (i \in DOMAIN toBroker[l] /\ q[l][i] = toBroker[l][i]) \/ q[l][i] = m
    BY <2>1, <2>3, PutQueue
  <2>5. ASSUME NEW d \in Conn, NEW i \in DOMAIN q[d], q[d][i].cmd = "REGISTER_TO_BROKER_REQ"
        PROVE  i \in DOMAIN toBroker[d] /\ q[d][i] = toBroker[d][i]
    <3>1. CASE d = l
      BY <1>4, <2>4, <2>5, <3>1
    <3>2. CASE d # l
      BY <1>1, <2>4, <2>5, <3>2
    <3> QED BY <3>1, <3>2
  <2> QED BY <1>2, <2>5, RequestsStill
<1> QED BY <1>5, <1>6, <1>7

\* A node handled a message.
LEMMA ArrivedStill ==
    ASSUME RpcInv(FALSE), NEW n \in Node, NEW l \in Link, NEW cmd, Arrives(n, l, cmd), toNode' = Taken(toNode, l)
    PROVE  \A d \in Conn : NoReply(d)
<1>1. toNode \in Queues(ForNode) /\ toNode[l] # <<>> /\ \A d \in Conn : d \in Link
  BY DEF RpcInv, LinkInv, QueueTypeInv, Arrives, Link
<1>2. PICK q : q = toNode'
  OBVIOUS
<1>3. q[l] = Tail(toNode[l]) /\ (\A d \in Link \ {l} : q[d] = toNode[d])
  BY <1>1, <1>2, TakenQueue
<1>4. ASSUME NEW d \in Conn PROVE NoReply(d)
  <2>1. CASE d = l
    <3>1. toNode[d] \in Seq(ForNode) /\ toNode[d] # <<>> /\ toNode'[d] = Tail(toNode[d])
      BY <1>1, <1>2, <1>3, <2>1 DEF Queues
    <3> QED BY <3>1, HandledStill
  <2>2. CASE d # l
    BY <1>1, <1>2, <1>3, <2>2, RepliesStill
  <2> QED BY <2>1, <2>2
<1> QED BY <1>4

\* Calls and answers.
LEMMA CallsQuiet ==
    ASSUME RpcInv(FALSE), NEW n \in Node,
           \/ \E l \in Link : HandleCall(n, l) \/ HandleAnswer(n, l)
           \/ \E service, kind : CallWithoutService(n, service, kind) \/ docall(n, service, kind)
    PROVE  Quiet /\ SparesOpening
<1>1. /\ UNCHANGED <<pc, m_runing, m_nodeId, m_master_broker_sock, reconnectTimers, owner, restarts>>
      /\ UNCHANGED <<brokerEnd, nodeEnd, session>>
  <2>1. ASSUME NEW l \in Link, HandleCall(n, l)
        PROVE  /\ UNCHANGED <<pc, m_runing, m_nodeId, m_master_broker_sock, reconnectTimers, owner, restarts>>
               /\ UNCHANGED <<brokerEnd, nodeEnd, session>>
    <3>1. UNCHANGED <<brokerEnd, nodeEnd, session, nodeVars, owner, restarts>>
      BY <2>1, Zenon DEF HandleCall
    <3> QED BY <3>1 DEF nodeVars
  <2>2. ASSUME NEW l \in Link, HandleAnswer(n, l)
        PROVE  /\ UNCHANGED <<pc, m_runing, m_nodeId, m_master_broker_sock, reconnectTimers, owner, restarts>>
               /\ UNCHANGED <<brokerEnd, nodeEnd, session>>
    BY <2>2, Zenon DEF HandleAnswer
  <2>3. ASSUME NEW service, NEW kind, CallWithoutService(n, service, kind)
        PROVE  /\ UNCHANGED <<pc, m_runing, m_nodeId, m_master_broker_sock, reconnectTimers, owner, restarts>>
               /\ UNCHANGED <<brokerEnd, nodeEnd, session>>
    BY <2>3 DEF CallWithoutService, nodeVars, netVars
  <2>4. ASSUME NEW service, NEW kind, docall(n, service, kind)
        PROVE  /\ UNCHANGED <<pc, m_runing, m_nodeId, m_master_broker_sock, reconnectTimers, owner, restarts>>
               /\ UNCHANGED <<brokerEnd, nodeEnd, session>>
    BY <2>4 DEF docall
  <2> QED BY <2>1, <2>2, <2>3, <2>4
<1>2. \A d \in Conn : Up(d)' <=> Up(d)
  BY <1>1 DEF Up
<1>3. \A d \in Conn : NoRequest(d) /\ NoReply(d)
  <2>1. ASSUME NEW l \in Link, HandleCall(n, l) PROVE \A d \in Conn : NoRequest(d) /\ NoReply(d)
    <3>1. Arrives(n, l, "BROKER_TO_CLIENT_MSG") /\ toNode' = Taken(toNode, l)
      BY <2>1, Zenon DEF HandleCall
    <3>2. \A d \in Conn : NoReply(d)
      BY <3>1, ArrivedStill
    <3>3. \/ toBroker' = toBroker
          \/ \E service, name, dest, callback, err, tag :
                 toBroker' = Sent(toBroker, n, service, name, dest, callback, err, tag)
      BY <2>1, Zenon DEF HandleCall
    <3>4. \A d \in Conn : NoRequest(d)
      BY <3>3, SentStill, RequestsStill
    <3> QED BY <3>2, <3>4, Zenon
  <2>2. ASSUME NEW l \in Link, HandleAnswer(n, l) PROVE \A d \in Conn : NoRequest(d) /\ NoReply(d)
    <3>1. Arrives(n, l, "BROKER_TO_CLIENT_MSG") /\ toNode' = Taken(toNode, l) /\ toBroker' = toBroker
      BY <2>2, Zenon DEF HandleAnswer
    <3> QED BY <3>1, ArrivedStill, RequestsStill
  <2>3. ASSUME NEW service, NEW kind, CallWithoutService(n, service, kind)
        PROVE  \A d \in Conn : NoRequest(d) /\ NoReply(d)
    BY <2>3, QuietLink DEF CallWithoutService, netVars
  <2>4. ASSUME NEW service, NEW kind, docall(n, service, kind)
        PROVE  \A d \in Conn : NoRequest(d) /\ NoReply(d)
    <3>1. /\ toNode' = toNode
          /\ \E s, name, dest, callback, err, tag :
                 toBroker' = Sent(toBroker, n, s, name, dest, callback, err, tag)
      BY <2>4, Zenon DEF docall
    <3> QED BY <3>1, SentStill, RepliesStill
  <2> QED BY <2>1, <2>2, <2>3, <2>4
<1> QED BY <1>1, <1>2, <1>3 DEF Quiet, SparesOpening

\* The broker passes messages on, and forgets who is gone.
LEMMA BrokerQuiet ==
    ASSUME RpcInv(FALSE), RpcInv(FALSE)', UNCHANGED rpcVars,
           \/ \E c \in Conn : handleBrokerRouteMsg(c) \/ HandleBroken(c)
           \/ \E n \in InProc : PostedRoute(n)
    PROVE  Quiet /\ SparesOpening
<1>1. UNCHANGED <<pc, m_runing, m_nodeId, m_master_broker_sock, reconnectTimers, owner, restarts>>
  BY DEF rpcVars, nodeVars
<1>2. ASSUME NEW k \in Link, Receives(k, "BROKER_ROUTE_MSG"), toBroker' = Taken(toBroker, k),
             toNode' = toNode \/ toNode' = sendToRPcNode(toNode, Head(toBroker[k])),
             UNCHANGED <<brokerEnd, nodeEnd, session>>
      PROVE  Quiet /\ SparesOpening
  <2>1. \A d \in Conn : NoRequest(d) /\ NoReply(d)
    BY <1>2, RoutedStill
  <2>2. \A d \in Conn : Up(d)' <=> Up(d)
    BY <1>2 DEF Up
  <2> QED BY <1>1, <1>2, <2>1, <2>2 DEF Quiet, SparesOpening
<1>3. ASSUME NEW c \in Conn, handleBrokerRouteMsg(c) PROVE Quiet /\ SparesOpening
  BY <1>2, <1>3 DEF handleBrokerRouteMsg, Link
<1>4. ASSUME NEW n \in InProc, PostedRoute(n) PROVE Quiet /\ SparesOpening
  BY <1>2, <1>4 DEF PostedRoute, Link
<1>5. ASSUME NEW c \in Conn, HandleBroken(c) PROVE Quiet /\ SparesOpening
  <2>1. /\ \A d \in Conn : NoRequest(d) /\ NoReply(d)
        /\ \A d \in Conn : Up(d)' <=> Up(d)
        /\ UNCHANGED session
    BY <1>5, GoneStill
  <2> QED BY <1>1, <2>1 DEF Quiet, SparesOpening
<1> QED BY <1>3, <1>4, <1>5

\* A connection is lost, but for that of a node that opens.
LEMMA LostQuiet ==
    ASSUME RpcInv(FALSE), NEW c \in Conn, ConnectionLost(c)
    PROVE  Quiet /\ (WayInv /\ ~CutsWhileOpening => SparesOpening)
<1>1. /\ Up(c) /\ Break(c, toBroker, toNode)
      /\ UNCHANGED <<session, pc, m_runing, m_nodeId, m_master_broker_sock, reconnectTimers, owner, restarts>>
      /\ CutsWhileOpening \/ (owner[c] # NoOne /\ m_runing[owner[c]])
  BY DEF ConnectionLost, rpcVars, nodeVars
<1>2. toNode \in Queues(ForNode) /\ owner[c] \in Node \cup {NoOne}
  BY DEF RpcInv, LinkInv, QueueTypeInv, NodeInv, NodeTypeInv
<1>3. /\ \A d \in Conn : NoRequest(d) /\ NoReply(d)
      /\ \A d \in Conn : Up(d)' <=> Up(d) /\ d # c
  BY <1>1, <1>2, BrokenStill
<1>4. Quiet
  BY <1>1, <1>3 DEF Quiet
<1>5. ASSUME WayInv, ~CutsWhileOpening PROVE SparesOpening
  <2>1. owner[c] \in Node /\ m_runing[owner[c]] /\ WayOf(owner[c])
    BY <1>1, <1>2, <1>5 DEF WayInv
  <2>2. pc[owner[c]] # "polling"
    BY <2>1 DEF WayOf
  <2> QED BY <1>3, <2>2 DEF SparesOpening
<1> QED BY <1>4, <1>5

\* The broker's process ends, when no node opens.
LEMMA EndQuiet ==
    ASSUME RpcInv(FALSE), BrokerEnds
    PROVE  Quiet /\ (~CutsWhileOpening => SparesOpening)
<1>1. \A c \in Conn : /\ c \in Link /\ ~Up(c)' /\ toBroker'[c] = <<>>
                      /\ \A i \in DOMAIN toNode'[c] : i \in DOMAIN toNode[c] /\ toNode'[c][i] = toNode[c][i]
  BY BrokerEndsIs
<1>2. UNCHANGED <<pc, m_runing, m_nodeId, m_master_broker_sock, reconnectTimers, owner, restarts>>
      /\ (CutsWhileOpening \/ \A n \in Node : pc[n] # "polling")
  BY DEF BrokerEnds, rpcVars, nodeVars
<1>3. ASSUME NEW c \in Conn PROVE NoRequest(c) /\ NoReply(c)
  <2>1. DOMAIN toBroker'[c] = {}
    BY <1>1
  <2> QED BY <1>1, <2>1, RequestsStill, RepliesStill
<1>4. Quiet
  BY <1>1, <1>2, <1>3 DEF Quiet
<1>5. ~CutsWhileOpening => SparesOpening
  <2>1. \A c \in Conn : owner[c] \in Node \cup {NoOne}
    BY DEF RpcInv, NodeInv, NodeTypeInv
  <2> QED BY <1>2, <2>1 DEF SparesOpening
<1> QED BY <1>4, <1>5

\* Nothing happens.
LEMMA StutterQuiet ==
    ASSUME UNCHANGED systemVars
    PROVE  Quiet /\ SparesOpening
<1>1. /\ UNCHANGED <<pc, m_runing, m_nodeId, m_master_broker_sock, reconnectTimers, owner, restarts>>
      /\ UNCHANGED <<brokerEnd, nodeEnd, toBroker, toNode, session>>
  BY DEF systemVars, netVars, rpcVars, nodeVars
<1>2. \A d \in Conn : (NoRequest(d) /\ NoReply(d)) /\ (Up(d)' <=> Up(d))
  BY <1>1, QuietLink DEF Up
<1> QED BY <1>1, <1>2 DEF Quiet, SparesOpening

-----------------------------------------------------------------------------
(* Registrations that are answered. *)

\* A name that is taken.
LEMMA RegisterRefusedWay ==
    ASSUME RpcInv(FALSE), UNCHANGED rpcVars, NEW c \in Conn, RegisterRefused(c)
    PROVE  /\ WayInv => WayInv'
           /\ RefusalInv => RefusalInv'
<1>1. /\ \A d \in Conn \ {c} : NoRequest(d) /\ NoReply(d)
      /\ Registers(c) /\ ~Registers(c)' /\ ~Confirmed(c)' /\ RefusedFirst(c)'
      /\ UNCHANGED <<brokerEnd, nodeEnd, session>>
  BY RefusalIs
<1>2. /\ UNCHANGED <<pc, m_runing, m_nodeId, m_master_broker_sock, reconnectTimers, owner, restarts>>
      /\ NodeTypeInv
  BY DEF rpcVars, nodeVars, RpcInv, NodeInv
<1>3. \A d \in Conn : Up(d)' <=> Up(d)
  BY <1>1 DEF Up
<1>4. \A d \in Conn : Confirmed(d)' => Confirmed(d)
  BY <1>1 DEF NoReply
<1>5. WayInv => WayInv'
  BY <1>1, <1>2, <1>3, <1>4, NodesStill DEF SparesOpening
<1>6. ASSUME RefusalInv PROVE RefusalInv'
  <2>1. \A d \in Conn : RefusedFirst(d)
    BY <1>6 DEF RefusalInv
  <2>2. \A d \in Conn : /\ RefusedFirst(d)'
                        /\ Registers(d)' \/ Refused(d)' => Registers(d) \/ Refused(d)
    BY <1>1, <2>1 DEF NoRequest, NoReply
  <2> QED BY <1>2, <1>6, <2>2, RefusalStill
<1> QED BY <1>5, <1>6

\* A node that is registered.
LEMMA RegisterAcceptedWay ==
    ASSUME RpcInv(FALSE), RpcInv(FALSE)', UNCHANGED rpcVars, NEW c \in Conn, RegisterAccepted(c)
    PROVE  /\ WayInv => WayInv'
           /\ RefusalInv => RefusalInv'
<1>1. /\ \A d \in Conn \ {c} : NoRequest(d) /\ NoReply(d) /\ session'[d] = session[d]
      /\ ~Registers(c)' /\ ~Refused(c)' /\ RefusedFirst(c)' /\ session'[c].nodeId # 0
      /\ Confirmed(c)' => Confirmed(c) \/ Up(c)
      /\ UNCHANGED <<brokerEnd, nodeEnd>>
  BY AcceptanceIs
<1>2. /\ UNCHANGED <<pc, m_runing, m_nodeId, m_master_broker_sock, reconnectTimers, owner, restarts>>
      /\ NodeTypeInv
  BY DEF rpcVars, nodeVars, RpcInv, NodeInv
<1>3. \A d \in Conn : Up(d)' <=> Up(d)
  BY <1>1 DEF Up
<1>4. \A d \in Conn : /\ Up(d)' => Up(d) /\ (session'[d].nodeId # 0 \/ session'[d] = session[d])
                      /\ Confirmed(d)' => Confirmed(d) \/ (Up(d)' /\ session'[d].nodeId # 0)
  BY <1>1, <1>3 DEF NoReply
<1>5. WayInv => WayInv'
  BY <1>2, <1>3, <1>4, NodesStill DEF SparesOpening
<1>6. ASSUME RefusalInv PROVE RefusalInv'
  <2>1. \A d \in Conn : RefusedFirst(d)
    BY <1>6 DEF RefusalInv
  <2>2. \A d \in Conn : /\ RefusedFirst(d)'
                        /\ Registers(d)' \/ Refused(d)' => Registers(d) \/ Refused(d)
    BY <1>1, <2>1 DEF NoRequest, NoReply
  <2> QED BY <1>2, <1>6, <2>2, RefusalStill
<1> QED BY <1>5, <1>6

-----------------------------------------------------------------------------
(* The thread that opens and closes a node. *)

\* It gets on, and nothing is sent or handled.
LEMMA AloneIs ==
    ASSUME NEW n \in Node, UNCHANGED <<netVars, owner>>, \A m \in Node \ {n} : NodeStill(m)
    PROVE  /\ Others(n)
           /\ \A c \in Conn : NoRequest(c) /\ NoReply(c)
           /\ \A c \in Conn : Up(c)' /\ Confirmed(c)' => Up(c) /\ Confirmed(c) /\ session'[c] = session[c]
<1>1. UNCHANGED <<brokerEnd, nodeEnd, toBroker, toNode, session>>
  BY DEF netVars
<1>2. \A c \in Conn : (Up(c)' <=> Up(c)) /\ (Confirmed(c)' <=> Confirmed(c)) /\ session'[c] = session[c]
  BY <1>1 DEF Up, Confirmed
<1>3. \A c \in Conn : NoRequest(c) /\ NoReply(c)
  BY <1>1, QuietLink
<1> QED BY <1>2, <1>3 DEF Others

\* open() returns, close() ends.
LEMMA ThreadWay ==
    ASSUME RpcInv(FALSE), WayInv, NEW n \in Node,
           \/ OpenSucceeds(n) \/ OpenFails(n) \/ CloseForgets(n) \/ CloseEnds(n) \/ OpenCannotConnect(n)
    PROVE  /\ WayInv'
           /\ RefusalInv => RefusalInv'
<1>1. /\ NodeTypeInv /\ WayOf(n) /\ n # NoOne
  BY DEF RpcInv, NodeInv, WayInv
<1>2. UNCHANGED <<netVars, owner, m_nodeId, reconnectTimers, restarts>>
  BY DEF OpenSucceeds, OpenFails, CloseForgets, CloseEnds, OpenCannotConnect
<1>3. /\ pc'[n] \in {"open", "failed", "forgetting", "closed"}
      /\ pc[n] \notin {"closing", "forgetting"} =>
             pc'[n] \in {"open", "failed", "closed"} /\ UNCHANGED m_master_broker_sock
      /\ m_master_broker_sock'[n] \in {m_master_broker_sock[n], NULL}
      /\ pc'[n] = "open" => /\ m_runing'[n] /\ pc[n] = "polling" /\ m_nodeId[n] # 0
      /\ \A m \in Node \ {n} : /\ pc'[m] = pc[m] /\ m_runing'[m] = m_runing[m]
                               /\ m_master_broker_sock'[m] = m_master_broker_sock[m]
  BY <1>1 DEF OpenSucceeds, OpenFails, CloseForgets, CloseEnds, OpenCannotConnect, NodeTypeInv
<1>4. \A m \in Node \ {n} : NodeStill(m)
  BY <1>2, <1>3 DEF NodeStill
<1>5. /\ Others(n)
      /\ \A c \in Conn : NoRequest(c) /\ NoReply(c)
      /\ \A c \in Conn : Up(c)' /\ Confirmed(c)' => Up(c) /\ Confirmed(c) /\ session'[c] = session[c]
  BY <1>2, <1>4, AloneIs
<1>6. WayOf(n)'
  <2>1. m_master_broker_sock'[n] # NULL => owner'[m_master_broker_sock'[n]] = n
    BY <1>1, <1>2, <1>3 DEF WayOf
  <2>2. pc'[n] = "open" => m_runing'[n] /\ reconnectTimers'[n] = 0 /\ \E c \in Conn : owner'[c] = n
    BY <1>1, <1>2, <1>3 DEF WayOf, Waits
  <2> QED BY <1>3, <2>1, <2>2 DEF WayOf
<1>7. ASSUME RefusalInv PROVE RefusalInv'
  <2>1. pc[n] \notin {"closing", "forgetting"}
    BY <1>7 DEF RefusalInv
  <2>2. \A c \in Conn : RefusedFirst(c)' /\ (Registers(c)' => Registers(c)) /\ (Refused(c)' => Refused(c))
    BY <1>5, <1>7 DEF RefusalInv, NoRequest, NoReply
  <2>3. \A m \in Node : pc'[m] \in {"start", "polling", "open", "failed", "closed"}
    BY <1>3, <1>7, <2>1 DEF RefusalInv
  <2> QED BY <1>2, <1>3, <1>7, <2>1, <2>2, <2>3 DEF RefusalInv
<1> QED BY <1>1, <1>5, <1>6, <1>7, WayOfOthers

\* open() gives up, close() begins: with the socket closed.
LEMMA ClosesWay ==
    ASSUME RpcInv(FALSE), WayInv, NEW n \in Node, OpenTimesOut(n) \/ CloseStarts(n)
    PROVE  /\ WayInv'
           /\ restarts < MaxRestarts
<1>1. /\ NodeTypeInv /\ WayOf(n) /\ n # NoOne /\ toNode \in Queues(ForNode)
  BY DEF RpcInv, NodeInv, LinkInv, QueueTypeInv, WayInv
<1>2. PICK c : c = m_master_broker_sock[n]
  OBVIOUS
<1>3. /\ UNCHANGED <<session, owner, m_nodeId, m_runing, reconnectTimers>>
      /\ restarts < MaxRestarts
      /\ \/ c # NULL /\ Up(c) /\ Break(c, toBroker, toNode)
         \/ UNCHANGED <<brokerEnd, nodeEnd, toBroker, toNode>>
  BY <1>2, Zenon DEF OpenTimesOut, CloseStarts
<1>4. /\ pc'[n] \in {"failed", "closing"}
      /\ m_master_broker_sock'[n] \in {m_master_broker_sock[n], NULL}
      /\ \A m \in Node \ {n} : pc'[m] = pc[m] /\ m_master_broker_sock'[m] = m_master_broker_sock[m]
  BY <1>1 DEF OpenTimesOut, CloseStarts, NodeTypeInv
<1>5. c # NULL => c \in Conn /\ owner[c] = n
  BY <1>1, <1>2 DEF NodeTypeInv, WayOf
<1>6. \A d \in Conn : /\ Confirmed(d)' => Confirmed(d)
                      /\ Up(d)' => Up(d)
                      /\ owner[d] # n => (Up(d)' <=> Up(d))
  <2>1. CASE c # NULL /\ Up(c) /\ Break(c, toBroker, toNode)
    <3>1. /\ \A d \in Conn : NoRequest(d) /\ NoReply(d)
          /\ \A d \in Conn : Up(d)' <=> Up(d) /\ d # c
      BY <1>1, <1>5, <2>1, BrokenStill
    <3> QED BY <1>5, <2>1, <3>1 DEF NoReply
  <2>2. CASE UNCHANGED <<brokerEnd, nodeEnd, toBroker, toNode>>
    BY <2>2 DEF Up, Confirmed
  <2> QED BY <1>3, <2>1, <2>2
<1>7. Others(n)
  <2>1. \A m \in Node \ {n} : NodeStill(m)
    BY <1>3, <1>4 DEF NodeStill
  <2> QED BY <1>3, <1>6, <2>1 DEF Others
<1>8. WayOf(n)'
  BY <1>1, <1>3, <1>4 DEF WayOf
<1> QED BY <1>1, <1>3, <1>6, <1>7, <1>8, WayOfOthers

-----------------------------------------------------------------------------
(* Connections that are made and seen broken. *)

\* A node connects when nothing is left of the connection before.
LEMMA ConnectIs ==
    ASSUME RpcInv(FALSE), NEW n \in Node, NEW c \in Conn, NEW first,
           Connect(c, first), owner' = [owner EXCEPT ![c] = n]
    PROVE  /\ owner[c] = NoOne /\ owner'[c] = n /\ Up(c)' /\ ~Confirmed(c)' /\ RefusedFirst(c)'
           /\ \A d \in Conn \ {c} :
                  /\ owner'[d] = owner[d] /\ session'[d] = session[d]
                  /\ Up(d)' <=> Up(d)
                  /\ Confirmed(d)' => Confirmed(d)
                  /\ NoRequest(d) /\ NoReply(d)
<1>1. /\ brokerEnd \in [Conn -> Ends] /\ nodeEnd \in [Conn -> Ends] /\ DOMAIN session = Conn
      /\ DOMAIN toBroker = Link /\ DOMAIN toNode = Link /\ (\A d \in Conn : d \in Link)
      /\ DOMAIN owner = Conn /\ OwnerInv
  BY DEF RpcInv, IInv, RegistryTypeOK, LinkInv, NodeInv, NodeTypeInv, QueueTypeInv, Queues, Link
<1>2. /\ nodeEnd[c] = "none"
      /\ brokerEnd'[c] = "open" /\ nodeEnd'[c] = "open" /\ toNode'[c] = <<>> /\ owner'[c] = n
      /\ \A d \in Conn \ {c} :
             /\ brokerEnd'[d] = brokerEnd[d] /\ nodeEnd'[d] = nodeEnd[d]
             /\ toBroker'[d] = toBroker[d] /\ toNode'[d] = toNode[d]
             /\ session'[d] = session[d] /\ owner'[d] = owner[d]
  BY <1>1 DEF Connect
<1>3. owner[c] = NoOne
  BY <1>1, <1>2 DEF OwnerInv
<1>4. ~Confirmed(c)' /\ RefusedFirst(c)'
  <2>1. DOMAIN toNode'[c] = {}
    BY <1>2
  <2> QED BY <2>1 DEF Confirmed, RefusedFirst
<1>5. \A d \in Conn \ {c} : (Up(d)' <=> Up(d)) /\ (Confirmed(d)' => Confirmed(d))
  BY <1>2 DEF Up, Confirmed
<1>6. \A d \in Conn \ {c} : NoRequest(d) /\ NoReply(d)
  BY <1>2, QuietLink
<1> QED BY <1>2, <1>3, <1>4, <1>5, <1>6 DEF Up

\* connectToBroker() in open(), or when the timer has run out.
LEMMA ConnectWay ==
    ASSUME RpcInv(FALSE), WayInv, NEW n \in Node, connectToBroker(n),
           pc[n] = "start" \/ reconnectTimers[n] # 0,
           \A m \in Node \ {n} : /\ pc'[m] = pc[m] /\ m_runing'[m] = m_runing[m]
                                /\ m_nodeId'[m] = m_nodeId[m]
                                /\ reconnectTimers'[m] = reconnectTimers[m],
           restarts' = restarts, m_runing'[n] = m_runing[n], m_nodeId'[n] = m_nodeId[n],
           reconnectTimers'[n] = 0,
           \/ pc[n] = "start" /\ pc'[n] = "polling"
           \/ m_runing[n] /\ pc'[n] = pc[n]
    PROVE  /\ WayInv'
           /\ RefusalInv => RefusalInv'
<1>1. /\ NodeTypeInv /\ OneWayInv /\ WayOf(n) /\ n # NoOne
  BY DEF RpcInv, NodeInv, WayInv
<1>2. PICK c \in Conn :
          /\ Connect(c, <<RegisterReq("RPC_NODE", ServiceOf[n])>>)
          /\ owner' = [owner EXCEPT ![c] = n]
          /\ m_master_broker_sock' = [m_master_broker_sock EXCEPT ![n] = c]
  BY DEF connectToBroker
<1>3. /\ owner[c] = NoOne /\ owner'[c] = n /\ Up(c)' /\ ~Confirmed(c)' /\ RefusedFirst(c)'
      /\ \A d \in Conn \ {c} :
             /\ owner'[d] = owner[d] /\ session'[d] = session[d]
             /\ Up(d)' <=> Up(d)
             /\ Confirmed(d)' => Confirmed(d)
             /\ NoRequest(d) /\ NoReply(d)
  BY <1>2, ConnectIs
<1>4. /\ m_master_broker_sock'[n] = c
      /\ \A m \in Node \ {n} : m_master_broker_sock'[m] = m_master_broker_sock[m]
  BY <1>1, <1>2 DEF NodeTypeInv
<1>5. Others(n)
  <2>1. \A m \in Node \ {n} : NodeStill(m)
    BY <1>4 DEF NodeStill
  <2> QED BY <1>3, <2>1 DEF Others
<1>6. WayOf(n)'
  <2>1. pc'[n] = "polling" => ~m_runing'[n] /\ m_nodeId'[n] = 0
    BY <1>1 DEF WayOf
  <2>2. pc'[n] # "start" /\ (pc'[n] = "open" => m_runing'[n])
    BY <1>1 DEF WayOf
  <2>3. pc'[n] = "polling" => Waits(n)'
    BY <1>3, <2>1 DEF Waits
  <2>4. m_master_broker_sock'[n] # NULL => owner'[m_master_broker_sock'[n]] = n
    BY <1>3, <1>4
  <2>5. \E d \in Conn : owner'[d] = n
    BY <1>3
  <2> QED BY <2>1, <2>2, <2>3, <2>4, <2>5 DEF WayOf
<1>7. \A d \in Conn : Up(d)' /\ Confirmed(d)' => Up(d) /\ Confirmed(d) /\ session'[d] = session[d]
  BY <1>3
<1>8. ASSUME RefusalInv PROVE RefusalInv'
  <2>1. \A m \in Node : pc'[m] \in {"start", "polling", "open", "failed", "closed"}
    BY <1>8 DEF RefusalInv
  <2>2. \A d \in Conn : RefusedFirst(d)'
    BY <1>3, <1>8 DEF RefusalInv, NoReply
  <2>3. ASSUME NEW d \in Conn, Registers(d)' \/ Refused(d)', owner'[d] # NoOne
        PROVE  m_master_broker_sock'[owner'[d]] = d
    <3>1. CASE d = c
      BY <1>3, <1>4, <3>1
    <3>2. CASE d # c
      <4>1. (Registers(d) \/ Refused(d)) /\ owner[d] # NoOne /\ owner'[d] = owner[d]
        BY <1>3, <2>3, <3>2 DEF NoRequest, NoReply
      <4>2. m_master_broker_sock[owner[d]] = d /\ owner[d] \in Node
        BY <1>1, <1>8, <4>1 DEF RefusalInv, NodeTypeInv
      <4>3. owner[d] # n
        BY <1>1 DEF OneWayInv
      <4> QED BY <1>4, <4>1, <4>2, <4>3
    <3> QED BY <3>1, <3>2
  <2> QED BY <1>8, <2>1, <2>2, <2>3 DEF RefusalInv
<1> QED BY <1>1, <1>5, <1>6, <1>7, <1>8, WayOfOthers

\* open().
LEMMA OpenConnectsWay ==
    ASSUME RpcInv(FALSE), WayInv, NEW n \in Node, OpenConnects(n)
    PROVE  /\ WayInv'
           /\ RefusalInv => RefusalInv'
<1>1. NodeTypeInv /\ WayOf(n)
  BY DEF RpcInv, NodeInv, WayInv
<1>2. /\ connectToBroker(n) /\ pc[n] = "start" /\ pc' = [pc EXCEPT ![n] = "polling"]
      /\ UNCHANGED <<m_runing, m_nodeId, reconnectTimers, restarts>>
  BY DEF OpenConnects
<1>3. /\ pc'[n] = "polling" /\ reconnectTimers[n] = 0
      /\ \A m \in Node \ {n} : pc'[m] = pc[m]
  BY <1>1, <1>2 DEF NodeTypeInv, WayOf
<1>4. \A m \in Node \ {n} : /\ pc'[m] = pc[m] /\ m_runing'[m] = m_runing[m]
                           /\ m_nodeId'[m] = m_nodeId[m]
                           /\ reconnectTimers'[m] = reconnectTimers[m]
  BY <1>2, <1>3
<1>5. restarts' = restarts /\ m_runing'[n] = m_runing[n] /\ m_nodeId'[n] = m_nodeId[n]
      /\ reconnectTimers'[n] = 0
  BY <1>2, <1>3
<1> QED BY <1>2, <1>3, <1>4, <1>5, ConnectWay

\* timerReconnectBroker().
LEMMA TimerWay ==
    ASSUME RpcInv(FALSE), WayInv, NEW n \in Node, timerReconnectBroker(n)
    PROVE  /\ WayInv'
           /\ RefusalInv => RefusalInv'
<1>1. /\ NodeTypeInv /\ WayOf(n) /\ reconnectTimers \in [Node -> 0..1]
  BY DEF RpcInv, NodeInv, NodeTypeInv, WayInv
<1>2. /\ Alive(n) /\ reconnectTimers[n] > 0
      /\ reconnectTimers' = [reconnectTimers EXCEPT ![n] = @ - 1]
      /\ UNCHANGED <<pc, m_runing, m_nodeId, restarts>>
  BY DEF timerReconnectBroker
<1>3. /\ reconnectTimers[n] # 0 /\ reconnectTimers'[n] = 0
      /\ \A m \in Node \ {n} : reconnectTimers'[m] = reconnectTimers[m]
  BY <1>1, <1>2
<1>4. CASE m_runing[n] /\ m_master_broker_sock[n] = NULL
  <2>1. connectToBroker(n)
    BY <1>4 DEF timerReconnectBroker
  <2>2. \A m \in Node \ {n} : /\ pc'[m] = pc[m] /\ m_runing'[m] = m_runing[m]
                             /\ m_nodeId'[m] = m_nodeId[m]
                             /\ reconnectTimers'[m] = reconnectTimers[m]
    BY <1>2, <1>3
  <2>3. restarts' = restarts /\ m_runing'[n] = m_runing[n] /\ m_nodeId'[n] = m_nodeId[n] /\ pc'[n] = pc[n]
    BY <1>2
  <2> QED BY <1>3, <1>4, <2>1, <2>2, <2>3, ConnectWay
<1>5. CASE ~(m_runing[n] /\ m_master_broker_sock[n] = NULL)
  <2>1. UNCHANGED <<netVars, m_master_broker_sock, owner>>
    BY <1>5 DEF timerReconnectBroker
  <2>2. \A m \in Node \ {n} : NodeStill(m)
    BY <1>2, <1>3, <2>1 DEF NodeStill
  <2>3. /\ Others(n)
        /\ \A c \in Conn : NoRequest(c) /\ NoReply(c)
        /\ \A c \in Conn : Up(c)' /\ Confirmed(c)' => Up(c) /\ Confirmed(c) /\ session'[c] = session[c]
    BY <2>1, <2>2, AloneIs
  <2>4. pc[n] \notin {"start", "polling", "open"}
    BY <1>1, <1>3, <1>5 DEF WayOf
  <2>5. WayOf(n)'
    BY <1>1, <1>2, <2>1, <2>4 DEF WayOf
  <2>6. ASSUME RefusalInv PROVE RefusalInv'
    <3>1. \A c \in Conn : /\ RefusedFirst(c)'
                          /\ Registers(c)' \/ Refused(c)' => Registers(c) \/ Refused(c)
      BY <2>3, <2>6 DEF RefusalInv, NoRequest, NoReply
    <3> QED BY <1>2, <2>1, <2>6, <3>1, RefusalStill
  <2> QED BY <1>1, <2>3, <2>5, <2>6, WayOfOthers
<1> QED BY <1>4, <1>5

-----------------------------------------------------------------------------
(* What arrives at a node. *)

\* An answer to a registration that arrives is the first message of the node's connection.
LEMMA AnswerIs ==
    ASSUME RpcInv(FALSE), NEW n \in Node, NEW c \in Conn, Arrives(n, c, "REGISTER_TO_BROKER_RET")
    PROVE  /\ owner[c] = n /\ n # NoOne /\ pc[n] # "start"
           /\ \A d \in Conn : owner[d] = n => d = c
           /\ toNode[c] \in Seq(ForNode) /\ toNode[c] # <<>> /\ 1 \in DOMAIN toNode[c]
           /\ Head(toNode[c]) = toNode[c][1] /\ Head(toNode[c]).cmd = "REGISTER_TO_BROKER_RET"
<1>1. c \in Link /\ c \notin InProc /\ toNode \in Queues(ForNode) /\ OneWayInv
  BY DEF RpcInv, LinkInv, NodeInv, QueueTypeInv, Link
<1>2. /\ Alive(n) /\ c \in LinksOf(n) /\ toNode[c] # <<>>
      /\ Head(toNode[c]).cmd = "REGISTER_TO_BROKER_RET"
  BY DEF Arrives
<1>3. owner[c] = n /\ n # NoOne /\ pc[n] # "start"
  BY <1>1, <1>2 DEF LinksOf, Alive
<1>4. \A d \in Conn : owner[d] = n => d = c
  BY <1>1, <1>3 DEF OneWayInv
<1>5. toNode[c] \in Seq(ForNode)
  BY <1>1 DEF Queues
<1>6. \A queue \in Seq(ForNode) : queue # <<>> => 1 \in DOMAIN queue /\ Head(queue) = queue[1]
  OBVIOUS
<1> QED BY <1>2, <1>3, <1>4, <1>5, <1>6

\* The registry arrives.
LEMMA RegistryWay ==
    ASSUME RpcInv(FALSE), WayInv, NEW n \in Node, NEW c \in Conn, RegistryArrives(n, c)
    PROVE  /\ WayInv'
           /\ RefusalInv => RefusalInv'
<1>1. /\ NodeTypeInv /\ WayOf(n) /\ ConfirmInv /\ c \in Link
  BY DEF RpcInv, NodeInv, WayInv, Link
<1>2. /\ Arrives(n, c, "REGISTER_TO_BROKER_RET") /\ toNode' = Taken(toNode, c)
      /\ UNCHANGED <<brokerEnd, nodeEnd, toBroker, session, pc, m_runing, m_master_broker_sock,
                     reconnectTimers, owner, restarts>>
      /\ \/ Head(toNode[c]).registerFlag = 1 /\ \E id : m_nodeId' = [m_nodeId EXCEPT ![n] = id]
         \/ m_nodeId' = m_nodeId
  BY Zenon DEF RegistryArrives, LearnsId
<1>3. /\ owner[c] = n /\ pc[n] # "start" /\ (\A d \in Conn : owner[d] = n => d = c)
      /\ 1 \in DOMAIN toNode[c] /\ Head(toNode[c]) = toNode[c][1]
      /\ Head(toNode[c]).cmd = "REGISTER_TO_BROKER_RET"
  BY <1>2, AnswerIs
<1>4. \A d \in Conn : NoRequest(d) /\ NoReply(d)
  <2>1. \A d \in Conn : NoReply(d)
    BY <1>1, <1>2, ArrivedStill
  <2>2. \A d \in Conn : NoRequest(d)
    BY <1>2, RequestsStill
  <2> QED BY <2>1, <2>2, Zenon
<1>5. \A d \in Conn : (Up(d)' <=> Up(d)) /\ (Confirmed(d)' => Confirmed(d)) /\ session'[d] = session[d]
  BY <1>2, <1>4 DEF Up, NoReply
<1>6. Others(n)
  <2>1. \A m \in Node \ {n} : m_nodeId'[m] = m_nodeId[m]
    BY <1>1, <1>2 DEF NodeTypeInv
  <2>2. \A m \in Node \ {n} : NodeStill(m)
    BY <1>2, <2>1 DEF NodeStill
  <2> QED BY <1>2, <1>5, <2>2 DEF Others
<1>7. WayOf(n)'
  <2>1. ASSUME pc[n] = "polling" PROVE Waits(n)'
    <3>1. Waits(n)
      BY <1>1, <2>1 DEF WayOf
    <3>2. CASE Head(toNode[c]).registerFlag = 1
      <4>1. Confirmed(c)
        BY <1>3, <3>2 DEF Confirmed, IsConfirmation
      <4>2. Up(c)
        BY <1>3, <3>1, <4>1 DEF Waits
      <4>3. session[c].nodeId # 0
        BY <1>1, <4>1, <4>2 DEF ConfirmInv
      <4>4. owner'[c] = n /\ Up(c)' /\ session'[c].nodeId # 0
        BY <1>2, <1>3, <1>5, <4>2, <4>3
      <4> QED BY <4>4 DEF Waits
    <3>3. CASE m_nodeId' = m_nodeId
      BY <1>2, <1>5, <3>1, <3>3 DEF Waits
    <3> QED BY <1>2, <3>2, <3>3
  <2> QED BY <1>1, <1>2, <1>3, <2>1 DEF WayOf
<1>8. ASSUME RefusalInv PROVE RefusalInv'
  <2>1. \A d \in Conn : /\ RefusedFirst(d)'
                        /\ Registers(d)' \/ Refused(d)' => Registers(d) \/ Refused(d)
    BY <1>4, <1>8 DEF RefusalInv, NoRequest, NoReply
  <2> QED BY <1>2, <1>8, <2>1, RefusalStill
<1> QED BY <1>1, <1>5, <1>6, <1>7, <1>8, WayOfOthers

\* The registration was refused: the socket that is closed is the one it was made on.
LEMMA RefusedWay ==
    ASSUME RpcInv(FALSE), WayInv, NEW n \in Node, NEW c \in Conn, RegistrationRefused(n, c)
    PROVE  /\ WayInv'
           /\ RefusalInv => RefusalInv'
<1>1. /\ NodeTypeInv /\ WayOf(n) /\ ConfirmInv /\ c \in Link /\ RegisterInv(FALSE)
      /\ toNode \in Queues(ForNode)
  BY DEF RpcInv, NodeInv, LinkInv, QueueTypeInv, WayInv, Link
<1>2. /\ Arrives(n, c, "REGISTER_TO_BROKER_RET") /\ Head(toNode[c]).registerFlag = -1
      /\ m_master_broker_sock[n] # NULL
      /\ m_master_broker_sock' = [m_master_broker_sock EXCEPT ![n] = NULL]
      /\ UNCHANGED <<session, pc, m_runing, m_nodeId, reconnectTimers, owner, restarts>>
  BY DEF RegistrationRefused
<1>3. /\ owner[c] = n /\ n # NoOne /\ pc[n] # "start" /\ (\A d \in Conn : owner[d] = n => d = c)
      /\ toNode[c] \in Seq(ForNode) /\ toNode[c] # <<>>
      /\ 1 \in DOMAIN toNode[c] /\ Head(toNode[c]) = toNode[c][1]
      /\ Head(toNode[c]).cmd = "REGISTER_TO_BROKER_RET"
  BY <1>2, AnswerIs
<1>4. m_master_broker_sock[n] = c
  BY <1>1, <1>2, <1>3 DEF WayOf, NodeTypeInv
<1>5. PICK q : q = Taken(toNode, c)
  OBVIOUS
<1>6. /\ q \in Queues(ForNode) /\ q[c] = Tail(toNode[c]) /\ \A d \in Link \ {c} : q[d] = toNode[d]
      /\ \A i \in DOMAIN q[c] : i + 1 \in DOMAIN toNode[c] /\ i + 1 # 1 /\ q[c][i] = toNode[c][i + 1]
  BY <1>1, <1>3, <1>5, TakenQueue
<1>7. /\ \A d \in Conn : NoRequest(d) /\ NoReply(d)
      /\ \A d \in Conn : Up(d)' => Up(d)
      /\ \A d \in Conn \ {c} : Up(d)' <=> Up(d)
      /\ \A i \in DOMAIN toNode'[c] : i \in DOMAIN q[c] /\ toNode'[c][i] = q[c][i]
  <2>1. CASE Up(c)
    <3>1. Break(c, toBroker, q)
      BY <1>4, <1>5, <2>1 DEF RegistrationRefused
    <3>2. \A d \in Conn \ {c} : q[d] = toNode[d]
      BY <1>6 DEF Link
    <3>3. /\ \A d \in Conn : NoRequest(d) /\ NoReply(d)
          /\ \A d \in Conn : Up(d)' <=> Up(d) /\ d # c
      BY <1>3, <1>6, <2>1, <3>1, <3>2, BrokenStill
    <3>4. \A i \in DOMAIN toNode'[c] : i \in DOMAIN q[c] /\ toNode'[c][i] = q[c][i]
      <4>1. q \in Queues(ForNode) /\ c \in Link /\ toNode' \in Truncated(q, c)
        BY <1>1, <1>6, <3>1 DEF Break
      <4>2. PICK r \in Truncated(q, c) : r = toNode'
        BY <4>1
      <4>3. \A i \in DOMAIN r[c] : i \in DOMAIN q[c] /\ r[c][i] = q[c][i]
        BY <4>1, TruncatedQueue
      <4> QED BY <4>2, <4>3
    <3> QED BY <3>3, <3>4
  <2>2. CASE ~Up(c)
    <3>1. toNode' = q /\ UNCHANGED <<brokerEnd, nodeEnd, toBroker>>
      BY <1>4, <1>5, <2>2 DEF RegistrationRefused
    <3>2. \A d \in Conn : NoReply(d)
      BY <1>1, <1>2, <1>5, <3>1, ArrivedStill
    <3>3. \A d \in Conn : NoRequest(d)
      BY <3>1, RequestsStill
    <3>4. \A d \in Conn : Up(d)' <=> Up(d)
      BY <3>1 DEF Up
    <3>5. \A i \in DOMAIN toNode'[c] : i \in DOMAIN q[c] /\ toNode'[c][i] = q[c][i]
      BY <3>1
    <3> QED BY <3>2, <3>3, <3>4, <3>5, Zenon
  <2> QED BY <2>1, <2>2
<1>8. /\ m_master_broker_sock'[n] = NULL
      /\ \A m \in Node \ {n} : m_master_broker_sock'[m] = m_master_broker_sock[m]
  BY <1>1, <1>2 DEF NodeTypeInv
<1>9. Others(n)
  <2>1. \A m \in Node \ {n} : NodeStill(m)
    BY <1>2, <1>8 DEF NodeStill
  <2>2. \A d \in Conn : owner[d] # n => d # c
    BY <1>3
  <2> QED BY <1>2, <1>7, <2>1, <2>2 DEF Others, NoReply
<1>10. WayOf(n)'
  <2>1. ASSUME pc[n] = "polling" PROVE Waits(n)'
    <3>1. Waits(n)
      BY <1>1, <2>1 DEF WayOf
    <3>2. session[c].nodeId = 0
      BY <1>1, <1>2, <1>3 DEF RegisterInv, Messages
    <3>3. m_nodeId[n] = 0 /\ ~Confirmed(c)
      BY <1>1, <1>3, <3>1, <3>2 DEF Waits, ConfirmInv
    <3>4. ~Confirmed(c)'
      BY <1>7, <3>3 DEF NoReply
    <3> QED BY <1>2, <1>3, <3>3, <3>4 DEF Waits
  <2> QED BY <1>1, <1>2, <1>3, <1>8, <2>1 DEF WayOf
<1>11. ASSUME RefusalInv PROVE RefusalInv'
  <2>1. ~Refused(c)'
    <3>1. \A i \in DOMAIN toNode'[c] : i + 1 \in DOMAIN toNode[c] /\ i + 1 # 1 /\ toNode'[c][i] = toNode[c][i + 1]
      BY <1>6, <1>7
    <3>2. \A i \in DOMAIN toNode[c] : IsRefusal(toNode[c][i]) => i = 1
      BY <1>11 DEF RefusalInv, RefusedFirst
    <3>3. \A i \in DOMAIN toNode'[c] : ~IsRefusal(toNode'[c][i])
      BY <3>1, <3>2, Zenon
    <3> QED BY <3>3 DEF Refused
  <2>2. ~Registers(c)'
    <3>1. ~Registers(c)
      BY <1>1, <1>3 DEF RegisterInv, Registers, Messages
    <3> QED BY <1>7, <3>1 DEF NoRequest
  <2>3. ASSUME NEW d \in Conn, Registers(d)' \/ Refused(d)', owner'[d] # NoOne
        PROVE  m_master_broker_sock'[owner'[d]] = d
    <3>1. d # c /\ owner'[d] = owner[d] /\ owner[d] # n /\ owner[d] \in Node
      BY <1>1, <1>2, <1>3, <2>1, <2>2, <2>3 DEF NodeTypeInv
    <3>2. Registers(d) \/ Refused(d)
      BY <1>7, <2>3 DEF NoRequest, NoReply
    <3>3. m_master_broker_sock[owner[d]] = d
      BY <1>11, <2>3, <3>1, <3>2 DEF RefusalInv
    <3> QED BY <1>8, <3>1, <3>3
  <2>4. \A d \in Conn : RefusedFirst(d)'
    BY <1>7, <1>11 DEF RefusalInv, NoReply
  <2> QED BY <1>2, <1>11, <2>3, <2>4 DEF RefusalInv
<1>12. \A d \in Conn : Up(d)' /\ Confirmed(d)' => Up(d) /\ Confirmed(d) /\ session'[d] = session[d]
  BY <1>2, <1>7 DEF NoReply
<1> QED BY <1>1, <1>9, <1>10, <1>11, <1>12, WayOfOthers

\* A crash ends the way, unless there is none.
LEMMA CrashWay ==
    ASSUME RpcInv(FALSE), WayInv, NEW n \in Node, NEW c \in Conn, RefusalCrashes(n, c)
    PROVE  /\ WayInv'
           /\ ~RefusalInv
<1>1. NodeTypeInv /\ WayOf(n)
  BY DEF RpcInv, NodeInv, WayInv
<1>2. /\ Arrives(n, c, "REGISTER_TO_BROKER_RET") /\ Head(toNode[c]).registerFlag = -1
      /\ m_master_broker_sock[n] = NULL /\ pc' = [pc EXCEPT ![n] = "crashed"]
      /\ UNCHANGED <<netVars, owner, m_runing, m_nodeId, m_master_broker_sock, reconnectTimers>>
  BY DEF RefusalCrashes
<1>3. pc'[n] = "crashed" /\ \A m \in Node \ {n} : pc'[m] = pc[m]
  BY <1>1, <1>2 DEF NodeTypeInv
<1>4. \A m \in Node \ {n} : NodeStill(m)
  BY <1>2, <1>3 DEF NodeStill
<1>5. /\ Others(n)
      /\ \A d \in Conn : Up(d)' /\ Confirmed(d)' => Up(d) /\ Confirmed(d) /\ session'[d] = session[d]
  BY <1>2, <1>4, AloneIs
<1>6. WayOf(n)'
  BY <1>1, <1>2, <1>3 DEF WayOf
<1>7. ~RefusalInv
  <2>1. /\ owner[c] = n /\ n # NoOne /\ 1 \in DOMAIN toNode[c] /\ Head(toNode[c]) = toNode[c][1]
        /\ Head(toNode[c]).cmd = "REGISTER_TO_BROKER_RET"
    BY <1>2, AnswerIs
  <2>2. Refused(c)
    BY <1>2, <2>1 DEF Refused, IsRefusal
  <2> QED BY <1>2, <2>1, <2>2 DEF RefusalInv
<1> QED BY <1>1, <1>5, <1>6, <1>7, WayOfOthers

\* handleBroken(): the node has a timer instead of the connection.
LEMMA NodeBrokenWay ==
    ASSUME RpcInv(FALSE), WayInv, NEW n \in Node, NEW c \in Conn, HandleNodeBroken(n, c)
    PROVE  /\ WayInv'
           /\ RefusalInv => RefusalInv'
<1>1. /\ NodeTypeInv /\ OneWayInv /\ WayOf(n) /\ nodeEnd \in [Conn -> Ends]
  BY DEF RpcInv, NodeInv, WayInv, IInv, RegistryTypeOK
<1>2. /\ Alive(n) /\ owner[c] = n /\ nodeEnd[c] = "broken"
      /\ nodeEnd' = [nodeEnd EXCEPT ![c] = "none"]
      /\ owner' = [owner EXCEPT ![c] = NoOne]
      /\ m_master_broker_sock' = [m_master_broker_sock EXCEPT ![n] = NULL]
      /\ reconnectTimers' = [reconnectTimers EXCEPT ![n] = IF m_runing[n] THEN @ + 1 ELSE @]
      /\ UNCHANGED <<brokerEnd, toBroker, toNode, session, pc, m_runing, m_nodeId, restarts>>
  BY DEF HandleNodeBroken, SetsTimer
<1>3. /\ n # NoOne /\ pc[n] # "start" /\ (\A d \in Conn : owner[d] = n => d = c) /\ reconnectTimers[n] = 0
  BY <1>1, <1>2 DEF OneWayInv, Alive
<1>4. /\ owner'[c] = NoOne /\ m_master_broker_sock'[n] = NULL
      /\ reconnectTimers'[n] = IF m_runing[n] THEN 1 ELSE 0
      /\ \A d \in Conn \ {c} : owner'[d] = owner[d]
      /\ \A m \in Node \ {n} : /\ m_master_broker_sock'[m] = m_master_broker_sock[m]
                               /\ reconnectTimers'[m] = reconnectTimers[m]
  BY <1>1, <1>2, <1>3 DEF NodeTypeInv
<1>5. \A d \in Conn : (Up(d)' <=> Up(d)) /\ (Confirmed(d)' <=> Confirmed(d)) /\ session'[d] = session[d]
  BY <1>1, <1>2 DEF Up, Confirmed
<1>6. \A d \in Conn : NoRequest(d) /\ NoReply(d)
  BY <1>2, QuietLink
<1>7. Others(n)
  <2>1. \A m \in Node \ {n} : NodeStill(m)
    BY <1>2, <1>4 DEF NodeStill
  <2> QED BY <1>2, <1>4, <1>5, <2>1 DEF Others
<1>8. WayOf(n)'
  <2>1. \A d \in Conn : owner'[d] # n
    BY <1>3, <1>4
  <2>2. ASSUME pc[n] = "polling" PROVE ~m_runing[n] /\ Waits(n)'
    <3>1. ~m_runing[n] /\ Waits(n)
      BY <1>1, <2>2 DEF WayOf
    <3>2. ~Up(c)
      BY <1>2 DEF Up
    <3>3. m_nodeId[n] = 0
      BY <1>3, <3>1, <3>2 DEF Waits
    <3> QED BY <1>2, <2>1, <3>1, <3>3 DEF Waits
  <2>3. pc[n] = "open" => m_runing[n] /\ reconnectTimers'[n] # 0
    BY <1>1, <1>4 DEF WayOf
  <2> QED BY <1>2, <1>3, <1>4, <2>2, <2>3 DEF WayOf
<1>9. ASSUME RefusalInv PROVE RefusalInv'
  <2>1. ASSUME NEW d \in Conn, Registers(d)' \/ Refused(d)', owner'[d] # NoOne
        PROVE  m_master_broker_sock'[owner'[d]] = d
    <3>1. d # c /\ owner'[d] = owner[d] /\ owner[d] # n /\ owner[d] \in Node
      BY <1>1, <1>3, <1>4, <2>1 DEF NodeTypeInv
    <3>2. Registers(d) \/ Refused(d)
      BY <1>6, <2>1 DEF NoRequest, NoReply
    <3>3. m_master_broker_sock[owner[d]] = d
      BY <1>9, <2>1, <3>1, <3>2 DEF RefusalInv
    <3> QED BY <1>4, <3>1, <3>3
  <2>2. \A d \in Conn : RefusedFirst(d)'
    BY <1>6, <1>9 DEF RefusalInv, NoReply
  <2> QED BY <1>2, <1>9, <2>1, <2>2 DEF RefusalInv
<1>10. \A d \in Conn : Up(d)' /\ Confirmed(d)' => Up(d) /\ Confirmed(d) /\ session'[d] = session[d]
  BY <1>5
<1> QED BY <1>1, <1>7, <1>8, <1>9, <1>10, WayOfOthers

\* A node's process is started again: its way begins anew.
LEMMA RestartWay ==
    ASSUME RpcInv(FALSE), WayInv, NEW n \in Node, ProcessRestarts(n)
    PROVE  /\ WayInv'
           /\ MaxRestarts = 0 /\ RefusalInv => RefusalInv'
<1>1. /\ NodeTypeInv /\ OneWayInv /\ brokerEnd \in [Conn -> Ends] /\ nodeEnd \in [Conn -> Ends]
      /\ toBroker \in Queues(ForBroker) /\ toNode \in Queues(ForNode) /\ \A d \in Conn : d \in Link
  BY DEF RpcInv, NodeInv, LinkInv, QueueTypeInv, WayInv, IInv, RegistryTypeOK, Link
<1>2. /\ (pc[n] \in {"closed", "failed", "crashed"} /\ restarts' = restarts) \/ restarts < MaxRestarts
      /\ pc' = [pc EXCEPT ![n] = "start"] /\ m_runing' = [m_runing EXCEPT ![n] = FALSE]
      /\ m_nodeId' = [m_nodeId EXCEPT ![n] = 0]
      /\ m_master_broker_sock' = [m_master_broker_sock EXCEPT ![n] = NULL]
      /\ reconnectTimers' = [reconnectTimers EXCEPT ![n] = 0]
      /\ session' = session
  BY DEF ProcessRestarts
<1>3. /\ pc'[n] = "start" /\ ~m_runing'[n] /\ m_nodeId'[n] = 0 /\ m_master_broker_sock'[n] = NULL
      /\ reconnectTimers'[n] = 0
      /\ \A m \in Node \ {n} : NodeStill(m)
  BY <1>1, <1>2 DEF NodeTypeInv, NodeStill
<1>4. /\ \A d \in Conn : /\ owner[d] = n => owner'[d] = NoOne /\ ~Up(d)' /\ toNode'[d] = <<>>
                         /\ owner[d] # n => /\ owner'[d] = owner[d]
                                            /\ Up(d)' <=> Up(d)
                                            /\ toBroker'[d] = toBroker[d] /\ toNode'[d] = toNode[d]
  <2>1. ASSUME NEW c \in Conn, owner[c] = n, Abandon(c), owner' = [owner EXCEPT ![c] = NoOne],
               NEW d \in Conn
        PROVE  /\ owner[d] = n => owner'[d] = NoOne /\ ~Up(d)' /\ toNode'[d] = <<>>
               /\ owner[d] # n => /\ owner'[d] = owner[d]
                                  /\ Up(d)' <=> Up(d)
                                  /\ toBroker'[d] = toBroker[d] /\ toNode'[d] = toNode[d]
    <3>1. owner[d] = n => d = c
      BY <1>1, <2>1 DEF OneWayInv
    <3>2. /\ nodeEnd' = [nodeEnd EXCEPT ![c] = "none"]
          /\ brokerEnd' = [brokerEnd EXCEPT ![c] = IF @ = "open" THEN "broken" ELSE @]
          /\ toBroker' \in Truncated(toBroker, c)
          /\ toNode' = [toNode EXCEPT ![c] = <<>>]
      BY <2>1 DEF Abandon
    <3>3. \A l \in Link \ {c} : toBroker'[l] = toBroker[l]
      <4>1. PICK r \in Truncated(toBroker, c) : r = toBroker'
        BY <3>2
      <4>2. \A l \in Link \ {c} : r[l] = toBroker[l]
        BY <1>1, TruncatedQueue
      <4> QED BY <4>1, <4>2
    <3>4. DOMAIN toNode = Link /\ DOMAIN owner = Conn
      BY <1>1 DEF Queues, NodeTypeInv
    <3>5. CASE d = c
      <4>1. nodeEnd'[d] = "none" /\ toNode'[d] = <<>> /\ owner'[d] = NoOne
        BY <1>1, <2>1, <3>2, <3>4, <3>5
      <4> QED BY <2>1, <3>5, <4>1 DEF Up
    <3>6. CASE d # c
      <4>1. /\ nodeEnd'[d] = nodeEnd[d] /\ brokerEnd'[d] = brokerEnd[d]
            /\ toBroker'[d] = toBroker[d] /\ toNode'[d] = toNode[d] /\ owner'[d] = owner[d]
        BY <1>1, <2>1, <3>2, <3>3, <3>4, <3>6
      <4> QED BY <3>1, <3>6, <4>1 DEF Up
    <3> QED BY <3>5, <3>6
  <2>2. CASE /\ \A c \in Conn : owner[c] # n
             /\ UNCHANGED <<brokerEnd, nodeEnd, toBroker, toNode, owner>>
    BY <2>2 DEF Up
  <2>3. \/ \E c \in Conn : owner[c] = n /\ Abandon(c) /\ owner' = [owner EXCEPT ![c] = NoOne]
        \/ /\ \A c \in Conn : owner[c] # n
           /\ UNCHANGED <<brokerEnd, nodeEnd, toBroker, toNode, owner>>
    BY DEF ProcessRestarts
  <2> QED BY <2>1, <2>2, <2>3
<1>5. \A d \in Conn : /\ owner[d] = n => ~Confirmed(d)' /\ ~Refused(d)' /\ RefusedFirst(d)'
                      /\ owner[d] # n => /\ Confirmed(d)' <=> Confirmed(d)
                                         /\ NoRequest(d) /\ NoReply(d)
  <2>1. DOMAIN <<>> = {}
    OBVIOUS
  <2>2. \A d \in Conn : owner[d] = n => DOMAIN toNode'[d] = {}
    BY <1>4, <2>1
  <2>3. \A d \in Conn : owner[d] = n => ~Confirmed(d)' /\ ~Refused(d)' /\ RefusedFirst(d)'
    BY <2>2 DEF Confirmed, Refused, RefusedFirst
  <2>4. \A d \in Conn : owner[d] # n => (Confirmed(d)' <=> Confirmed(d))
    BY <1>4 DEF Confirmed
  <2>5. \A d \in Conn : owner[d] # n => NoRequest(d) /\ NoReply(d)
    BY <1>4, QuietLink
  <2> QED BY <2>3, <2>4, <2>5
<1>6. Others(n)
  BY <1>2, <1>3, <1>4, <1>5 DEF Others
<1>7. WayOf(n)'
  BY <1>3 DEF WayOf
<1>8. \A d \in Conn : Up(d)' /\ Confirmed(d)' => Up(d) /\ Confirmed(d) /\ session'[d] = session[d]
  BY <1>2, <1>4, <1>5
<1>9. ASSUME MaxRestarts = 0, RefusalInv PROVE RefusalInv'
  <2>1. restarts' = 0
    BY <1>2, <1>9 DEF RefusalInv
  <2>2. \A m \in Node : pc'[m] \in {"start", "polling", "open", "failed", "closed"}
    BY <1>3, <1>9 DEF RefusalInv, NodeStill
  <2>3. \A d \in Conn : RefusedFirst(d)'
    BY <1>5, <1>9 DEF RefusalInv, NoReply
  <2>4. ASSUME NEW d \in Conn, Registers(d)' \/ Refused(d)', owner'[d] # NoOne
        PROVE  m_master_broker_sock'[owner'[d]] = d
    <3>1. owner'[d] = owner[d] /\ owner[d] # n /\ owner[d] \in Node
      BY <1>1, <1>4, <2>4 DEF NodeTypeInv
    <3>2. Registers(d) \/ Refused(d)
      BY <1>5, <2>4, <3>1 DEF NoRequest, NoReply
    <3>3. m_master_broker_sock[owner[d]] = d
      BY <1>9, <2>4, <3>1, <3>2 DEF RefusalInv
    <3> QED BY <1>3, <3>1, <3>3 DEF NodeStill
  <2> QED BY <2>1, <2>2, <2>3, <2>4 DEF RefusalInv
<1> QED BY <1>1, <1>6, <1>7, <1>8, <1>9, WayOfOthers

-----------------------------------------------------------------------------
(* The theorems. *)

\* The steps of the broker.
LEMMA BrokerWay ==
    ASSUME RpcInv(FALSE), RpcInv(FALSE)', WayInv, BrokerStep
    PROVE  /\ WayInv'
           /\ RefusalInv => RefusalInv'
<1>1. BrokerNext /\ UNCHANGED rpcVars /\ NodeTypeInv
  BY DEF BrokerStep, RpcInv, NodeInv
<1>2. ASSUME NEW c \in Conn, RegisterTwice(c) \/ SyncClientReq(c) PROVE FALSE
  <2>1. PICK lasting \in BOOLEAN : RpcInv(lasting)
    OBVIOUS
  <2> QED BY <1>2, <2>1, NeverTwice, NoSyncClients
<1>3. CASE \E c \in Conn : RegisterRefused(c)
  BY <1>1, <1>3, RegisterRefusedWay
<1>4. CASE \E c \in Conn : RegisterAccepted(c)
  BY <1>1, <1>4, RegisterAcceptedWay
<1>5. CASE \/ \E c \in Conn : handleBrokerRouteMsg(c) \/ HandleBroken(c)
           \/ \E n \in InProc : PostedRoute(n)
  <2>1. Quiet /\ SparesOpening
    BY <1>1, <1>5, BrokerQuiet
  <2> QED BY <1>1, <2>1, QuietKeeps
<1> QED BY <1>1, <1>2, <1>3, <1>4, <1>5 DEF BrokerNext, BrokerHandles

\* The steps of a node.
LEMMA NodeWay ==
    ASSUME RpcInv(FALSE), WayInv, NEW n \in Node, NodeStep(n)
    PROVE  /\ WayInv'
           /\ MaxRestarts = 0 /\ RefusalInv => RefusalInv'
<1>1. NodeTypeInv /\ (RefusalInv => restarts = 0)
  BY DEF RpcInv, NodeInv, RefusalInv
<1>2. CASE \E c \in Conn : \/ RegistrationRefused(n, c) \/ RefusalCrashes(n, c)
                           \/ RegistryArrives(n, c) \/ HandleNodeBroken(n, c)
  BY <1>2, RefusedWay, CrashWay, RegistryWay, NodeBrokenWay
<1>3. CASE \/ \E l \in Link : HandleCall(n, l) \/ HandleAnswer(n, l)
           \/ \E service, kind : CallWithoutService(n, service, kind) \/ docall(n, service, kind)
  <2>1. Quiet /\ SparesOpening
    BY <1>3, CallsQuiet
  <2> QED BY <1>1, <2>1, QuietKeeps
<1>4. CASE OpenConnects(n) \/ timerReconnectBroker(n) \/ ProcessRestarts(n)
  BY <1>4, OpenConnectsWay, TimerWay, RestartWay
<1>5. CASE OpenSucceeds(n) \/ OpenFails(n) \/ CloseForgets(n) \/ CloseEnds(n)
  BY <1>5, ThreadWay
<1>6. CASE OpenTimesOut(n) \/ CloseStarts(n)
  BY <1>1, <1>6, ClosesWay
<1>7. NodeHandles(n) \/ NodeDecides(n)
  BY DEF NodeStep
<1>8. CASE NodeHandles(n)
  BY <1>2, <1>3, <1>4, <1>5, <1>8 DEF NodeHandles
<1>9. CASE NodeDecides(n)
  BY <1>3, <1>4, <1>6, <1>9 DEF NodeDecides
<1> QED BY <1>7, <1>8, <1>9

\* Every step, when no connection is lost in open().
LEMMA WayStep ==
    ASSUME RpcInv(FALSE), WayInv, ~CutsWhileOpening, [RestartsNext]_restartVars
    PROVE  /\ WayInv'
           /\ MaxRestarts = 0 /\ RefusalInv => RefusalInv'
<1>1. RpcInv(FALSE)' /\ NodeTypeInv
  BY RpcStill DEF RpcInv, NodeInv
<1>2. CASE BrokerEnds
  BY <1>1, <1>2, EndQuiet, QuietKeeps
<1>3. CASE BrokerStarts \/ UNCHANGED restartVars
  <2>1. UNCHANGED systemVars
    BY <1>3 DEF BrokerStarts, restartVars
  <2> QED BY <1>1, <2>1, StutterQuiet, QuietKeeps
<1>4. CASE \E n \in Node : OpenCannotConnect(n)
  BY <1>4, ThreadWay
<1>5. CASE RpcSystemNext
  <2>1. CASE \E c \in Conn : ConnectionLost(c)
    BY <1>1, <2>1, LostQuiet, QuietKeeps
  <2>2. CASE BrokerStep
    BY <1>1, <2>2, BrokerWay
  <2>3. CASE \E n \in Node : NodeStep(n)
    BY <2>3, NodeWay
  <2> QED BY <1>5, <2>1, <2>2, <2>3 DEF RpcSystemNext
<1> QED BY <1>2, <1>3, <1>4, <1>5 DEF RestartsNext

\* The first states.
LEMMA WayAtFirst == RestartsInit => WayInv /\ RefusalInv
<1> SUFFICES ASSUME RestartsInit PROVE WayInv /\ RefusalInv
  OBVIOUS
<1>1. NetInit /\ RpcInit
  BY DEF RestartsInit, RpcSystemInit
<1>2. /\ restarts = 0
      /\ \A n \in Node : /\ pc[n] = "start" /\ ~m_runing[n] /\ m_nodeId[n] = 0
                         /\ m_master_broker_sock[n] = NULL /\ reconnectTimers[n] = 0
      /\ \A c \in Conn : ~Up(c) /\ owner[c] = NoOne
  BY <1>1 DEF NetInit, RpcInit, Up
<1>3. \A c \in Conn : DOMAIN toNode[c] = {}
  <2>1. DOMAIN <<>> = {}
    OBVIOUS
  <2>2. \A c \in Conn : toNode[c] = <<>>
    BY <1>1 DEF NetInit, Link
  <2> QED BY <2>1, <2>2
<1>4. WayInv
  BY <1>2 DEF WayInv, ConfirmInv, WayOf
<1>5. RefusalInv
  BY <1>2, <1>3 DEF RefusalInv, RefusedFirst
<1> QED BY <1>4, <1>5

\* A node that runs has one connection, or one timer to make the next (timerReconnectBroker,
\* handleBroken), whatever is lost or ends once open() has returned: every broker is found.
THEOREM OneWay ==
    ASSUME ~CutsWhileOpening
    PROVE  RestartsSpec => []AlwaysOneWayBack
<1>1. RestartsInit => RpcInv(FALSE) /\ WayInv
  <2>1. RestartsInit => RpcInv(FALSE)
    BY RpcInitHolds DEF RestartsInit
  <2> QED BY <2>1, WayAtFirst
<1>2. (RpcInv(FALSE) /\ WayInv) /\ [RestartsNext]_restartVars => (RpcInv(FALSE) /\ WayInv)'
  BY RpcStill, WayStep
<1>3. RpcInv(FALSE) /\ WayInv => AlwaysOneWayBack
  <2> SUFFICES ASSUME RpcInv(FALSE), WayInv, NEW n \in Node, pc[n] = "open"
               PROVE  reconnectTimers[n] + Cardinality({c \in Conn : owner[c] = n}) = 1
    BY DEF AlwaysOneWayBack
  <2>1. /\ n # NoOne /\ reconnectTimers[n] \in 0..1 /\ OneWayInv
        /\ reconnectTimers[n] # 0 \/ \E c \in Conn : owner[c] = n
    BY DEF RpcInv, NodeInv, NodeTypeInv, WayInv, WayOf
  <2>2. CASE reconnectTimers[n] # 0
    <3>1. {c \in Conn : owner[c] = n} = {}
      BY <2>1, <2>2 DEF OneWayInv
    <3>2. Cardinality({c \in Conn : owner[c] = n}) = 0
      BY <3>1, FS_EmptySet
    <3> QED BY <2>1, <2>2, <3>2
  <2>3. CASE reconnectTimers[n] = 0
    <3>1. PICK c \in Conn : owner[c] = n
      BY <2>1, <2>3
    <3>2. {d \in Conn : owner[d] = n} = {c}
      BY <2>1, <3>1 DEF OneWayInv
    <3>3. Cardinality({d \in Conn : owner[d] = n}) = 1
      BY <3>2, FS_Singleton
    <3> QED BY <2>3, <3>3
  <2> QED BY <2>2, <2>3
<1> QED BY <1>1, <1>2, <1>3, PTL DEF RestartsSpec

\* Nodes find the next broker, and agree with it about ids and services (timerReconnectBroker,
\* handleBrokerRegResponse), if no connection is lost before open() has returned and no node
\* gives up or closes the socket under a refusal.
THEOREM BrokerFound ==
    ASSUME ~CutsWhileOpening, MaxRestarts = 0
    PROVE  RestartsSpec => []NodesFindTheBroker
<1>1. RestartsInit => RpcInv(FALSE) /\ WayInv /\ RefusalInv
  <2>1. RestartsInit => RpcInv(FALSE)
    BY RpcInitHolds DEF RestartsInit
  <2> QED BY <2>1, WayAtFirst
<1>2. (RpcInv(FALSE) /\ WayInv /\ RefusalInv) /\ [RestartsNext]_restartVars
          => (RpcInv(FALSE) /\ WayInv /\ RefusalInv)'
  BY RpcStill, WayStep
<1>3. RpcInv(FALSE) /\ WayInv /\ RefusalInv => RefusalFindsSocket /\ IdsAgree /\ NodesLearnTheRegistry
  BY DEF RpcInv, LinkInv, RefusalInv, RefusalFindsSocket
<1>4. RestartsSpec => []AlwaysOneWayBack
  BY OneWay
<1>5. AlwaysOneWayBack /\ (RefusalFindsSocket /\ IdsAgree /\ NodesLearnTheRegistry) => NodesFindTheBroker
  BY DEF NodesFindTheBroker, OneWayBack
<1> QED BY <1>1, <1>2, <1>3, <1>4, <1>5, PTL DEF RestartsSpec
=============================================================================
