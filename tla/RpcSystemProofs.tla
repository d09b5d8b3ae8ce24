-------------------------- MODULE RpcSystemProofs ---------------------------
(***************************************************************************)
(* The broker and its nodes, for any number of nodes, connections, calls,  *)
(* restarts and lost connections.                                          *)
(*                                                                         *)
(* RpcSystem implements the broker with any peers, so that what is proved  *)
(* in FFBrokerProofs holds of it; the invariant IInv of that module is     *)
(* joined here by what the nodes keep.  A call reaches its service because *)
(* an id, once given out, is bound to one name for ever, wherever the pair *)
(* is stored (BindingsInv).  Broker and nodes agree because a node has one *)
(* connection or a timer to make one (OneWayInv) and a connection one      *)
(* registration (RegisterInv).  Calls get their own answers only while     *)
(* nothing is lost: the last part is about that case.                      *)
(***************************************************************************)
EXTENDS RpcSystem, FFBrokerProofs

\* The names of the nodes, and what a registry can be.
Service == {ServiceOf[n] : n \in Node}
Registry == UNION {[names -> Nat] : names \in SUBSET Service}

\* The messages of the system.
RegisterReqs == [cmd : {"REGISTER_TO_BROKER_REQ"}, nodeType : {"RPC_NODE"}, strServiceName : Service]
NoName == ""
ServiceOrNone == Service \cup {NoName}
KindOrNone == Kinds \cup {NoName}
RouteMsgs(cmd) == [cmd : {cmd}, destServiceName : ServiceOrNone, destMsgName : KindOrNone,
                   destNodeId : Nat, fromNodeId : Nat, callbackId : Nat, errinfo : BOOLEAN, tag : Nat]
RegisterRets == [cmd : {"REGISTER_TO_BROKER_RET"}, registerFlag : {-1, 0, 1}, nodeId : Nat,
                 service2nodeId : Registry]
ForBroker == RegisterReqs \cup RouteMsgs("BROKER_ROUTE_MSG")
ForNode == RegisterRets \cup RouteMsgs("BROKER_TO_CLIENT_MSG")

\* The variables in their ranges.
Queues(S) == [Link -> Seq(S)]
QueueTypeInv == /\ toBroker \in Queues(ForBroker)
                /\ toNode \in Queues(ForNode)
TableTypeInv == /\ service2nodeId \in Registry
                /\ DOMAIN m_node_info \subseteq Nat
                /\ \A id \in DOMAIN m_node_info : m_node_info[id] \in InProc
NodeTypeInv == /\ pc \in [Node -> Labels]
               /\ m_runing \in [Node -> BOOLEAN]
               /\ m_nodeId \in [Node -> Nat]
               /\ m_master_broker_sock \in [Node -> Conn \cup {NULL}]
               /\ m_broker_data \in [Node -> Registry]
               /\ reconnectTimers \in [Node -> 0..1]
               /\ owner \in [Conn -> Node \cup {NoOne}]
CallTypeInv == /\ gCallBackIDGen \in [Node -> Nat]
               /\ m_rpcTmpCallBack \in [Node -> SUBSET [id : Nat, tag : Nat]]
               /\ \A n \in Node : \A cb \in m_rpcTmpCallBack[n] :
                      cb.id \in 1..gCallBackIDGen[n] /\ cb.tag \in 1..calls
               /\ calls \in Nat

\* The node's side of a connection is there as long as a node owns it.
OwnerInv == \A c \in Conn : /\ owner[c] = NoOne <=> nodeEnd[c] = "none"
                            /\ owner[c] = NoOne => toNode[c] = <<>>

\* One connection, or a timer to make one, or neither.
OneWayInv ==
    /\ \A c, d \in Conn : owner[c] = owner[d] /\ owner[c] # NoOne => c = d
    /\ \A n \in Node : reconnectTimers[n] # 0 \/ pc[n] = "start" => \A c \in Conn : owner[c] # n
    /\ \A n \in Node : pc[n] = "start" => reconnectTimers[n] = 0

\* Some of what follows holds only as long as one process of the broker lasts: the next one
\* counts node ids from 0 again.

\* A connection registers once, with its first message.
Messages(queue) == {queue[i] : i \in DOMAIN queue}
RegisterInv(lasting) ==
    \A c \in Conn :
        /\ \A i \in DOMAIN toBroker[c] : toBroker[c][i].cmd = "REGISTER_TO_BROKER_REQ" =>
               /\ i = 1 /\ session[c].nodeId = 0 /\ toNode[c] = <<>>
               /\ owner[c] # NoOne => toBroker[c][i].strServiceName = ServiceOf[owner[c]]
        /\ session[c].nodeId # 0 /\ owner[c] # NoOne => session[c].strServiceName = ServiceOf[owner[c]]
        /\ \A m \in Messages(toNode[c]) : m.cmd = "REGISTER_TO_BROKER_RET" =>
               /\ m.registerFlag = -1 => session[c].nodeId = 0
               /\ m.registerFlag = 1 /\ session[c].nodeId # 0 => m.nodeId = session[c].nodeId
               /\ m.registerFlag = 1 /\ lasting => session[c].nodeId # 0

\* Names and ids that are stored together: in the registry and the copies of it that
\* nodes have or are sent, in calls, in the sessions.
Pairs(map) == {<<s, map[s]>> : s \in DOMAIN map}
Copies(msgs) == UNION {Pairs(m.service2nodeId) : m \in {x \in msgs : x.cmd = "REGISTER_TO_BROKER_RET"}}
AsksFor(m) == m.cmd = "BROKER_ROUTE_MSG" /\ m.destServiceName # NoName
Calls(msgs) == {<<m.destServiceName, m.destNodeId>> : m \in {x \in msgs : AsksFor(x)}}
KeptBindings == UNION {Pairs(m_broker_data[n]) : n \in Node}
SentBindings == UNION {Copies(Messages(toNode[l])) : l \in Link}
CallBindings == UNION {Calls(Messages(toBroker[l])) : l \in Link}
SessionBindings == {<<session[c].strServiceName, session[c].nodeId>> :
                       c \in {d \in Conn : session[d].nodeId # 0}}
Bindings == Pairs(service2nodeId) \cup KeptBindings \cup SentBindings \cup CallBindings
            \cup SessionBindings

\* An id is bound to one name.
BindingsInv(lasting) ==
    lasting => \A p \in Bindings : /\ p[2] \in 1..m_for_allocID
                                  /\ \A q \in Bindings : p[2] = q[2] => p[1] = q[1]

\* The ids of a node of the broker's process are bound to its own name.
BoundTo(id, n) == id \in 1..m_for_allocID /\ \A p \in Bindings : p[2] = id => p[1] = ServiceOf[n]
MemoryInv(lasting) == lasting => \A id \in DOMAIN m_node_info : BoundTo(id, m_node_info[id])

\* A call on its way to a node is for that node's service.
IsCall(m) == m.cmd = "BROKER_TO_CLIENT_MSG" /\ m.destServiceName # NoName
RouteInv(lasting) == lasting =>
    /\ \A c \in Conn : \A m \in Messages(toNode[c]) :
           IsCall(m) => m.destServiceName = ServiceOf[owner[c]]
    /\ \A n \in InProc : \A m \in Messages(toNode[n]) :
           IsCall(m) => m.destServiceName = ServiceOf[n]
ServedInv(lasting) == lasting => CallsReachTheirService

\* A node's id was given out by the broker.
IdInv(lasting) == lasting => \A n \in Node : m_nodeId[n] \in 0..m_for_allocID

\* What links, registry and nodes have to do with one another.
LinkInv(lasting) ==
    /\ QueueTypeInv /\ TableTypeInv /\ OwnerInv /\ RegisterInv(lasting)
    /\ BindingsInv(lasting) /\ MemoryInv(lasting) /\ RouteInv(lasting) /\ ServedInv(lasting)
    /\ IdsAgree /\ NodesLearnTheRegistry

\* What a node keeps for itself.
NodeInv(lasting) == NodeTypeInv /\ CallTypeInv /\ OneWayInv /\ IdInv(lasting)

\* The inductive invariant.
RpcInv(lasting) == IInv /\ NodeInv(lasting) /\ LinkInv(lasting)

USE RpcNetAssumption, FFRpcAssumption

-----------------------------------------------------------------------------
(* Queues of messages. *)

\* The first message of a queue was handled.
LEMMA TakenQueue ==
    ASSUME NEW S, NEW queues \in Queues(S), NEW l \in Link, queues[l] # <<>>,
           NEW q, q = Taken(queues, l)
    PROVE  /\ q \in Queues(S) /\ \A d \in Link \ {l} : q[d] = queues[d]
           /\ q[l] = Tail(queues[l]) /\ Messages(q[l]) \subseteq Messages(queues[l])
           /\ Head(queues[l]) \in Messages(queues[l]) /\ Head(queues[l]) = queues[l][1]
           /\ 1 \in DOMAIN queues[l] /\ Head(queues[l]) \in S
           /\ \A i \in DOMAIN q[l] : /\ i + 1 \in DOMAIN queues[l] /\ i + 1 # 1
                                     /\ q[l][i] = queues[l][i + 1]
           /\ \A m \in Messages(queues[l]) : m = Head(queues[l]) \/ m \in Messages(q[l])
<1>1. queues[l] \in Seq(S) /\ Tail(queues[l]) \in Seq(S)
  BY DEF Queues
<1>2. q \in Queues(S) /\ (\A d \in Link \ {l} : q[d] = queues[d]) /\ q[l] = Tail(queues[l])
  BY <1>1 DEF Taken, Queues
<1>3. /\ Head(queues[l]) = queues[l][1] /\ 1 \in DOMAIN queues[l] /\ Head(queues[l]) \in S
      /\ \A i \in DOMAIN Tail(queues[l]) : /\ i + 1 \in DOMAIN queues[l] /\ i + 1 # 1
                                            /\ Tail(queues[l])[i] = queues[l][i + 1]
      /\ \A i \in DOMAIN queues[l] : i # 1 => /\ i - 1 \in DOMAIN Tail(queues[l])
                                              /\ Tail(queues[l])[i - 1] = queues[l][i]
  BY <1>1
<1>4. \A m \in Messages(queues[l]) : m = Head(queues[l]) \/ m \in Messages(Tail(queues[l]))
  BY <1>3 DEF Messages
<1>5. Messages(Tail(queues[l])) \subseteq Messages(queues[l]) /\ Head(queues[l]) \in Messages(queues[l])
  BY <1>3 DEF Messages
<1> QED BY <1>2, <1>3, <1>4, <1>5

\* A message was sent, or lost.
LEMMA PutQueue ==
    ASSUME NEW S, NEW queues \in Queues(S), NEW l \in Link, NEW m \in S,
           NEW q, q = Put(queues, l, m)
    PROVE  /\ q \in Queues(S) /\ \A d \in Link \ {l} : q[d] = queues[d]
           /\ ~Up(l) => q = queues
           /\ Up(l) => q[l] = Append(queues[l], m)
           /\ Messages(queues[l]) \subseteq Messages(q[l])
           /\ \A x \in Messages(q[l]) : x = m \/ x \in Messages(queues[l])
           /\ \A i \in DOMAIN q[l] : \/ i \in DOMAIN queues[l] /\ q[l][i] = queues[l][i]
                                     \/ i = Len(queues[l]) + 1 /\ q[l][i] = m
<1>1. CASE Up(l)
  <2>1. queues[l] \in Seq(S) /\ Append(queues[l], m) \in Seq(S)
    BY DEF Queues
  <2>2. q \in Queues(S) /\ (\A d \in Link \ {l} : q[d] = queues[d]) /\ q[l] = Append(queues[l], m)
    BY <1>1, <2>1 DEF Put, Queues
  <2>3. /\ \A i \in DOMAIN q[l] : \/ i \in DOMAIN queues[l] /\ q[l][i] = queues[l][i]
                                  \/ i = Len(queues[l]) + 1 /\ q[l][i] = m
        /\ \A i \in DOMAIN queues[l] : i \in DOMAIN q[l] /\ q[l][i] = queues[l][i]
    BY <2>1, <2>2
  <2> QED BY <1>1, <2>2, <2>3 DEF Messages
<1>2. CASE ~Up(l)
  BY <1>2 DEF Put
<1> QED BY <1>1, <1>2

\* A connection broke: what arrives is a prefix.
LEMMA TruncatedQueue ==
    ASSUME NEW S, NEW queues \in Queues(S), NEW l \in Link, NEW q \in Truncated(queues, l)
    PROVE  /\ q \in Queues(S) /\ \A d \in Link \ {l} : q[d] = queues[d]
           /\ queues[l] = <<>> => q[l] = <<>>
           /\ Messages(q[l]) \subseteq Messages(queues[l])
           /\ \A i \in DOMAIN q[l] : i \in DOMAIN queues[l] /\ q[l][i] = queues[l][i]
<1>1. PICK k \in 0..Len(queues[l]) : q = [queues EXCEPT ![l] = SubSeq(@, 1, k)]
  BY DEF Truncated
<1>2. /\ queues[l] \in Seq(S) /\ SubSeq(queues[l], 1, k) \in Seq(S)
      /\ \A i \in DOMAIN SubSeq(queues[l], 1, k) :
             i \in DOMAIN queues[l] /\ SubSeq(queues[l], 1, k)[i] = queues[l][i]
  BY <1>1 DEF Queues
<1>3. q \in Queues(S) /\ (\A d \in Link \ {l} : q[d] = queues[d]) /\ q[l] = SubSeq(queues[l], 1, k)
  BY <1>1, <1>2 DEF Queues
<1>4. queues[l] = <<>> => q[l] = <<>>
  BY <1>2, <1>3
<1> QED BY <1>2, <1>3, <1>4 DEF Messages

-----------------------------------------------------------------------------
(* Messages. *)

\* The two kinds of messages the broker handles, and the two the nodes handle.
LEMMA MessageKinds ==
    /\ \A m \in ForBroker : \/ m.cmd = "REGISTER_TO_BROKER_REQ" /\ m \in RegisterReqs
                            \/ m.cmd = "BROKER_ROUTE_MSG" /\ m \in RouteMsgs("BROKER_ROUTE_MSG")
    /\ \A m \in ForNode : \/ m.cmd = "REGISTER_TO_BROKER_RET" /\ m \in RegisterRets
                          \/ m.cmd = "BROKER_TO_CLIENT_MSG" /\ m \in RouteMsgs("BROKER_TO_CLIENT_MSG")
BY DEF ForBroker, ForNode, RegisterReqs, RegisterRets, RouteMsgs

\* The fields of the messages.
LEMMA MessageFields ==
    /\ \A m \in RegisterReqs : m.nodeType = "RPC_NODE" /\ m.strServiceName \in Service
    /\ \A m \in RegisterRets : /\ m.registerFlag \in {-1, 0, 1} /\ m.nodeId \in Nat
                               /\ m.service2nodeId \in Registry
    /\ \A cmd : \A m \in RouteMsgs(cmd) :
           /\ m.destServiceName \in ServiceOrNone /\ m.destMsgName \in KindOrNone
           /\ m.destNodeId \in Nat /\ m.fromNodeId \in Nat /\ m.callbackId \in Nat
           /\ m.errinfo \in BOOLEAN /\ m.tag \in Nat
BY DEF RegisterReqs, RegisterRets, RouteMsgs

\* The registry at the start, with a name more, with a name less.
\* A registry stays one when a name is inserted or erased.
LEMMA EmptyRegistry == Empty \in Registry
<1>1. Empty \in [{} -> Nat] /\ {} \in SUBSET Service
  BY DEF Empty
<1> QED BY <1>1 DEF Registry

\* Inserting,
LEMMA InsertRegistry ==
    ASSUME NEW r \in Registry, NEW s \in Service, NEW id \in Nat
    PROVE  Insert(r, s, id) \in Registry
<1>1. PICK names \in SUBSET Service : r \in [names -> Nat]
  BY DEF Registry
<1>2. Insert(r, s, id) \in [names \cup {s} -> Nat] /\ names \cup {s} \in SUBSET Service
  BY <1>1 DEF Insert
<1> QED BY <1>2 DEF Registry

\* and erasing.
LEMMA EraseRegistry ==
    ASSUME NEW r \in Registry, NEW s
    PROVE  Erase(r, s) \in Registry
<1>1. PICK names \in SUBSET Service : r \in [names -> Nat]
  BY DEF Registry
<1>2. Erase(r, s) \in [names \ {s} -> Nat] /\ names \ {s} \in SUBSET Service
  BY <1>1 DEF Erase
<1> QED BY <1>2 DEF Registry

\* A name of the registry has an id.
LEMMA RegistryIs ==
    ASSUME NEW r \in Registry
    PROVE  DOMAIN r \subseteq Service /\ \A s \in DOMAIN r : r[s] \in Nat
BY DEF Registry

\* A message the broker passes on, and one it sends back.
LEMMA DeliveredIs ==
    ASSUME NEW m \in RouteMsgs("BROKER_ROUTE_MSG")
    PROVE  /\ AsDelivered(m) \in RouteMsgs("BROKER_TO_CLIENT_MSG")
           /\ AsDelivered(m).destServiceName = m.destServiceName
           /\ [AsDelivered(m) EXCEPT !.errinfo = TRUE, !.destServiceName = NoName]
                  \in RouteMsgs("BROKER_TO_CLIENT_MSG")
           /\ [AsDelivered(m) EXCEPT !.errinfo = TRUE, !.destServiceName = NoName].destServiceName = NoName
<1>1. /\ AsDelivered(m) \in RouteMsgs("BROKER_TO_CLIENT_MSG")
      /\ AsDelivered(m).destServiceName = m.destServiceName
  BY DEF AsDelivered, RouteMsgs
<1>2. \A x \in RouteMsgs("BROKER_TO_CLIENT_MSG") :
          /\ [x EXCEPT !.errinfo = TRUE, !.destServiceName = NoName] \in RouteMsgs("BROKER_TO_CLIENT_MSG")
          /\ [x EXCEPT !.errinfo = TRUE, !.destServiceName = NoName].destServiceName = NoName
  <2>1. NoName \in ServiceOrNone
    BY DEF ServiceOrNone
  <2> QED BY <2>1 DEF RouteMsgs
<1> QED BY <1>1, <1>2

\* A message for the nodes is a call or not, and carries a registry or not.
LEMMA KindOf ==
    ASSUME NEW m \in ForNode
    PROVE  /\ m.cmd = "REGISTER_TO_BROKER_RET" => ~IsCall(m) /\ m \in RegisterRets
           /\ m.cmd # "REGISTER_TO_BROKER_RET" => m.cmd = "BROKER_TO_CLIENT_MSG"
BY MessageKinds DEF IsCall

-----------------------------------------------------------------------------
(* The last registry in a queue. *)

\* Another message was handled.
LEMMA LearnsAfterOther ==
    ASSUME NEW queue \in Seq(ForNode), queue # <<>>, Head(queue).cmd # "REGISTER_TO_BROKER_RET",
           NEW known, NEW registry, Learns(known, queue, registry)
    PROVE  Learns(known, Tail(queue), registry)
<1>1. /\ Tail(queue) \in Seq(ForNode) /\ Head(queue) = queue[1]
      /\ \A i \in DOMAIN Tail(queue) : i \in Int /\ i + 1 \in DOMAIN queue /\ Tail(queue)[i] = queue[i + 1]
      /\ \A i \in DOMAIN queue : i # 1 => i \in Int /\ i - 1 \in DOMAIN Tail(queue)
                                          /\ Tail(queue)[i - 1] = queue[i]
  OBVIOUS
<1>2. /\ \A i \in Registrations(Tail(queue)) : i \in Int /\ i + 1 \in Registrations(queue)
      /\ \A i \in Registrations(queue) : i \in Int /\ i - 1 \in Registrations(Tail(queue))
  BY <1>1 DEF Registrations
<1>3. ASSUME Registrations(Tail(queue)) = {} PROVE registry = known
  BY <1>2, <1>3 DEF Learns
<1>4. ASSUME NEW i \in Registrations(Tail(queue)), \A j \in Registrations(Tail(queue)) : j <= i
      PROVE  registry = Tail(queue)[i].service2nodeId
  <2>1. i + 1 \in Registrations(queue) /\ Tail(queue)[i] = queue[i + 1] /\ i \in Int
    BY <1>1, <1>2 DEF Registrations
  <2>2. \A j \in Registrations(queue) : j <= i + 1
    BY <1>2, <1>4, <2>1
  <2> QED BY <2>1, <2>2 DEF Learns
<1> QED BY <1>3, <1>4 DEF Learns

\* A registry was handled, and is known.
LEMMA LearnsAfterRegistry ==
    ASSUME NEW queue \in Seq(ForNode), queue # <<>>, Head(queue).cmd = "REGISTER_TO_BROKER_RET",
           NEW known, NEW registry, Learns(known, queue, registry)
    PROVE  Learns(Head(queue).service2nodeId, Tail(queue), registry)
<1>1. /\ Tail(queue) \in Seq(ForNode) /\ Head(queue) = queue[1] /\ 1 \in DOMAIN queue
      /\ \A i \in DOMAIN Tail(queue) : i \in Int /\ i + 1 \in DOMAIN queue /\ Tail(queue)[i] = queue[i + 1]
                                       /\ i >= 1
      /\ \A i \in DOMAIN queue : i # 1 => i \in Int /\ i - 1 \in DOMAIN Tail(queue)
                                          /\ Tail(queue)[i - 1] = queue[i]
  OBVIOUS
<1>2. /\ \A i \in Registrations(Tail(queue)) : i \in Int /\ i + 1 \in Registrations(queue) /\ i >= 1
      /\ \A i \in Registrations(queue) : i = 1 \/ (i \in Int /\ i - 1 \in Registrations(Tail(queue)))
      /\ 1 \in Registrations(queue)
  BY <1>1 DEF Registrations
<1>3. ASSUME Registrations(Tail(queue)) = {} PROVE registry = Head(queue).service2nodeId
  <2>1. \A j \in Registrations(queue) : j <= 1
    BY <1>2, <1>3
  <2>2. registry = queue[1].service2nodeId
    BY <1>2, <2>1 DEF Learns
  <2> QED BY <1>1, <2>2
<1>4. ASSUME NEW i \in Registrations(Tail(queue)), \A j \in Registrations(Tail(queue)) : j <= i
      PROVE  registry = Tail(queue)[i].service2nodeId
  <2>1. i + 1 \in Registrations(queue) /\ Tail(queue)[i] = queue[i + 1] /\ i \in Int /\ i >= 1
    BY <1>1, <1>2 DEF Registrations
  <2>2. ASSUME NEW j \in Registrations(queue) PROVE j <= i + 1
    <3>1. CASE j = 1
      BY <2>1, <3>1
    <3>2. CASE j # 1
      <4>1. j \in Int /\ j - 1 \in Registrations(Tail(queue))
        BY <1>2, <3>2
      <4>2. j - 1 <= i
        BY <1>4, <4>1
      <4> QED BY <2>1, <4>1, <4>2
    <3> QED BY <3>1, <3>2
  <2> QED BY <2>1, <2>2 DEF Learns
<1> QED BY <1>3, <1>4 DEF Learns

\* Another message was sent.
LEMMA LearnsStill ==
    ASSUME NEW queue \in Seq(ForNode), NEW m \in ForNode, m.cmd # "REGISTER_TO_BROKER_RET",
           NEW known, NEW registry, Learns(known, queue, registry)
    PROVE  Learns(known, Append(queue, m), registry)
<1>1. \A i \in DOMAIN Append(queue, m) : \/ i \in DOMAIN queue /\ Append(queue, m)[i] = queue[i]
                                         \/ Append(queue, m)[i] = m
  OBVIOUS
<1>2. \A i \in DOMAIN queue : i \in DOMAIN Append(queue, m) /\ Append(queue, m)[i] = queue[i]
  OBVIOUS
<1>3. Registrations(Append(queue, m)) = Registrations(queue)
  BY <1>1, <1>2 DEF Registrations
<1> QED BY <1>2, <1>3 DEF Learns, Registrations

\* A registry was sent: it is the last.
LEMMA LearnsLast ==
    ASSUME NEW queue \in Seq(ForNode), NEW m \in ForNode, m.cmd = "REGISTER_TO_BROKER_RET", NEW known
    PROVE  Learns(known, Append(queue, m), m.service2nodeId)
<1> DEFINE n == Len(queue) + 1
<1>1. /\ n \in DOMAIN Append(queue, m) /\ Append(queue, m)[n] = m
      /\ \A i \in DOMAIN Append(queue, m) : i \in Int /\ i <= n
      /\ n \in Int
  OBVIOUS
<1> HIDE DEF n
<1>2. n \in Registrations(Append(queue, m))
  BY <1>1 DEF Registrations
<1>3. ASSUME NEW i \in Registrations(Append(queue, m)),
             \A j \in Registrations(Append(queue, m)) : j <= i
      PROVE  i = n
  BY <1>1, <1>2, <1>3 DEF Registrations
<1> QED BY <1>1, <1>2, <1>3 DEF Learns

-----------------------------------------------------------------------------
(* Bindings. *)

\* Everything that stores a name with an id.
LEMMA BindingsAre ==
    /\ Pairs(service2nodeId) \subseteq Bindings
    /\ \A n \in Node : Pairs(m_broker_data[n]) \subseteq Bindings
    /\ \A l \in Link : /\ Copies(Messages(toNode[l])) \subseteq Bindings
                       /\ Calls(Messages(toBroker[l])) \subseteq Bindings
    /\ \A c \in Conn : session[c].nodeId # 0 =>
           <<session[c].strServiceName, session[c].nodeId>> \in Bindings
<1>1. \A n \in Node : Pairs(m_broker_data[n]) \subseteq KeptBindings
  BY Zenon DEF KeptBindings
<1>2. \A l \in Link : Copies(Messages(toNode[l])) \subseteq SentBindings
  BY Zenon DEF SentBindings
<1>3. \A l \in Link : Calls(Messages(toBroker[l])) \subseteq CallBindings
  BY Zenon DEF CallBindings
<1>4. \A c \in Conn : session[c].nodeId # 0 =>
          <<session[c].strServiceName, session[c].nodeId>> \in SessionBindings
  BY DEF SessionBindings
<1> QED BY <1>1, <1>2, <1>3, <1>4 DEF Bindings

\* And nothing else.
LEMMA BindingsWithin ==
    ASSUME NEW B,
           Pairs(service2nodeId') \subseteq B,
           \A n \in Node : Pairs(m_broker_data'[n]) \subseteq B,
           \A l \in Link : Copies(Messages(toNode'[l])) \subseteq B,
           \A l \in Link : Calls(Messages(toBroker'[l])) \subseteq B,
           \A c \in Conn : session'[c].nodeId # 0 =>
               <<session'[c].strServiceName, session'[c].nodeId>> \in B
    PROVE  Bindings' \subseteq B
<1>1. KeptBindings' \subseteq B
  BY Zenon DEF KeptBindings
<1>2. SentBindings' \subseteq B
  BY Zenon DEF SentBindings
<1>3. CallBindings' \subseteq B
  BY Zenon DEF CallBindings
<1>4. SessionBindings' \subseteq B
  BY DEF SessionBindings
<1> QED BY <1>1, <1>2, <1>3, <1>4 DEF Bindings

\* Fewer messages store less.
LEMMA FewerMessages ==
    ASSUME NEW A, NEW B, A \subseteq B
    PROVE  Copies(A) \subseteq Copies(B) /\ Calls(A) \subseteq Calls(B)
<1>1. {x \in A : x.cmd = "REGISTER_TO_BROKER_RET"} \subseteq {x \in B : x.cmd = "REGISTER_TO_BROKER_RET"}
  OBVIOUS
<1>2. {x \in A : AsksFor(x)} \subseteq {x \in B : AsksFor(x)}
  OBVIOUS
<1>3. \A X, Y : X \subseteq Y =>
          /\ UNION {Pairs(m.service2nodeId) : m \in X} \subseteq UNION {Pairs(m.service2nodeId) : m \in Y}
          /\ {<<m.destServiceName, m.destNodeId>> : m \in X}
                 \subseteq {<<m.destServiceName, m.destNodeId>> : m \in Y}
  OBVIOUS
<1> QED BY <1>1, <1>2, <1>3, Zenon DEF Copies, Calls

\* One message more.
LEMMA OneMessageMore ==
    ASSUME NEW A, NEW B, NEW m, \A x \in B : x = m \/ x \in A
    PROVE  /\ m.cmd = "REGISTER_TO_BROKER_RET" => Copies(B) \subseteq Copies(A) \cup Pairs(m.service2nodeId)
           /\ m.cmd # "REGISTER_TO_BROKER_RET" => Copies(B) \subseteq Copies(A)
           /\ AsksFor(m) =>
                  Calls(B) \subseteq Calls(A) \cup {<<m.destServiceName, m.destNodeId>>}
           /\ ~AsksFor(m) => Calls(B) \subseteq Calls(A)
<1>1. Copies(B) \subseteq Copies(A) \cup (IF m.cmd = "REGISTER_TO_BROKER_RET" THEN Pairs(m.service2nodeId) ELSE {})
  <2>1. ASSUME NEW p \in Copies(B) PROVE p \in Copies(A) \/ (m.cmd = "REGISTER_TO_BROKER_RET" /\ p \in Pairs(m.service2nodeId))
    <3>1. PICK x \in B : x.cmd = "REGISTER_TO_BROKER_RET" /\ p \in Pairs(x.service2nodeId)
      BY <2>1 DEF Copies
    <3>2. CASE x = m
      BY <3>1, <3>2
    <3>3. CASE x \in A
      BY <3>1, <3>3 DEF Copies
    <3> QED BY <3>2, <3>3
  <2> QED BY <2>1
<1>2. Calls(B) \subseteq Calls(A) \cup (IF AsksFor(m)
                                       THEN {<<m.destServiceName, m.destNodeId>>} ELSE {})
  BY DEF Calls
<1> QED BY <1>1, <1>2

\* A message that carries a registry, one that is a call: what they store.
LEMMA StoredIn ==
    ASSUME NEW A, NEW m \in A
    PROVE  /\ m.cmd = "REGISTER_TO_BROKER_RET" => Pairs(m.service2nodeId) \subseteq Copies(A)
           /\ AsksFor(m) =>
                  <<m.destServiceName, m.destNodeId>> \in Calls(A)
<1>1. m.cmd = "REGISTER_TO_BROKER_RET" => Pairs(m.service2nodeId) \subseteq Copies(A)
  BY DEF Copies
<1>2. AsksFor(m) => <<m.destServiceName, m.destNodeId>> \in Calls(A)
  BY DEF Calls
<1> QED BY <1>1, <1>2

\* Nothing new is bound.
LEMMA NothingBound ==
    ASSUME NEW lasting \in BOOLEAN, BindingsInv(lasting), MemoryInv(lasting), Bindings' \subseteq Bindings, m_for_allocID' = m_for_allocID
    PROVE  /\ BindingsInv(lasting)'
           /\ \A id, n : BoundTo(id, n) => BoundTo(id, n)'
           /\ m_node_info' = m_node_info => MemoryInv(lasting)'
<1>1. BindingsInv(lasting)'
  BY DEF BindingsInv
<1>2. \A id, n : BoundTo(id, n) => BoundTo(id, n)'
  BY DEF BoundTo
<1>3. ASSUME m_node_info' = m_node_info PROVE MemoryInv(lasting)'
  BY <1>3 DEF MemoryInv, BoundTo
<1> QED BY <1>1, <1>2, <1>3

-----------------------------------------------------------------------------
(* For the broker the nodes are peers. *)

\* The queues changed, and nothing is left where there is no connection.
LEMMA EnvQueues ==
    ASSUME IInv, UNCHANGED <<registryVars, brokerEnd, nodeEnd, session>>, DOMAIN toBroker' = Link,
           \A c \in Conn : brokerEnd[c] = "none" => toBroker'[c] = <<>>
    PROVE  EnvStep
BY DEF IInv, RegistryTypeOK, EnvStep, Ends, registryVars

\* A connection broke.
LEMMA EnvBreaks ==
    ASSUME IInv, UNCHANGED <<registryVars, session>>, NEW c \in Conn, Up(c), NEW queues,
           Break(c, toBroker, queues)
    PROVE  EnvStep
<1>1. /\ brokerEnd \in [Conn -> Ends] /\ nodeEnd \in [Conn -> Ends] /\ DOMAIN session = Conn
      /\ DOMAIN toBroker = Link /\ Conn \subseteq Link /\ brokerEnd[c] = "open"
      /\ \A d \in Conn : brokerEnd[d] = "none" => toBroker[d] = <<>>
  BY DEF IInv, RegistryTypeOK, QuietWhenGone, Link, Up
<1>2. DOMAIN toBroker' = Link /\ \A d \in Link \ {c} : toBroker'[d] = toBroker[d]
  BY <1>1, TruncatedIs DEF Break
<1> QED BY <1>1, <1>2 DEF Break, EnvStep, Ends, registryVars

\* A node's process is done with its side of a connection.
LEMMA EnvAbandons ==
    ASSUME IInv, UNCHANGED <<registryVars, session>>, NEW c \in Conn, Abandon(c)
    PROVE  EnvStep
<1>1. /\ brokerEnd \in [Conn -> Ends] /\ nodeEnd \in [Conn -> Ends] /\ DOMAIN session = Conn
      /\ DOMAIN toBroker = Link /\ Conn \subseteq Link
      /\ \A d \in Conn : brokerEnd[d] = "none" => toBroker[d] = <<>>
  BY DEF IInv, RegistryTypeOK, QuietWhenGone, Link
<1>2. /\ DOMAIN toBroker' = Link /\ \A d \in Link \ {c} : toBroker'[d] = toBroker[d]
      /\ toBroker[c] = <<>> => toBroker'[c] = <<>>
  BY <1>1, TruncatedIs DEF Abandon
<1> QED BY <1>1, <1>2 DEF Abandon, EnvStep, Ends, registryVars

\* A connection was made.
LEMMA EnvConnects ==
    ASSUME IInv, UNCHANGED registryVars, NEW n \in Node, connectToBroker(n)
    PROVE  EnvStep
<1>1. PICK c \in Conn : Connect(c, <<RegisterReq("RPC_NODE", ServiceOf[n])>>)
  BY DEF connectToBroker
<1>2. /\ brokerEnd \in [Conn -> Ends] /\ nodeEnd \in [Conn -> Ends] /\ DOMAIN session = Conn
      /\ DOMAIN toBroker = Link /\ Conn \subseteq Link
      /\ \A d \in Conn : brokerEnd[d] = "none" => toBroker[d] = <<>>
  BY DEF IInv, RegistryTypeOK, QuietWhenGone, Link
<1> DEFINE first == <<RegisterReq("RPC_NODE", ServiceOf[n])>>
<1>3. /\ brokerEnd[c] = "none" /\ brokerEnd' = [brokerEnd EXCEPT ![c] = "open"]
      /\ nodeEnd' = [nodeEnd EXCEPT ![c] = "open"] /\ toBroker' = [toBroker EXCEPT ![c] = first]
      /\ session' = [session EXCEPT ![c] = NoSession]
  BY <1>1 DEF Connect
<1> HIDE DEF first
<1>4. /\ brokerEnd' \in [Conn -> Ends] /\ nodeEnd' \in [Conn -> Ends] /\ DOMAIN session' = Conn
      /\ DOMAIN toBroker' = Link /\ brokerEnd'[c] = "open" /\ session'[c] = NoSession
      /\ \A d \in Conn \ {c} : /\ brokerEnd'[d] = brokerEnd[d] /\ toBroker'[d] = toBroker[d]
                               /\ session'[d] = session[d]
  BY <1>2, <1>3 DEF Ends
<1> QED BY <1>2, <1>3, <1>4 DEF EnvStep, registryVars

\* A node sends on one of its links, or not at all.
LEMMA SentIs ==
    ASSUME NEW n \in Node, m_master_broker_sock[n] \in Conn \cup {NULL}, NEW queues, NEW service,
           NEW name, NEW dest, NEW callback, NEW err, NEW tag, NEW q,
           q = Sent(queues, n, service, name, dest, callback, err, tag)
    PROVE  \/ q = queues
           \/ \E l \in Link : q = Put(queues, l, RouteMsg(service, name, dest, m_nodeId[n],
                                                          callback, err, tag))
BY DEF Sent, Link

\* A node that sends does what the broker's environment may do.
LEMMA EnvSends ==
    ASSUME IInv, UNCHANGED <<registryVars, brokerEnd, nodeEnd, session>>, NEW l \in Link, NEW m,
           toBroker' = Put(toBroker, l, m)
    PROVE  EnvStep
<1>1. /\ DOMAIN toBroker = Link /\ Conn \subseteq Link
      /\ \A d \in Conn : brokerEnd[d] = "none" => toBroker[d] = <<>>
  BY DEF IInv, QuietWhenGone, Link
<1>2. \A c \in Conn : brokerEnd[c] = "none" => toBroker'[c] = <<>>
  BY <1>1 DEF Put, Up
<1> QED BY <1>1, <1>2, EnvQueues DEF Put

\* No step of a node is more than the broker allows its peers.
LEMMA NodesArePeers ==
    ASSUME IInv, NodeTypeInv, NEW n \in Node, NodeStep(n)
    PROVE  EnvStep
<1>1. UNCHANGED registryVars
  BY DEF NodeStep
<1>2. m_master_broker_sock[n] \in Conn \cup {NULL}
  BY DEF NodeTypeInv
<1>3. /\ DOMAIN toBroker = Link
      /\ \A c \in Conn : brokerEnd[c] = "none" => toBroker[c] = <<>>
  BY DEF IInv, QuietWhenGone
<1>4. ASSUME UNCHANGED <<brokerEnd, nodeEnd, session, toBroker>> PROVE EnvStep
  BY <1>1, <1>3, <1>4, EnvQueues
<1>5. ASSUME NEW service, NEW name, NEW dest, NEW callback, NEW err, NEW tag,
             toBroker' = Sent(toBroker, n, service, name, dest, callback, err, tag),
             UNCHANGED <<brokerEnd, nodeEnd, session>>
      PROVE  EnvStep
  BY <1>1, <1>2, <1>4, <1>5, SentIs, EnvSends
<1>6. ASSUME OpenConnects(n) PROVE EnvStep
  BY <1>1, <1>6, EnvConnects DEF OpenConnects
<1>7. ASSUME timerReconnectBroker(n) PROVE EnvStep
  BY <1>1, <1>4, <1>7, EnvConnects DEF timerReconnectBroker, netVars
<1>8. ASSUME OpenSucceeds(n) \/ OpenFails(n) \/ CloseForgets(n) \/ CloseEnds(n) PROVE EnvStep
  BY <1>4, <1>8 DEF OpenSucceeds, OpenFails, CloseForgets, CloseEnds, netVars
<1>9. ASSUME OpenTimesOut(n) \/ CloseStarts(n) PROVE EnvStep
  <2>1. UNCHANGED session
    BY <1>9 DEF OpenTimesOut, CloseStarts
  <2>2. CASE UNCHANGED <<brokerEnd, nodeEnd, toBroker, toNode>>
    BY <1>4, <2>1, <2>2
  <2>3. CASE ~UNCHANGED <<brokerEnd, nodeEnd, toBroker, toNode>>
    <3>1. /\ m_master_broker_sock[n] # NULL /\ Up(m_master_broker_sock[n])
          /\ Break(m_master_broker_sock[n], toBroker, toNode)
      BY <1>9, <2>3 DEF OpenTimesOut, CloseStarts
    <3> QED BY <1>1, <1>2, <2>1, <3>1, EnvBreaks
  <2> QED BY <2>2, <2>3
<1>10. ASSUME NEW c \in Conn, RegistrationRefused(n, c) PROVE EnvStep
  <2>1. UNCHANGED session /\ m_master_broker_sock[n] \in Conn
    BY <1>2, <1>10 DEF RegistrationRefused
  <2>2. CASE Up(m_master_broker_sock[n])
    BY <1>1, <1>10, <2>1, <2>2, EnvBreaks DEF RegistrationRefused
  <2>3. CASE ~Up(m_master_broker_sock[n])
    BY <1>4, <1>10, <2>1, <2>3 DEF RegistrationRefused
  <2> QED BY <2>2, <2>3
<1>11. ASSUME NEW c \in Conn, RefusalCrashes(n, c) \/ RegistryArrives(n, c) PROVE EnvStep
  BY <1>4, <1>11 DEF RefusalCrashes, RegistryArrives, netVars
<1>12. ASSUME NEW c \in Conn, HandleNodeBroken(n, c) PROVE EnvStep
  BY <1>1, <1>3, <1>12 DEF HandleNodeBroken, EnvStep, IInv, RegistryTypeOK, Ends, registryVars
<1>13. ASSUME NEW l \in Link, HandleCall(n, l) PROVE EnvStep
  BY <1>4, <1>5, <1>13 DEF HandleCall
<1>14. ASSUME NEW l \in Link, HandleAnswer(n, l) PROVE EnvStep
  BY <1>4, <1>14 DEF HandleAnswer
<1>15. ASSUME NEW m \in Node, NEW kind \in Kinds,
              CallWithoutService(n, ServiceOf[m], kind) \/ docall(n, ServiceOf[m], kind)
       PROVE  EnvStep
  BY <1>4, <1>5, <1>15 DEF CallWithoutService, docall, netVars
<1>16. ASSUME ProcessRestarts(n) PROVE EnvStep
  BY <1>1, <1>4, <1>16, EnvAbandons DEF ProcessRestarts
<1> QED
  BY <1>6, <1>7, <1>8, <1>9, <1>10, <1>11, <1>12, <1>13, <1>14, <1>15, <1>16
  DEF NodeStep, NodeHandles, NodeDecides

\* The system takes the broker's steps, steps of its peers, and steps it does not see.
LEMMA SystemIsBroker ==
    ASSUME IInv, NodeTypeInv, [RpcSystemNext]_systemVars
    PROVE  [BrokerNext \/ EnvStep]_<<netVars, brokerVars>>
<1>1. ASSUME NEW c \in Conn, ConnectionLost(c) PROVE EnvStep
  <2>1. Up(c) /\ Break(c, toBroker, toNode) /\ UNCHANGED <<registryVars, session>>
    BY <1>1 DEF ConnectionLost, brokerVars, registryVars
  <2> QED BY <2>1, EnvBreaks
<1>2. CASE UNCHANGED systemVars
  BY <1>2 DEF systemVars
<1>3. CASE BrokerStep
  BY <1>3 DEF BrokerStep
<1> QED BY <1>1, <1>2, <1>3, NodesArePeers DEF RpcSystemNext

-----------------------------------------------------------------------------
(* What keeps the invariants. *)

\* Nothing is under way where there are no messages.
LEMMA NoMessages ==
    ASSUME NEW S, NEW queue \in Seq(S)
    PROVE  queue = <<>> <=> Messages(queue) = {}
<1>1. queue = <<>> => DOMAIN queue = {}
  OBVIOUS
<1>2. DOMAIN queue = {} => queue = <<>>
  OBVIOUS
<1> QED BY <1>1, <1>2 DEF Messages

\* The registrations under way, and the answers to them, are the old ones, but for a refusal.
LEMMA RegistersStill ==
    ASSUME NEW lasting \in BOOLEAN, RegisterInv(lasting), UNCHANGED session,
           \A c \in Conn : owner'[c] \in {owner[c], NoOne},
           \A c \in Conn : \A i \in DOMAIN toBroker'[c] :
               toBroker'[c][i].cmd = "REGISTER_TO_BROKER_REQ" =>
                   /\ i \in DOMAIN toBroker[c] /\ toBroker'[c][i] = toBroker[c][i]
                   /\ toNode[c] = <<>> => toNode'[c] = <<>>,
           \A c \in Conn : \A m \in Messages(toNode'[c]) :
               m.cmd = "REGISTER_TO_BROKER_RET" =>
                   \/ m \in Messages(toNode[c])
                   \/ m.registerFlag = -1 /\ session[c].nodeId = 0
    PROVE  RegisterInv(lasting)'
<1> SUFFICES ASSUME NEW c \in Conn
             PROVE  /\ \A i \in DOMAIN toBroker'[c] : toBroker'[c][i].cmd = "REGISTER_TO_BROKER_REQ" =>
                           /\ i = 1 /\ session'[c].nodeId = 0 /\ toNode'[c] = <<>>
                           /\ owner'[c] # NoOne => toBroker'[c][i].strServiceName = ServiceOf[owner'[c]]
                    /\ session'[c].nodeId # 0 /\ owner'[c] # NoOne =>
                           session'[c].strServiceName = ServiceOf[owner'[c]]
                    /\ \A m \in Messages(toNode'[c]) : m.cmd = "REGISTER_TO_BROKER_RET" =>
                           /\ m.registerFlag = -1 => session'[c].nodeId = 0
                           /\ m.registerFlag = 1 /\ session'[c].nodeId # 0 => m.nodeId = session'[c].nodeId
                           /\ m.registerFlag = 1 /\ lasting => session'[c].nodeId # 0
  BY DEF RegisterInv
<1>1. \A i \in DOMAIN toBroker'[c] : toBroker'[c][i].cmd = "REGISTER_TO_BROKER_REQ" =>
          /\ i = 1 /\ session'[c].nodeId = 0 /\ toNode'[c] = <<>>
          /\ owner'[c] # NoOne => toBroker'[c][i].strServiceName = ServiceOf[owner'[c]]
  BY DEF RegisterInv
<1>2. session'[c].nodeId # 0 /\ owner'[c] # NoOne => session'[c].strServiceName = ServiceOf[owner'[c]]
  BY DEF RegisterInv
<1>3. \A m \in Messages(toNode'[c]) : m.cmd = "REGISTER_TO_BROKER_RET" =>
          /\ m.registerFlag = -1 => session'[c].nodeId = 0
          /\ m.registerFlag = 1 /\ session'[c].nodeId # 0 => m.nodeId = session'[c].nodeId
          /\ m.registerFlag = 1 /\ lasting => session'[c].nodeId # 0
  BY DEF RegisterInv
<1> QED BY <1>1, <1>2, <1>3

\* No call is under way to a node that was not before.
LEMMA RoutesStill ==
    ASSUME NEW lasting \in BOOLEAN, RouteInv(lasting),
           \A c \in Conn : owner'[c] = owner[c] \/ Messages(toNode'[c]) = {},
           \A l \in Link : \A m \in Messages(toNode'[l]) : IsCall(m) => m \in Messages(toNode[l])
    PROVE  RouteInv(lasting)'
BY DEF RouteInv, Link

\* A registration that is known, or under way, still is.
LEMMA IdsAgreeStill ==
    ASSUME IdsAgree, QueueTypeInv, QueueTypeInv',
           \A c \in Conn : Up(c)' /\ owner'[c] # NoOne /\ session'[c].nodeId # 0 =>
               /\ Up(c) /\ owner'[c] = owner[c] /\ session'[c] = session[c]
               /\ m_nodeId'[owner[c]] = m_nodeId[owner[c]]
               /\ \A m \in Messages(toNode[c]) :
                      m.cmd = "REGISTER_TO_BROKER_RET" => m \in Messages(toNode'[c])
    PROVE  IdsAgree'
<1> SUFFICES ASSUME NEW c \in Conn, Up(c)', owner'[c] # NoOne, session'[c].nodeId # 0,
                    m_nodeId'[owner'[c]] # session'[c].nodeId
             PROVE  \E i \in 1..Len(toNode'[c]) :
                        /\ toNode'[c][i].cmd = "REGISTER_TO_BROKER_RET"
                        /\ toNode'[c][i].registerFlag = 1
                        /\ toNode'[c][i].nodeId = session'[c].nodeId
  BY DEF IdsAgree
<1>1. DOMAIN toNode[c] = 1..Len(toNode[c]) /\ DOMAIN toNode'[c] = 1..Len(toNode'[c])
  BY DEF QueueTypeInv, Link, Queues
<1>2. PICK i \in DOMAIN toNode[c] : /\ toNode[c][i].cmd = "REGISTER_TO_BROKER_RET"
                                    /\ toNode[c][i].registerFlag = 1
                                    /\ toNode[c][i].nodeId = session[c].nodeId
  BY <1>1 DEF IdsAgree
<1>3. PICK j \in DOMAIN toNode'[c] : toNode'[c][j] = toNode[c][i]
  BY <1>2 DEF Messages
<1> QED BY <1>1, <1>2, <1>3

\* What a connected node knows, or will be told last, is still the registry.
LEMMA NodesLearnStill ==
    ASSUME NodesLearnTheRegistry, UNCHANGED service2nodeId,
           \A c \in Conn : Up(c)' /\ owner'[c] # NoOne /\ session'[c].nodeId # 0 =>
               /\ Up(c) /\ owner'[c] = owner[c] /\ session'[c] = session[c]
               /\ m_broker_data'[owner[c]] = m_broker_data[owner[c]]
               /\ toNode'[c] = toNode[c]
    PROVE  NodesLearnTheRegistry'
BY DEF NodesLearnTheRegistry, Learns, Registrations

\* No pair is stored that was not before.
LEMMA NothingNew ==
    ASSUME NEW lasting \in BOOLEAN, BindingsInv(lasting), MemoryInv(lasting), UNCHANGED <<service2nodeId, m_for_allocID>>,
           \A c \in Conn : session'[c] = session[c] \/ session'[c].nodeId = 0,
           \A n \in Node : Pairs(m_broker_data'[n]) \subseteq Bindings,
           \A l \in Link : Copies(Messages(toNode'[l])) \subseteq Bindings,
           \A l \in Link : Calls(Messages(toBroker'[l])) \subseteq Bindings
    PROVE  /\ BindingsInv(lasting)'
           /\ Bindings' \subseteq Bindings
           /\ UNCHANGED m_node_info => MemoryInv(lasting)'
           /\ \A id, n : BoundTo(id, n) => BoundTo(id, n)'
<1>1. Pairs(service2nodeId') \subseteq Bindings
  BY BindingsAre
<1>2. \A c \in Conn : session'[c].nodeId # 0 =>
          <<session'[c].strServiceName, session'[c].nodeId>> \in Bindings
  BY BindingsAre
<1>3. Bindings' \subseteq Bindings
  BY <1>1, <1>2, BindingsWithin
<1> QED BY <1>3, NothingBound

\* Steps that only take messages away, cut connections or forget them.
LessUnderWay ==
    /\ UNCHANGED <<service2nodeId, m_for_allocID, m_node_info, session, served>>
    /\ QueueTypeInv'
    /\ \A l \in Link : Messages(toNode'[l]) \subseteq Messages(toNode[l])
    /\ \A l \in Link : \A i \in DOMAIN toBroker'[l] :
           i \in DOMAIN toBroker[l] /\ toBroker'[l][i] = toBroker[l][i]
    /\ \A c \in Conn : /\ owner'[c] \in {owner[c], NoOne}
                       /\ owner'[c] = NoOne <=> nodeEnd'[c] = "none"
                       /\ owner'[c] = NoOne => toNode'[c] = <<>>
    /\ \A n \in Node : m_broker_data'[n] = m_broker_data[n] \/ m_broker_data'[n] = Empty
    /\ \A c \in Conn : Up(c)' /\ owner'[c] # NoOne /\ session[c].nodeId # 0 =>
           /\ Up(c) /\ toNode'[c] = toNode[c]
           /\ m_nodeId'[owner[c]] = m_nodeId[owner[c]]
           /\ m_broker_data'[owner[c]] = m_broker_data[owner[c]]

\* Such a step keeps what links and nodes agree about.
LEMMA LessKeeps ==
    ASSUME NEW lasting \in BOOLEAN, LinkInv(lasting), LessUnderWay
    PROVE  LinkInv(lasting)' /\ Bindings' \subseteq Bindings
<1>1. QueueTypeInv /\ QueueTypeInv' /\ \A c \in Conn : c \in Link
  BY DEF LinkInv, LessUnderWay, Link
<1>2. \A l \in Link : /\ toNode[l] \in Seq(ForNode) /\ toNode'[l] \in Seq(ForNode)
                      /\ toBroker[l] \in Seq(ForBroker) /\ toBroker'[l] \in Seq(ForBroker)
  BY <1>1 DEF QueueTypeInv, Queues
<1>3. ASSUME NEW l \in Link, toNode[l] = <<>> PROVE toNode'[l] = <<>>
  <2>1. Messages(toNode[l]) = {}
    BY <1>2, <1>3, NoMessages
  <2>2. Messages(toNode'[l]) = {}
    BY <2>1 DEF LessUnderWay
  <2> QED BY <1>2, <2>2, NoMessages
<1>4. TableTypeInv' /\ OwnerInv' /\ ServedInv(lasting)'
  <2>1. TableTypeInv'
    BY DEF LinkInv, LessUnderWay, TableTypeInv
  <2>2. OwnerInv'
    BY DEF LessUnderWay, OwnerInv
  <2>3. ServedInv(lasting)'
    BY DEF LinkInv, LessUnderWay, ServedInv, CallsReachTheirService
  <2> QED BY <2>1, <2>2, <2>3
<1>5. RegisterInv(lasting)'
  BY <1>1, <1>3, RegistersStill DEF LinkInv, LessUnderWay
<1>6. RouteInv(lasting)'
  <2>1. \A c \in Conn : owner'[c] = owner[c] \/ Messages(toNode'[c]) = {}
    BY <1>1, <1>2, NoMessages DEF LessUnderWay
  <2> QED BY <2>1, RoutesStill DEF LinkInv, LessUnderWay
<1>7. /\ BindingsInv(lasting)' /\ MemoryInv(lasting)' /\ Bindings' \subseteq Bindings
  <2>1. \A n \in Node : Pairs(m_broker_data'[n]) \subseteq Bindings
    <3>1. Pairs(Empty) = {}
      BY DEF Pairs, Empty
    <3> QED BY <3>1, BindingsAre DEF LessUnderWay
  <2>2. \A l \in Link : Messages(toBroker'[l]) \subseteq Messages(toBroker[l])
    BY DEF LessUnderWay, Messages
  <2>3. \A l \in Link : Copies(Messages(toNode'[l])) \subseteq Bindings
    BY BindingsAre, FewerMessages DEF LessUnderWay
  <2>4. \A l \in Link : Calls(Messages(toBroker'[l])) \subseteq Bindings
    BY <2>2, BindingsAre, FewerMessages
  <2>5. /\ BindingsInv(lasting) /\ MemoryInv(lasting) /\ UNCHANGED <<service2nodeId, m_for_allocID, m_node_info>>
        /\ \A c \in Conn : session'[c] = session[c] \/ session'[c].nodeId = 0
    BY DEF LinkInv, LessUnderWay
  <2> QED BY <2>1, <2>3, <2>4, <2>5, NothingNew
<1>8. \A c \in Conn : Up(c)' /\ owner'[c] # NoOne /\ session'[c].nodeId # 0 =>
          /\ Up(c) /\ owner'[c] = owner[c] /\ session'[c] = session[c]
          /\ toNode'[c] = toNode[c]
          /\ m_nodeId'[owner[c]] = m_nodeId[owner[c]]
          /\ m_broker_data'[owner[c]] = m_broker_data[owner[c]]
  BY DEF LessUnderWay
<1>9. IdsAgree'
  BY <1>1, <1>8, IdsAgreeStill DEF LinkInv
<1>10. NodesLearnTheRegistry'
  BY <1>8, NodesLearnStill DEF LinkInv, LessUnderWay
<1> QED BY <1>1, <1>4, <1>5, <1>6, <1>7, <1>9, <1>10 DEF LinkInv

\* Nothing changed between broker and nodes.
LEMMA LinksAlone ==
    ASSUME NEW lasting \in BOOLEAN, LinkInv(lasting),
           UNCHANGED <<netVars, service2nodeId, m_for_allocID, m_node_info, m_nodeId, m_broker_data,
                       owner, served>>
    PROVE  LinkInv(lasting)'
<1>1. UNCHANGED <<brokerEnd, nodeEnd, toBroker, toNode, session>>
  BY DEF netVars
<1>2. QueueTypeInv /\ QueueTypeInv' /\ OwnerInv
  BY <1>1 DEF LinkInv, QueueTypeInv
<1>3. \A c \in Conn : Up(c)' => Up(c)
  BY <1>1 DEF Up
<1>4. LessUnderWay
  BY <1>1, <1>2, <1>3 DEF LessUnderWay, OwnerInv
<1> QED BY <1>4, LessKeeps

\* A node has the callbacks it had, or fewer.
LEMMA CallsStill ==
    ASSUME CallTypeInv, UNCHANGED gCallBackIDGen, calls' \in {calls, calls + 1},
           m_rpcTmpCallBack' \in [Node -> SUBSET [id : Nat, tag : Nat]],
           \A n \in Node : m_rpcTmpCallBack'[n] \subseteq m_rpcTmpCallBack[n]
    PROVE  CallTypeInv'
<1>1. calls \in Nat /\ calls' \in Nat /\ \A t \in 1..calls : t \in 1..calls'
  BY DEF CallTypeInv
<1> QED BY <1>1 DEF CallTypeInv

\* The thread that opens and closes the node got on.
LEMMA ThreadKeeps ==
    ASSUME NEW lasting \in BOOLEAN, RpcInv(lasting), pc' \in [Node -> Labels],
           \A n \in Node : pc'[n] = "start" => pc[n] = "start",
           m_runing' \in [Node -> BOOLEAN], m_master_broker_sock' \in [Node -> Conn \cup {NULL}],
           UNCHANGED <<m_nodeId, m_broker_data, m_rpcTmpCallBack, gCallBackIDGen, reconnectTimers,
                       owner, calls, m_for_allocID>>
    PROVE  NodeInv(lasting)'
<1>1. NodeTypeInv /\ CallTypeInv /\ OneWayInv /\ IdInv(lasting)
  BY DEF RpcInv, NodeInv
<1>3. NodeTypeInv'
  BY <1>1 DEF NodeTypeInv
<1>4. CallTypeInv'
  BY <1>1 DEF CallTypeInv
<1>5. OneWayInv'
  BY <1>1 DEF OneWayInv
<1>6. IdInv(lasting)'
  BY <1>1 DEF IdInv
<1> QED BY <1>3, <1>4, <1>5, <1>6 DEF NodeInv

-----------------------------------------------------------------------------
(* The steps of a node. *)

\* open() returns, or close() gets on.
LEMMA LocalStepsKeep ==
    ASSUME NEW lasting \in BOOLEAN, RpcInv(lasting), NEW n \in Node, UNCHANGED registryVars,
           OpenSucceeds(n) \/ OpenFails(n) \/ CloseForgets(n) \/ CloseEnds(n)
    PROVE  NodeInv(lasting)' /\ LinkInv(lasting)'
<1>1. LinkInv(lasting)'
  BY LinksAlone DEF RpcInv, OpenSucceeds, OpenFails, CloseForgets, CloseEnds, registryVars
<1>2. NodeTypeInv
  BY DEF RpcInv, NodeInv
<1>3. /\ pc' \in [Node -> Labels] /\ m_runing' \in [Node -> BOOLEAN]
      /\ m_master_broker_sock' \in [Node -> Conn \cup {NULL}]
      /\ \A m \in Node : pc'[m] = "start" => pc[m] = "start"
  BY <1>2 DEF NodeTypeInv, Labels, OpenSucceeds, OpenFails, CloseForgets, CloseEnds
<1>4. UNCHANGED <<m_nodeId, m_broker_data, m_rpcTmpCallBack, gCallBackIDGen, reconnectTimers,
                  owner, calls, m_for_allocID>>
  BY DEF OpenSucceeds, OpenFails, CloseForgets, CloseEnds, registryVars
<1> QED BY <1>1, <1>3, <1>4, ThreadKeeps

\* The refusal that crashes the node.
LEMMA RefusalCrashesKeeps ==
    ASSUME NEW lasting \in BOOLEAN, RpcInv(lasting), NEW n \in Node, NEW c \in Conn, UNCHANGED registryVars, RefusalCrashes(n, c)
    PROVE  NodeInv(lasting)' /\ LinkInv(lasting)'
<1>1. LinkInv(lasting)'
  BY LinksAlone DEF RpcInv, RefusalCrashes, registryVars
<1>2. NodeTypeInv
  BY DEF RpcInv, NodeInv
<1>3. /\ pc' \in [Node -> Labels] /\ m_runing' \in [Node -> BOOLEAN]
      /\ m_master_broker_sock' \in [Node -> Conn \cup {NULL}]
      /\ \A m \in Node : pc'[m] = "start" => pc[m] = "start"
  BY <1>2 DEF NodeTypeInv, Labels, RefusalCrashes
<1>4. NodeInv(lasting)'
  BY <1>3, ThreadKeeps DEF RefusalCrashes, registryVars
<1> QED BY <1>1, <1>4

\* A connection breaks: what is left on it, and on the others.
LEMMA BreakLeaves ==
    ASSUME NEW lasting \in BOOLEAN, RpcInv(lasting), NEW c \in Conn, Up(c), NEW queues \in Queues(ForNode),
           \A l \in Link : Messages(queues[l]) \subseteq Messages(toNode[l]),
           Break(c, toBroker, queues)
    PROVE  /\ QueueTypeInv'
           /\ \A l \in Link : Messages(toNode'[l]) \subseteq Messages(toNode[l])
           /\ \A l \in Link : \A i \in DOMAIN toBroker'[l] :
                  i \in DOMAIN toBroker[l] /\ toBroker'[l][i] = toBroker[l][i]
           /\ \A d \in Conn : /\ nodeEnd'[d] = "none" <=> nodeEnd[d] = "none"
                              /\ nodeEnd'[d] = "none" => toNode'[d] = <<>>
                              /\ Up(d)' => /\ Up(d) /\ toNode'[d] = queues[d]
<1>1. /\ c \in Link /\ \A d \in Conn : d \in Link
      /\ toBroker \in Queues(ForBroker) /\ toNode \in Queues(ForNode)
      /\ brokerEnd \in [Conn -> Ends] /\ nodeEnd \in [Conn -> Ends]
      /\ \A d \in Conn : nodeEnd[d] = "none" => toNode[d] = <<>>
  BY DEF RpcInv, LinkInv, QueueTypeInv, IInv, RegistryTypeOK, Link, OwnerInv
<1>b. toBroker' \in Truncated(toBroker, c) /\ toNode' \in Truncated(queues, c)
  BY DEF Break
<1>2. /\ toBroker' \in Queues(ForBroker)
      /\ \A d \in Link \ {c} : toBroker'[d] = toBroker[d]
      /\ \A i \in DOMAIN toBroker'[c] : i \in DOMAIN toBroker[c] /\ toBroker'[c][i] = toBroker[c][i]
  BY <1>1, <1>b, TruncatedQueue
<1>3. /\ toNode' \in Queues(ForNode)
      /\ \A d \in Link \ {c} : toNode'[d] = queues[d]
      /\ Messages(toNode'[c]) \subseteq Messages(queues[c])
  BY <1>1, <1>b, TruncatedQueue
<1>4. \A l \in Link : Messages(toNode'[l]) \subseteq Messages(toNode[l])
  BY <1>3
<1>5. /\ brokerEnd' = [brokerEnd EXCEPT ![c] = "broken"]
      /\ nodeEnd' = [nodeEnd EXCEPT ![c] = "broken"]
      /\ nodeEnd[c] = "open"
  BY DEF Break, Up
<1>6. \A d \in Conn : Up(d)' => d # c /\ Up(d)
  BY <1>1, <1>5 DEF Up
<1>7. \A d \in Conn : nodeEnd'[d] = "none" <=> nodeEnd[d] = "none"
  BY <1>1, <1>5
<1>8. ASSUME NEW d \in Conn, nodeEnd'[d] = "none" PROVE toNode'[d] = <<>>
  <2>1. toNode[d] = <<>> /\ toNode[d] \in Seq(ForNode) /\ toNode'[d] \in Seq(ForNode)
    BY <1>1, <1>3, <1>7, <1>8 DEF Queues
  <2>2. Messages(toNode[d]) = {}
    BY <2>1, NoMessages
  <2>3. Messages(toNode'[d]) = {}
    BY <1>1, <1>4, <2>2
  <2> QED BY <2>1, <2>3, NoMessages
<1> QED BY <1>1, <1>2, <1>3, <1>4, <1>6, <1>7, <1>8 DEF QueueTypeInv

\* Breaking a connection, with nothing else changed, leaves less under way.
LEMMA BrokenIsLess ==
    ASSUME NEW lasting \in BOOLEAN, RpcInv(lasting), NEW c \in Conn, Up(c), Break(c, toBroker, toNode),
           UNCHANGED <<service2nodeId, m_for_allocID, m_node_info, session, served, owner,
                       m_nodeId, m_broker_data>>
    PROVE  LessUnderWay
<1>1. toNode \in Queues(ForNode) /\ OwnerInv
  BY DEF RpcInv, LinkInv, QueueTypeInv
<1>2. /\ QueueTypeInv'
      /\ \A l \in Link : Messages(toNode'[l]) \subseteq Messages(toNode[l])
      /\ \A l \in Link : \A i \in DOMAIN toBroker'[l] :
             i \in DOMAIN toBroker[l] /\ toBroker'[l][i] = toBroker[l][i]
      /\ \A d \in Conn : /\ nodeEnd'[d] = "none" <=> nodeEnd[d] = "none"
                         /\ nodeEnd'[d] = "none" => toNode'[d] = <<>>
                         /\ Up(d)' => /\ Up(d) /\ toNode'[d] = toNode[d]
  BY <1>1, BreakLeaves
<1>3. \A d \in Conn : /\ owner'[d] \in {owner[d], NoOne}
                      /\ owner'[d] = NoOne <=> nodeEnd'[d] = "none"
                      /\ owner'[d] = NoOne => toNode'[d] = <<>>
  BY <1>1, <1>2 DEF OwnerInv
<1> QED BY <1>2, <1>3 DEF LessUnderWay

\* close(), or the end of open(), breaks the connection.
LEMMA NodeClosesKeeps ==
    ASSUME NEW lasting \in BOOLEAN, RpcInv(lasting), NEW n \in Node, UNCHANGED registryVars, OpenTimesOut(n) \/ CloseStarts(n)
    PROVE  NodeInv(lasting)' /\ LinkInv(lasting)'
<1>1. NodeTypeInv /\ LinkInv(lasting) /\ m_master_broker_sock[n] \in Conn \cup {NULL}
  BY DEF RpcInv, NodeInv, NodeTypeInv
<1>2. UNCHANGED <<m_nodeId, m_broker_data, m_rpcTmpCallBack, gCallBackIDGen, reconnectTimers,
                  owner, calls, m_for_allocID, service2nodeId, m_node_info, session, served>>
  BY DEF OpenTimesOut, CloseStarts, registryVars
<1>3. LinkInv(lasting)'
  <2>1. CASE UNCHANGED <<brokerEnd, nodeEnd, toBroker, toNode>>
    BY <1>1, <1>2, <2>1, LinksAlone DEF netVars
  <2>2. CASE ~UNCHANGED <<brokerEnd, nodeEnd, toBroker, toNode>>
    <3>1. PICK s : s = m_master_broker_sock[n]
      OBVIOUS
    <3>2. s \in Conn /\ Up(s) /\ Break(s, toBroker, toNode)
      BY <1>1, <2>2, <3>1 DEF OpenTimesOut, CloseStarts
    <3>3. toNode \in Queues(ForNode) /\ OwnerInv
      BY <1>1 DEF LinkInv, QueueTypeInv
    <3>4. LessUnderWay
      BY <1>2, <3>2, <3>3, BrokenIsLess
    <3> QED BY <1>1, <3>4, LessKeeps
  <2> QED BY <2>1, <2>2
<1>4. /\ pc' \in [Node -> Labels] /\ m_runing' \in [Node -> BOOLEAN]
      /\ m_master_broker_sock' \in [Node -> Conn \cup {NULL}]
      /\ \A m \in Node : pc'[m] = "start" => pc[m] = "start"
  BY <1>1 DEF NodeTypeInv, Labels, OpenTimesOut, CloseStarts
<1> QED BY <1>2, <1>3, <1>4, ThreadKeeps

\* The network breaks it.
LEMMA ConnectionLostKeeps ==
    ASSUME NEW lasting \in BOOLEAN, RpcInv(lasting), NEW c \in Conn, ConnectionLost(c)
    PROVE  NodeInv(lasting)' /\ LinkInv(lasting)'
<1>1. /\ Up(c) /\ Break(c, toBroker, toNode)
      /\ UNCHANGED <<session, node_sockets, service2nodeId, m_for_allocID, m_node_info, pc, m_runing,
                     m_nodeId, m_master_broker_sock, m_broker_data, m_rpcTmpCallBack,
                     gCallBackIDGen, reconnectTimers, owner, calls, served>>
  BY DEF ConnectionLost, brokerVars, rpcVars, nodeVars
<1>2. toNode \in Queues(ForNode) /\ OwnerInv /\ LinkInv(lasting) /\ NodeTypeInv
  BY DEF RpcInv, LinkInv, QueueTypeInv, NodeInv
<1>3. LessUnderWay
  BY <1>1, BrokenIsLess
<1>4. NodeInv(lasting)'
  BY <1>1, <1>2, ThreadKeeps DEF NodeTypeInv
<1> QED BY <1>2, <1>3, <1>4, LessKeeps

\* A message arrives at a node on one of its links.
LEMMA ArrivesIs ==
    ASSUME NEW lasting \in BOOLEAN, RpcInv(lasting), NEW n \in Node, NEW l \in Link, NEW cmd, Arrives(n, l, cmd),
           NEW q, q = Taken(toNode, l)
    PROVE  /\ pc[n] # "start" /\ toNode[l] # <<>> /\ Head(toNode[l]).cmd = cmd
           /\ l \in Conn => owner[l] = n /\ n # NoOne
           /\ l \notin Conn => l \in InProc /\ l = n
           /\ Head(toNode[l]) \in ForNode /\ Head(toNode[l]) \in Messages(toNode[l])
           /\ q \in Queues(ForNode) /\ q[l] = Tail(toNode[l])
           /\ \A d \in Link \ {l} : q[d] = toNode[d]
           /\ \A d \in Link : Messages(q[d]) \subseteq Messages(toNode[d])
           /\ \A m \in Messages(toNode[l]) : m = Head(toNode[l]) \/ m \in Messages(q[l])
           /\ \A d \in Conn : nodeEnd[d] = "none" => q[d] = <<>>
<1>1. toNode \in Queues(ForNode) /\ OwnerInv
  BY DEF RpcInv, LinkInv, QueueTypeInv
<1>2. pc[n] # "start" /\ toNode[l] # <<>> /\ Head(toNode[l]).cmd = cmd /\ l \in LinksOf(n)
  BY DEF Arrives, Alive
<1>3. /\ Head(toNode[l]) \in ForNode /\ Head(toNode[l]) \in Messages(toNode[l])
      /\ q \in Queues(ForNode) /\ q[l] = Tail(toNode[l])
      /\ \A d \in Link \ {l} : q[d] = toNode[d]
      /\ Messages(q[l]) \subseteq Messages(toNode[l])
      /\ \A m \in Messages(toNode[l]) : m = Head(toNode[l]) \/ m \in Messages(q[l])
  BY <1>1, <1>2, TakenQueue
<1>4. \A d \in Link : Messages(q[d]) \subseteq Messages(toNode[d])
  BY <1>3
<1>5. \A d \in Conn : nodeEnd[d] = "none" => q[d] = <<>>
  BY <1>1, <1>2, <1>3 DEF OwnerInv, Link
<1>6. (l \in Conn => owner[l] = n /\ n # NoOne) /\ (l \notin Conn => l \in InProc /\ l = n)
  BY <1>2 DEF LinksOf, Link
<1> QED BY <1>2, <1>3, <1>4, <1>5, <1>6

\* A registration is refused.
LEMMA RefusedKeeps ==
    ASSUME NEW lasting \in BOOLEAN, RpcInv(lasting), NEW n \in Node, NEW c \in Conn, UNCHANGED registryVars, RegistrationRefused(n, c)
    PROVE  NodeInv(lasting)' /\ LinkInv(lasting)'
<1> DEFINE q == Taken(toNode, c)
           s == m_master_broker_sock[n]
<1>1. NodeTypeInv /\ LinkInv(lasting) /\ OwnerInv /\ QueueTypeInv /\ s \in Conn
  BY DEF RpcInv, NodeInv, LinkInv, NodeTypeInv, RegistrationRefused
<1>2. /\ UNCHANGED <<pc, m_runing, m_nodeId, m_broker_data, m_rpcTmpCallBack, gCallBackIDGen,
                     reconnectTimers, owner, calls, m_for_allocID, service2nodeId, m_node_info,
                     session, served>>
      /\ m_master_broker_sock' = [m_master_broker_sock EXCEPT ![n] = NULL]
  BY DEF RegistrationRefused, registryVars
<1>3. Arrives(n, c, "REGISTER_TO_BROKER_RET") /\ Head(toNode[c]).registerFlag = -1 /\ c \in Link
  BY DEF RegistrationRefused, Link
<1>4. /\ Head(toNode[c]) \in Messages(toNode[c]) /\ Head(toNode[c]).cmd = "REGISTER_TO_BROKER_RET"
      /\ q \in Queues(ForNode) /\ \A d \in Link \ {c} : q[d] = toNode[d]
      /\ \A d \in Link : Messages(q[d]) \subseteq Messages(toNode[d])
      /\ \A d \in Conn : nodeEnd[d] = "none" => q[d] = <<>>
  BY <1>3, ArrivesIs
<1>5. session[c].nodeId = 0
  BY <1>1, <1>3, <1>4 DEF LinkInv, RegisterInv
<1>6. \A d \in Conn : d \in Link /\ (session[d].nodeId # 0 => q[d] = toNode[d])
  BY <1>4, <1>5 DEF Link
<1>7. LessUnderWay
  <2>1. CASE Up(s)
    <3>1. Break(s, toBroker, q)
      BY <2>1 DEF RegistrationRefused
    <3> HIDE DEF q, s
    <3>2. /\ QueueTypeInv'
          /\ \A l \in Link : Messages(toNode'[l]) \subseteq Messages(toNode[l])
          /\ \A l \in Link : \A i \in DOMAIN toBroker'[l] :
                 i \in DOMAIN toBroker[l] /\ toBroker'[l][i] = toBroker[l][i]
          /\ \A d \in Conn : /\ nodeEnd'[d] = "none" <=> nodeEnd[d] = "none"
                             /\ nodeEnd'[d] = "none" => toNode'[d] = <<>>
                             /\ Up(d)' => /\ Up(d) /\ toNode'[d] = q[d]
      BY <1>1, <1>4, <2>1, <3>1, BreakLeaves
    <3>3. \A d \in Conn : /\ owner'[d] \in {owner[d], NoOne}
                          /\ owner'[d] = NoOne <=> nodeEnd'[d] = "none"
                          /\ owner'[d] = NoOne => toNode'[d] = <<>>
      BY <1>1, <1>2, <3>2 DEF OwnerInv
    <3>4. \A d \in Conn : Up(d)' /\ owner'[d] # NoOne /\ session[d].nodeId # 0 =>
                             Up(d) /\ toNode'[d] = toNode[d]
      BY <1>6, <3>2
    <3> QED BY <1>2, <3>2, <3>3, <3>4 DEF LessUnderWay
  <2>2. CASE ~Up(s)
    <3>1. toNode' = q /\ UNCHANGED <<brokerEnd, nodeEnd, toBroker>>
      BY <2>2 DEF RegistrationRefused
    <3> HIDE DEF q, s
    <3>2. QueueTypeInv' /\ \A d \in Conn : Up(d)' => Up(d)
      BY <1>1, <1>4, <3>1 DEF QueueTypeInv, Up
    <3> QED BY <1>1, <1>2, <1>4, <1>6, <3>1, <3>2 DEF LessUnderWay, OwnerInv
  <2> QED BY <2>1, <2>2
<1>8. m_master_broker_sock' \in [Node -> Conn \cup {NULL}] /\ pc' \in [Node -> Labels]
      /\ m_runing' \in [Node -> BOOLEAN]
  BY <1>1, <1>2 DEF NodeTypeInv
<1>9. NodeInv(lasting)'
  BY <1>2, <1>8, ThreadKeeps
<1> QED BY <1>1, <1>7, <1>9, LessKeeps

\* The BROKEN event.
LEMMA NodeBrokenKeeps ==
    ASSUME NEW lasting \in BOOLEAN, RpcInv(lasting), NEW n \in Node, NEW c \in Conn, UNCHANGED registryVars, HandleNodeBroken(n, c)
    PROVE  NodeInv(lasting)' /\ LinkInv(lasting)'
<1>1. /\ NodeTypeInv /\ CallTypeInv /\ OneWayInv /\ IdInv(lasting) /\ LinkInv(lasting) /\ OwnerInv /\ QueueTypeInv
      /\ nodeEnd \in [Conn -> Ends]
  BY DEF RpcInv, NodeInv, LinkInv, IInv, RegistryTypeOK
<1>2. UNCHANGED <<pc, m_runing, m_nodeId, m_broker_data, m_rpcTmpCallBack, gCallBackIDGen, calls,
                  m_for_allocID, service2nodeId, m_node_info, session, served, brokerEnd, toBroker,
                  toNode>>
  BY DEF HandleNodeBroken, registryVars
<1>3. /\ pc[n] # "start" /\ owner[c] = n /\ nodeEnd[c] = "broken" /\ toNode[c] = <<>>
      /\ nodeEnd' = [nodeEnd EXCEPT ![c] = "none"] /\ owner' = [owner EXCEPT ![c] = NoOne]
      /\ m_master_broker_sock' = [m_master_broker_sock EXCEPT ![n] = NULL]
      /\ \E k \in {reconnectTimers[n], reconnectTimers[n] + 1} :
            reconnectTimers' = [reconnectTimers EXCEPT ![n] = k]
  BY DEF HandleNodeBroken, Alive
<1>4. reconnectTimers[n] = 0 /\ n # NoOne
  BY <1>1, <1>3 DEF OneWayInv, NodeTypeInv
<1>5. NodeTypeInv'
  <2>1. owner' \in [Conn -> Node \cup {NoOne}]
    BY <1>1, <1>3 DEF NodeTypeInv
  <2>2. reconnectTimers' \in [Node -> 0..1]
    BY <1>1, <1>3, <1>4 DEF NodeTypeInv
  <2> QED BY <1>1, <1>2, <1>3, <2>1, <2>2 DEF NodeTypeInv
<1>6. OneWayInv'
  <2>1. owner'[c] = NoOne /\ \A d \in Conn \ {c} : owner'[d] = owner[d] /\ owner[d] # n
    BY <1>1, <1>3, <1>4 DEF OneWayInv, NodeTypeInv
  <2>2. \A m \in Node \ {n} : reconnectTimers'[m] = reconnectTimers[m]
    BY <1>1, <1>3 DEF NodeTypeInv
  <2> QED BY <1>1, <1>2, <1>3, <1>4, <2>1, <2>2 DEF OneWayInv
<1>7. CallTypeInv' /\ IdInv(lasting)'
  BY <1>1, <1>2 DEF CallTypeInv, IdInv
<1>8. LessUnderWay
  <2>1. QueueTypeInv' /\ (\A d \in Conn : Up(d)' => Up(d)) /\ (\A d \in Conn : d \in Link)
    BY <1>1, <1>2, <1>3 DEF QueueTypeInv, Up, Link
  <2>2. \A d \in Conn : /\ owner'[d] \in {owner[d], NoOne}
                        /\ owner'[d] = NoOne <=> nodeEnd'[d] = "none"
                        /\ owner'[d] = NoOne => toNode'[d] = <<>>
    BY <1>1, <1>2, <1>3 DEF OwnerInv, NodeTypeInv
  <2> QED BY <1>2, <2>1, <2>2 DEF LessUnderWay
<1> QED BY <1>1, <1>5, <1>6, <1>7, <1>8, LessKeeps DEF NodeInv

\* The node's process ends and is started again.
LEMMA RestartKeeps ==
    ASSUME NEW lasting \in BOOLEAN, RpcInv(lasting), NEW n \in Node, UNCHANGED registryVars, ProcessRestarts(n)
    PROVE  NodeInv(lasting)' /\ LinkInv(lasting)'
<1>1. /\ NodeTypeInv /\ CallTypeInv /\ OneWayInv /\ IdInv(lasting) /\ LinkInv(lasting) /\ OwnerInv /\ QueueTypeInv
      /\ nodeEnd \in [Conn -> Ends] /\ brokerEnd \in [Conn -> Ends] /\ m_for_allocID \in Nat
      /\ \A d \in Conn : d \in Link
  BY DEF RpcInv, NodeInv, LinkInv, IInv, RegistryTypeOK, Link
<1>2. /\ pc' = [pc EXCEPT ![n] = "start"] /\ m_runing' = [m_runing EXCEPT ![n] = FALSE]
      /\ m_nodeId' = [m_nodeId EXCEPT ![n] = 0]
      /\ m_master_broker_sock' = [m_master_broker_sock EXCEPT ![n] = NULL]
      /\ m_broker_data' = [m_broker_data EXCEPT ![n] = Empty]
      /\ m_rpcTmpCallBack' = [m_rpcTmpCallBack EXCEPT ![n] = {}]
      /\ gCallBackIDGen' = [gCallBackIDGen EXCEPT ![n] = 0]
      /\ reconnectTimers' = [reconnectTimers EXCEPT ![n] = 0]
      /\ UNCHANGED <<session, m_node_info, calls, served, service2nodeId, m_for_allocID>>
  BY DEF ProcessRestarts, registryVars
<1>3. /\ owner' \in [Conn -> Node \cup {NoOne}]
      /\ \A d \in Conn : owner'[d] # n /\ owner'[d] \in {owner[d], NoOne}
      /\ \A d \in Conn : owner'[d] = NoOne <=> nodeEnd'[d] = "none"
      /\ \A d \in Conn : owner'[d] = NoOne => toNode'[d] = <<>>
      /\ \A d \in Conn : owner'[d] # NoOne => toNode'[d] = toNode[d] /\ (Up(d)' => Up(d))
      /\ QueueTypeInv'
      /\ \A l \in Link : Messages(toNode'[l]) \subseteq Messages(toNode[l])
      /\ \A l \in Link : \A i \in DOMAIN toBroker'[l] :
             i \in DOMAIN toBroker[l] /\ toBroker'[l][i] = toBroker[l][i]
  <2>1. CASE \A c \in Conn : owner[c] # n
    <3>1. UNCHANGED <<brokerEnd, nodeEnd, toBroker, toNode, owner>>
      BY <2>1 DEF ProcessRestarts
    <3> QED BY <1>1, <2>1, <3>1 DEF NodeTypeInv, OwnerInv, QueueTypeInv, Up
  <2>2. CASE \E c \in Conn : owner[c] = n /\ Abandon(c) /\ owner' = [owner EXCEPT ![c] = NoOne]
    <3>1. PICK c \in Conn : owner[c] = n /\ Abandon(c) /\ owner' = [owner EXCEPT ![c] = NoOne]
      BY <2>2
    <3>2. n # NoOne /\ \A d \in Conn \ {c} : owner[d] # n
      BY <1>1, <3>1 DEF OneWayInv, NodeTypeInv
    <3>3. /\ owner' \in [Conn -> Node \cup {NoOne}] /\ owner'[c] = NoOne
          /\ \A d \in Conn \ {c} : owner'[d] = owner[d]
      BY <1>1, <3>1 DEF NodeTypeInv
    <3>4. /\ nodeEnd' = [nodeEnd EXCEPT ![c] = "none"]
          /\ brokerEnd' = [brokerEnd EXCEPT ![c] = IF @ = "open" THEN "broken" ELSE @]
          /\ toBroker' \in Truncated(toBroker, c) /\ toNode' = [toNode EXCEPT ![c] = <<>>]
      BY <3>1 DEF Abandon
    <3>5. /\ nodeEnd'[c] = "none" /\ \A d \in Conn \ {c} : /\ nodeEnd'[d] = nodeEnd[d]
                                                          /\ brokerEnd'[d] = brokerEnd[d]
      BY <1>1, <3>4
    <3>6. \A d \in Conn \ {c} : Up(d)' => Up(d)
      BY <3>5 DEF Up
    <3>7. toBroker \in Queues(ForBroker) /\ toNode \in Queues(ForNode)
      BY <1>1 DEF QueueTypeInv
    <3>8. /\ toBroker' \in Queues(ForBroker) /\ \A d \in Link \ {c} : toBroker'[d] = toBroker[d]
          /\ \A i \in DOMAIN toBroker'[c] : i \in DOMAIN toBroker[c] /\ toBroker'[c][i] = toBroker[c][i]
      BY <1>1, <3>4, <3>7, TruncatedQueue
    <3>9. /\ toNode' \in Queues(ForNode) /\ toNode'[c] = <<>>
          /\ \A d \in Link \ {c} : toNode'[d] = toNode[d]
      BY <1>1, <3>4, <3>7 DEF Queues
    <3>10. Messages(toNode'[c]) = {}
      BY <3>9 DEF Messages
    <3>11. /\ QueueTypeInv'
           /\ \A l \in Link : Messages(toNode'[l]) \subseteq Messages(toNode[l])
           /\ \A l \in Link : \A i \in DOMAIN toBroker'[l] :
                  i \in DOMAIN toBroker[l] /\ toBroker'[l][i] = toBroker[l][i]
      BY <3>8, <3>9, <3>10 DEF QueueTypeInv
    <3> QED BY <1>1, <3>2, <3>3, <3>5, <3>6, <3>9, <3>11 DEF OwnerInv
  <2> QED BY <2>1, <2>2 DEF ProcessRestarts
<1>4. LessUnderWay
  <2>1. \A m \in Node : m # n => m_nodeId'[m] = m_nodeId[m] /\ m_broker_data'[m] = m_broker_data[m]
    BY <1>1, <1>2 DEF NodeTypeInv
  <2>2. m_broker_data'[n] = Empty
    BY <1>1, <1>2 DEF NodeTypeInv
  <2>3. \A d \in Conn : owner'[d] # NoOne => owner'[d] = owner[d] /\ owner[d] \in Node /\ owner[d] # n
    BY <1>3
  <2> QED BY <1>1, <1>2, <1>3, <2>1, <2>2, <2>3 DEF LessUnderWay
<1>5. NodeTypeInv'
  <2> QED BY <1>1, <1>2, <1>3, EmptyRegistry DEF NodeTypeInv, Labels
<1>6. CallTypeInv'
  BY <1>1, <1>2 DEF CallTypeInv
<1>7. OneWayInv'
  <2>1. reconnectTimers'[n] = 0 /\ \A m \in Node \ {n} : /\ reconnectTimers'[m] = reconnectTimers[m]
                                                         /\ pc'[m] = pc[m]
    BY <1>1, <1>2 DEF NodeTypeInv
  <2> QED BY <1>1, <1>3, <2>1 DEF OneWayInv, NodeTypeInv
<1>8. IdInv(lasting)'
  BY <1>1, <1>2 DEF IdInv, NodeTypeInv
<1> QED BY <1>1, <1>4, <1>5, <1>6, <1>7, <1>8, LessKeeps DEF NodeInv

\* The node that calls a service that it does not know.
LEMMA CallFailsKeeps ==
    ASSUME NEW lasting \in BOOLEAN, RpcInv(lasting), NEW n \in Node, NEW service, NEW kind, UNCHANGED registryVars,
           CallWithoutService(n, service, kind)
    PROVE  NodeInv(lasting)' /\ LinkInv(lasting)'
<1>1. /\ UNCHANGED <<netVars, m_node_info, nodeVars, owner, served, service2nodeId, m_for_allocID>>
      /\ calls' = calls + 1
  BY DEF CallWithoutService, registryVars
<1>2. NodeTypeInv /\ CallTypeInv /\ OneWayInv /\ IdInv(lasting) /\ LinkInv(lasting)
  BY DEF RpcInv, NodeInv
<1>3. LinkInv(lasting)'
  BY <1>1, <1>2, LinksAlone DEF nodeVars
<1>4. NodeTypeInv' /\ OneWayInv' /\ IdInv(lasting)'
  BY <1>1, <1>2 DEF NodeTypeInv, OneWayInv, IdInv, nodeVars
<1>5. CallTypeInv'
  <2>1. /\ m_rpcTmpCallBack \in [Node -> SUBSET [id : Nat, tag : Nat]]
        /\ UNCHANGED <<gCallBackIDGen, m_rpcTmpCallBack>>
    BY <1>1, <1>2 DEF CallTypeInv, nodeVars
  <2> QED BY <1>1, <1>2, <2>1, CallsStill
<1> QED BY <1>3, <1>4, <1>5 DEF NodeInv

\* A node connects: it has no other connection, and its registration is the first message.
LEMMA ConnectKeeps ==
    ASSUME NEW lasting \in BOOLEAN, RpcInv(lasting), NEW n \in Node, \A c \in Conn : owner[c] # n, connectToBroker(n),
           UNCHANGED <<service2nodeId, m_for_allocID, m_node_info, m_nodeId, m_broker_data, served>>
    PROVE  /\ LinkInv(lasting)'
           /\ m_master_broker_sock' \in [Node -> Conn \cup {NULL}]
           /\ owner' \in [Conn -> Node \cup {NoOne}]
           /\ \A c, d \in Conn : owner'[c] = owner'[d] /\ owner'[c] # NoOne => c = d
           /\ \A m \in Node \ {n} : (\A c \in Conn : owner[c] # m) => \A c \in Conn : owner'[c] # m
<1>1. /\ NodeTypeInv /\ OneWayInv /\ LinkInv(lasting) /\ OwnerInv /\ QueueTypeInv /\ RegisterInv(lasting)
      /\ nodeEnd \in [Conn -> Ends] /\ brokerEnd \in [Conn -> Ends] /\ DOMAIN session = Conn
      /\ n # NoOne /\ \A d \in Conn : d \in Link
  BY DEF RpcInv, NodeInv, LinkInv, IInv, RegistryTypeOK, Link
<1> DEFINE req == RegisterReq("RPC_NODE", ServiceOf[n])
<1>2. PICK c \in Conn : /\ Connect(c, <<req>>) /\ owner' = [owner EXCEPT ![c] = n]
                        /\ m_master_broker_sock' = [m_master_broker_sock EXCEPT ![n] = c]
  BY DEF connectToBroker
<1>3. /\ req \in ForBroker /\ req.cmd = "REGISTER_TO_BROKER_REQ" /\ req.strServiceName = ServiceOf[n]
  BY DEF RegisterReq, RegisterReqs, ForBroker, Service
<1> HIDE DEF req
<1>4. /\ nodeEnd[c] = "none" /\ brokerEnd' = [brokerEnd EXCEPT ![c] = "open"]
      /\ nodeEnd' = [nodeEnd EXCEPT ![c] = "open"] /\ toBroker' = [toBroker EXCEPT ![c] = <<req>>]
      /\ toNode' = [toNode EXCEPT ![c] = <<>>] /\ session' = [session EXCEPT ![c] = NoSession]
  BY <1>2 DEF Connect
<1>5. /\ nodeEnd'[c] = "open" /\ session'[c].nodeId = 0 /\ owner'[c] = n
      /\ \A d \in Conn \ {c} : /\ nodeEnd'[d] = nodeEnd[d] /\ brokerEnd'[d] = brokerEnd[d]
                               /\ session'[d] = session[d] /\ owner'[d] = owner[d]
                               /\ Up(d)' => Up(d)
  BY <1>1, <1>2, <1>4, NoSessionIs DEF NodeTypeInv, Up
<1>6. /\ toBroker' \in Queues(ForBroker) /\ toNode' \in Queues(ForNode)
      /\ toBroker'[c] = <<req>> /\ toNode'[c] = <<>>
      /\ \A l \in Link \ {c} : toBroker'[l] = toBroker[l] /\ toNode'[l] = toNode[l]
  <2>1. <<req>> \in Seq(ForBroker) /\ <<>> \in Seq(ForNode)
    BY <1>3
  <2> QED BY <1>1, <1>4, <2>1 DEF QueueTypeInv, Queues
<1>7. Messages(toNode'[c]) = {} /\ Messages(toBroker'[c]) = {req} /\ DOMAIN toBroker'[c] = {1}
      /\ toBroker'[c][1] = req
  BY <1>6 DEF Messages
<1>8. QueueTypeInv' /\ TableTypeInv' /\ ServedInv(lasting)'
  BY <1>1, <1>6 DEF LinkInv, QueueTypeInv, TableTypeInv, ServedInv, CallsReachTheirService
<1>9. OwnerInv'
  BY <1>1, <1>5, <1>6 DEF OwnerInv
<1>10. RegisterInv(lasting)'
  <2> SUFFICES ASSUME NEW d \in Conn
               PROVE  /\ \A i \in DOMAIN toBroker'[d] : toBroker'[d][i].cmd = "REGISTER_TO_BROKER_REQ" =>
                             /\ i = 1 /\ session'[d].nodeId = 0 /\ toNode'[d] = <<>>
                             /\ owner'[d] # NoOne => toBroker'[d][i].strServiceName = ServiceOf[owner'[d]]
                      /\ session'[d].nodeId # 0 /\ owner'[d] # NoOne =>
                             session'[d].strServiceName = ServiceOf[owner'[d]]
                      /\ \A m \in Messages(toNode'[d]) : m.cmd = "REGISTER_TO_BROKER_RET" =>
                             /\ m.registerFlag = -1 => session'[d].nodeId = 0
                             /\ m.registerFlag = 1 /\ session'[d].nodeId # 0 => m.nodeId = session'[d].nodeId
                             /\ m.registerFlag = 1 /\ lasting => session'[d].nodeId # 0
    BY DEF RegisterInv
  <2>1. CASE d = c
    BY <1>3, <1>5, <1>6, <1>7, <2>1
  <2>2. CASE d # c
    <3>1. /\ toBroker'[d] = toBroker[d] /\ toNode'[d] = toNode[d]
          /\ session'[d] = session[d] /\ owner'[d] = owner[d]
      BY <1>1, <1>5, <1>6, <2>2
    <3> QED BY <1>1, <3>1 DEF RegisterInv
  <2> QED BY <2>1, <2>2
<1>11. BindingsInv(lasting)' /\ MemoryInv(lasting)'
  <2>1. \A l \in Link : Messages(toNode'[l]) \subseteq Messages(toNode[l])
    BY <1>6, <1>7
  <2>2. \A l \in Link : Calls(Messages(toBroker'[l])) \subseteq Calls(Messages(toBroker[l]))
    <3>1. Calls({req}) = {}
      BY <1>3 DEF Calls, AsksFor
    <3> QED BY <1>6, <1>7, <3>1
  <2>3. /\ \A n_1 \in Node : Pairs(m_broker_data'[n_1]) \subseteq Bindings
        /\ \A l \in Link : Copies(Messages(toNode'[l])) \subseteq Bindings
        /\ \A l \in Link : Calls(Messages(toBroker'[l])) \subseteq Bindings
    BY <2>1, <2>2, BindingsAre, FewerMessages
  <2>4. \A d \in Conn : session'[d] = session[d] \/ session'[d].nodeId = 0
    BY <1>5
  <2> QED BY <1>1, <2>3, <2>4, NothingNew DEF LinkInv
<1>12. RouteInv(lasting)'
  <2>1. \A d \in Conn : owner'[d] = owner[d] \/ Messages(toNode'[d]) = {}
    BY <1>5, <1>7
  <2>2. \A l \in Link : \A m \in Messages(toNode'[l]) : IsCall(m) => m \in Messages(toNode[l])
    BY <1>6, <1>7
  <2> QED BY <1>1, <2>1, <2>2, RoutesStill DEF LinkInv
<1>13. \A d \in Conn : Up(d)' /\ owner'[d] # NoOne /\ session'[d].nodeId # 0 =>
           /\ Up(d) /\ owner'[d] = owner[d] /\ session'[d] = session[d] /\ toNode'[d] = toNode[d]
           /\ m_nodeId'[owner[d]] = m_nodeId[owner[d]]
           /\ m_broker_data'[owner[d]] = m_broker_data[owner[d]]
  BY <1>1, <1>5, <1>6
<1>14. IdsAgree'
  BY <1>1, <1>8, <1>13, IdsAgreeStill DEF LinkInv
<1>15. NodesLearnTheRegistry'
  BY <1>1, <1>13, NodesLearnStill DEF LinkInv
<1>16. LinkInv(lasting)'
  BY <1>8, <1>9, <1>10, <1>11, <1>12, <1>14, <1>15 DEF LinkInv
<1>17. /\ m_master_broker_sock' \in [Node -> Conn \cup {NULL}]
       /\ owner' \in [Conn -> Node \cup {NoOne}]
  BY <1>1, <1>2 DEF NodeTypeInv
<1>18. \A x, y \in Conn : owner'[x] = owner'[y] /\ owner'[x] # NoOne => x = y
  BY <1>1, <1>5 DEF OneWayInv
<1>19. \A m \in Node \ {n} : (\A x \in Conn : owner[x] # m) => \A x \in Conn : owner'[x] # m
  BY <1>5
<1> QED BY <1>16, <1>17, <1>18, <1>19

\* open() connects.
LEMMA OpenConnectsKeeps ==
    ASSUME NEW lasting \in BOOLEAN, RpcInv(lasting), NEW n \in Node, UNCHANGED registryVars, OpenConnects(n)
    PROVE  NodeInv(lasting)' /\ LinkInv(lasting)'
<1>1. NodeTypeInv /\ CallTypeInv /\ OneWayInv /\ IdInv(lasting)
  BY DEF RpcInv, NodeInv
<1>2. /\ pc[n] = "start" /\ connectToBroker(n) /\ pc' = [pc EXCEPT ![n] = "polling"]
      /\ UNCHANGED <<m_node_info, m_runing, m_nodeId, m_broker_data, m_rpcTmpCallBack,
                     gCallBackIDGen, reconnectTimers, calls, served, service2nodeId, m_for_allocID>>
  BY DEF OpenConnects, registryVars
<1>3. \A c \in Conn : owner[c] # n
  BY <1>1, <1>2 DEF OneWayInv
<1>4. /\ LinkInv(lasting)'
      /\ m_master_broker_sock' \in [Node -> Conn \cup {NULL}] /\ owner' \in [Conn -> Node \cup {NoOne}]
      /\ \A c, d \in Conn : owner'[c] = owner'[d] /\ owner'[c] # NoOne => c = d
      /\ \A m \in Node \ {n} : (\A c \in Conn : owner[c] # m) => \A c \in Conn : owner'[c] # m
  BY <1>2, <1>3, ConnectKeeps
<1>5. NodeTypeInv' /\ CallTypeInv' /\ IdInv(lasting)'
  BY <1>1, <1>2, <1>4 DEF NodeTypeInv, CallTypeInv, IdInv, Labels
<1>6. OneWayInv'
  <2>1. pc'[n] # "start" /\ reconnectTimers'[n] = 0 /\ \A m \in Node \ {n} : pc'[m] = pc[m]
    BY <1>1, <1>2 DEF NodeTypeInv, OneWayInv
  <2> QED BY <1>1, <1>2, <1>4, <2>1 DEF OneWayInv
<1> QED BY <1>4, <1>5, <1>6 DEF NodeInv

\* The timer.
LEMMA TimerKeeps ==
    ASSUME NEW lasting \in BOOLEAN, RpcInv(lasting), NEW n \in Node, UNCHANGED registryVars, timerReconnectBroker(n)
    PROVE  NodeInv(lasting)' /\ LinkInv(lasting)'
<1>1. NodeTypeInv /\ CallTypeInv /\ OneWayInv /\ IdInv(lasting) /\ LinkInv(lasting)
  BY DEF RpcInv, NodeInv
<1>2. /\ pc[n] # "start" /\ reconnectTimers[n] > 0
      /\ reconnectTimers' = [reconnectTimers EXCEPT ![n] = @ - 1]
      /\ UNCHANGED <<m_node_info, pc, m_runing, m_nodeId, m_broker_data, m_rpcTmpCallBack,
                     gCallBackIDGen, calls, served, service2nodeId, m_for_allocID>>
      /\ connectToBroker(n) \/ UNCHANGED <<netVars, m_master_broker_sock, owner>>
  BY DEF timerReconnectBroker, Alive, registryVars
<1>3. \A c \in Conn : owner[c] # n
  BY <1>1, <1>2 DEF OneWayInv, NodeTypeInv
<1>4. /\ LinkInv(lasting)'
      /\ m_master_broker_sock' \in [Node -> Conn \cup {NULL}] /\ owner' \in [Conn -> Node \cup {NoOne}]
      /\ \A c, d \in Conn : owner'[c] = owner'[d] /\ owner'[c] # NoOne => c = d
      /\ \A m \in Node \ {n} : (\A c \in Conn : owner[c] # m) => \A c \in Conn : owner'[c] # m
  <2>1. CASE connectToBroker(n)
    BY <1>2, <1>3, <2>1, ConnectKeeps
  <2>2. CASE UNCHANGED <<netVars, m_master_broker_sock, owner>>
    <3>1. LinkInv(lasting)'
      BY <1>1, <1>2, <2>2, LinksAlone
    <3> QED BY <1>1, <2>2, <3>1 DEF NodeTypeInv, OneWayInv
  <2> QED BY <1>2, <2>1, <2>2
<1>5. reconnectTimers' \in [Node -> 0..1] /\ reconnectTimers'[n] = 0
      /\ \A m \in Node \ {n} : reconnectTimers'[m] = reconnectTimers[m]
  BY <1>1, <1>2 DEF NodeTypeInv
<1>6. NodeTypeInv' /\ CallTypeInv' /\ IdInv(lasting)'
  BY <1>1, <1>2, <1>4, <1>5 DEF NodeTypeInv, CallTypeInv, IdInv
<1>7. OneWayInv'
  BY <1>1, <1>2, <1>4, <1>5 DEF OneWayInv
<1> QED BY <1>4, <1>6, <1>7 DEF NodeInv

\* A message for the broker was sent, or lost.
LEMMA BrokerPut ==
    ASSUME toBroker \in Queues(ForBroker), NEW l \in Link, NEW msg \in ForBroker,
           NEW q, q = Put(toBroker, l, msg)
    PROVE  /\ q \in Queues(ForBroker) /\ \A d \in Link \ {l} : q[d] = toBroker[d]
           /\ \A i \in DOMAIN q[l] : \/ i \in DOMAIN toBroker[l] /\ q[l][i] = toBroker[l][i]
                                     \/ q[l][i] = msg
<1>1. q \in Queues(ForBroker) /\ \A d \in Link \ {l} : q[d] = toBroker[d]
  BY PutQueue
<1>2. \A i \in DOMAIN q[l] : \/ i \in DOMAIN toBroker[l] /\ q[l][i] = toBroker[l][i]
                            \/ q[l][i] = msg
  BY PutQueue
<1> QED BY <1>1, <1>2

\* And it was an answer, or a call whose binding is known.
LEMMA BrokerPutRoute ==
    ASSUME toBroker \in Queues(ForBroker), NEW l \in Link, NEW msg \in ForBroker,
           msg.cmd = "BROKER_ROUTE_MSG", NEW q, q = Put(toBroker, l, msg),
           AsksFor(msg) => <<msg.destServiceName, msg.destNodeId>> \in Bindings
    PROVE  /\ q \in Queues(ForBroker)
           /\ \A k \in Link : \A i \in DOMAIN q[k] : q[k][i].cmd = "REGISTER_TO_BROKER_REQ" =>
                  i \in DOMAIN toBroker[k] /\ q[k][i] = toBroker[k][i]
           /\ \A k \in Link : Calls(Messages(q[k])) \subseteq Bindings
<1>1. /\ q \in Queues(ForBroker) /\ \A d \in Link \ {l} : q[d] = toBroker[d]
      /\ \A i \in DOMAIN q[l] : \/ i \in DOMAIN toBroker[l] /\ q[l][i] = toBroker[l][i]
                                \/ q[l][i] = msg
  BY BrokerPut
<1>2. \A x \in Messages(q[l]) : x = msg \/ x \in Messages(toBroker[l])
  BY <1>1 DEF Messages
<1>3. Calls(Messages(q[l])) \subseteq Bindings
  <2>0. Calls(Messages(toBroker[l])) \subseteq Bindings
    BY BindingsAre
  <2>1. CASE ~AsksFor(msg)
    BY <1>2, <2>0, <2>1, OneMessageMore
  <2>2. CASE AsksFor(msg)
    <3>1. Calls(Messages(q[l]))
              \subseteq Calls(Messages(toBroker[l])) \cup {<<msg.destServiceName, msg.destNodeId>>}
      BY <1>2, <2>2, OneMessageMore
    <3> QED BY <2>0, <2>2, <3>1
  <2> QED BY <2>1, <2>2
<1>4. ASSUME NEW k \in Link, NEW i \in DOMAIN q[k], q[k][i].cmd = "REGISTER_TO_BROKER_REQ"
      PROVE  i \in DOMAIN toBroker[k] /\ q[k][i] = toBroker[k][i]
  <2>1. CASE k = l
    BY <1>1, <1>4, <2>1
  <2>2. CASE k # l
    BY <1>1, <1>4, <2>2
  <2> QED BY <2>1, <2>2
<1>5. \A k \in Link : Calls(Messages(q[k])) \subseteq Bindings
  BY <1>1, <1>3, BindingsAre
<1> QED BY <1>1, <1>4, <1>5

\* What a node sends, if anything: a call whose binding is known, or an answer.
LEMMA NodeSends ==
    ASSUME NEW lasting \in BOOLEAN, RpcInv(lasting), NEW msg \in RouteMsgs("BROKER_ROUTE_MSG"),
           AsksFor(msg) => <<msg.destServiceName, msg.destNodeId>> \in Bindings,
           toBroker' = toBroker \/ \E l \in Link : toBroker' = Put(toBroker, l, msg)
    PROVE  /\ toBroker' \in Queues(ForBroker)
           /\ \A l \in Link : \A i \in DOMAIN toBroker'[l] :
                  toBroker'[l][i].cmd = "REGISTER_TO_BROKER_REQ" =>
                      i \in DOMAIN toBroker[l] /\ toBroker'[l][i] = toBroker[l][i]
           /\ \A l \in Link : Calls(Messages(toBroker'[l])) \subseteq Bindings
<1>1. toBroker \in Queues(ForBroker)
  BY DEF RpcInv, LinkInv, QueueTypeInv
<1>2. msg \in ForBroker /\ msg.cmd = "BROKER_ROUTE_MSG"
  BY DEF RouteMsgs, ForBroker
<1>3. CASE toBroker' = toBroker
  BY <1>1, <1>3, BindingsAre
<1>4. CASE \E l \in Link : toBroker' = Put(toBroker, l, msg)
  <2>1. PICK q : q = toBroker'
    OBVIOUS
  <2>2. PICK l \in Link : q = Put(toBroker, l, msg)
    BY <1>4, <2>1
  <2>3. /\ q \in Queues(ForBroker)
        /\ \A k \in Link : \A i \in DOMAIN q[k] : q[k][i].cmd = "REGISTER_TO_BROKER_REQ" =>
               i \in DOMAIN toBroker[k] /\ q[k][i] = toBroker[k][i]
        /\ \A k \in Link : Calls(Messages(q[k])) \subseteq Bindings
    BY <1>1, <1>2, <2>2, BrokerPutRoute
  <2> QED BY <2>1, <2>3
<1> QED BY <1>3, <1>4

\* A message that is no registry is handled.
LEMMA OtherHandled ==
    ASSUME NEW lasting \in BOOLEAN, RpcInv(lasting), NEW n \in Node, NEW l \in Link, Arrives(n, l, "BROKER_TO_CLIENT_MSG"),
           toNode' = Taken(toNode, l),
           UNCHANGED <<brokerEnd, nodeEnd, session, m_node_info, m_nodeId, m_broker_data, owner,
                       service2nodeId, m_for_allocID>>,
           toBroker' \in Queues(ForBroker),
           \A k \in Link : \A i \in DOMAIN toBroker'[k] :
               toBroker'[k][i].cmd = "REGISTER_TO_BROKER_REQ" =>
                   i \in DOMAIN toBroker[k] /\ toBroker'[k][i] = toBroker[k][i],
           \A k \in Link : Calls(Messages(toBroker'[k])) \subseteq Bindings,
           ServedInv(lasting)'
    PROVE  LinkInv(lasting)'
<1> DEFINE q == Taken(toNode, l)
<1>1. /\ QueueTypeInv /\ TableTypeInv /\ OwnerInv /\ RegisterInv(lasting) /\ BindingsInv(lasting) /\ MemoryInv(lasting)
      /\ RouteInv(lasting) /\ IdsAgree /\ NodesLearnTheRegistry /\ toNode \in Queues(ForNode)
      /\ \A d \in Conn : d \in Link
  BY DEF RpcInv, LinkInv, QueueTypeInv, Link
<1>2. /\ toNode[l] # <<>> /\ Head(toNode[l]).cmd = "BROKER_TO_CLIENT_MSG"
      /\ q \in Queues(ForNode) /\ q[l] = Tail(toNode[l])
      /\ \A d \in Link \ {l} : q[d] = toNode[d]
      /\ \A d \in Link : Messages(q[d]) \subseteq Messages(toNode[d])
      /\ \A m \in Messages(toNode[l]) : m = Head(toNode[l]) \/ m \in Messages(q[l])
      /\ \A d \in Conn : nodeEnd[d] = "none" => q[d] = <<>>
  BY ArrivesIs
<1>3. toNode' = q
  OBVIOUS
<1> HIDE DEF q
<1>4. QueueTypeInv' /\ TableTypeInv' /\ OwnerInv'
  BY <1>1, <1>2, <1>3 DEF QueueTypeInv, TableTypeInv, OwnerInv
<1>5. RegisterInv(lasting)'
  <2>1. ASSUME NEW c \in Conn, toNode[c] = <<>> PROVE toNode'[c] = <<>>
    BY <1>1, <1>2, <1>3, <2>1
  <2> QED BY <1>1, <1>2, <1>3, <2>1, RegistersStill
<1>6. BindingsInv(lasting)' /\ MemoryInv(lasting)'
  <2>1. \A k \in Link : Copies(Messages(toNode'[k])) \subseteq Bindings
    BY <1>2, <1>3, BindingsAre, FewerMessages
  <2>2. \A m \in Node : Pairs(m_broker_data'[m]) \subseteq Bindings
    BY BindingsAre
  <2> QED BY <1>1, <2>1, <2>2, NothingNew
<1>7. RouteInv(lasting)'
  BY <1>1, <1>2, <1>3, RoutesStill
<1>8. \A c \in Conn : Up(c)' => Up(c)
  BY DEF Up
<1>9. IdsAgree'
  <2>1. \A c \in Conn : \A m \in Messages(toNode[c]) :
            m.cmd = "REGISTER_TO_BROKER_RET" => m \in Messages(toNode'[c])
    BY <1>1, <1>2, <1>3
  <2> QED BY <1>1, <1>4, <1>8, <2>1, IdsAgreeStill
<1>10. NodesLearnTheRegistry'
  <2> SUFFICES ASSUME NEW c \in Conn, Up(c)', owner[c] # NoOne, session[c].nodeId # 0
               PROVE  Learns(m_broker_data[owner[c]], q[c], service2nodeId)
    BY <1>3 DEF NodesLearnTheRegistry, Learns, Registrations
  <2>1. Learns(m_broker_data[owner[c]], toNode[c], service2nodeId)
    BY <1>1, <1>8 DEF NodesLearnTheRegistry
  <2>2. CASE c = l
    <3>1. toNode[l] \in Seq(ForNode)
      BY <1>1 DEF Queues
    <3> QED BY <1>2, <2>1, <2>2, <3>1, LearnsAfterOther
  <2>3. CASE c # l
    BY <1>1, <1>2, <2>1, <2>3
  <2> QED BY <2>2, <2>3
<1> QED BY <1>4, <1>5, <1>6, <1>7, <1>9, <1>10 DEF LinkInv

\* A node calls a service it knows.
LEMMA CallKeeps ==
    ASSUME NEW lasting \in BOOLEAN, RpcInv(lasting), NEW n \in Node, NEW service \in Service, NEW kind \in Kinds,
           UNCHANGED registryVars, docall(n, service, kind)
    PROVE  NodeInv(lasting)' /\ LinkInv(lasting)'
<1>1. /\ NodeTypeInv /\ CallTypeInv /\ OneWayInv /\ IdInv(lasting) /\ LinkInv(lasting) /\ QueueTypeInv /\ TableTypeInv
      /\ OwnerInv /\ RegisterInv(lasting) /\ BindingsInv(lasting) /\ MemoryInv(lasting) /\ RouteInv(lasting) /\ IdsAgree
      /\ NodesLearnTheRegistry /\ ServedInv(lasting)
  BY DEF RpcInv, NodeInv, LinkInv
<1>2. PICK callbackId : callbackId = IF kind = "tell" THEN 0 ELSE NewCallbackId(n)
  OBVIOUS
<1>3. /\ calls' = calls + 1 /\ service \in DOMAIN m_broker_data[n]
      /\ \/ UNCHANGED <<gCallBackIDGen, m_rpcTmpCallBack>>
         \/ /\ callbackId = gCallBackIDGen[n] + 1
            /\ gCallBackIDGen' = [gCallBackIDGen EXCEPT ![n] = callbackId]
            /\ m_rpcTmpCallBack' = [m_rpcTmpCallBack EXCEPT ![n] =
                                      @ \cup {[id |-> callbackId, tag |-> calls']}]
      /\ toBroker' = Sent(toBroker, n, service, kind, m_broker_data[n][service], callbackId, FALSE, calls')
      /\ UNCHANGED <<brokerEnd, nodeEnd, toNode, session, m_node_info, pc, m_runing, m_nodeId,
                     m_master_broker_sock, m_broker_data, reconnectTimers, owner, served,
                     service2nodeId, m_for_allocID>>
  BY <1>2 DEF docall, NewCallbackId, registryVars
<1>4. /\ calls \in Nat /\ gCallBackIDGen[n] \in Nat /\ calls' \in Nat /\ callbackId \in Nat
      /\ gCallBackIDGen[n] + 1 \in Nat
  BY <1>1, <1>2, <1>3 DEF CallTypeInv, NewCallbackId
<1>5. /\ service \in ServiceOrNone /\ kind \in KindOrNone /\ m_broker_data[n][service] \in Nat
      /\ <<service, m_broker_data[n][service]>> \in Bindings
  <2>1. m_broker_data[n] \in Registry /\ <<service, m_broker_data[n][service]>> \in Pairs(m_broker_data[n])
    BY <1>1, <1>3 DEF NodeTypeInv, Pairs
  <2>2. m_broker_data[n][service] \in Nat
    BY <1>3, <2>1, RegistryIs
  <2> QED BY <2>1, <2>2, BindingsAre DEF ServiceOrNone, KindOrNone
<1>6. PICK dest \in Nat : dest = m_broker_data[n][service]
  BY <1>5
<1>7. /\ toBroker' \in Queues(ForBroker)
      /\ \A l \in Link : \A i \in DOMAIN toBroker'[l] : toBroker'[l][i].cmd = "REGISTER_TO_BROKER_REQ" =>
             i \in DOMAIN toBroker[l] /\ toBroker'[l][i] = toBroker[l][i]
      /\ \A l \in Link : Calls(Messages(toBroker'[l])) \subseteq Bindings
  <2>1. PICK msg : msg = RouteMsg(service, kind, dest, m_nodeId[n], callbackId, FALSE, calls')
    OBVIOUS
  <2>2. m_nodeId[n] \in Nat /\ m_master_broker_sock[n] \in Conn \cup {NULL}
    BY <1>1 DEF NodeTypeInv
  <2>3. /\ msg \in RouteMsgs("BROKER_ROUTE_MSG")
        /\ msg.destServiceName = service /\ msg.destNodeId = dest
    BY <1>4, <1>5, <2>1, <2>2 DEF RouteMsg, RouteMsgs
  <2>4. toBroker' = toBroker \/ \E l \in Link : toBroker' = Put(toBroker, l, msg)
    BY <1>3, <1>6, <2>1, <2>2 DEF Sent, Link
  <2> QED BY <1>5, <1>6, <2>3, <2>4, NodeSends
<1>8. \A c \in Conn : c \in Link
  BY DEF Link
<1>9. LinkInv(lasting)'
  <2>1. QueueTypeInv' /\ TableTypeInv' /\ OwnerInv' /\ ServedInv(lasting)'
    BY <1>1, <1>3, <1>7 DEF QueueTypeInv, TableTypeInv, OwnerInv, ServedInv, CallsReachTheirService
  <2>2. RegisterInv(lasting)'
    <3>1. \A c \in Conn : owner'[c] \in {owner[c], NoOne} /\ toNode'[c] = toNode[c]
      BY <1>3
    <3>2. UNCHANGED session
      BY <1>3
    <3> QED BY <1>1, <1>7, <1>8, <3>1, <3>2, RegistersStill
  <2>3. RouteInv(lasting)'
    BY <1>1, <1>3, RoutesStill
  <2>4. BindingsInv(lasting)' /\ MemoryInv(lasting)'
    BY <1>1, <1>3, <1>7, BindingsAre, NothingNew
  <2>5. \A c \in Conn : Up(c)' => Up(c)
    BY <1>3 DEF Up
  <2>6. IdsAgree'
    BY <1>1, <1>3, <2>1, <2>5, IdsAgreeStill
  <2>7. NodesLearnTheRegistry'
    BY <1>1, <1>3, <2>5, NodesLearnStill
  <2> QED BY <2>1, <2>2, <2>3, <2>4, <2>6, <2>7 DEF LinkInv
<1>10. NodeTypeInv' /\ OneWayInv' /\ IdInv(lasting)'
  BY <1>1, <1>3 DEF NodeTypeInv, OneWayInv, IdInv
<1>11. CallTypeInv'
  <2>1. CASE UNCHANGED <<gCallBackIDGen, m_rpcTmpCallBack>>
    BY <1>1, <1>3, <2>1, CallsStill DEF CallTypeInv
  <2>2. CASE /\ callbackId = gCallBackIDGen[n] + 1
             /\ gCallBackIDGen' = [gCallBackIDGen EXCEPT ![n] = callbackId]
             /\ m_rpcTmpCallBack' = [m_rpcTmpCallBack EXCEPT ![n] =
                                       @ \cup {[id |-> callbackId, tag |-> calls']}]
    <3>1. PICK cb : cb = [id |-> callbackId, tag |-> calls']
      OBVIOUS
    <3>2. cb \in [id : Nat, tag : Nat] /\ cb.id = callbackId /\ cb.tag = calls'
      BY <1>4, <3>1
    <3>3. /\ callbackId \in 1..callbackId /\ calls' \in 1..calls'
          /\ \A i \in 1..gCallBackIDGen[n] : i \in 1..callbackId
          /\ \A t \in 1..calls : t \in 1..calls'
      BY <1>3, <1>4, <2>2
    <3>4. /\ gCallBackIDGen \in [Node -> Nat]
          /\ m_rpcTmpCallBack \in [Node -> SUBSET [id : Nat, tag : Nat]]
      BY <1>1 DEF CallTypeInv
    <3>5. /\ gCallBackIDGen' \in [Node -> Nat] /\ gCallBackIDGen'[n] = callbackId
          /\ \A m \in Node \ {n} : gCallBackIDGen'[m] = gCallBackIDGen[m]
      BY <1>4, <2>2, <3>4
    <3>6. /\ m_rpcTmpCallBack' \in [Node -> SUBSET [id : Nat, tag : Nat]]
          /\ m_rpcTmpCallBack'[n] = m_rpcTmpCallBack[n] \cup {cb}
          /\ \A m \in Node \ {n} : m_rpcTmpCallBack'[m] = m_rpcTmpCallBack[m]
      BY <2>2, <3>1, <3>2, <3>4
    <3>7. ASSUME NEW m \in Node, NEW x \in m_rpcTmpCallBack'[m]
          PROVE  x.id \in 1..gCallBackIDGen'[m] /\ x.tag \in 1..calls'
      <4>1. CASE x \in m_rpcTmpCallBack[m]
        BY <1>1, <3>3, <3>5, <3>7, <4>1 DEF CallTypeInv
      <4>2. CASE m = n /\ x = cb
        BY <3>2, <3>3, <3>5, <4>2
      <4> QED BY <3>6, <3>7, <4>1, <4>2
    <3> QED BY <1>4, <3>5, <3>6, <3>7 DEF CallTypeInv
  <2> QED BY <1>3, <2>1, <2>2
<1> QED BY <1>9, <1>10, <1>11 DEF NodeInv

\* A node is called.
LEMMA HandleCallKeeps ==
    ASSUME NEW lasting \in BOOLEAN, RpcInv(lasting), NEW n \in Node, NEW l \in Link, UNCHANGED registryVars, HandleCall(n, l)
    PROVE  NodeInv(lasting)' /\ LinkInv(lasting)'
<1>1. /\ NodeTypeInv /\ CallTypeInv /\ OneWayInv /\ IdInv(lasting) /\ RouteInv(lasting) /\ ServedInv(lasting)
      /\ toBroker \in Queues(ForBroker)
  BY DEF RpcInv, NodeInv, LinkInv, QueueTypeInv
<1>2. PICK msg : msg = Head(toNode[l])
  OBVIOUS
<1>3. PICK known \in BOOLEAN : known = (msg.destMsgName # "unknown")
  OBVIOUS
<1>4. Arrives(n, l, "BROKER_TO_CLIENT_MSG") /\ toNode' = Taken(toNode, l)
  BY DEF HandleCall
<1>5. msg.destServiceName # NoName
  BY <1>2, Zenon DEF HandleCall, NoName
<1>6. /\ served' \in {served, served \cup {<<msg.destServiceName, n>>}}
      /\ UNCHANGED <<brokerEnd, nodeEnd, session, m_node_info, nodeVars, owner, calls,
                     service2nodeId, m_for_allocID>>
  BY <1>2 DEF HandleCall, registryVars
<1>7. \/ toBroker' = toBroker
      \/ toBroker' = Sent(toBroker, n, NoName, NoName, msg.fromNodeId, msg.callbackId, ~known, msg.tag)
  BY <1>2, <1>3, Zenon DEF HandleCall, NoName
<1>8. /\ msg \in Messages(toNode[l]) /\ msg \in RouteMsgs("BROKER_TO_CLIENT_MSG") /\ IsCall(msg)
      /\ l \in Conn => owner[l] = n
      /\ l \notin Conn => l \in InProc /\ l = n
  <2>1. /\ msg \in ForNode /\ msg \in Messages(toNode[l]) /\ msg.cmd = "BROKER_TO_CLIENT_MSG"
        /\ l \in Conn => owner[l] = n
        /\ l \notin Conn => l \in InProc /\ l = n
    BY <1>2, <1>4, ArrivesIs
  <2> QED BY <1>5, <2>1, MessageKinds DEF IsCall
<1>9. /\ msg.fromNodeId \in Nat /\ msg.callbackId \in Nat /\ msg.tag \in Nat
  BY <1>8, MessageFields
<1>10. /\ toBroker' \in Queues(ForBroker)
       /\ \A k \in Link : \A i \in DOMAIN toBroker'[k] : toBroker'[k][i].cmd = "REGISTER_TO_BROKER_REQ" =>
              i \in DOMAIN toBroker[k] /\ toBroker'[k][i] = toBroker[k][i]
       /\ \A k \in Link : Calls(Messages(toBroker'[k])) \subseteq Bindings
  <2>1. PICK answer : answer = RouteMsg(NoName, NoName, msg.fromNodeId, m_nodeId[n], msg.callbackId,
                                         ~known, msg.tag)
    OBVIOUS
  <2>2. m_nodeId[n] \in Nat /\ m_master_broker_sock[n] \in Conn \cup {NULL}
    BY <1>1 DEF NodeTypeInv
  <2>3. NoName \in ServiceOrNone /\ NoName \in KindOrNone
    BY DEF ServiceOrNone, KindOrNone
  <2>4. answer \in RouteMsgs("BROKER_ROUTE_MSG") /\ ~AsksFor(answer)
    BY <1>9, <2>1, <2>2, <2>3 DEF RouteMsg, RouteMsgs, AsksFor
  <2>5. toBroker' = toBroker \/ \E k \in Link : toBroker' = Put(toBroker, k, answer)
    BY <1>7, <2>1, <2>2 DEF Sent, Link
  <2> QED BY <2>4, <2>5, NodeSends
<1>11. ServedInv(lasting)'
  <2>1. lasting => msg.destServiceName = ServiceOf[n]
    BY <1>1, <1>8 DEF RouteInv
  <2> QED BY <1>1, <1>6, <2>1 DEF ServedInv, CallsReachTheirService
<1>12. LinkInv(lasting)'
  BY <1>4, <1>6, <1>10, <1>11, OtherHandled DEF nodeVars
<1>13. NodeTypeInv' /\ CallTypeInv' /\ OneWayInv' /\ IdInv(lasting)'
  BY <1>1, <1>6 DEF NodeTypeInv, CallTypeInv, OneWayInv, IdInv, nodeVars
<1> QED BY <1>12, <1>13 DEF NodeInv

\* A node is answered.
LEMMA HandleAnswerKeeps ==
    ASSUME NEW lasting \in BOOLEAN, RpcInv(lasting), NEW n \in Node, NEW l \in Link, UNCHANGED registryVars, HandleAnswer(n, l)
    PROVE  NodeInv(lasting)' /\ LinkInv(lasting)'
<1>1. /\ NodeTypeInv /\ CallTypeInv /\ OneWayInv /\ IdInv(lasting) /\ ServedInv(lasting)
      /\ toBroker \in Queues(ForBroker)
  BY DEF RpcInv, NodeInv, LinkInv, QueueTypeInv
<1>2. /\ Arrives(n, l, "BROKER_TO_CLIENT_MSG") /\ toNode' = Taken(toNode, l)
      /\ \E found : m_rpcTmpCallBack' = [m_rpcTmpCallBack EXCEPT ![n] = @ \ found]
      /\ UNCHANGED <<brokerEnd, nodeEnd, toBroker, session, m_node_info, pc, m_runing, m_nodeId,
                     m_master_broker_sock, m_broker_data, gCallBackIDGen, reconnectTimers, owner,
                     calls, served, service2nodeId, m_for_allocID>>
  BY Zenon DEF HandleAnswer, registryVars
<1>3. LinkInv(lasting)'
  <2>1. /\ \A k \in Link : \A i \in DOMAIN toBroker'[k] : i \in DOMAIN toBroker[k] /\ toBroker'[k][i] = toBroker[k][i]
        /\ \A k \in Link : Calls(Messages(toBroker'[k])) \subseteq Bindings
    BY <1>2, BindingsAre
  <2>2. ServedInv(lasting)'
    BY <1>1, <1>2 DEF ServedInv, CallsReachTheirService
  <2> QED BY <1>1, <1>2, <2>1, <2>2, OtherHandled
<1>4. NodeTypeInv' /\ OneWayInv' /\ IdInv(lasting)'
  BY <1>1, <1>2 DEF NodeTypeInv, OneWayInv, IdInv
<1>5. CallTypeInv'
  <2>1. /\ m_rpcTmpCallBack' \in [Node -> SUBSET [id : Nat, tag : Nat]]
        /\ \A m \in Node : m_rpcTmpCallBack'[m] \subseteq m_rpcTmpCallBack[m]
    <3>1. m_rpcTmpCallBack \in [Node -> SUBSET [id : Nat, tag : Nat]]
      BY <1>1 DEF CallTypeInv
    <3>2. PICK found : m_rpcTmpCallBack' = [m_rpcTmpCallBack EXCEPT ![n] = @ \ found]
      BY <1>2
    <3> QED BY <3>1, <3>2
  <2> QED BY <1>1, <1>2, <2>1, CallsStill
<1> QED BY <1>3, <1>4, <1>5 DEF NodeInv

\* A node of the broker's process is known under its new id.
LEMMA AddedNode ==
    ASSUME NEW map, NEW id, NEW n, NEW m, m = addNode(map, id, n)
    PROVE  /\ DOMAIN m \subseteq DOMAIN map \cup {id}
           /\ \A i \in DOMAIN m : \/ i = id /\ m[i] = n
                                  \/ i \in DOMAIN map /\ m[i] = map[i]
BY DEF addNode, Insert

\* A confirmed registration carries the id of the session, which is bound to the node's name.
LEMMA ConfirmedIs ==
    ASSUME NEW lasting \in BOOLEAN, RpcInv(lasting), NEW n \in Node, NEW c \in Conn, owner[c] = n, n # NoOne,
           NEW ret \in Messages(toNode[c]), ret.cmd = "REGISTER_TO_BROKER_RET", ret.registerFlag = 1
    PROVE  /\ session[c].nodeId # 0 => ret.nodeId = session[c].nodeId
           /\ lasting => ret.nodeId = session[c].nodeId /\ ret.nodeId # 0 /\ BoundTo(ret.nodeId, n)
<1>1. RegisterInv(lasting) /\ BindingsInv(lasting)
  BY DEF RpcInv, LinkInv
<1>2. /\ session[c].nodeId # 0 => ret.nodeId = session[c].nodeId
      /\ lasting => session[c].nodeId # 0
      /\ session[c].nodeId # 0 => session[c].strServiceName = ServiceOf[n]
  BY <1>1 DEF RegisterInv
<1>3. PICK p : p = <<ServiceOf[n], ret.nodeId>>
  OBVIOUS
<1>4. lasting => p \in Bindings /\ p[1] = ServiceOf[n] /\ p[2] = ret.nodeId
  BY <1>2, <1>3, BindingsAre
<1> QED BY <1>1, <1>2, <1>4 DEF BindingsInv, BoundTo

\* The registry arrives, with the node's own id or without.
LEMMA RegistryArrivesKeeps ==
    ASSUME NEW lasting \in BOOLEAN, RpcInv(lasting), NEW n \in Node, NEW c \in Conn, UNCHANGED registryVars, RegistryArrives(n, c)
    PROVE  NodeInv(lasting)' /\ LinkInv(lasting)'
<1>1. /\ NodeTypeInv /\ CallTypeInv /\ OneWayInv /\ IdInv(lasting) /\ QueueTypeInv /\ TableTypeInv /\ OwnerInv
      /\ RegisterInv(lasting) /\ BindingsInv(lasting) /\ MemoryInv(lasting) /\ RouteInv(lasting) /\ ServedInv(lasting) /\ IdsAgree
      /\ NodesLearnTheRegistry /\ toNode \in Queues(ForNode)
      /\ m_for_allocID \in Nat /\ \A d \in Conn : d \in Link
  BY DEF RpcInv, NodeInv, LinkInv, QueueTypeInv, IInv, RegistryTypeOK, Link
<1>2. PICK ret : ret = Head(toNode[c])
  OBVIOUS
<1>3. /\ Arrives(n, c, "REGISTER_TO_BROKER_RET") /\ ret.registerFlag # -1
      /\ \/ /\ ret.registerFlag = 1
            /\ m_nodeId' = [m_nodeId EXCEPT ![n] = ret.nodeId]
            /\ \/ n \in InProc /\ m_node_info' = addNode(m_node_info, ret.nodeId, n)
               \/ m_node_info' = m_node_info
         \/ ret.registerFlag # 1 /\ UNCHANGED <<m_nodeId, m_node_info>>
      /\ m_broker_data' = [m_broker_data EXCEPT ![n] = ret.service2nodeId]
      /\ toNode' = Taken(toNode, c)
      /\ UNCHANGED <<brokerEnd, nodeEnd, toBroker, session, pc, m_runing, m_master_broker_sock,
                     m_rpcTmpCallBack, gCallBackIDGen, reconnectTimers, owner, calls, served,
                     service2nodeId, m_for_allocID>>
  BY <1>2 DEF RegistryArrives, LearnsId, registryVars
<1>4. PICK q : q = Taken(toNode, c)
  OBVIOUS
<1>5. /\ toNode[c] # <<>> /\ ret.cmd = "REGISTER_TO_BROKER_RET" /\ owner[c] = n /\ n # NoOne
      /\ ret \in ForNode /\ ret \in Messages(toNode[c])
      /\ q \in Queues(ForNode) /\ q[c] = Tail(toNode[c])
      /\ \A d \in Link \ {c} : q[d] = toNode[d]
      /\ \A d \in Link : Messages(q[d]) \subseteq Messages(toNode[d])
      /\ \A m \in Messages(toNode[c]) : m = ret \/ m \in Messages(q[c])
      /\ \A d \in Conn : nodeEnd[d] = "none" => q[d] = <<>>
  <2>1. c \in Link /\ c \in Conn /\ q = Taken(toNode, c) /\ Arrives(n, c, "REGISTER_TO_BROKER_RET")
    BY <1>1, <1>3, <1>4
  <2>2. /\ toNode[c] # <<>> /\ Head(toNode[c]).cmd = "REGISTER_TO_BROKER_RET"
        /\ c \in Conn => owner[c] = n /\ n # NoOne
        /\ Head(toNode[c]) \in ForNode /\ Head(toNode[c]) \in Messages(toNode[c])
        /\ q \in Queues(ForNode) /\ q[c] = Tail(toNode[c])
        /\ \A d \in Link \ {c} : q[d] = toNode[d]
        /\ \A d \in Link : Messages(q[d]) \subseteq Messages(toNode[d])
        /\ \A m \in Messages(toNode[c]) : m = Head(toNode[c]) \/ m \in Messages(q[c])
        /\ \A d \in Conn : nodeEnd[d] = "none" => q[d] = <<>>
    BY <2>1, ArrivesIs
  <2> QED BY <1>2, <2>1, <2>2
<1>6. /\ ret.registerFlag \in {0, 1} /\ ret.nodeId \in Nat /\ ret.service2nodeId \in Registry
      /\ Pairs(ret.service2nodeId) \subseteq Bindings
  <2>1. ret \in RegisterRets
    BY <1>5, MessageKinds
  <2>2. Pairs(ret.service2nodeId) \subseteq Bindings
    BY <1>1, <1>5, StoredIn, BindingsAre
  <2> QED BY <1>3, <2>1, <2>2, MessageFields
<1>7. /\ ret.registerFlag = 1 /\ session[c].nodeId # 0 => ret.nodeId = session[c].nodeId
      /\ ret.registerFlag = 1 /\ lasting => BoundTo(ret.nodeId, n) /\ ret.nodeId \in 1..m_for_allocID
  <2>1. /\ ret.registerFlag = 1 /\ session[c].nodeId # 0 => ret.nodeId = session[c].nodeId
        /\ ret.registerFlag = 1 /\ lasting => BoundTo(ret.nodeId, n)
    BY <1>5, ConfirmedIs
  <2> QED BY <2>1 DEF BoundTo
<1>8. /\ toNode' = q /\ m_broker_data'[n] = ret.service2nodeId
      /\ \A m \in Node \ {n} : m_broker_data'[m] = m_broker_data[m] /\ m_nodeId'[m] = m_nodeId[m]
      /\ (m_nodeId'[n] = ret.nodeId /\ ret.registerFlag = 1) \/ (m_nodeId'[n] = m_nodeId[n] /\ ret.registerFlag # 1)
  BY <1>1, <1>3, <1>4 DEF NodeTypeInv
<1>9. NodeTypeInv' /\ OneWayInv' /\ CallTypeInv'
  <2>1. m_broker_data' \in [Node -> Registry] /\ m_nodeId' \in [Node -> Nat]
    BY <1>1, <1>3, <1>6 DEF NodeTypeInv
  <2> QED BY <1>1, <1>3, <2>1 DEF NodeTypeInv, OneWayInv, CallTypeInv
<1>10. IdInv(lasting)'
  <2>1. lasting => \A m \in Node : m_nodeId'[m] \in 0..m_for_allocID
    BY <1>1, <1>7, <1>8 DEF IdInv
  <2> QED BY <1>3, <2>1 DEF IdInv
<1>11. \A i \in DOMAIN m_node_info' :
           \/ i = ret.nodeId /\ m_node_info'[i] = n /\ n \in InProc /\ ret.registerFlag = 1
           \/ i \in DOMAIN m_node_info /\ m_node_info'[i] = m_node_info[i]
  <2>1. PICK m : m = m_node_info'
    OBVIOUS
  <2>2. CASE m = addNode(m_node_info, ret.nodeId, n) /\ n \in InProc /\ ret.registerFlag = 1
    BY <2>1, <2>2, AddedNode
  <2>3. CASE m = m_node_info
    BY <2>1, <2>3
  <2> QED BY <1>3, <2>1, <2>2, <2>3
<1>12. QueueTypeInv' /\ TableTypeInv' /\ OwnerInv' /\ ServedInv(lasting)'
  <2>1. TableTypeInv'
    BY <1>1, <1>3, <1>6, <1>11 DEF TableTypeInv
  <2> QED BY <1>1, <1>3, <1>5, <1>8, <2>1 DEF QueueTypeInv, OwnerInv, ServedInv, CallsReachTheirService
<1>13. RegisterInv(lasting)'
  <2>1. ASSUME NEW d \in Conn, toNode[d] = <<>> PROVE toNode'[d] = <<>>
    BY <1>1, <1>5, <1>8, <2>1
  <2> QED BY <1>1, <1>3, <1>5, <1>8, <2>1, RegistersStill
<1>14. BindingsInv(lasting)' /\ MemoryInv(lasting)'
  <2>1. \A l \in Link : Copies(Messages(toNode'[l])) \subseteq Bindings
    BY <1>5, <1>8, BindingsAre, FewerMessages
  <2>2. \A m \in Node : Pairs(m_broker_data'[m]) \subseteq Bindings
    BY <1>6, <1>8, BindingsAre
  <2>3. \A l \in Link : Calls(Messages(toBroker'[l])) \subseteq Bindings
    BY <1>3, BindingsAre
  <2>4. BindingsInv(lasting)' /\ \A id, m : BoundTo(id, m) => BoundTo(id, m)'
    BY <1>1, <1>3, <2>1, <2>2, <2>3, NothingNew
  <2>5. lasting => \A i \in DOMAIN m_node_info' : BoundTo(i, m_node_info'[i])
    BY <1>1, <1>7, <1>11 DEF MemoryInv
  <2> QED BY <2>4, <2>5 DEF MemoryInv
<1>15. RouteInv(lasting)'
  BY <1>1, <1>3, <1>5, <1>8, RoutesStill
<1>16. (\A d \in Conn : Up(d)' => Up(d)) /\ \A d \in Conn \ {c} : owner[d] # NoOne => owner[d] # n
  BY <1>1, <1>3, <1>5 DEF Up, OneWayInv
<1>17. IdsAgree'
  <2> SUFFICES ASSUME NEW d \in Conn, Up(d), owner[d] # NoOne, session[d].nodeId # 0,
                      m_nodeId'[owner[d]] # session[d].nodeId
               PROVE  \E i \in 1..Len(q[d]) : /\ q[d][i].cmd = "REGISTER_TO_BROKER_RET"
                                              /\ q[d][i].registerFlag = 1
                                              /\ q[d][i].nodeId = session[d].nodeId
    BY <1>3, <1>8, <1>16 DEF IdsAgree
  <2>1. owner[d] \in Node
    BY <1>1 DEF NodeTypeInv
  <2>2. m_nodeId'[owner[d]] = m_nodeId[owner[d]] /\ (d = c => ret.registerFlag # 1)
    BY <1>5, <1>7, <1>8, <1>16, <2>1
  <2>3. PICK i \in 1..Len(toNode[d]) : /\ toNode[d][i].cmd = "REGISTER_TO_BROKER_RET"
                                       /\ toNode[d][i].registerFlag = 1
                                       /\ toNode[d][i].nodeId = session[d].nodeId
    BY <1>1, <2>2 DEF IdsAgree
  <2>4. toNode[d][i] \in Messages(toNode[d])
    BY <1>1 DEF Messages, Queues
  <2>5. toNode[d][i] \in Messages(q[d])
    BY <1>1, <1>5, <2>2, <2>3, <2>4
  <2>6. DOMAIN q[d] = 1..Len(q[d])
    BY <1>1, <1>5 DEF Queues
  <2> QED BY <2>3, <2>5, <2>6 DEF Messages
<1>18. NodesLearnTheRegistry'
  <2> SUFFICES ASSUME NEW d \in Conn, Up(d), owner[d] # NoOne, session[d].nodeId # 0
               PROVE  Learns(m_broker_data'[owner[d]], q[d], service2nodeId)
    BY <1>3, <1>8, <1>16 DEF NodesLearnTheRegistry, Learns, Registrations
  <2>1. Learns(m_broker_data[owner[d]], toNode[d], service2nodeId) /\ owner[d] \in Node
    BY <1>1 DEF NodesLearnTheRegistry, NodeTypeInv
  <2>2. CASE d = c
    <3>1. toNode[c] \in Seq(ForNode)
      BY <1>1 DEF Queues
    <3>2. Learns(Head(toNode[c]).service2nodeId, Tail(toNode[c]), service2nodeId)
      BY <1>2, <1>5, <2>1, <2>2, <3>1, LearnsAfterRegistry
    <3> QED BY <1>2, <1>5, <1>8, <2>2, <3>2
  <2>3. CASE d # c
    BY <1>1, <1>5, <1>8, <1>16, <2>1, <2>3
  <2> QED BY <2>2, <2>3
<1> QED BY <1>9, <1>10, <1>12, <1>13, <1>14, <1>15, <1>17, <1>18 DEF NodeInv, LinkInv

-----------------------------------------------------------------------------
(* The steps of the broker. *)

\* The nodes keep what they have while the broker handles a message.
LEMMA NodesAlone ==
    ASSUME NEW lasting \in BOOLEAN, RpcInv(lasting), UNCHANGED rpcVars, m_for_allocID' \in {m_for_allocID, m_for_allocID + 1}
    PROVE  NodeInv(lasting)'
<1>1. NodeTypeInv /\ CallTypeInv /\ OneWayInv /\ IdInv(lasting) /\ m_for_allocID \in Nat
  BY DEF RpcInv, NodeInv, IInv, RegistryTypeOK
<1>2. NodeTypeInv' /\ CallTypeInv' /\ OneWayInv'
  BY <1>1 DEF NodeTypeInv, CallTypeInv, OneWayInv, rpcVars, nodeVars
<1>3. \A i \in 0..m_for_allocID : i \in 0..m_for_allocID'
  BY <1>1
<1>4. IdInv(lasting)'
  BY <1>1, <1>3 DEF IdInv, rpcVars, nodeVars
<1> QED BY <1>2, <1>4 DEF NodeInv

\* The broker takes a message: what is left has no registration from this connection.
LEMMA ReceivesIs ==
    ASSUME NEW lasting \in BOOLEAN, RpcInv(lasting), NEW k \in Link, NEW cmd, Receives(k, cmd), NEW q, q = Taken(toBroker, k)
    PROVE  /\ Head(toBroker[k]) \in ForBroker /\ Head(toBroker[k]).cmd = cmd
           /\ Head(toBroker[k]) \in Messages(toBroker[k])
           /\ Head(toBroker[k]) = toBroker[k][1] /\ 1 \in DOMAIN toBroker[k]
           /\ q \in Queues(ForBroker)
           /\ \A c \in Conn : \A i \in DOMAIN q[c] : q[c][i].cmd = "REGISTER_TO_BROKER_REQ" =>
                  c # k /\ i \in DOMAIN toBroker[c] /\ q[c][i] = toBroker[c][i]
           /\ \A l \in Link : Calls(Messages(q[l])) \subseteq Bindings
<1>1. toBroker \in Queues(ForBroker) /\ RegisterInv(lasting) /\ \A c \in Conn : c \in Link
  BY DEF RpcInv, LinkInv, QueueTypeInv, Link
<1>2. toBroker[k] # <<>> /\ Head(toBroker[k]).cmd = cmd
  BY DEF Receives
<1>3. /\ q \in Queues(ForBroker) /\ \A d \in Link \ {k} : q[d] = toBroker[d]
      /\ Messages(q[k]) \subseteq Messages(toBroker[k])
      /\ Head(toBroker[k]) \in Messages(toBroker[k]) /\ Head(toBroker[k]) = toBroker[k][1]
      /\ 1 \in DOMAIN toBroker[k] /\ Head(toBroker[k]) \in ForBroker
      /\ \A i \in DOMAIN q[k] : /\ i + 1 \in DOMAIN toBroker[k] /\ i + 1 # 1
                                /\ q[k][i] = toBroker[k][i + 1]
  BY <1>1, <1>2, TakenQueue
<1>4. ASSUME NEW c \in Conn, NEW i \in DOMAIN q[c], q[c][i].cmd = "REGISTER_TO_BROKER_REQ"
      PROVE  c # k /\ i \in DOMAIN toBroker[c] /\ q[c][i] = toBroker[c][i]
  <2>1. CASE c = k
    BY <1>1, <1>3, <1>4, <2>1 DEF RegisterInv
  <2>2. CASE c # k
    BY <1>1, <1>3, <1>4, <2>2
  <2> QED BY <2>1, <2>2
<1>5. \A l \in Link : Messages(q[l]) \subseteq Messages(toBroker[l])
  BY <1>3
<1>6. \A l \in Link : Calls(Messages(q[l])) \subseteq Bindings
  BY <1>5, FewerMessages, BindingsAre
<1> QED BY <1>2, <1>3, <1>4, <1>6

\* One message more at the end of a queue.
LEMMA AppendedIs ==
    ASSUME NEW queue \in Seq(ForNode), NEW m \in ForNode, NEW q, q = Append(queue, m)
    PROVE  /\ q \in Seq(ForNode) /\ m \in Messages(q) /\ Messages(queue) \subseteq Messages(q)
           /\ \A x \in Messages(q) : x = m \/ x \in Messages(queue)
<1>1. /\ q \in Seq(ForNode) /\ Len(queue) + 1 \in DOMAIN q /\ q[Len(queue) + 1] = m
      /\ \A i \in DOMAIN queue : i \in DOMAIN q /\ q[i] = queue[i]
      /\ \A i \in DOMAIN q : (i \in DOMAIN queue /\ q[i] = queue[i]) \/ q[i] = m
  OBVIOUS
<1> QED BY <1>1 DEF Messages

\* A message for the node at the end of link l that leaves the invariants alone: a
\* refusal, or a message passed on that is for the node's own service.
ServiceAt(l) == ServiceOf[IF l \in Conn THEN owner[l] ELSE l]
MayArrive(lasting, l, m) ==
    /\ m.cmd = "REGISTER_TO_BROKER_RET" =>
           /\ l \in Conn /\ session[l].nodeId = 0
           /\ m.registerFlag = -1 /\ Pairs(m.service2nodeId) = {}
    /\ lasting /\ IsCall(m) => m.destServiceName = ServiceAt(l)

\* The broker handles a message, and sends such messages or none.
LEMMA BrokerPasses ==
    ASSUME NEW lasting \in BOOLEAN, RpcInv(lasting), NEW k \in Link, NEW cmd, Receives(k, cmd), toBroker' = Taken(toBroker, k),
           UNCHANGED <<brokerEnd, nodeEnd, session, service2nodeId, m_for_allocID, m_node_info, rpcVars>>,
           toNode' \in Queues(ForNode),
           \A l \in Link :
               \/ toNode'[l] = toNode[l]
               \/ /\ Up(l) /\ (l \in Conn /\ session[l].nodeId = 0 => l = k)
                  /\ \E m \in ForNode : toNode'[l] = Append(toNode[l], m) /\ MayArrive(lasting, l, m)
    PROVE  NodeInv(lasting)' /\ LinkInv(lasting)'
<1>1. /\ QueueTypeInv /\ TableTypeInv /\ OwnerInv /\ RegisterInv(lasting) /\ BindingsInv(lasting) /\ MemoryInv(lasting)
      /\ RouteInv(lasting) /\ ServedInv(lasting) /\ IdsAgree /\ NodesLearnTheRegistry
      /\ toNode \in Queues(ForNode) /\ \A d \in Conn : d \in Link
      /\ \A l \in Link : toNode[l] \in Seq(ForNode)
  BY DEF RpcInv, LinkInv, QueueTypeInv, Link, Queues
<1>2. PICK q : q = Taken(toBroker, k)
  OBVIOUS
<1>3. /\ toBroker' = q /\ q \in Queues(ForBroker)
      /\ \A c \in Conn : \A i \in DOMAIN q[c] : q[c][i].cmd = "REGISTER_TO_BROKER_REQ" =>
             c # k /\ i \in DOMAIN toBroker[c] /\ q[c][i] = toBroker[c][i]
      /\ \A l \in Link : Calls(Messages(q[l])) \subseteq Bindings
  BY <1>2, ReceivesIs
<1>4. UNCHANGED <<owner, m_nodeId, m_broker_data, served>> /\ NodeInv(lasting)'
  BY NodesAlone DEF rpcVars, nodeVars
<1>5. ASSUME NEW l \in Link
      PROVE  /\ Messages(toNode[l]) \subseteq Messages(toNode'[l])
             /\ \A x \in Messages(toNode'[l]) : x \in Messages(toNode[l]) \/ MayArrive(lasting, l, x)
             /\ Copies(Messages(toNode'[l])) \subseteq Copies(Messages(toNode[l]))
  <2>1. CASE toNode'[l] = toNode[l]
    BY <2>1
  <2>2. CASE toNode'[l] # toNode[l]
    <3>1. PICK m \in ForNode : toNode'[l] = Append(toNode[l], m) /\ MayArrive(lasting, l, m)
      BY <2>2
    <3>2. PICK r : r = toNode'[l]
      OBVIOUS
    <3>3. /\ Messages(toNode[l]) \subseteq Messages(r)
          /\ \A x \in Messages(r) : x = m \/ x \in Messages(toNode[l])
      <4>1. PICK s \in Seq(ForNode) : s = toNode[l]
        BY <1>1
      <4>2. r = Append(s, m)
        BY <3>1, <3>2, <4>1
      <4>3. Messages(s) \subseteq Messages(r) /\ \A x \in Messages(r) : x = m \/ x \in Messages(s)
        BY <4>2, AppendedIs
      <4> QED BY <4>1, <4>3
    <3>4. Copies(Messages(r)) \subseteq Copies(Messages(toNode[l]))
      <4>1. m.cmd = "REGISTER_TO_BROKER_RET" => Pairs(m.service2nodeId) = {}
        BY <3>1 DEF MayArrive
      <4>2. /\ m.cmd = "REGISTER_TO_BROKER_RET" =>
                   Copies(Messages(r)) \subseteq Copies(Messages(toNode[l])) \cup Pairs(m.service2nodeId)
            /\ m.cmd # "REGISTER_TO_BROKER_RET" => Copies(Messages(r)) \subseteq Copies(Messages(toNode[l]))
        BY <3>3, OneMessageMore
      <4> QED BY <4>1, <4>2
    <3> QED BY <3>1, <3>2, <3>3, <3>4
  <2> QED BY <2>1, <2>2
<1>6. QueueTypeInv' /\ TableTypeInv' /\ ServedInv(lasting)'
  BY <1>1, <1>3, <1>4 DEF QueueTypeInv, TableTypeInv, ServedInv, CallsReachTheirService
<1>7. OwnerInv'
  BY <1>1, <1>4 DEF OwnerInv, Up
<1>8. RegisterInv(lasting)'
  <2>1. ASSUME NEW c \in Conn, NEW i \in DOMAIN toBroker'[c],
               toBroker'[c][i].cmd = "REGISTER_TO_BROKER_REQ"
        PROVE  /\ i \in DOMAIN toBroker[c] /\ toBroker'[c][i] = toBroker[c][i]
               /\ toNode'[c] = toNode[c]
    <3>1. c # k /\ i \in DOMAIN toBroker[c] /\ toBroker'[c][i] = toBroker[c][i]
      BY <1>3, <2>1
    <3>2. session[c].nodeId = 0
      BY <1>1, <2>1, <3>1 DEF RegisterInv
    <3> QED BY <1>1, <3>1, <3>2
  <2>2. ASSUME NEW c \in Conn, NEW m \in Messages(toNode'[c]), m.cmd = "REGISTER_TO_BROKER_RET"
        PROVE  m \in Messages(toNode[c]) \/ (m.registerFlag = -1 /\ session[c].nodeId = 0)
    BY <1>1, <1>5, <2>2 DEF MayArrive
  <2> QED BY <1>1, <1>4, <2>1, <2>2, RegistersStill
<1>9. BindingsInv(lasting)' /\ MemoryInv(lasting)'
  <2>1. \A l \in Link : Copies(Messages(toNode'[l])) \subseteq Bindings
    BY <1>5, BindingsAre
  <2>2. \A m \in Node : Pairs(m_broker_data'[m]) \subseteq Bindings
    BY <1>4, BindingsAre
  <2> QED BY <1>1, <1>3, <2>1, <2>2, NothingNew
<1>10. RouteInv(lasting)'
  <2>1. ASSUME NEW c \in Conn, NEW m \in Messages(toNode'[c]), IsCall(m), lasting
        PROVE  m.destServiceName = ServiceOf[owner[c]]
    BY <1>1, <1>5, <2>1 DEF RouteInv, MayArrive, ServiceAt
  <2>2. ASSUME NEW n \in InProc, NEW m \in Messages(toNode'[n]), IsCall(m), lasting
        PROVE  m.destServiceName = ServiceOf[n]
    <3>1. n \in Link /\ n \notin Conn
      BY DEF Link
    <3> QED BY <1>1, <1>5, <2>2, <3>1 DEF RouteInv, MayArrive, ServiceAt
  <2> QED BY <1>4, <2>1, <2>2 DEF RouteInv
<1>11. \A c \in Conn : Up(c)' => Up(c)
  BY DEF Up
<1>12. IdsAgree'
  BY <1>1, <1>4, <1>5, <1>6, <1>11, IdsAgreeStill
<1>13. NodesLearnTheRegistry'
  <2> SUFFICES ASSUME NEW c \in Conn, Up(c), owner[c] # NoOne, session[c].nodeId # 0
               PROVE  Learns(m_broker_data[owner[c]], toNode'[c], service2nodeId)
    BY <1>4, <1>11 DEF NodesLearnTheRegistry, Learns, Registrations
  <2>1. Learns(m_broker_data[owner[c]], toNode[c], service2nodeId)
    BY <1>1 DEF NodesLearnTheRegistry
  <2>2. CASE toNode'[c] # toNode[c]
    <3>1. PICK m \in ForNode : toNode'[c] = Append(toNode[c], m) /\ MayArrive(lasting, c, m)
      BY <1>1, <2>2
    <3>2. m.cmd # "REGISTER_TO_BROKER_RET" /\ toNode[c] \in Seq(ForNode)
      BY <1>1, <3>1 DEF MayArrive
    <3> QED BY <2>1, <3>1, <3>2, LearnsStill
  <2> QED BY <2>1, <2>2
<1> QED BY <1>4, <1>6, <1>7, <1>8, <1>9, <1>10, <1>12, <1>13 DEF LinkInv

\* The registration of a connection that is registered never comes.
LEMMA NeverTwice ==
    ASSUME NEW lasting \in BOOLEAN, RpcInv(lasting), NEW c \in Conn, RegisterTwice(c)
    PROVE  FALSE
<1>1. Receives(c, "REGISTER_TO_BROKER_REQ") /\ session[c].nodeId # 0 /\ c \in Link
  BY DEF RegisterTwice, Link
<1>2. PICK q : q = Taken(toBroker, c)
  OBVIOUS
<1>3. /\ 1 \in DOMAIN toBroker[c] /\ toBroker[c][1].cmd = "REGISTER_TO_BROKER_REQ"
  BY <1>1, <1>2, ReceivesIs
<1> QED BY <1>1, <1>3 DEF RpcInv, LinkInv, RegisterInv

\* The nodes are no synchronous clients.
LEMMA NoSyncClients ==
    ASSUME NEW lasting \in BOOLEAN, RpcInv(lasting), NEW c \in Conn, SyncClientReq(c)
    PROVE  FALSE
<1>1. Receives(c, "SYNC_CLIENT_REQ") /\ c \in Link
  BY DEF SyncClientReq, Link
<1>2. PICK q : q = Taken(toBroker, c)
  OBVIOUS
<1>3. Head(toBroker[c]) \in ForBroker /\ Head(toBroker[c]).cmd = "SYNC_CLIENT_REQ"
  BY <1>1, <1>2, ReceivesIs
<1> QED BY <1>3, MessageKinds

\* A name is refused.
LEMMA RegisterRefusedKeeps ==
    ASSUME NEW lasting \in BOOLEAN, RpcInv(lasting), NEW c \in Conn, RegisterRefused(c), UNCHANGED rpcVars
    PROVE  NodeInv(lasting)' /\ LinkInv(lasting)'
<1>1. /\ Receives(c, "REGISTER_TO_BROKER_REQ") /\ c \in Link /\ session[c].nodeId = 0
      /\ toBroker' = Taken(toBroker, c)
      /\ toNode' = Put(toNode, c, Refusal)
      /\ UNCHANGED <<brokerEnd, nodeEnd, session, service2nodeId, m_for_allocID, m_node_info>>
  BY DEF RegisterRefused, brokerVars, Link
<1>2. Refusal \in ForNode /\ MayArrive(lasting, c, Refusal)
  <2>1. Refusal \in RegisterRets
    BY EmptyRegistry DEF Refusal, RegisterRet, RegisterRets
  <2>2. /\ Refusal.cmd = "REGISTER_TO_BROKER_RET" /\ Refusal.registerFlag = -1
        /\ Refusal.service2nodeId = Empty
    BY DEF Refusal, RegisterRet
  <2>3. Pairs(Empty) = {}
    BY DEF Pairs, Empty
  <2> QED BY <1>1, <2>1, <2>2, <2>3 DEF ForNode, MayArrive, IsCall
<1>3. PICK q : q = toNode'
  OBVIOUS
<1>4. PICK m \in ForNode : m = Refusal
  BY <1>2
<1>5. /\ q \in Queues(ForNode) /\ \A l \in Link \ {c} : q[l] = toNode[l]
      /\ q[c] = toNode[c] \/ (Up(c) /\ q[c] = Append(toNode[c], m))
  <2>1. toNode \in Queues(ForNode)
    BY DEF RpcInv, LinkInv, QueueTypeInv
  <2>2. q = Put(toNode, c, m)
    BY <1>1, <1>3, <1>4
  <2>3. /\ q \in Queues(ForNode) /\ \A d \in Link \ {c} : q[d] = toNode[d]
        /\ ~Up(c) => q = toNode
        /\ Up(c) => q[c] = Append(toNode[c], m)
    BY <1>1, <2>1, <2>2, PutQueue
  <2> QED BY <2>3
<1>6. ASSUME NEW l \in Link
      PROVE  \/ toNode'[l] = toNode[l]
             \/ /\ Up(l) /\ (l \in Conn /\ session[l].nodeId = 0 => l = c)
                /\ \E x \in ForNode : toNode'[l] = Append(toNode[l], x) /\ MayArrive(lasting, l, x)
  BY <1>2, <1>3, <1>4, <1>5
<1> QED BY <1>1, <1>3, <1>5, <1>6, BrokerPasses

\* What sendToRPcNode() does with a message.
LEMMA RouteIs ==
    ASSUME NEW msg, NEW queues
    PROVE  \/ sendToRPcNode(queues, msg) = queues
           \/ /\ msg.destNodeId \in DOMAIN m_node_info
              /\ sendToRPcNode(queues, msg) =
                     Put(queues, m_node_info[msg.destNodeId], AsDelivered(msg))
           \/ /\ msg.destNodeId \in DOMAIN node_sockets
              /\ sendToRPcNode(queues, msg) =
                     Put(queues, node_sockets[msg.destNodeId], AsDelivered(msg))
           \/ /\ msg.fromNodeId \in DOMAIN node_sockets /\ msg.destNodeId \notin DOMAIN node_sockets
              /\ sendToRPcNode(queues, msg) =
                     Put(queues, node_sockets[msg.fromNodeId],
                         [AsDelivered(msg) EXCEPT !.errinfo = TRUE, !.destServiceName = NoName])
BY Zenon DEF sendToRPcNode, NoName

\* Where a socket of the table leads.
LEMMA SocketIs ==
    ASSUME NEW lasting \in BOOLEAN, RpcInv(lasting), NEW id \in DOMAIN node_sockets
    PROVE  /\ node_sockets[id] \in Conn /\ node_sockets[id] \in Link
           /\ session[node_sockets[id]].nodeId = id /\ id # 0 /\ id \in Nat
           /\ Up(node_sockets[id]) =>
                  /\ <<ServiceAt(node_sockets[id]), id>> \in Bindings
                  /\ owner[node_sockets[id]] # NoOne
<1>1. /\ IInv /\ RegistryTypeOK /\ SocketsAreTheirOwners /\ RegisterInv(lasting) /\ OwnerInv
      /\ DOMAIN node_sockets \subseteq 1..m_for_allocID /\ m_for_allocID \in Nat
  BY DEF RpcInv, LinkInv, IInv, RegistryTypeOK
<1>2. /\ node_sockets[id] \in Conn /\ session[node_sockets[id]].nodeId = id /\ id \in Nat /\ id # 0
  <2>1. id \in 1..m_for_allocID
    BY <1>1
  <2>2. id \in Nat /\ id # 0
    BY <1>1, <2>1
  <2> QED BY <1>1, <2>2 DEF RegistryTypeOK, SocketsAreTheirOwners
<1>3. PICK c \in Conn : c = node_sockets[id]
  BY <1>2
<1>4. ASSUME Up(c) PROVE <<ServiceAt(c), id>> \in Bindings /\ owner[c] # NoOne
  <2>1. owner[c] # NoOne
    BY <1>1, <1>4 DEF OwnerInv, Up
  <2>2. session[c].strServiceName = ServiceAt(c)
    BY <1>1, <1>2, <1>3, <2>1 DEF RegisterInv, ServiceAt
  <2> QED BY <1>2, <1>3, <2>1, <2>2, BindingsAre
<1> QED BY <1>2, <1>3, <1>4 DEF Link

\* The queues to the nodes after the broker handled a message from link k.
Passed(lasting, k, q) ==
    /\ q \in Queues(ForNode)
    /\ \A l \in Link :
           \/ q[l] = toNode[l]
           \/ /\ Up(l) /\ (l \in Conn /\ session[l].nodeId = 0 => l = k)
              /\ \E m \in ForNode : q[l] = Append(toNode[l], m) /\ MayArrive(lasting, l, m)

\* A message is put on a link where it may arrive.
LEMMA PutArrives ==
    ASSUME NEW lasting \in BOOLEAN, RpcInv(lasting), NEW k \in Link, NEW l \in Link, NEW m \in RouteMsgs("BROKER_TO_CLIENT_MSG"),
           l \in Conn => session[l].nodeId # 0,
           lasting /\ Up(l) /\ m.destServiceName # NoName => m.destServiceName = ServiceAt(l),
           NEW q, q = Put(toNode, l, m)
    PROVE  Passed(lasting, k, q)
<1>1. toNode \in Queues(ForNode) /\ m \in ForNode /\ m.cmd = "BROKER_TO_CLIENT_MSG"
  BY DEF RpcInv, LinkInv, QueueTypeInv, ForNode, RouteMsgs
<1>2. /\ q \in Queues(ForNode) /\ \A d \in Link \ {l} : q[d] = toNode[d]
      /\ ~Up(l) => q = toNode
      /\ Up(l) => q[l] = Append(toNode[l], m)
  BY <1>1, PutQueue
<1>3. Up(l) => MayArrive(lasting, l, m)
  BY <1>1 DEF MayArrive, IsCall
<1> QED BY <1>1, <1>2, <1>3 DEF Passed

\* A message is passed on.
LEMMA RouteKeeps ==
    ASSUME NEW lasting \in BOOLEAN, RpcInv(lasting), NEW k \in Link, Receives(k, "BROKER_ROUTE_MSG"), toBroker' = Taken(toBroker, k),
           toNode' = toNode \/ toNode' = sendToRPcNode(toNode, Head(toBroker[k])),
           UNCHANGED <<brokerEnd, nodeEnd, session, brokerVars, rpcVars>>
    PROVE  NodeInv(lasting)' /\ LinkInv(lasting)'
<1>1. /\ BindingsInv(lasting) /\ MemoryInv(lasting) /\ TableTypeInv /\ toNode \in Queues(ForNode)
  BY DEF RpcInv, LinkInv, QueueTypeInv
<1>2. PICK msg : msg = Head(toBroker[k])
  OBVIOUS
<1>3. msg \in RouteMsgs("BROKER_ROUTE_MSG") /\ msg \in Messages(toBroker[k])
      /\ msg.cmd = "BROKER_ROUTE_MSG"
  <2>1. PICK q : q = Taken(toBroker, k)
    OBVIOUS
  <2>2. msg \in ForBroker /\ msg.cmd = "BROKER_ROUTE_MSG" /\ msg \in Messages(toBroker[k])
    BY <1>2, <2>1, ReceivesIs
  <2> QED BY <2>2, MessageKinds
<1>4. msg.destServiceName # NoName => <<msg.destServiceName, msg.destNodeId>> \in Bindings
  BY <1>3, StoredIn, BindingsAre DEF AsksFor
<1>5. PICK out : out = AsDelivered(msg)
  OBVIOUS
<1>6. PICK back : back = [AsDelivered(msg) EXCEPT !.errinfo = TRUE, !.destServiceName = NoName]
  OBVIOUS
<1>7. /\ out \in RouteMsgs("BROKER_TO_CLIENT_MSG") /\ out.destServiceName = msg.destServiceName
      /\ back \in RouteMsgs("BROKER_TO_CLIENT_MSG") /\ back.destServiceName = NoName
  BY <1>3, <1>5, <1>6, DeliveredIs
<1>8. PICK q : q = toNode'
  OBVIOUS
<1>9. Passed(lasting, k, q)
  <2>1. CASE q = toNode
    BY <1>1, <2>1 DEF Passed
  <2>2. ASSUME msg.destNodeId \in DOMAIN m_node_info,
               q = Put(toNode, m_node_info[msg.destNodeId], out)
        PROVE  Passed(lasting, k, q)
    <3>1. PICK n \in InProc : n = m_node_info[msg.destNodeId]
      BY <1>1, <2>2 DEF TableTypeInv
    <3>2. n \in Link /\ n \notin Conn /\ ServiceAt(n) = ServiceOf[n]
      BY DEF Link, ServiceAt
    <3>3. lasting /\ msg.destServiceName # NoName => msg.destServiceName = ServiceOf[n]
      <4>1. lasting => BoundTo(msg.destNodeId, n)
        BY <1>1, <2>2, <3>1 DEF MemoryInv
      <4>2. PICK p : p = <<msg.destServiceName, msg.destNodeId>>
        OBVIOUS
      <4>3. p[1] = msg.destServiceName /\ p[2] = msg.destNodeId
        BY <4>2
      <4> QED BY <1>4, <4>1, <4>2, <4>3 DEF BoundTo
    <3>4. q = Put(toNode, n, out)
      BY <2>2, <3>1
    <3> QED BY <1>7, <3>2, <3>3, <3>4, PutArrives
  <2>3. ASSUME msg.destNodeId \in DOMAIN node_sockets,
               q = Put(toNode, node_sockets[msg.destNodeId], out)
        PROVE  Passed(lasting, k, q)
    <3>1. PICK c \in Conn : c = node_sockets[msg.destNodeId]
      BY <2>3, SocketIs
    <3>2. /\ c \in Link /\ session[c].nodeId # 0
          /\ Up(c) => <<ServiceAt(c), msg.destNodeId>> \in Bindings
      BY <2>3, <3>1, SocketIs
    <3>3. lasting /\ Up(c) /\ msg.destServiceName # NoName => msg.destServiceName = ServiceAt(c)
      BY <1>1, <1>4, <3>2 DEF BindingsInv
    <3>4. q = Put(toNode, c, out)
      BY <2>3, <3>1
    <3> QED BY <1>7, <3>2, <3>3, <3>4, PutArrives
  <2>4. ASSUME msg.fromNodeId \in DOMAIN node_sockets,
               q = Put(toNode, node_sockets[msg.fromNodeId], back)
        PROVE  Passed(lasting, k, q)
    <3>1. PICK c \in Conn : c = node_sockets[msg.fromNodeId]
      BY <2>4, SocketIs
    <3>2. c \in Link /\ session[c].nodeId # 0
      BY <2>4, <3>1, SocketIs
    <3>3. q = Put(toNode, c, back)
      BY <2>4, <3>1
    <3> QED BY <1>7, <3>2, <3>3, PutArrives
  <2> QED BY <1>2, <1>5, <1>6, <1>8, <2>1, <2>2, <2>3, <2>4, RouteIs
<1> QED BY <1>8, <1>9, BrokerPasses DEF brokerVars, Passed

\* What syncNodeInfo() sends, and to whom.
IsTold(sockets, l) == Up(l) /\ \E i \in DOMAIN sockets : sockets[i] = l
IsNews(m, l, registry, id, origin) ==
    /\ m.cmd = "REGISTER_TO_BROKER_RET"
    /\ m.registerFlag = (IF l = origin THEN 1 ELSE 0)
    /\ m.nodeId = id /\ m.service2nodeId = registry
Syncs(sockets, registry, id, origin) ==
    /\ toNode' = syncNodeInfo(toNode, sockets, registry, id, origin)
    /\ service2nodeId' = registry

\* What is under way to a node then.
Hears(l, sockets, registry, id, origin) ==
    /\ ~IsTold(sockets, l) => toNode'[l] = toNode[l]
    /\ Messages(toNode[l]) \subseteq Messages(toNode'[l])
    /\ Copies(Messages(toNode'[l])) \subseteq Copies(Messages(toNode[l])) \cup Pairs(registry)
    /\ \A m \in Messages(toNode'[l]) :
           \/ m \in Messages(toNode[l])
           \/ m.registerFlag = 0 /\ l # origin
           \/ m.registerFlag = 1 /\ m.nodeId = id /\ l = origin
    /\ IsTold(sockets, l) =>
           /\ \A known : Learns(known, toNode'[l], registry)
           /\ \E m \in Messages(toNode'[l]) : /\ m.cmd = "REGISTER_TO_BROKER_RET" /\ m.nodeId = id
                                              /\ m.registerFlag = (IF l = origin THEN 1 ELSE 0)

\* The registry was sent to the nodes: the last they hear of is this one.
LEMMA SyncKeeps ==
    ASSUME NEW lasting \in BOOLEAN, RpcInv(lasting), NEW sockets, NEW registry \in Registry, NEW id \in Nat, NEW origin,
           Syncs(sockets, registry, id, origin), UNCHANGED <<nodeEnd, m_node_info, rpcVars>>,
           toBroker' \in Queues(ForBroker)
    PROVE  /\ QueueTypeInv' /\ TableTypeInv' /\ OwnerInv' /\ RouteInv(lasting)' /\ ServedInv(lasting)'
           /\ \A l \in Link : Hears(l, sockets, registry, id, origin)
<1>1. /\ OwnerInv /\ RouteInv(lasting) /\ ServedInv(lasting) /\ TableTypeInv
      /\ toNode \in Queues(ForNode) /\ \A c \in Conn : c \in Link
      /\ \A l \in Link : toNode[l] \in Seq(ForNode)
  BY DEF RpcInv, LinkInv, QueueTypeInv, Link, Queues
<1>2. PICK q : q = toNode'
  OBVIOUS
<1>3. /\ q \in Queues(ForNode)
      /\ \A l \in Link :
             /\ ~IsTold(sockets, l) => q[l] = toNode[l]
             /\ IsTold(sockets, l) =>
                    \E m \in ForNode : q[l] = Append(toNode[l], m) /\ IsNews(m, l, registry, id, origin)
  <2> DEFINE ret(l) == RegisterRet(IF l = origin THEN 1 ELSE 0, id, registry)
  <2>1. \A l : ret(l) \in ForNode /\ IsNews(ret(l), l, registry, id, origin)
    BY DEF RegisterRet, RegisterRets, ForNode, IsNews
  <2>2. q = [l \in Link |-> IF IsTold(sockets, l) THEN Append(toNode[l], ret(l)) ELSE toNode[l]]
    BY <1>2 DEF Syncs, syncNodeInfo, IsTold
  <2> HIDE DEF ret
  <2>3. \A l \in Link : toNode[l] \in Seq(ForNode) /\ Append(toNode[l], ret(l)) \in Seq(ForNode)
    BY <1>1, <2>1
  <2>4. q \in Queues(ForNode)
    BY <2>2, <2>3 DEF Queues
  <2>5. ASSUME NEW l \in Link
        PROVE  /\ ~IsTold(sockets, l) => q[l] = toNode[l]
               /\ IsTold(sockets, l) => q[l] = Append(toNode[l], ret(l))
    BY <2>2
  <2> QED BY <2>1, <2>4, <2>5
<1>4. ASSUME NEW l \in Link
      PROVE  /\ Messages(toNode[l]) \subseteq Messages(q[l])
             /\ Copies(Messages(q[l])) \subseteq Copies(Messages(toNode[l])) \cup Pairs(registry)
             /\ \A m \in Messages(q[l]) :
                    m \in Messages(toNode[l]) \/ (m.registerFlag = 0 /\ l # origin /\ ~IsCall(m))
                        \/ (m.registerFlag = 1 /\ m.nodeId = id /\ l = origin /\ ~IsCall(m))
             /\ IsTold(sockets, l) =>
                    /\ \A known : Learns(known, q[l], registry)
                    /\ \E m \in Messages(q[l]) :
                           /\ m.cmd = "REGISTER_TO_BROKER_RET" /\ m.nodeId = id
                           /\ m.registerFlag = (IF l = origin THEN 1 ELSE 0)
  <2>1. CASE ~IsTold(sockets, l)
    BY <1>3, <2>1
  <2>2. CASE IsTold(sockets, l)
    <3>1. PICK m \in ForNode : /\ q[l] = Append(toNode[l], m)
                               /\ m.cmd = "REGISTER_TO_BROKER_RET"
                               /\ m.registerFlag = (IF l = origin THEN 1 ELSE 0)
                               /\ m.nodeId = id /\ m.service2nodeId = registry
      BY <1>3, <2>2 DEF IsNews
    <3>2. PICK s \in Seq(ForNode) : s = toNode[l]
      BY <1>1
    <3>3. PICK r : r = q[l]
      OBVIOUS
    <3>4. r = Append(s, m)
      BY <3>1, <3>2, <3>3
    <3>5. /\ m \in Messages(r) /\ Messages(s) \subseteq Messages(r)
          /\ \A x \in Messages(r) : x = m \/ x \in Messages(s)
      BY <3>4, AppendedIs
    <3>6. Copies(Messages(r)) \subseteq Copies(Messages(s)) \cup Pairs(m.service2nodeId)
      BY <3>1, <3>5, OneMessageMore
    <3>7. \A known : Learns(known, r, registry)
      BY <3>1, <3>4, LearnsLast
    <3>8. ~IsCall(m)
      BY <3>1 DEF IsCall
    <3> QED BY <3>1, <3>2, <3>3, <3>5, <3>6, <3>7, <3>8
  <2> QED BY <2>1, <2>2
<1>5. UNCHANGED <<owner, served>>
  BY DEF rpcVars
<1>6. QueueTypeInv' /\ TableTypeInv' /\ ServedInv(lasting)'
  BY <1>1, <1>2, <1>3, <1>5 DEF Syncs, QueueTypeInv, TableTypeInv, ServedInv, CallsReachTheirService
<1>7. OwnerInv'
  <2>1. ASSUME NEW c \in Conn, owner[c] = NoOne PROVE q[c] = <<>>
    BY <1>1, <1>3, <2>1 DEF OwnerInv, IsTold, Up
  <2> QED BY <1>1, <1>2, <1>5, <2>1 DEF OwnerInv
<1>8. RouteInv(lasting)'
  <2>1. \A l \in Link : \A m \in Messages(toNode'[l]) : IsCall(m) => m \in Messages(toNode[l])
    BY <1>2, <1>4
  <2> QED BY <1>1, <1>5, <2>1, RoutesStill
<1>9. ASSUME NEW l \in Link PROVE Hears(l, sockets, registry, id, origin)
  BY <1>2, <1>3, <1>4 DEF Hears
<1> QED BY <1>6, <1>7, <1>8, <1>9

\* What a connected node knows, or is about to be told, of its own id.
LEMMA IdsAgreeAfter ==
    ASSUME IdsAgree, QueueTypeInv, QueueTypeInv', UNCHANGED <<nodeEnd, m_nodeId, owner>>,
           \A c \in Conn : \/ brokerEnd'[c] = brokerEnd[c] /\ session'[c] = session[c]
                           \/ brokerEnd'[c] # "open"
                           \/ Up(c)' => \E m \in Messages(toNode'[c]) :
                                             /\ m.cmd = "REGISTER_TO_BROKER_RET" /\ m.registerFlag = 1
                                             /\ m.nodeId = session'[c].nodeId,
           \A c \in Conn : Messages(toNode[c]) \subseteq Messages(toNode'[c])
    PROVE  IdsAgree'
<1> SUFFICES ASSUME NEW c \in Conn, Up(c)', owner[c] # NoOne, session'[c].nodeId # 0,
                    m_nodeId[owner[c]] # session'[c].nodeId
             PROVE  \E i \in 1..Len(toNode'[c]) : /\ toNode'[c][i].cmd = "REGISTER_TO_BROKER_RET"
                                                  /\ toNode'[c][i].registerFlag = 1
                                                  /\ toNode'[c][i].nodeId = session'[c].nodeId
  BY DEF IdsAgree
<1>1. DOMAIN toNode[c] = 1..Len(toNode[c]) /\ DOMAIN toNode'[c] = 1..Len(toNode'[c])
  BY DEF QueueTypeInv, Link, Queues
<1>2. \E m \in Messages(toNode'[c]) : /\ m.cmd = "REGISTER_TO_BROKER_RET" /\ m.registerFlag = 1
                                      /\ m.nodeId = session'[c].nodeId
  <2>1. CASE brokerEnd'[c] = brokerEnd[c] /\ session'[c] = session[c]
    <3>1. Up(c)
      BY <2>1 DEF Up
    <3>2. PICK i \in DOMAIN toNode[c] : /\ toNode[c][i].cmd = "REGISTER_TO_BROKER_RET"
                                        /\ toNode[c][i].registerFlag = 1
                                        /\ toNode[c][i].nodeId = session[c].nodeId
      BY <1>1, <2>1, <3>1 DEF IdsAgree
    <3>3. toNode[c][i] \in Messages(toNode'[c])
      BY <3>2 DEF Messages
    <3> QED BY <2>1, <3>2, <3>3
  <2>2. CASE brokerEnd'[c] # "open"
    BY <2>2 DEF Up
  <2> QED BY <2>1, <2>2
<1> QED BY <1>1, <1>2 DEF Messages

\* The registry with a name more.
LEMMA MorePairs ==
    ASSUME NEW map, NEW s, NEW id
    PROVE  Pairs(Insert(map, s, id)) \subseteq Pairs(map) \cup {<<s, id>>}
BY DEF Pairs, Insert

\* And with a name less.
LEMMA FewerPairs ==
    ASSUME NEW map, NEW s
    PROVE  Pairs(Erase(map, s)) \subseteq Pairs(map)
BY DEF Pairs, Erase

\* A new id is bound.
LEMMA NewBinding ==
    ASSUME NEW lasting \in BOOLEAN, BindingsInv(lasting), MemoryInv(lasting), UNCHANGED m_node_info, m_for_allocID \in Nat,
           m_for_allocID' = m_for_allocID + 1,
           NEW p, p[2] = m_for_allocID', \A x \in Bindings' : x \in Bindings \/ x = p
    PROVE  BindingsInv(lasting)' /\ MemoryInv(lasting)'
<1>1. /\ m_for_allocID' \in 1..m_for_allocID' /\ m_for_allocID' \notin 1..m_for_allocID
      /\ \A i \in 1..m_for_allocID : i \in 1..m_for_allocID'
  OBVIOUS
<1>2. lasting => \A x \in Bindings : x[2] \in 1..m_for_allocID
  BY DEF BindingsInv
<1>3. BindingsInv(lasting)'
  BY <1>1, <1>2 DEF BindingsInv
<1>4. lasting => \A id \in DOMAIN m_node_info : BoundTo(id, m_node_info[id])'
  BY <1>1 DEF MemoryInv, BoundTo
<1> QED BY <1>3, <1>4 DEF MemoryInv

\* A node is registered.
LEMMA RegisterAcceptedKeeps ==
    ASSUME NEW lasting \in BOOLEAN, RpcInv(lasting), NEW c \in Conn, RegisterAccepted(c), UNCHANGED rpcVars
    PROVE  NodeInv(lasting)' /\ LinkInv(lasting)'
<1>1. /\ QueueTypeInv /\ TableTypeInv /\ OwnerInv /\ RegisterInv(lasting) /\ BindingsInv(lasting) /\ MemoryInv(lasting)
      /\ RouteInv(lasting) /\ ServedInv(lasting) /\ IdsAgree /\ NodesLearnTheRegistry
      /\ service2nodeId \in Registry
      /\ toNode \in Queues(ForNode) /\ (\A d \in Conn : d \in Link) /\ c \in Link
      /\ DOMAIN session = Conn /\ m_for_allocID \in Nat
  BY DEF RpcInv, LinkInv, QueueTypeInv, TableTypeInv, Link, IInv, RegistryTypeOK
<1>2. PICK req : req = Head(toBroker[c])
  OBVIOUS
<1>3. PICK id : id = m_for_allocID + 1
  OBVIOUS
<1>4. PICK sockets : sockets = Insert(node_sockets, id, c)
  OBVIOUS
<1>5. PICK name : name = req.strServiceName
  OBVIOUS
<1>6. PICK registry : /\ registry = service2nodeId'
                      /\ registry = service2nodeId \/ registry = Insert(service2nodeId, name, id)
  BY <1>2, <1>3, <1>5, Zenon DEF RegisterAccepted
<1>7. /\ Receives(c, "REGISTER_TO_BROKER_REQ") /\ session[c].nodeId = 0
      /\ m_for_allocID' = id
      /\ session' = [session EXCEPT ![c] = [nodeType |-> "RPC_NODE", nodeId |-> id,
                                            strServiceName |-> name]]
      /\ node_sockets' = sockets
      /\ toBroker' = Taken(toBroker, c)
      /\ toNode' = syncNodeInfo(toNode, sockets, registry, id, c)
      /\ UNCHANGED <<brokerEnd, nodeEnd, m_node_info>>
  BY <1>2, <1>3, <1>4, <1>5, <1>6, Zenon DEF RegisterAccepted, MayRegister, allocNodeId
<1>8. PICK q : q = Taken(toBroker, c)
  OBVIOUS
<1>9. /\ req \in RegisterReqs /\ req.cmd = "REGISTER_TO_BROKER_REQ"
      /\ 1 \in DOMAIN toBroker[c] /\ toBroker[c][1] = req
      /\ q \in Queues(ForBroker)
      /\ \A d \in Conn : \A i \in DOMAIN q[d] : q[d][i].cmd = "REGISTER_TO_BROKER_REQ" =>
             d # c /\ i \in DOMAIN toBroker[d] /\ q[d][i] = toBroker[d][i]
      /\ \A l \in Link : Calls(Messages(q[l])) \subseteq Bindings
  <2>1. /\ req \in ForBroker /\ req.cmd = "REGISTER_TO_BROKER_REQ"
        /\ 1 \in DOMAIN toBroker[c] /\ toBroker[c][1] = req
        /\ q \in Queues(ForBroker)
        /\ \A d \in Conn : \A i \in DOMAIN q[d] : q[d][i].cmd = "REGISTER_TO_BROKER_REQ" =>
               d # c /\ i \in DOMAIN toBroker[d] /\ q[d][i] = toBroker[d][i]
        /\ \A l \in Link : Calls(Messages(q[l])) \subseteq Bindings
    BY <1>1, <1>2, <1>7, <1>8, ReceivesIs
  <2> QED BY <2>1, MessageKinds
<1>10. /\ toNode[c] = <<>> /\ (owner[c] # NoOne => name = ServiceOf[owner[c]]) /\ name \in Service
       /\ id \in Nat /\ id # 0 /\ registry \in Registry
       /\ Pairs(registry) \subseteq Pairs(service2nodeId) \cup {<<name, id>>}
  <2>1. toNode[c] = <<>> /\ (owner[c] # NoOne => name = ServiceOf[owner[c]]) /\ name \in Service
    BY <1>1, <1>5, <1>9, MessageFields DEF RegisterInv
  <2>2. id \in Nat /\ id # 0
    BY <1>1, <1>3
  <2>3. registry \in Registry /\ Pairs(registry) \subseteq Pairs(service2nodeId) \cup {<<name, id>>}
    BY <1>1, <1>6, <2>1, <2>2, InsertRegistry, MorePairs
  <2> QED BY <2>1, <2>2, <2>3
<1>11. /\ session'[c].nodeId = id /\ session'[c].strServiceName = name
       /\ \A d \in Conn \ {c} : session'[d] = session[d]
  BY <1>1, <1>7
<1>12. UNCHANGED <<owner, m_nodeId, m_broker_data, served>> /\ NodeInv(lasting)'
  BY <1>1, <1>3, <1>7, NodesAlone DEF rpcVars, nodeVars
<1>13. /\ QueueTypeInv' /\ TableTypeInv' /\ OwnerInv' /\ RouteInv(lasting)' /\ ServedInv(lasting)'
       /\ \A l \in Link : Hears(l, sockets, registry, id, c)
  <2>1. /\ Syncs(sockets, registry, id, c)
        /\ UNCHANGED <<nodeEnd, m_node_info, rpcVars>> /\ toBroker' \in Queues(ForBroker)
        /\ registry \in Registry /\ id \in Nat
    BY <1>6, <1>7, <1>8, <1>9, <1>10 DEF Syncs
  <2> QED BY <2>1, SyncKeeps
\* Who is told: the sockets of the table, and the new one.
<1>14. /\ \A d \in Conn : IsTold(sockets, d) => d = c \/ session[d].nodeId # 0
       /\ \A d \in Conn : Up(d) /\ session'[d].nodeId # 0 => IsTold(sockets, d)
  <2>1. /\ DOMAIN sockets = DOMAIN node_sockets \cup {id} /\ sockets[id] = c
        /\ \A i \in DOMAIN node_sockets : i # id => sockets[i] = node_sockets[i]
    BY <1>4 DEF Insert
  <2>2. ASSUME NEW d \in Conn, IsTold(sockets, d), d # c PROVE session[d].nodeId # 0
    <3>1. PICK i \in DOMAIN node_sockets : node_sockets[i] = d
      BY <2>1, <2>2 DEF IsTold
    <3> QED BY <3>1, SocketIs
  <2>3. ASSUME NEW d \in Conn, Up(d), session'[d].nodeId # 0 PROVE IsTold(sockets, d)
    <3>1. CASE d = c
      BY <2>1, <2>3, <3>1 DEF IsTold
    <3>2. CASE d # c
      <4>1. session[d].nodeId \in DOMAIN node_sockets /\ node_sockets[session[d].nodeId] = d
        BY <1>11, <2>3, <3>2 DEF RpcInv, IInv, OwnersAreFound, Up
      <4>2. \A i \in DOMAIN node_sockets : i # id
        BY <1>1, <1>3 DEF RpcInv, IInv, RegistryTypeOK
      <4> QED BY <2>1, <2>3, <4>1, <4>2 DEF IsTold
    <3> QED BY <3>1, <3>2
  <2> QED BY <2>2, <2>3
<1>15. RegisterInv(lasting)'
  <2> SUFFICES ASSUME NEW d \in Conn
               PROVE  /\ \A i \in DOMAIN q[d] : q[d][i].cmd = "REGISTER_TO_BROKER_REQ" =>
                             /\ i = 1 /\ session'[d].nodeId = 0 /\ toNode'[d] = <<>>
                             /\ owner[d] # NoOne => q[d][i].strServiceName = ServiceOf[owner[d]]
                      /\ session'[d].nodeId # 0 /\ owner[d] # NoOne =>
                             session'[d].strServiceName = ServiceOf[owner[d]]
                      /\ \A m \in Messages(toNode'[d]) : m.cmd = "REGISTER_TO_BROKER_RET" =>
                             /\ m.registerFlag = -1 => session'[d].nodeId = 0
                             /\ m.registerFlag = 1 /\ session'[d].nodeId # 0 => m.nodeId = session'[d].nodeId
                             /\ m.registerFlag = 1 /\ lasting => session'[d].nodeId # 0
    BY <1>7, <1>8, <1>12 DEF RegisterInv
  <2>1. CASE d = c
    <3>1. \A m \in Messages(toNode'[c]) : m.registerFlag = 1 /\ m.nodeId = id
      <4>1. Messages(toNode[c]) = {}
        BY <1>10 DEF Messages
      <4> QED BY <1>1, <1>13, <4>1 DEF Hears
    <3> QED BY <1>9, <1>10, <1>11, <2>1, <3>1
  <2>2. CASE d # c
    <3>1. session'[d] = session[d]
      BY <1>11, <2>2
    <3>2. ASSUME NEW i \in DOMAIN q[d], q[d][i].cmd = "REGISTER_TO_BROKER_REQ"
          PROVE  /\ i = 1 /\ session[d].nodeId = 0 /\ toNode'[d] = <<>>
                 /\ owner[d] # NoOne => q[d][i].strServiceName = ServiceOf[owner[d]]
      <4>1. /\ i = 1 /\ session[d].nodeId = 0 /\ toNode[d] = <<>>
            /\ owner[d] # NoOne => q[d][i].strServiceName = ServiceOf[owner[d]]
        BY <1>1, <1>9, <3>2 DEF RegisterInv
      <4> QED BY <1>1, <1>13, <1>14, <2>2, <4>1 DEF Hears
    <3>3. ASSUME NEW m \in Messages(toNode'[d]), m.cmd = "REGISTER_TO_BROKER_RET"
          PROVE  /\ m.registerFlag = -1 => session[d].nodeId = 0
                 /\ m.registerFlag = 1 /\ session[d].nodeId # 0 => m.nodeId = session[d].nodeId
                 /\ m.registerFlag = 1 /\ lasting => session[d].nodeId # 0
      <4>1. m \in Messages(toNode[d]) \/ m.registerFlag = 0
        BY <1>1, <1>13, <2>2 DEF Hears
      <4> QED BY <1>1, <3>3, <4>1 DEF RegisterInv
    <3>4. session[d].nodeId # 0 /\ owner[d] # NoOne => session[d].strServiceName = ServiceOf[owner[d]]
      BY <1>1 DEF RegisterInv
    <3> QED BY <3>1, <3>2, <3>3, <3>4
  <2> QED BY <2>1, <2>2
<1>16. BindingsInv(lasting)' /\ MemoryInv(lasting)'
  <2>1. PICK p : p = <<name, id>>
    OBVIOUS
  <2>2. PICK B : B = Bindings \cup {p}
    OBVIOUS
  <2>3. Pairs(service2nodeId') \subseteq B
    BY <1>6, <1>10, <2>1, <2>2, BindingsAre
  <2>4. \A n \in Node : Pairs(m_broker_data'[n]) \subseteq B
    BY <1>12, <2>2, BindingsAre
  <2>5. \A l \in Link : Copies(Messages(toNode'[l])) \subseteq B
    BY <1>6, <1>13, <2>2, <2>3, BindingsAre DEF Hears
  <2>6. \A l \in Link : Calls(Messages(toBroker'[l])) \subseteq B
    BY <1>7, <1>8, <1>9, <2>2
  <2>7. \A d \in Conn : session'[d].nodeId # 0 => <<session'[d].strServiceName, session'[d].nodeId>> \in B
    BY <1>11, <2>1, <2>2, BindingsAre
  <2>8. Bindings' \subseteq B
    BY <2>3, <2>4, <2>5, <2>6, <2>7, BindingsWithin
  <2>9. p[2] = m_for_allocID' /\ m_for_allocID' = m_for_allocID + 1 /\ UNCHANGED m_node_info
    BY <1>3, <1>7, <2>1
  <2>10. \A x \in Bindings' : x \in Bindings \/ x = p
    BY <2>2, <2>8
  <2> QED BY <1>1, <2>9, <2>10, NewBinding
<1>17. IdsAgree'
  <2>1. ASSUME NEW d \in Conn
        PROVE  \/ brokerEnd'[d] = brokerEnd[d] /\ session'[d] = session[d]
               \/ brokerEnd'[d] # "open"
               \/ Up(d)' => \E m \in Messages(toNode'[d]) : /\ m.cmd = "REGISTER_TO_BROKER_RET"
                                                   /\ m.registerFlag = 1
                                                   /\ m.nodeId = session'[d].nodeId
    <3>1. CASE d # c
      BY <1>7, <1>11, <3>1
    <3>2. CASE d = c
      <4>1. Up(c)' => IsTold(sockets, c)
        BY <1>7, <1>10, <1>11, <1>14 DEF Up
      <4> QED BY <1>1, <1>11, <1>13, <3>2, <4>1 DEF Hears
    <3> QED BY <3>1, <3>2
  <2>2. \A d \in Conn : Messages(toNode[d]) \subseteq Messages(toNode'[d])
    BY <1>1, <1>13 DEF Hears
  <2> QED BY <1>1, <1>7, <1>12, <1>13, <2>1, <2>2, IdsAgreeAfter DEF Hears
<1>18. NodesLearnTheRegistry'
  <2> SUFFICES ASSUME NEW d \in Conn, Up(d)', session'[d].nodeId # 0
               PROVE  Learns(m_broker_data[owner[d]], toNode'[d], registry)
    BY <1>6, <1>12 DEF NodesLearnTheRegistry, Learns, Registrations
  <2>1. IsTold(sockets, d)
    BY <1>7, <1>14 DEF Up
  <2> QED BY <1>1, <1>13, <2>1 DEF Hears
<1> QED BY <1>12, <1>13, <1>15, <1>16, <1>17, <1>18 DEF LinkInv

\* A connection that never registered is gone.
LEMMA StrangerGoneKeeps ==
    ASSUME NEW lasting \in BOOLEAN, RpcInv(lasting), NEW c \in Conn, HandleBroken(c), session[c].nodeId = 0, UNCHANGED rpcVars
    PROVE  NodeInv(lasting)' /\ LinkInv(lasting)'
<1>1. /\ LinkInv(lasting) /\ QueueTypeInv /\ OwnerInv /\ brokerEnd \in [Conn -> Ends] /\ m_for_allocID \in Nat
  BY DEF RpcInv, LinkInv, IInv, RegistryTypeOK
<1>2. /\ brokerEnd' = [brokerEnd EXCEPT ![c] = "none"]
      /\ UNCHANGED <<nodeEnd, toBroker, toNode, session, service2nodeId, m_for_allocID, m_node_info>>
  BY DEF HandleBroken
<1>3. UNCHANGED <<owner, m_nodeId, m_broker_data, served>> /\ NodeInv(lasting)'
  BY <1>2, NodesAlone DEF rpcVars, nodeVars
<1>4. \A d \in Conn : Up(d)' => Up(d)
  BY <1>1, <1>2 DEF Up
<1>5. LessUnderWay
  BY <1>1, <1>2, <1>3, <1>4 DEF LessUnderWay, OwnerInv, QueueTypeInv
<1> QED BY <1>1, <1>3, <1>5, LessKeeps

\* A node is gone.
LEMMA NodeGoneKeeps ==
    ASSUME NEW lasting \in BOOLEAN, RpcInv(lasting), NEW c \in Conn, HandleBroken(c), session[c].nodeId # 0, UNCHANGED rpcVars
    PROVE  NodeInv(lasting)' /\ LinkInv(lasting)'
<1>1. /\ QueueTypeInv /\ TableTypeInv /\ OwnerInv /\ RegisterInv(lasting) /\ BindingsInv(lasting) /\ MemoryInv(lasting)
      /\ RouteInv(lasting) /\ ServedInv(lasting) /\ IdsAgree /\ NodesLearnTheRegistry
      /\ service2nodeId \in Registry /\ toBroker \in Queues(ForBroker)
      /\ toNode \in Queues(ForNode) /\ (\A d \in Conn : d \in Link) /\ c \in Link
      /\ brokerEnd \in [Conn -> Ends] /\ m_for_allocID \in Nat /\ OwnersAreFound
  BY DEF RpcInv, LinkInv, QueueTypeInv, TableTypeInv, Link, IInv, RegistryTypeOK
<1>2. PICK sockets : sockets = SocketsWithout(c)
  OBVIOUS
<1>3. PICK registry : registry = ServicesWithout(c)
  OBVIOUS
<1>4. /\ brokerEnd[c] = "broken" /\ brokerEnd' = [brokerEnd EXCEPT ![c] = "none"]
      /\ node_sockets' = sockets /\ service2nodeId' = registry
      /\ toNode' = syncNodeInfo(toNode, sockets, registry, 0, c)
      /\ UNCHANGED <<nodeEnd, toBroker, session, m_for_allocID, m_node_info>>
  BY <1>2, <1>3 DEF HandleBroken
<1>5. UNCHANGED <<owner, m_nodeId, m_broker_data, served>> /\ NodeInv(lasting)'
  BY <1>4, NodesAlone DEF rpcVars, nodeVars
<1>6. registry \in Registry /\ Pairs(registry) \subseteq Pairs(service2nodeId)
  BY <1>1, <1>3, EraseRegistry, FewerPairs DEF ServicesWithout
<1>7. /\ QueueTypeInv' /\ TableTypeInv' /\ OwnerInv' /\ RouteInv(lasting)' /\ ServedInv(lasting)'
      /\ \A l \in Link : Hears(l, sockets, registry, 0, c)
  <2>1. /\ Syncs(sockets, registry, 0, c)
        /\ UNCHANGED <<nodeEnd, m_node_info, rpcVars>> /\ toBroker' \in Queues(ForBroker)
    BY <1>1, <1>4 DEF Syncs
  <2>2. PICK id \in Nat : id = 0
    OBVIOUS
  <2> QED BY <1>6, <2>1, <2>2, SyncKeeps
\* Who is told: the sockets of the table but this one.
<1>8. /\ \A d \in Conn : IsTold(sockets, d) => session[d].nodeId # 0
      /\ ~Up(c) /\ \A d \in Conn : Up(d)' => Up(d) /\ d # c
      /\ \A d \in Conn : Up(d) /\ session[d].nodeId # 0 => IsTold(sockets, d)
  <2>1. /\ DOMAIN sockets = DOMAIN node_sockets \ {session[c].nodeId}
        /\ \A i \in DOMAIN sockets : sockets[i] = node_sockets[i]
    BY <1>2 DEF SocketsWithout, Erase
  <2>2. ASSUME NEW d \in Conn, IsTold(sockets, d) PROVE session[d].nodeId # 0
    <3>1. PICK i \in DOMAIN node_sockets : node_sockets[i] = d
      BY <2>1, <2>2 DEF IsTold
    <3> QED BY <3>1, SocketIs
  <2>3. ~Up(c) /\ \A d \in Conn : Up(d)' => Up(d) /\ d # c
    BY <1>1, <1>4 DEF Up
  <2>4. ASSUME NEW d \in Conn, Up(d), session[d].nodeId # 0 PROVE IsTold(sockets, d)
    <3>1. session[d].nodeId \in DOMAIN node_sockets /\ node_sockets[session[d].nodeId] = d
      BY <1>1, <2>4 DEF OwnersAreFound, Up
    <3>2. node_sockets[session[c].nodeId] = c
      BY <1>1, <1>4 DEF OwnersAreFound
    <3>3. session[d].nodeId # session[c].nodeId
      BY <2>3, <2>4, <3>1, <3>2
    <3> QED BY <2>1, <2>4, <3>1, <3>3 DEF IsTold
  <2> QED BY <2>2, <2>3, <2>4
<1>9. RegisterInv(lasting)'
  <2>1. \A d \in Conn : \A m \in Messages(toNode'[d]) : m \in Messages(toNode[d]) \/ m.registerFlag = 0
    <3> SUFFICES ASSUME NEW d \in Conn, NEW m \in Messages(toNode'[d]), m \notin Messages(toNode[d])
                 PROVE  m.registerFlag = 0
      OBVIOUS
    <3>1. d # c
      <4>1. ~IsTold(sockets, c)
        BY <1>8 DEF IsTold
      <4> QED BY <1>1, <1>7, <4>1 DEF Hears
    <3> QED BY <1>1, <1>7, <3>1 DEF Hears
  <2>2. ASSUME NEW d \in Conn, session[d].nodeId = 0 PROVE toNode'[d] = toNode[d]
    BY <1>1, <1>7, <1>8, <2>2 DEF Hears
  <2> SUFFICES ASSUME NEW d \in Conn
               PROVE  /\ \A i \in DOMAIN toBroker[d] : toBroker[d][i].cmd = "REGISTER_TO_BROKER_REQ" =>
                             /\ i = 1 /\ session[d].nodeId = 0 /\ toNode'[d] = <<>>
                             /\ owner[d] # NoOne => toBroker[d][i].strServiceName = ServiceOf[owner[d]]
                      /\ session[d].nodeId # 0 /\ owner[d] # NoOne =>
                             session[d].strServiceName = ServiceOf[owner[d]]
                      /\ \A m \in Messages(toNode'[d]) : m.cmd = "REGISTER_TO_BROKER_RET" =>
                             /\ m.registerFlag = -1 => session[d].nodeId = 0
                             /\ m.registerFlag = 1 /\ session[d].nodeId # 0 => m.nodeId = session[d].nodeId
                             /\ m.registerFlag = 1 /\ lasting => session[d].nodeId # 0
    BY <1>4, <1>5 DEF RegisterInv
  <2>3. \A i \in DOMAIN toBroker[d] : toBroker[d][i].cmd = "REGISTER_TO_BROKER_REQ" =>
            /\ i = 1 /\ session[d].nodeId = 0 /\ toNode'[d] = <<>>
            /\ owner[d] # NoOne => toBroker[d][i].strServiceName = ServiceOf[owner[d]]
    BY <1>1, <2>2 DEF RegisterInv
  <2>4. session[d].nodeId # 0 /\ owner[d] # NoOne => session[d].strServiceName = ServiceOf[owner[d]]
    BY <1>1 DEF RegisterInv
  <2>5. ASSUME NEW m \in Messages(toNode'[d]), m.cmd = "REGISTER_TO_BROKER_RET"
        PROVE  /\ m.registerFlag = -1 => session[d].nodeId = 0
               /\ m.registerFlag = 1 /\ session[d].nodeId # 0 => m.nodeId = session[d].nodeId
               /\ m.registerFlag = 1 /\ lasting => session[d].nodeId # 0
    BY <1>1, <2>1, <2>5 DEF RegisterInv
  <2> QED BY <2>3, <2>4, <2>5
<1>10. BindingsInv(lasting)' /\ MemoryInv(lasting)'
  <2>1. PICK B : B = Bindings
    OBVIOUS
  <2>2. Pairs(service2nodeId') \subseteq B
    BY <1>4, <1>6, <2>1, BindingsAre
  <2>3. \A n \in Node : Pairs(m_broker_data'[n]) \subseteq B
    BY <1>5, <2>1, BindingsAre
  <2>4. \A l \in Link : Copies(Messages(toNode'[l])) \subseteq B
    BY <1>4, <1>7, <2>1, <2>2, BindingsAre DEF Hears
  <2>5. \A l \in Link : Calls(Messages(toBroker'[l])) \subseteq B
    BY <1>4, <2>1, BindingsAre
  <2>6. \A d \in Conn : session'[d].nodeId # 0 => <<session'[d].strServiceName, session'[d].nodeId>> \in B
    BY <1>4, <2>1, BindingsAre
  <2>7. Bindings' \subseteq B
    BY <2>2, <2>3, <2>4, <2>5, <2>6, BindingsWithin
  <2> QED BY <1>1, <1>4, <2>1, <2>7, NothingBound
<1>11. IdsAgree'
  <2>1. \A d \in Conn : /\ session'[d] = session[d]
                        /\ brokerEnd'[d] = brokerEnd[d] \/ brokerEnd'[d] # "open"
    BY <1>1, <1>4
  <2>2. \A d \in Conn : Messages(toNode[d]) \subseteq Messages(toNode'[d])
    BY <1>1, <1>7 DEF Hears
  <2> QED BY <1>1, <1>4, <1>5, <1>7, <2>1, <2>2, IdsAgreeAfter
<1>12. NodesLearnTheRegistry'
  <2> SUFFICES ASSUME NEW d \in Conn, Up(d)', session[d].nodeId # 0
               PROVE  Learns(m_broker_data[owner[d]], toNode'[d], registry)
    BY <1>4, <1>5 DEF NodesLearnTheRegistry, Learns, Registrations
  <2>1. IsTold(sockets, d)
    BY <1>8
  <2> QED BY <1>1, <1>7, <2>1 DEF Hears
<1> QED BY <1>5, <1>7, <1>9, <1>10, <1>11, <1>12 DEF LinkInv

\* A step of the broker.
LEMMA BrokerStepKeeps ==
    ASSUME NEW lasting \in BOOLEAN, RpcInv(lasting), BrokerStep
    PROVE  NodeInv(lasting)' /\ LinkInv(lasting)'
<1>1. BrokerNext /\ UNCHANGED rpcVars
  BY DEF BrokerStep
<1>2. ASSUME NEW c \in Conn, handleBrokerRouteMsg(c) PROVE NodeInv(lasting)' /\ LinkInv(lasting)'
  <2>1. c \in Link /\ Receives(c, "BROKER_ROUTE_MSG") /\ toBroker' = Taken(toBroker, c)
        /\ (toNode' = toNode \/ toNode' = sendToRPcNode(toNode, Head(toBroker[c])))
        /\ UNCHANGED <<brokerEnd, nodeEnd, session, brokerVars>>
    BY <1>2 DEF handleBrokerRouteMsg, Link
  <2> QED BY <1>1, <2>1, RouteKeeps
<1>3. ASSUME NEW n \in InProc, PostedRoute(n) PROVE NodeInv(lasting)' /\ LinkInv(lasting)'
  <2>1. n \in Link /\ Receives(n, "BROKER_ROUTE_MSG") /\ toBroker' = Taken(toBroker, n)
        /\ toNode' = sendToRPcNode(toNode, Head(toBroker[n]))
        /\ UNCHANGED <<brokerEnd, nodeEnd, session, brokerVars>>
    BY <1>3 DEF PostedRoute, Link
  <2> QED BY <1>1, <2>1, RouteKeeps
<1>4. ASSUME NEW c \in Conn, BrokerHandles(c) PROVE NodeInv(lasting)' /\ LinkInv(lasting)'
  BY <1>1, <1>2, <1>4, NeverTwice, NoSyncClients, RegisterRefusedKeeps, RegisterAcceptedKeeps,
     StrangerGoneKeeps, NodeGoneKeeps DEF BrokerHandles
<1> QED BY <1>1, <1>3, <1>4 DEF BrokerNext

\* A step of a node.
LEMMA NodeStepKeeps ==
    ASSUME NEW lasting \in BOOLEAN, RpcInv(lasting), NEW n \in Node, NodeStep(n)
    PROVE  NodeInv(lasting)' /\ LinkInv(lasting)'
<1>1. UNCHANGED registryVars
  BY DEF NodeStep
<1>2. ASSUME NodeHandles(n) PROVE NodeInv(lasting)' /\ LinkInv(lasting)'
  <2>1. ASSUME NEW c \in Conn, \/ RegistrationRefused(n, c) \/ RefusalCrashes(n, c)
                               \/ RegistryArrives(n, c) \/ HandleNodeBroken(n, c)
        PROVE  NodeInv(lasting)' /\ LinkInv(lasting)'
    BY <1>1, <2>1, RefusedKeeps, RefusalCrashesKeeps, RegistryArrivesKeeps, NodeBrokenKeeps
  <2>2. ASSUME NEW l \in Link, HandleCall(n, l) \/ HandleAnswer(n, l)
        PROVE  NodeInv(lasting)' /\ LinkInv(lasting)'
    BY <1>1, <2>2, HandleCallKeeps, HandleAnswerKeeps
  <2> QED BY <1>1, <1>2, <2>1, <2>2, OpenConnectsKeeps, LocalStepsKeep, TimerKeeps DEF NodeHandles
<1>3. ASSUME NodeDecides(n) PROVE NodeInv(lasting)' /\ LinkInv(lasting)'
  <2>1. ASSUME NEW service \in Service, NEW kind \in Kinds,
               CallWithoutService(n, service, kind) \/ docall(n, service, kind)
        PROVE  NodeInv(lasting)' /\ LinkInv(lasting)'
    BY <1>1, <2>1, CallFailsKeeps, CallKeeps
  <2>2. \A m \in Node : ServiceOf[m] \in Service
    BY DEF Service
  <2> QED BY <1>1, <1>3, <2>1, <2>2, NodeClosesKeeps, RestartKeeps DEF NodeDecides
<1> QED BY <1>2, <1>3 DEF NodeStep

\* Nothing happens.
LEMMA StutterKeeps ==
    ASSUME NEW lasting \in BOOLEAN, RpcInv(lasting), UNCHANGED systemVars
    PROVE  NodeInv(lasting)' /\ LinkInv(lasting)'
<1>1. /\ UNCHANGED <<netVars, service2nodeId, m_for_allocID, m_node_info, m_nodeId, m_broker_data,
                     owner, served>>
      /\ UNCHANGED rpcVars
  BY DEF systemVars, brokerVars, rpcVars, nodeVars
<1>2. LinkInv(lasting)'
  BY <1>1, LinksAlone DEF RpcInv
<1>3. NodeInv(lasting)'
  BY <1>1, NodesAlone
<1> QED BY <1>2, <1>3

\* The initial states.
LEMMA RpcInitHolds == \A lasting \in BOOLEAN : RpcSystemInit => RpcInv(lasting)
<1> SUFFICES ASSUME NEW lasting \in BOOLEAN, RpcSystemInit PROVE RpcInv(lasting)
  OBVIOUS
<1>1. IInv
  BY InitHolds DEF RpcSystemInit
<1>2. /\ brokerEnd = [c \in Conn |-> "none"] /\ nodeEnd = [c \in Conn |-> "none"]
      /\ toBroker = [l \in Link |-> <<>>] /\ toNode = [l \in Link |-> <<>>]
      /\ session = [c \in Conn |-> NoSession] /\ m_node_info = Empty
      /\ service2nodeId = Empty /\ m_for_allocID = 0
  BY DEF RpcSystemInit, NetInit, BrokerInit
<1>3. /\ pc = [n \in Node |-> "start"] /\ m_runing = [n \in Node |-> FALSE]
      /\ m_nodeId = [n \in Node |-> 0] /\ m_master_broker_sock = [n \in Node |-> NULL]
      /\ m_broker_data = [n \in Node |-> Empty] /\ m_rpcTmpCallBack = [n \in Node |-> {}]
      /\ gCallBackIDGen = [n \in Node |-> 0] /\ reconnectTimers = [n \in Node |-> 0]
      /\ owner = [c \in Conn |-> NoOne] /\ calls = 0 /\ served = {}
  BY DEF RpcSystemInit, RpcInit
<1>4. DOMAIN Empty = {} /\ Pairs(Empty) = {} /\ Empty \in Registry
  BY EmptyRegistry DEF Empty, Pairs
<1>5. /\ \A l \in Link : Messages(toBroker[l]) = {} /\ Messages(toNode[l]) = {}
      /\ \A l \in Link : DOMAIN toBroker[l] = {} /\ DOMAIN toNode[l] = {}
      /\ \A c \in Conn : c \in Link /\ ~Up(c) /\ session[c].nodeId = 0
  <2>1. \A l \in Link : toBroker[l] = <<>> /\ toNode[l] = <<>>
    BY <1>2
  <2>2. DOMAIN <<>> = {} /\ Messages(<<>>) = {}
    BY DEF Messages
  <2>3. NoSession.nodeId = 0
    BY NoSessionIs, Zenon
  <2>4. \A c \in Conn : c \in Link /\ session[c] = NoSession
    BY <1>2 DEF Link
  <2>5. \A c \in Conn : ~Up(c)
    BY <1>2 DEF Up
  <2> QED BY <2>1, <2>2, <2>3, <2>4, <2>5
<1>6. NodeTypeInv /\ CallTypeInv /\ OneWayInv /\ IdInv(lasting)
  BY <1>2, <1>3, <1>4 DEF NodeTypeInv, CallTypeInv, OneWayInv, IdInv, Labels
<1>7. QueueTypeInv
  BY <1>2 DEF QueueTypeInv, Queues
<1>8. TableTypeInv /\ OwnerInv /\ RegisterInv(lasting) /\ RouteInv(lasting) /\ ServedInv(lasting)
  BY <1>2, <1>3, <1>4, <1>5 DEF TableTypeInv, OwnerInv, RegisterInv, RouteInv, ServedInv, CallsReachTheirService, Link
<1>9. Bindings = {}
  <2>1. Copies({}) = {} /\ Calls({}) = {}
    BY DEF Copies, Calls
  <2>2. KeptBindings = {} /\ SentBindings = {} /\ CallBindings = {} /\ SessionBindings = {}
    BY <1>3, <1>4, <1>5, <2>1 DEF KeptBindings, SentBindings, CallBindings, SessionBindings
  <2> QED BY <1>2, <1>4, <2>2 DEF Bindings
<1>10. BindingsInv(lasting) /\ MemoryInv(lasting)
  BY <1>2, <1>4, <1>9 DEF BindingsInv, MemoryInv
<1>11. IdsAgree /\ NodesLearnTheRegistry
  BY <1>5 DEF IdsAgree, NodesLearnTheRegistry
<1> QED BY <1>1, <1>6, <1>7, <1>8, <1>10, <1>11 DEF RpcInv, NodeInv, LinkInv

-----------------------------------------------------------------------------
(* The theorems. *)

\* Every step keeps the invariant.
LEMMA RpcKeeps ==
    ASSUME NEW lasting \in BOOLEAN, RpcInv(lasting), [RpcSystemNext]_systemVars
    PROVE  RpcInv(lasting)'
<1>1. IInv'
  <2>1. [BrokerNext \/ EnvStep]_<<netVars, brokerVars>>
    BY SystemIsBroker DEF RpcInv, NodeInv
  <2> QED BY <2>1, BrokerKeeps, EnvKeeps, UnchangedKeeps DEF RpcInv
<1>2. NodeInv(lasting)' /\ LinkInv(lasting)'
  BY BrokerStepKeeps, NodeStepKeeps, ConnectionLostKeeps, StutterKeeps DEF RpcSystemNext
<1> QED BY <1>1, <1>2 DEF RpcInv

\* Whatever happens to nodes, connections and messages, the invariant holds.
THEOREM RpcInvariance == RpcSystemSpec => []RpcInv(TRUE)
<1>1. RpcSystemInit => RpcInv(TRUE)
  BY RpcInitHolds
<1>2. RpcInv(TRUE) /\ [RpcSystemNext]_systemVars => RpcInv(TRUE)'
  <2>1. TRUE \in BOOLEAN
    OBVIOUS
  <2> QED BY <2>1, RpcKeeps
<1> QED BY <1>1, <1>2, PTL DEF RpcSystemSpec

\* For the broker the nodes are peers as FFBroker assumes them: FFRpc never takes a step
\* that the theorems about the broker do not allow for.
THEOREM NodesImplementPeers == RpcSystemSpec => ImplementsAnyPeers
<1>1. RpcSystemInit => RegistryInit
  BY DEF RpcSystemInit, RegistryInit
<1>2. RpcInv(TRUE) /\ [RpcSystemNext]_systemVars => [BrokerNext \/ EnvStep]_<<netVars, brokerVars>>
  BY SystemIsBroker DEF RpcInv, NodeInv
<1> QED BY <1>1, <1>2, RpcInvariance, PTL DEF RpcSystemSpec, ImplementsAnyPeers, AnyPeersSpec

\* A call is handled by a node that registered the service it was made to, however stale
\* the registry in which the caller looked the node id up.
THEOREM CallsArrive == RpcSystemSpec => []CallsReachTheirService
<1>1. RpcInv(TRUE) => CallsReachTheirService
  BY DEF RpcInv, LinkInv, ServedInv
<1> QED BY <1>1, RpcInvariance, PTL

\* Broker and nodes agree about ids and services, however connections come and go.
THEOREM Agreement == RpcSystemSpec => []NodesAgree
<1>1. RpcInv(TRUE) => NodesAgree
  <2> SUFFICES ASSUME RpcInv(TRUE) PROVE NodesAgree
    OBVIOUS
  <2>1. /\ NodeTypeInv /\ CallTypeInv /\ IdInv(TRUE) /\ BindingsInv(TRUE) /\ IdsAgree /\ NodesLearnTheRegistry
    BY DEF RpcInv, NodeInv, LinkInv
  <2>2. m_nodeId \in [Node -> 0..m_for_allocID]
    BY <2>1 DEF NodeTypeInv, IdInv
  <2>3. ASSUME NEW n \in Node, NEW s \in DOMAIN m_broker_data[n]
        PROVE  m_broker_data[n][s] \in 1..m_for_allocID
    <3>1. PICK p : p = <<s, m_broker_data[n][s]>>
      OBVIOUS
    <3>2. p \in Bindings /\ p[2] = m_broker_data[n][s]
      BY <3>1, BindingsAre DEF Pairs
    <3> QED BY <2>1, <3>2 DEF BindingsInv
  <2>4. RpcTypeOK
    BY <2>1, <2>2, <2>3 DEF RpcTypeOK, NodeTypeInv, CallTypeInv
  <2> QED BY <2>1, <2>4 DEF NodesAgree
<1> QED BY <1>1, RpcInvariance, PTL

-----------------------------------------------------------------------------
(* Calls and their answers, as long as no connection is lost and no node is *)
(* closed, given up or killed.  The answer of a call finds its way back by  *)
(* the id of the caller, and there its callback by a number; both stay what *)
(* they are, since a node that is registered keeps its connection           *)
(* (SteadyInv, HomeInv) and no number is used again (Belongs).  So a        *)
(* message under way is either a call, whose sender has the id it names and *)
(* the callback, or an answer on its way there (ReturnInv).                 *)

Undisturbed == restarts = 0 /\ cuts = 0

\* A connection that registered or is about to, and the node that uses it.
Registers(c) == \E m \in Messages(toBroker[c]) : m.cmd = "REGISTER_TO_BROKER_REQ"
Joins(c) == session[c].nodeId # 0 \/ Registers(c)
Steady(c) == /\ Up(c) /\ owner[c] # NoOne /\ pc[owner[c]] \in {"polling", "open"}
             /\ m_master_broker_sock[owner[c]] = c
SteadyInv == \A c \in Conn : Joins(c) => Steady(c)

\* The broker has given node n this id.
HasId(n, id) == \E c \in Conn : owner[c] = n /\ session[c].nodeId = id /\ id # 0
HomeInv ==
    /\ \A n \in Node : m_master_broker_sock[n] # NULL => owner[m_master_broker_sock[n]] = n
    /\ \A n \in Node : m_runing[n] => pc[n] = "open"
    /\ \A n \in Node : pc[n] \notin {"closing", "forgetting", "closed"}
    /\ \A n \in Node : m_nodeId[n] # 0 => HasId(n, m_nodeId[n])
    /\ \A n \in Node : pc[n] = "open" => m_nodeId[n] # 0
    /\ \A n \in Node : gCallBackIDGen[n] # 0 => pc[n] = "open"
    /\ \A id \in DOMAIN m_node_info : HasId(m_node_info[id], id)

\* If node n has a callback of this number it is that of the call with this tag, and no
\* later call will get the number.
Belongs(n, callback, tag) ==
    /\ callback \in 0..gCallBackIDGen[n]
    /\ \A cb \in m_rpcTmpCallBack[n] : cb.id = callback => cb.tag = tag
\* A message is of use to the node with this id, and to the one at the end of link l.
Returns(id, m) == \E n \in Node : HasId(n, id) /\ Belongs(n, m.callbackId, m.tag)
Caller(m) == IF m.destServiceName = NoName THEN m.destNodeId ELSE m.fromNodeId
Comes(l, m) == /\ m.destServiceName # NoName => Returns(m.fromNodeId, m)
               /\ m.destServiceName = NoName =>
                      \A n \in Node : l \in LinksOf(n) => Belongs(n, m.callbackId, m.tag)
ReturnInv ==
    \A l \in Link :
        /\ \A m \in Messages(toBroker[l]) : m.cmd = "BROKER_ROUTE_MSG" => Returns(Caller(m), m)
        /\ \A m \in Messages(toNode[l]) : m.cmd = "BROKER_TO_CLIENT_MSG" => Comes(l, m)

\* No registry has a service without a name, so a call is never taken for an answer.
NamedInv ==
    /\ NoName \notin DOMAIN service2nodeId
    /\ \A n \in Node : NoName \notin DOMAIN m_broker_data[n]
    /\ \A l \in Link : \A m \in Messages(toNode[l]) :
           m.cmd = "REGISTER_TO_BROKER_RET" => NoName \notin DOMAIN m.service2nodeId

AnswerInv == Undisturbed /\ SteadyInv /\ HomeInv /\ ReturnInv /\ NamedInv /\ CallbacksGetTheirAnswer

\* No nameless service comes in where none was.
LEMMA NamedStill ==
    ASSUME NamedInv, NoName \notin DOMAIN service2nodeId',
           \A n \in Node : m_broker_data'[n] = m_broker_data[n] \/ NoName \notin DOMAIN m_broker_data'[n],
           \A l \in Link : \A m \in Messages(toNode'[l]) : m.cmd = "REGISTER_TO_BROKER_RET" =>
               m \in Messages(toNode[l]) \/ NoName \notin DOMAIN m.service2nodeId
    PROVE  NamedInv'
<1>1. \A n \in Node : NoName \notin DOMAIN m_broker_data'[n]
  BY DEF NamedInv
<1>2. \A l \in Link : \A m \in Messages(toNode'[l]) :
          m.cmd = "REGISTER_TO_BROKER_RET" => NoName \notin DOMAIN m.service2nodeId
  BY DEF NamedInv
<1> QED BY <1>1, <1>2 DEF NamedInv

\* Who has an id is found under it, and nobody else has it.
LEMMA HomeIs ==
    ASSUME RpcInv(TRUE), SteadyInv, NEW n \in Node, NEW id, HasId(n, id)
    PROVE  /\ id \in DOMAIN node_sockets /\ node_sockets[id] \in Conn
           /\ owner[node_sockets[id]] = n
<1>1. PICK c \in Conn : owner[c] = n /\ session[c].nodeId = id /\ id # 0
  BY DEF HasId
<1>2. brokerEnd[c] # "none"
  BY <1>1 DEF SteadyInv, Joins, Steady, Up
<1> QED BY <1>1, <1>2 DEF RpcInv, IInv, OwnersAreFound

\* Steps that leave the registered connections and the numbers of the calls alone.
RegisteredStay == \A c \in Conn : session[c].nodeId # 0 =>
                      session'[c].nodeId = session[c].nodeId /\ owner'[c] = owner[c]
CallsGoOn == \A n \in Node : /\ {gCallBackIDGen[n], gCallBackIDGen'[n]} \subseteq Nat
                             /\ gCallBackIDGen[n] <= gCallBackIDGen'[n]
                             /\ \A cb \in m_rpcTmpCallBack'[n] :
                                    \/ cb \in m_rpcTmpCallBack[n]
                                    \/ cb.id \in Nat /\ cb.id > gCallBackIDGen[n]

\* Ids and callbacks that are known stay known.
LEMMA ReturnsStay ==
    ASSUME RegisteredStay
    PROVE  /\ \A n, id : HasId(n, id) => HasId(n, id)'
           /\ CallsGoOn => /\ \A n \in Node : \A k, t : Belongs(n, k, t) => Belongs(n, k, t)'
                           /\ \A id, m : Returns(id, m) => Returns(id, m)'
<1>1. ASSUME NEW n, NEW id, HasId(n, id) PROVE HasId(n, id)'
  BY <1>1 DEF HasId, RegisteredStay
<1>2. ASSUME CallsGoOn, NEW n \in Node, NEW k, NEW t, Belongs(n, k, t) PROVE Belongs(n, k, t)'
  <2>1. /\ gCallBackIDGen[n] \in Nat /\ gCallBackIDGen'[n] \in Nat /\ gCallBackIDGen[n] <= gCallBackIDGen'[n]
        /\ k \in 0..gCallBackIDGen[n]
    BY <1>2 DEF CallsGoOn, Belongs
  <2>2. k \in 0..gCallBackIDGen'[n]
    BY <2>1
  <2>3. ASSUME NEW cb \in m_rpcTmpCallBack'[n], cb.id = k PROVE cb.tag = t
    <3>1. cb \in m_rpcTmpCallBack[n]
      BY <1>2, <2>1, <2>3 DEF CallsGoOn
    <3> QED BY <1>2, <2>3, <3>1 DEF Belongs
  <2> QED BY <2>2, <2>3 DEF Belongs
<1>3. ASSUME CallsGoOn, NEW id, NEW m, Returns(id, m) PROVE Returns(id, m)'
  BY <1>1, <1>2, <1>3 DEF Returns
<1> QED BY <1>1, <1>2, <1>3

\* What such a step does to the messages.
LEMMA ReturnStep ==
    ASSUME ReturnInv, RegisteredStay, CallsGoOn,
           \A l \in Link : \A m \in Messages(toBroker'[l]) : m.cmd = "BROKER_ROUTE_MSG" =>
               (\E k \in Link : m \in Messages(toBroker[k])) \/ Returns(Caller(m), m)',
           \A l \in Link : \A m \in Messages(toNode'[l]) : m.cmd = "BROKER_TO_CLIENT_MSG" =>
               m \in Messages(toNode[l]) \/ Comes(l, m)',
           \A l \in Link : \A n \in Node : l \in LinksOf(n)' =>
               l \in LinksOf(n) \/ Messages(toNode'[l]) = {}
    PROVE  ReturnInv'
<1>1. ASSUME NEW l \in Link, NEW m \in Messages(toBroker'[l]), m.cmd = "BROKER_ROUTE_MSG"
      PROVE  Returns(Caller(m), m)'
  <2>1. CASE Returns(Caller(m), m)'
    BY <2>1
  <2>2. CASE \E k \in Link : m \in Messages(toBroker[k])
    <3>1. Returns(Caller(m), m)
      BY <1>1, <2>2 DEF ReturnInv
    <3> QED BY <3>1, ReturnsStay DEF Caller
  <2> QED BY <1>1, <2>1, <2>2
<1>2. ASSUME NEW l \in Link, NEW m \in Messages(toNode'[l]), m.cmd = "BROKER_TO_CLIENT_MSG"
      PROVE  Comes(l, m)'
  <2>1. CASE Comes(l, m)'
    BY <2>1
  <2>2. CASE m \in Messages(toNode[l])
    <3>1. Comes(l, m)
      BY <1>2, <2>2 DEF ReturnInv
    <3>2. \A n \in Node : l \in LinksOf(n)' => l \in LinksOf(n)
      BY <1>2
    <3> QED BY <3>1, <3>2, ReturnsStay DEF Comes
  <2> QED BY <1>2, <2>1, <2>2
<1> QED BY <1>1, <1>2 DEF ReturnInv

\* The links of a node follow from who owns which connection.
LEMMA LinksFollow ==
    ASSUME NEW l \in Link, NEW n \in Node, l \in LinksOf(n)'
    PROVE  (l \in Conn /\ owner'[l] = n) \/ l \in LinksOf(n)
BY DEF LinksOf

\* Ids that were known stay known.
LEMMA IdsKept ==
    ASSUME RegisteredStay, HomeInv, UNCHANGED m_node_info,
           \A n \in Node : m_nodeId'[n] \in {m_nodeId[n], 0}
    PROVE  /\ \A id \in DOMAIN m_node_info' : HasId(m_node_info[id], id)'
           /\ \A n \in Node : (m_nodeId[n] # 0 => HasId(n, m_nodeId[n]))'
<1>1. \A n, id : HasId(n, id) => HasId(n, id)'
  BY ReturnsStay
<1>2. ASSUME NEW id \in DOMAIN m_node_info' PROVE HasId(m_node_info[id], id)'
  <2>1. PICK n : n = m_node_info[id] /\ HasId(n, id)
    BY <1>2 DEF HomeInv
  <2> QED BY <1>1, <2>1 DEF HasId
<1>3. ASSUME NEW n \in Node, m_nodeId'[n] # 0 PROVE HasId(n, m_nodeId[n])'
  <2>1. PICK id : id = m_nodeId[n] /\ id = m_nodeId'[n] /\ HasId(n, id)
    BY <1>3 DEF HomeInv
  <2> QED BY <1>1, <2>1 DEF HasId
<1> QED BY <1>2, <1>3

\* A node without a registered connection has no id, no calls, and is not open.
LEMMA HomelessIs ==
    ASSUME RpcInv(TRUE), HomeInv, NEW n \in Node, \A c \in Conn : owner[c] = n => session[c].nodeId = 0
    PROVE  /\ m_nodeId[n] = 0 /\ pc[n] # "open" /\ m_runing[n] = FALSE /\ gCallBackIDGen[n] = 0
           /\ m_rpcTmpCallBack[n] = {}
           /\ \A id \in DOMAIN m_node_info : m_node_info[id] # n
<1>1. \A id : ~HasId(n, id)
  BY DEF HasId
<1>2. m_nodeId[n] = 0 /\ pc[n] # "open" /\ \A id \in DOMAIN m_node_info : m_node_info[id] # n
  BY <1>1 DEF HomeInv
<1>3. m_runing[n] \in BOOLEAN /\ gCallBackIDGen[n] \in Nat
      /\ \A cb \in m_rpcTmpCallBack[n] : cb.id \in 1..gCallBackIDGen[n]
  BY DEF RpcInv, NodeInv, NodeTypeInv, CallTypeInv
<1>4. m_runing[n] = FALSE /\ gCallBackIDGen[n] = 0
  BY <1>2, <1>3 DEF HomeInv
<1>5. \A i \in 1..0 : FALSE
  OBVIOUS
<1> QED BY <1>2, <1>3, <1>4, <1>5

\* What such a node does touches nobody else: it gives up, is refused, or starts again.
LEMMA HomelessStep ==
    ASSUME RpcInv(TRUE), AnswerInv, NEW n \in Node,
           \A c \in Conn : owner[c] = n => ~Joins(c),
           UNCHANGED <<session, m_node_info, service2nodeId, restarts, cuts, ran>>,
           \A m \in Node : m_broker_data'[m] \in {m_broker_data[m], Empty},
           \A c \in Conn : owner[c] # n => UNCHANGED <<brokerEnd[c], nodeEnd[c], owner[c]>>,
           \A c \in Conn : owner[c] = n => owner'[c] \in {n, NoOne},
           \A m \in Node \ {n} : UNCHANGED <<pc[m], m_master_broker_sock[m], m_runing[m], m_nodeId[m],
                                             gCallBackIDGen[m], m_rpcTmpCallBack[m]>>,
           pc'[n] \in {"start", "polling", "failed", "crashed"}, m_runing'[n] = FALSE,
           m_nodeId'[n] = 0, gCallBackIDGen'[n] = 0, m_rpcTmpCallBack'[n] = {},
           m_master_broker_sock'[n] = NULL,
           \A l \in Link : /\ Messages(toBroker'[l]) \subseteq Messages(toBroker[l])
                           /\ Messages(toNode'[l]) \subseteq Messages(toNode[l])
    PROVE  AnswerInv'
<1>1. SteadyInv /\ HomeInv /\ ReturnInv /\ \A c \in Conn : c \in Link
  BY DEF AnswerInv, Link
<1>2. \A c \in Conn : owner[c] = n => session[c].nodeId = 0
  BY DEF Joins
<1>3. \A id \in DOMAIN m_node_info : m_node_info[id] # n
  BY <1>1, <1>2, HomelessIs
<1>4. RegisteredStay
  BY <1>2 DEF RegisteredStay
<1>5. CallsGoOn
  <2>1. /\ \A m \in Node : gCallBackIDGen[m] \in Nat
        /\ gCallBackIDGen[n] = 0 /\ m_rpcTmpCallBack[n] = {}
    BY <1>1, <1>2, HomelessIs DEF RpcInv, NodeInv, CallTypeInv
  <2>2. \A m \in Node : UNCHANGED <<gCallBackIDGen[m], m_rpcTmpCallBack[m]>>
    BY <2>1
  <2> QED BY <2>1, <2>2 DEF CallsGoOn
<1>6. SteadyInv'
  <2>1. ASSUME NEW c \in Conn, Joins(c)' PROVE Steady(c)'
    <3>1. Joins(c)
      BY <1>1, <2>1 DEF Joins, Registers
    <3>2. Steady(c) /\ owner[c] # n /\ owner[c] \in Node
      BY <1>1, <3>1 DEF SteadyInv, Steady, RpcInv, NodeInv, NodeTypeInv
    <3>3. pc'[owner[c]] = pc[owner[c]] /\ m_master_broker_sock'[owner[c]] = m_master_broker_sock[owner[c]]
          /\ UNCHANGED <<brokerEnd[c], nodeEnd[c], owner[c]>>
      BY <3>2
    <3> QED BY <3>2, <3>3 DEF Steady, Up
  <2> QED BY <2>1 DEF SteadyInv
<1>7. HomeInv'
  <2>2. \A m \in Node : m_master_broker_sock[m] \in Conn \cup {NULL}
    BY DEF RpcInv, NodeInv, NodeTypeInv
  <2>3. \A m \in Node : m_master_broker_sock'[m] # NULL => owner'[m_master_broker_sock'[m]] = m
    <3> SUFFICES ASSUME NEW m \in Node, m_master_broker_sock'[m] # NULL
                 PROVE  owner'[m_master_broker_sock'[m]] = m
      OBVIOUS
    <3>1. m # n /\ m_master_broker_sock'[m] = m_master_broker_sock[m]
      OBVIOUS
    <3>2. PICK c \in Conn : c = m_master_broker_sock[m] /\ owner[c] = m
      BY <1>1, <2>2, <3>1 DEF HomeInv
    <3>3. owner'[c] = owner[c]
      BY <3>1, <3>2
    <3> QED BY <3>1, <3>2, <3>3
  <2>4. /\ \A id \in DOMAIN m_node_info' : HasId(m_node_info[id], id)'
        /\ \A m \in Node : (m_nodeId[m] # 0 => HasId(m, m_nodeId[m]))'
    BY <1>1, <1>4, IdsKept
  <2>6. \A m \in Node : /\ m_runing'[m] => pc'[m] = "open"
                        /\ pc'[m] \notin {"closing", "forgetting", "closed"}
                        /\ pc'[m] = "open" => m_nodeId'[m] # 0
                        /\ gCallBackIDGen'[m] # 0 => pc'[m] = "open"
    BY <1>1 DEF HomeInv
  <2> QED BY <2>3, <2>4, <2>6 DEF HomeInv
<1>8. ReturnInv'
  <2>1. \A l \in Link : \A m \in Node : l \in LinksOf(m)' => l \in LinksOf(m) \/ Messages(toNode'[l]) = {}
    <3> SUFFICES ASSUME NEW l \in Link, NEW m \in Node, l \in LinksOf(m)' PROVE l \in LinksOf(m)
      OBVIOUS
    <3>1. CASE l \in Conn /\ owner'[l] = m
      BY <3>1 DEF LinksOf
    <3> QED BY <3>1, LinksFollow
  <2> QED BY <1>1, <1>4, <1>5, <2>1, ReturnStep
<1>9. NamedInv'
  <2>1. NamedInv /\ NoName \notin DOMAIN Empty
    BY DEF AnswerInv, Empty
  <2>2. NoName \notin DOMAIN service2nodeId'
    BY <2>1 DEF NamedInv
  <2> QED BY <2>1, <2>2, NamedStill
<1> QED BY <1>6, <1>7, <1>8, <1>9 DEF AnswerInv, Undisturbed, CallbacksGetTheirAnswer

\* open() fails, or a refusal finds no socket.
LEMMA GivesUpStep ==
    ASSUME RpcInv(TRUE), AnswerInv, NEW n \in Node, UNCHANGED <<registryVars, cuts>>,
           OpenFails(n) \/ \E c \in Conn : RefusalCrashes(n, c)
    PROVE  AnswerInv'
<1>1. SteadyInv /\ HomeInv /\ NodeTypeInv
  BY DEF AnswerInv, RpcInv, NodeInv
<1>2. m_master_broker_sock[n] = NULL
  BY DEF OpenFails, RefusalCrashes
<1>3. \A c \in Conn : owner[c] = n => ~Joins(c)
  BY <1>1, <1>2 DEF SteadyInv, Steady
<1>4. /\ m_nodeId[n] = 0 /\ m_runing[n] = FALSE /\ gCallBackIDGen[n] = 0 /\ m_rpcTmpCallBack[n] = {}
  BY <1>1, <1>3, HomelessIs DEF Joins
<1>5. UNCHANGED <<netVars, m_node_info, m_runing, m_nodeId, m_master_broker_sock, m_rpcTmpCallBack,
                  gCallBackIDGen, owner, restarts, ran, service2nodeId, m_broker_data>>
  BY DEF OpenFails, RefusalCrashes, registryVars
<1>6. pc'[n] \in {"failed", "crashed"} /\ \A m \in Node \ {n} : pc'[m] = pc[m]
  BY <1>1 DEF NodeTypeInv, OpenFails, RefusalCrashes
<1> QED BY <1>2, <1>3, <1>4, <1>5, <1>6, HomelessStep DEF netVars

\* A node is refused: its only connection is that of the refusal.
LEMMA RefusedStep ==
    ASSUME RpcInv(TRUE), AnswerInv, NEW n \in Node, NEW c \in Conn, UNCHANGED <<registryVars, cuts>>, RegistrationRefused(n, c)
    PROVE  AnswerInv'
<1>1. SteadyInv /\ HomeInv /\ NodeTypeInv /\ OneWayInv /\ RegisterInv(TRUE) /\ toNode \in Queues(ForNode)
      /\ toBroker \in Queues(ForBroker) /\ RegistryTypeOK /\ \A d \in Conn : d \in Link
  BY DEF AnswerInv, RpcInv, NodeInv, LinkInv, QueueTypeInv, IInv, Link
<1>2. PICK q : q = Taken(toNode, c)
  OBVIOUS
<1>3. /\ owner[c] = n /\ n # NoOne /\ Head(toNode[c]) \in Messages(toNode[c]) /\ toNode[c] # <<>>
      /\ Head(toNode[c]).cmd = "REGISTER_TO_BROKER_RET" /\ Head(toNode[c]).registerFlag = -1
      /\ q \in Queues(ForNode) /\ \A l \in Link : Messages(q[l]) \subseteq Messages(toNode[l])
  <2>1. Arrives(n, c, "REGISTER_TO_BROKER_RET") /\ Head(toNode[c]).registerFlag = -1
    BY DEF RegistrationRefused
  <2>2. PICK lasting \in BOOLEAN : RpcInv(lasting) /\ c \in Link
    BY <1>1
  <2> QED BY <1>1, <1>2, <2>1, <2>2, ArrivesIs
<1>4. \A d \in Conn : owner[d] = n => d = c
  BY <1>1, <1>3 DEF OneWayInv
<1>5. session[c].nodeId = 0 /\ ~Registers(c)
  BY <1>1, <1>3 DEF RegisterInv, Registers, Messages
<1>6. \A d \in Conn : owner[d] = n => ~Joins(d)
  BY <1>4, <1>5 DEF Joins
<1>7. /\ m_nodeId[n] = 0 /\ pc[n] # "open" /\ m_runing[n] = FALSE /\ gCallBackIDGen[n] = 0
      /\ m_rpcTmpCallBack[n] = {}
  BY <1>1, <1>6, HomelessIs DEF Joins
<1>8. m_master_broker_sock[n] = c
  <2>1. m_master_broker_sock[n] \in Conn /\ owner[m_master_broker_sock[n]] = n
    BY <1>1 DEF NodeTypeInv, HomeInv, RegistrationRefused
  <2> QED BY <1>4, <2>1
<1>9. /\ \A d \in Conn \ {c} : UNCHANGED <<brokerEnd[d], nodeEnd[d]>>
      /\ \A l \in Link : /\ Messages(toBroker'[l]) \subseteq Messages(toBroker[l])
                         /\ Messages(toNode'[l]) \subseteq Messages(toNode[l])
  <2>1. CASE Break(c, toBroker, q)
    <3>1. toBroker' \in Truncated(toBroker, c) /\ toNode' \in Truncated(q, c)
          /\ brokerEnd' = [brokerEnd EXCEPT ![c] = "broken"] /\ nodeEnd' = [nodeEnd EXCEPT ![c] = "broken"]
      BY <2>1 DEF Break
    <3>2. c \in Link
      BY <1>1
    <3>3. \A l \in Link : Messages(toBroker'[l]) \subseteq Messages(toBroker[l])
      BY <1>1, <3>1, <3>2, TruncatedQueue
    <3>4. \A l \in Link : Messages(toNode'[l]) \subseteq Messages(q[l])
      BY <1>3, <3>1, <3>2, TruncatedQueue
    <3>5. \A l \in Link : Messages(toNode'[l]) \subseteq Messages(toNode[l])
      BY <1>3, <3>4
    <3> QED BY <1>1, <3>1, <3>3, <3>5 DEF RegistryTypeOK
  <2>2. CASE toNode' = q /\ UNCHANGED <<brokerEnd, nodeEnd, toBroker>>
    BY <1>3, <2>2
  <2> QED BY <1>2, <1>8, <2>1, <2>2 DEF RegistrationRefused
<1>10. /\ UNCHANGED <<session, m_node_info, restarts, ran, owner, pc, m_runing, m_nodeId, gCallBackIDGen,
                      m_rpcTmpCallBack>>
       /\ m_master_broker_sock' = [m_master_broker_sock EXCEPT ![n] = NULL]
  BY DEF RegistrationRefused
<1>11. /\ m_master_broker_sock'[n] = NULL
       /\ \A m \in Node \ {n} : m_master_broker_sock'[m] = m_master_broker_sock[m]
       /\ pc[n] \in {"start", "polling", "failed", "crashed"}
  BY <1>1, <1>7, <1>10 DEF NodeTypeInv, Labels, HomeInv
<1>12. /\ \A d \in Conn : owner[d] # n => UNCHANGED <<brokerEnd[d], nodeEnd[d], owner[d]>>
       /\ \A d \in Conn : owner[d] = n => owner'[d] \in {n, NoOne}
       /\ \A m \in Node \ {n} : UNCHANGED <<pc[m], m_master_broker_sock[m], m_runing[m], m_nodeId[m],
                                            gCallBackIDGen[m], m_rpcTmpCallBack[m]>>
       /\ pc'[n] \in {"start", "polling", "failed", "crashed"} /\ m_runing'[n] = FALSE
       /\ m_nodeId'[n] = 0 /\ gCallBackIDGen'[n] = 0 /\ m_rpcTmpCallBack'[n] = {}
  BY <1>3, <1>7, <1>9, <1>10, <1>11
<1>13. UNCHANGED <<session, m_node_info, service2nodeId, restarts, cuts, ran, m_broker_data>>
  BY <1>10 DEF RegistrationRefused, registryVars
<1> QED BY <1>6, <1>9, <1>11, <1>12, <1>13, HomelessStep

\* A node sees its connection broken.
LEMMA NodeBrokenStep ==
    ASSUME RpcInv(TRUE), AnswerInv, NEW n \in Node, NEW c \in Conn, UNCHANGED <<registryVars, cuts>>, HandleNodeBroken(n, c)
    PROVE  AnswerInv'
<1>1. SteadyInv /\ HomeInv /\ NodeTypeInv /\ OneWayInv /\ RegistryTypeOK /\ owner \in [Conn -> Node \cup {NoOne}]
  BY DEF AnswerInv, RpcInv, NodeInv, NodeTypeInv, IInv
<1>2. /\ owner[c] = n /\ nodeEnd[c] = "broken" /\ n # NoOne
      /\ nodeEnd' = [nodeEnd EXCEPT ![c] = "none"] /\ owner' = [owner EXCEPT ![c] = NoOne]
      /\ m_master_broker_sock' = [m_master_broker_sock EXCEPT ![n] = NULL]
      /\ UNCHANGED <<brokerEnd, toBroker, toNode, session, m_node_info, pc, m_runing, m_nodeId,
                     m_rpcTmpCallBack, gCallBackIDGen, restarts, ran>>
  BY DEF HandleNodeBroken
<1>3. \A d \in Conn : owner[d] = n => d = c
  BY <1>1, <1>2 DEF OneWayInv
<1>4. \A d \in Conn : owner[d] = n => ~Joins(d)
  BY <1>1, <1>2, <1>3 DEF SteadyInv, Steady, Up
<1>5. /\ m_nodeId[n] = 0 /\ pc[n] # "open" /\ m_runing[n] = FALSE /\ gCallBackIDGen[n] = 0
      /\ m_rpcTmpCallBack[n] = {}
  BY <1>1, <1>4, HomelessIs DEF Joins
<1>6. /\ m_master_broker_sock'[n] = NULL
      /\ \A m \in Node \ {n} : m_master_broker_sock'[m] = m_master_broker_sock[m]
      /\ pc[n] \in {"start", "polling", "failed", "crashed"}
  BY <1>1, <1>2, <1>5 DEF NodeTypeInv, Labels, HomeInv
<1>7. /\ \A d \in Conn : owner[d] # n => UNCHANGED <<brokerEnd[d], nodeEnd[d], owner[d]>>
      /\ owner'[c] = NoOne
  BY <1>1, <1>2 DEF RegistryTypeOK
<1>8. /\ \A d \in Conn : owner[d] = n => owner'[d] \in {n, NoOne}
      /\ \A m \in Node \ {n} : UNCHANGED <<pc[m], m_master_broker_sock[m], m_runing[m], m_nodeId[m],
                                           gCallBackIDGen[m], m_rpcTmpCallBack[m]>>
      /\ pc'[n] \in {"start", "polling", "failed", "crashed"} /\ m_runing'[n] = FALSE
      /\ m_nodeId'[n] = 0 /\ gCallBackIDGen'[n] = 0 /\ m_rpcTmpCallBack'[n] = {}
      /\ \A l \in Link : /\ Messages(toBroker'[l]) \subseteq Messages(toBroker[l])
                         /\ Messages(toNode'[l]) \subseteq Messages(toNode[l])
  BY <1>2, <1>3, <1>5, <1>6, <1>7
<1>9. UNCHANGED <<session, m_node_info, service2nodeId, restarts, cuts, ran, m_broker_data>>
  BY <1>2 DEF HandleNodeBroken, registryVars
<1> QED BY <1>4, <1>6, <1>7, <1>8, <1>9, HomelessStep

\* A node that failed starts again.
LEMMA RestartStep ==
    ASSUME RpcInv(TRUE), AnswerInv, NEW n \in Node, UNCHANGED <<registryVars, cuts>>, MaxRestarts = 0, ProcessRestarts(n)
    PROVE  AnswerInv'
<1>1. SteadyInv /\ HomeInv /\ NodeTypeInv /\ RegistryTypeOK /\ toBroker \in Queues(ForBroker)
      /\ toNode \in Queues(ForNode) /\ restarts = 0 /\ CallTypeInv
  BY DEF AnswerInv, RpcInv, NodeInv, LinkInv, QueueTypeInv, IInv, Undisturbed
<1>2. pc[n] \in {"closed", "failed", "crashed"} /\ UNCHANGED restarts
  BY <1>1 DEF ProcessRestarts
<1>3. \A c \in Conn : owner[c] = n => ~Joins(c)
  BY <1>1, <1>2 DEF SteadyInv, Steady
<1>4. /\ \A c \in Conn : owner[c] # n => UNCHANGED <<brokerEnd[c], nodeEnd[c], owner[c]>>
      /\ \A c \in Conn : owner[c] = n => owner'[c] \in {n, NoOne}
      /\ \A l \in Link : /\ Messages(toBroker'[l]) \subseteq Messages(toBroker[l])
                         /\ Messages(toNode'[l]) \subseteq Messages(toNode[l])
  <2>1. CASE UNCHANGED <<brokerEnd, nodeEnd, toBroker, toNode, owner>>
    BY <2>1
  <2>2. CASE \E c \in Conn : owner[c] = n /\ Abandon(c) /\ owner' = [owner EXCEPT ![c] = NoOne]
    <3>1. PICK c \in Conn : owner[c] = n /\ Abandon(c) /\ owner' = [owner EXCEPT ![c] = NoOne]
      BY <2>2
    <3>2. /\ nodeEnd' = [nodeEnd EXCEPT ![c] = "none"]
          /\ brokerEnd' = [brokerEnd EXCEPT ![c] = IF @ = "open" THEN "broken" ELSE @]
          /\ toBroker' \in Truncated(toBroker, c) /\ toNode' = [toNode EXCEPT ![c] = <<>>]
      BY <3>1 DEF Abandon
    <3>3. \A l \in Link : Messages(toBroker'[l]) \subseteq Messages(toBroker[l])
      <4>1. c \in Link
        BY DEF Link
      <4> QED BY <1>1, <3>2, <4>1, TruncatedQueue
    <3>4. \A l \in Link : Messages(toNode'[l]) \subseteq Messages(toNode[l])
      <4>1. \A l \in Link : toNode'[l] = toNode[l] \/ toNode'[l] = <<>>
        BY <1>1, <3>2 DEF Queues
      <4>2. Messages(<<>>) = {}
        BY DEF Messages
      <4> QED BY <4>1, <4>2
    <3>5. \A d \in Conn : /\ owner'[d] = owner[d] \/ owner'[d] = NoOne
                          /\ d # c => UNCHANGED <<brokerEnd[d], nodeEnd[d], owner[d]>>
      BY <1>1, <3>1, <3>2 DEF RegistryTypeOK, NodeTypeInv
    <3> QED BY <3>1, <3>3, <3>4, <3>5
  <2> QED BY <2>1, <2>2 DEF ProcessRestarts
<1>5. /\ pc'[n] = "start" /\ m_runing'[n] = FALSE /\ m_nodeId'[n] = 0 /\ gCallBackIDGen'[n] = 0
      /\ m_rpcTmpCallBack'[n] = {} /\ m_master_broker_sock'[n] = NULL
      /\ \A m \in Node \ {n} : UNCHANGED <<pc[m], m_master_broker_sock[m], m_runing[m], m_nodeId[m],
                                           gCallBackIDGen[m], m_rpcTmpCallBack[m]>>
  BY <1>1 DEF ProcessRestarts, NodeTypeInv, CallTypeInv
<1>6. /\ UNCHANGED <<session, m_node_info, service2nodeId, ran>>
      /\ \A m \in Node : m_broker_data'[m] \in {m_broker_data[m], Empty}
  BY <1>1 DEF ProcessRestarts, registryVars, NodeTypeInv
<1> QED BY <1>2, <1>3, <1>4, <1>5, <1>6, HomelessStep

-----------------------------------------------------------------------------
(* Steps in which the nodes stay where they are. *)

\* Messages are handled and sent, calls made and answered.
LEMMA UnmovedStep ==
    ASSUME RpcInv(TRUE), AnswerInv,
           UNCHANGED <<session, owner, pc, m_runing, m_nodeId, m_master_broker_sock, m_node_info,
                       restarts, cuts>>,
           \A c \in Conn : Up(c) => Up(c)',
           CallsGoOn, \A n \in Node : gCallBackIDGen'[n] # gCallBackIDGen[n] => pc[n] = "open",
           \A l \in Link : \A m \in Messages(toBroker'[l]) :
               m \in Messages(toBroker[l]) \/ (m.cmd = "BROKER_ROUTE_MSG" /\ Returns(Caller(m), m)'),
           \A l \in Link : \A m \in Messages(toNode'[l]) : m.cmd = "BROKER_TO_CLIENT_MSG" =>
               m \in Messages(toNode[l]) \/ Comes(l, m)',
           NamedInv', CallbacksGetTheirAnswer'
    PROVE  AnswerInv'
<1>1. SteadyInv /\ HomeInv /\ ReturnInv /\ \A c \in Conn : c \in Link
  BY DEF AnswerInv, Link
<1>2. RegisteredStay
  BY DEF RegisteredStay
<1>3. SteadyInv'
  <2>1. ASSUME NEW c \in Conn, Joins(c)' PROVE Steady(c)'
    <3>1. Joins(c)
      BY <1>1, <2>1 DEF Joins, Registers
    <3> QED BY <1>1, <3>1 DEF SteadyInv, Steady
  <2> QED BY <2>1 DEF SteadyInv
<1>4. HomeInv'
  <2>1. /\ \A id \in DOMAIN m_node_info' : HasId(m_node_info[id], id)'
        /\ \A n \in Node : (m_nodeId[n] # 0 => HasId(n, m_nodeId[n]))'
    BY <1>1, <1>2, IdsKept
  <2>2. \A n \in Node : gCallBackIDGen'[n] # 0 => pc'[n] = "open"
    BY <1>1 DEF HomeInv
  <2> QED BY <1>1, <2>1, <2>2 DEF HomeInv
<1>5. ReturnInv'
  <2>1. \A l \in Link : \A n \in Node : l \in LinksOf(n)' => l \in LinksOf(n)
    BY DEF LinksOf
  <2>2. \A l \in Link : \A m \in Messages(toBroker'[l]) : m.cmd = "BROKER_ROUTE_MSG" =>
            (\E k \in Link : m \in Messages(toBroker[k])) \/ Returns(Caller(m), m)'
    OBVIOUS
  <2> QED BY <1>1, <1>2, <2>1, <2>2, ReturnStep
<1> QED BY <1>3, <1>4, <1>5 DEF AnswerInv, Undisturbed

\* The numbers and callbacks of all nodes stay, or some callbacks go.
LEMMA CallsStay ==
    ASSUME RpcInv(TRUE), UNCHANGED gCallBackIDGen,
           \A n \in Node : m_rpcTmpCallBack'[n] \subseteq m_rpcTmpCallBack[n]
    PROVE  CallsGoOn
<1>1. \A n \in Node : gCallBackIDGen[n] \in Nat
  BY DEF RpcInv, NodeInv, CallTypeInv
<1> QED BY <1>1 DEF CallsGoOn

\* What a node sends, if anything, is of use.
LEMMA UsefulSent ==
    ASSUME RpcInv(TRUE), NEW msg \in RouteMsgs("BROKER_ROUTE_MSG"), Returns(Caller(msg), msg)',
           toBroker' = toBroker \/ \E l \in Link : toBroker' = Put(toBroker, l, msg)
    PROVE  \A l \in Link : \A m \in Messages(toBroker'[l]) :
               m \in Messages(toBroker[l]) \/ (m.cmd = "BROKER_ROUTE_MSG" /\ Returns(Caller(m), m)')
<1>1. toBroker \in Queues(ForBroker) /\ msg \in ForBroker /\ msg.cmd = "BROKER_ROUTE_MSG"
  BY DEF RpcInv, LinkInv, QueueTypeInv, ForBroker, RouteMsgs
<1>2. CASE toBroker' = toBroker
  BY <1>2
<1>3. CASE \E l \in Link : toBroker' = Put(toBroker, l, msg)
  <2>1. PICK q : q = toBroker'
    OBVIOUS
  <2>2. PICK l \in Link : q = Put(toBroker, l, msg)
    BY <1>3, <2>1
  <2>3. /\ q \in Queues(ForBroker) /\ \A d \in Link \ {l} : q[d] = toBroker[d]
        /\ \A i \in DOMAIN q[l] : \/ i \in DOMAIN toBroker[l] /\ q[l][i] = toBroker[l][i]
                                  \/ q[l][i] = msg
    BY <1>1, <2>2, BrokerPut
  <2>4. \A d \in Link : \A x \in Messages(q[d]) : x = msg \/ x \in Messages(toBroker[d])
    BY <2>3 DEF Messages
  <2>5. ASSUME NEW d \in Link, NEW m \in Messages(toBroker'[d]), m \notin Messages(toBroker[d])
        PROVE  m.cmd = "BROKER_ROUTE_MSG" /\ Returns(Caller(m), m)'
    <3>1. m = msg
      BY <2>1, <2>4, <2>5
    <3> QED BY <1>1, <3>1
  <2> QED BY <2>5
<1> QED BY <1>2, <1>3

\* A call of a service the node does not know.
LEMMA CallFailsStep ==
    ASSUME RpcInv(TRUE), AnswerInv, NEW n \in Node, NEW service, NEW kind, UNCHANGED <<registryVars, cuts>>,
           CallWithoutService(n, service, kind)
    PROVE  AnswerInv'
<1>1. UNCHANGED <<netVars, m_node_info, nodeVars, owner, restarts, service2nodeId, cuts>>
  BY DEF CallWithoutService, registryVars
<1>2. UNCHANGED <<session, owner, pc, m_runing, m_nodeId, m_master_broker_sock, m_node_info, restarts,
                  cuts, brokerEnd, nodeEnd, toBroker, toNode, gCallBackIDGen, m_rpcTmpCallBack,
                  m_broker_data, service2nodeId>>
  BY <1>1 DEF netVars, nodeVars
<1>3. CallbacksGetTheirAnswer'
  <2>1. \A p \in ran' : p \in ran \/ p = <<calls', calls'>>
    BY DEF CallWithoutService
  <2> QED BY <2>1 DEF AnswerInv, CallbacksGetTheirAnswer
<1>4. CallsGoOn
  BY <1>2, CallsStay
<1>5. NamedInv'
  BY <1>2 DEF AnswerInv, NamedInv
<1>6. \A c \in Conn : Up(c) => Up(c)'
  BY <1>2 DEF Up
<1> QED BY <1>2, <1>3, <1>4, <1>5, <1>6, UnmovedStep

\* A node calls: the call carries its id and a number that is new.
LEMMA CallStep ==
    ASSUME RpcInv(TRUE), AnswerInv, NEW n \in Node, NEW service \in Service, NEW kind \in Kinds,
           UNCHANGED <<registryVars, cuts>>, docall(n, service, kind)
    PROVE  AnswerInv'
<1>1. /\ NodeTypeInv /\ CallTypeInv /\ HomeInv /\ NamedInv
  BY DEF RpcInv, NodeInv, AnswerInv
<1>2. PICK callbackId : callbackId = IF kind = "tell" THEN 0 ELSE NewCallbackId(n)
  OBVIOUS
<1>3. /\ calls' = calls + 1 /\ service \in DOMAIN m_broker_data[n] /\ pc[n] = "open"
      /\ \/ callbackId = 0 /\ UNCHANGED <<gCallBackIDGen, m_rpcTmpCallBack>>
         \/ /\ callbackId = gCallBackIDGen[n] + 1
            /\ gCallBackIDGen' = [gCallBackIDGen EXCEPT ![n] = callbackId]
            /\ m_rpcTmpCallBack' = [m_rpcTmpCallBack EXCEPT ![n] =
                                      @ \cup {[id |-> callbackId, tag |-> calls']}]
      /\ toBroker' = Sent(toBroker, n, service, kind, m_broker_data[n][service], callbackId, FALSE, calls')
      /\ UNCHANGED <<brokerEnd, nodeEnd, toNode, session, m_node_info, pc, m_runing, m_nodeId,
                     m_master_broker_sock, m_broker_data, owner, restarts, ran, service2nodeId>>
  BY <1>2 DEF docall, NewCallbackId, registryVars
<1>4. /\ \A m \in Node : gCallBackIDGen[m] \in Nat
      /\ calls' \in Nat /\ callbackId \in Nat /\ gCallBackIDGen[n] + 1 \in Nat
  BY <1>1, <1>2, <1>3 DEF CallTypeInv, NewCallbackId
<1>5. PICK tag : tag = calls'
  OBVIOUS
<1>6. CallsGoOn /\ Belongs(n, callbackId, tag)'
  <2>1. \A m \in Node : \A cb \in m_rpcTmpCallBack[m] :
            cb.id \in Nat /\ cb.id # 0 /\ cb.id <= gCallBackIDGen[m]
    BY <1>1, <1>4 DEF CallTypeInv
  <2>2. CASE callbackId = 0 /\ UNCHANGED <<gCallBackIDGen, m_rpcTmpCallBack>>
    <3>1. CallsGoOn
      BY <2>2, CallsStay
    <3>2. 0 \in 0..gCallBackIDGen[n]
      BY <1>4
    <3> QED BY <2>1, <2>2, <3>1, <3>2 DEF Belongs
  <2>3. CASE /\ callbackId = gCallBackIDGen[n] + 1
             /\ gCallBackIDGen' = [gCallBackIDGen EXCEPT ![n] = callbackId]
             /\ m_rpcTmpCallBack' = [m_rpcTmpCallBack EXCEPT ![n] =
                                       @ \cup {[id |-> callbackId, tag |-> calls']}]
    <3>1. PICK new : new = [id |-> callbackId, tag |-> tag]
      OBVIOUS
    <3>2. new.id = callbackId /\ new.tag = tag
      BY <3>1
    <3>3. /\ gCallBackIDGen'[n] = callbackId
          /\ \A m \in Node \ {n} : gCallBackIDGen'[m] = gCallBackIDGen[m]
      BY <1>1, <2>3 DEF CallTypeInv
    <3>4. /\ m_rpcTmpCallBack'[n] = m_rpcTmpCallBack[n] \cup {new}
          /\ \A m \in Node \ {n} : m_rpcTmpCallBack'[m] = m_rpcTmpCallBack[m]
      BY <1>1, <1>5, <2>3, <3>1 DEF CallTypeInv
    <3>5. CallsGoOn
      <4>1. ASSUME NEW m \in Node
            PROVE  /\ {gCallBackIDGen[m], gCallBackIDGen'[m]} \subseteq Nat
                   /\ gCallBackIDGen[m] <= gCallBackIDGen'[m]
        BY <1>4, <2>3, <3>3
      <4>2. ASSUME NEW m \in Node, NEW cb \in m_rpcTmpCallBack'[m]
            PROVE  cb \in m_rpcTmpCallBack[m] \/ (cb.id \in Nat /\ cb.id > gCallBackIDGen[m])
        BY <1>4, <2>3, <3>2, <3>4, <4>2
      <4> QED BY <4>1, <4>2 DEF CallsGoOn
    <3>6. callbackId \in 0..callbackId /\ \A cb \in m_rpcTmpCallBack[n] : cb.id # callbackId
      BY <1>4, <2>1, <2>3
    <3> QED BY <3>2, <3>3, <3>4, <3>5, <3>6 DEF Belongs
  <2> QED BY <1>3, <2>2, <2>3
<1>7. m_nodeId[n] \in Nat /\ HasId(n, m_nodeId[n])' /\ service # NoName
  <2>1. HasId(n, m_nodeId[n])
    BY <1>1, <1>3 DEF HomeInv
  <2>2. service # NoName
    BY <1>1, <1>3 DEF NamedInv
  <2> QED BY <1>1, <1>3, <2>1, <2>2 DEF HasId, NodeTypeInv
<1>8. PICK dest : dest = m_broker_data[n][service]
  OBVIOUS
<1>9. dest \in Nat
  BY <1>1, <1>3, <1>8, RegistryIs DEF NodeTypeInv
<1>10. PICK msg : msg = RouteMsg(service, kind, dest, m_nodeId[n], callbackId, FALSE, tag)
  OBVIOUS
<1>11. /\ msg \in RouteMsgs("BROKER_ROUTE_MSG") /\ msg.destServiceName = service
       /\ msg.fromNodeId = m_nodeId[n] /\ msg.callbackId = callbackId /\ msg.tag = tag
  BY <1>4, <1>5, <1>7, <1>9, <1>10 DEF RouteMsg, RouteMsgs, ServiceOrNone, KindOrNone
<1>12. toBroker' = toBroker \/ \E l \in Link : toBroker' = Put(toBroker, l, msg)
  <2>1. m_master_broker_sock[n] \in Conn \cup {NULL}
    BY <1>1 DEF NodeTypeInv
  <2> QED BY <1>3, <1>5, <1>8, <1>10, <2>1 DEF Sent, Link
<1>13. Returns(Caller(msg), msg)'
  <2>1. Caller(msg) = m_nodeId[n]
    BY <1>7, <1>11 DEF Caller
  <2>2. m_nodeId'[n] = m_nodeId[n] /\ Caller(msg)' = Caller(msg)
    BY <1>3 DEF Caller
  <2> QED BY <1>6, <1>7, <1>11, <2>1, <2>2 DEF Returns, HasId
<1>14. \A l \in Link : \A m \in Messages(toBroker'[l]) :
           m \in Messages(toBroker[l]) \/ (m.cmd = "BROKER_ROUTE_MSG" /\ Returns(Caller(m), m)')
  BY <1>11, <1>12, <1>13, UsefulSent
<1>15. NamedInv' /\ CallbacksGetTheirAnswer'
  BY <1>1, <1>3 DEF AnswerInv, NamedInv, CallbacksGetTheirAnswer
<1>16. /\ \A c \in Conn : Up(c) => Up(c)'
       /\ \A m \in Node : gCallBackIDGen'[m] # gCallBackIDGen[m] => pc[m] = "open"
  BY <1>1, <1>3 DEF Up, CallTypeInv
<1> QED BY <1>3, <1>6, <1>14, <1>15, <1>16, UnmovedStep

\* A node of its own link is called or answered: the message is of use.
LEMMA ArrivedIs ==
    ASSUME RpcInv(TRUE), AnswerInv, NEW n \in Node, NEW l \in Link, Arrives(n, l, "BROKER_TO_CLIENT_MSG"),
           NEW msg, msg = Head(toNode[l]), toNode' = Taken(toNode, l)
    PROVE  /\ l \in LinksOf(n) /\ msg \in RouteMsgs("BROKER_TO_CLIENT_MSG") /\ Comes(l, msg)
           /\ \A k \in Link : Messages(toNode'[k]) \subseteq Messages(toNode[k])
<1>1. PICK q : q = toNode'
  OBVIOUS
<1>2. /\ msg \in ForNode /\ msg \in Messages(toNode[l]) /\ msg.cmd = "BROKER_TO_CLIENT_MSG"
      /\ \A k \in Link : Messages(q[k]) \subseteq Messages(toNode[k])
  <2>1. PICK lasting \in BOOLEAN : RpcInv(lasting) /\ q = Taken(toNode, l)
    BY <1>1
  <2> QED BY <2>1, ArrivesIs
<1>3. msg \in RouteMsgs("BROKER_TO_CLIENT_MSG")
  BY <1>2, MessageKinds
<1>4. Comes(l, msg)
  BY <1>2 DEF AnswerInv, ReturnInv
<1>5. l \in LinksOf(n)
  BY DEF Arrives
<1> QED BY <1>1, <1>2, <1>3, <1>4, <1>5

\* A node is called: its answer goes where the call came from.
LEMMA HandleCallStep ==
    ASSUME RpcInv(TRUE), AnswerInv, NEW n \in Node, NEW l \in Link, UNCHANGED <<registryVars, cuts>>,
           HandleCall(n, l)
    PROVE  AnswerInv'
<1>1. NodeTypeInv /\ NamedInv
  BY DEF RpcInv, NodeInv, AnswerInv
<1>2. PICK msg : msg = Head(toNode[l])
  OBVIOUS
<1>3. PICK known \in BOOLEAN : known = (msg.destMsgName # "unknown")
  OBVIOUS
<1>4. Arrives(n, l, "BROKER_TO_CLIENT_MSG") /\ toNode' = Taken(toNode, l)
  BY DEF HandleCall
<1>5. msg.destServiceName # NoName
  BY <1>2, Zenon DEF HandleCall, NoName
<1>6. UNCHANGED <<brokerEnd, nodeEnd, session, m_node_info, nodeVars, owner, restarts, ran,
                  service2nodeId, cuts>>
  BY DEF HandleCall, registryVars
<1>7. \/ toBroker' = toBroker
      \/ toBroker' = Sent(toBroker, n, NoName, NoName, msg.fromNodeId, msg.callbackId, ~known, msg.tag)
  BY <1>2, <1>3, Zenon DEF HandleCall, NoName
<1>8. /\ msg \in RouteMsgs("BROKER_TO_CLIENT_MSG") /\ Returns(msg.fromNodeId, msg)
      /\ \A k \in Link : Messages(toNode'[k]) \subseteq Messages(toNode[k])
  <2>1. /\ msg \in RouteMsgs("BROKER_TO_CLIENT_MSG") /\ Comes(l, msg)
        /\ \A k \in Link : Messages(toNode'[k]) \subseteq Messages(toNode[k])
    BY <1>2, <1>4, ArrivedIs
  <2> QED BY <1>5, <2>1 DEF Comes
<1>9. /\ msg.fromNodeId \in Nat /\ msg.callbackId \in Nat /\ msg.tag \in Nat
  BY <1>8, MessageFields
<1>10. PICK answer : answer = RouteMsg(NoName, NoName, msg.fromNodeId, m_nodeId[n], msg.callbackId,
                                       ~known, msg.tag)
  OBVIOUS
<1>11. /\ answer \in RouteMsgs("BROKER_ROUTE_MSG") /\ Caller(answer) = msg.fromNodeId
       /\ answer.callbackId = msg.callbackId /\ answer.tag = msg.tag
  <2>1. m_nodeId[n] \in Nat /\ NoName \in ServiceOrNone /\ NoName \in KindOrNone
    BY <1>1 DEF NodeTypeInv, ServiceOrNone, KindOrNone
  <2> QED BY <1>9, <1>10, <2>1 DEF RouteMsg, RouteMsgs, Caller
<1>12. UNCHANGED <<pc, m_runing, m_nodeId, m_master_broker_sock, m_broker_data, gCallBackIDGen,
                   m_rpcTmpCallBack>>
  BY <1>6 DEF nodeVars
<1>13. CallsGoOn /\ RegisteredStay
  BY <1>6, <1>12, CallsStay DEF RegisteredStay
<1>14. Returns(Caller(answer), answer)'
  <2>1. Returns(msg.fromNodeId, answer)
    BY <1>8, <1>11 DEF Returns
  <2>2. Returns(Caller(answer), answer)
    BY <1>11, <2>1
  <2> QED BY <1>13, <2>2, ReturnsStay DEF Caller
<1>15. toBroker' = toBroker \/ \E k \in Link : toBroker' = Put(toBroker, k, answer)
  <2>1. m_master_broker_sock[n] \in Conn \cup {NULL}
    BY <1>1 DEF NodeTypeInv
  <2> QED BY <1>7, <1>10, <2>1 DEF Sent, Link
<1>16. \A k \in Link : \A m \in Messages(toBroker'[k]) :
           m \in Messages(toBroker[k]) \/ (m.cmd = "BROKER_ROUTE_MSG" /\ Returns(Caller(m), m)')
  BY <1>11, <1>14, <1>15, UsefulSent
<1>17. NamedInv'
  <2>1. NoName \notin DOMAIN service2nodeId'
    BY <1>1, <1>6 DEF NamedInv
  <2> QED BY <1>1, <1>8, <1>12, <2>1, NamedStill
<1>18. CallbacksGetTheirAnswer' /\ \A c \in Conn : Up(c) => Up(c)'
  BY <1>6 DEF AnswerInv, CallbacksGetTheirAnswer, Up
<1> QED BY <1>6, <1>8, <1>12, <1>13, <1>16, <1>17, <1>18, UnmovedStep

\* A node is answered: the callback, if there is one, is that of the call.
LEMMA HandleAnswerStep ==
    ASSUME RpcInv(TRUE), AnswerInv, NEW n \in Node, NEW l \in Link, UNCHANGED <<registryVars, cuts>>,
           HandleAnswer(n, l)
    PROVE  AnswerInv'
<1>1. NamedInv /\ CallTypeInv
  BY DEF RpcInv, NodeInv, AnswerInv
<1>2. PICK msg : msg = Head(toNode[l])
  OBVIOUS
<1>3. PICK found : found = {cb \in m_rpcTmpCallBack[n] : cb.id = msg.callbackId}
  OBVIOUS
<1>4. /\ Arrives(n, l, "BROKER_TO_CLIENT_MSG") /\ toNode' = Taken(toNode, l)
      /\ ran' = ran \cup {<<cb.tag, msg.tag>> : cb \in found}
      /\ m_rpcTmpCallBack' = [m_rpcTmpCallBack EXCEPT ![n] = @ \ found]
  BY <1>2, <1>3, Zenon DEF HandleAnswer
<1>5. UNCHANGED <<brokerEnd, nodeEnd, toBroker, session, m_node_info, pc, m_runing, m_nodeId,
                  m_master_broker_sock, m_broker_data, gCallBackIDGen, owner, restarts,
                  service2nodeId, cuts>>
  BY Zenon DEF HandleAnswer, registryVars
<1>6. msg.destServiceName = NoName
  BY <1>2, Zenon DEF HandleAnswer, NoName
<1>7. /\ l \in LinksOf(n) /\ Comes(l, msg)
      /\ \A k \in Link : Messages(toNode'[k]) \subseteq Messages(toNode[k])
  BY <1>2, <1>4, ArrivedIs
<1>8. CallbacksGetTheirAnswer'
  <2>1. \A cb \in found : cb.tag = msg.tag
    BY <1>3, <1>6, <1>7 DEF Comes, Belongs
  <2>2. ASSUME NEW p \in ran' PROVE p[1] = p[2]
    <3>1. CASE p \in ran
      BY <3>1 DEF AnswerInv, CallbacksGetTheirAnswer
    <3>2. CASE \E cb \in found : p = <<cb.tag, msg.tag>>
      BY <2>1, <3>2
    <3> QED BY <1>4, <2>2, <3>1, <3>2
  <2> QED BY <2>2 DEF CallbacksGetTheirAnswer
<1>9. CallsGoOn
  <2>1. \A m \in Node : m_rpcTmpCallBack'[m] \subseteq m_rpcTmpCallBack[m]
    BY <1>1, <1>4 DEF CallTypeInv
  <2> QED BY <1>5, <2>1, CallsStay
<1>10. NamedInv'
  <2>1. NoName \notin DOMAIN service2nodeId'
    BY <1>1, <1>5 DEF NamedInv
  <2> QED BY <1>1, <1>5, <1>7, <2>1, NamedStill
<1>11. \A c \in Conn : Up(c) => Up(c)'
  BY <1>5 DEF Up
<1> QED BY <1>5, <1>7, <1>8, <1>9, <1>10, <1>11, UnmovedStep

\* The broker takes a message.
LEMMA BrokerTook ==
    ASSUME RpcInv(TRUE), NEW k \in Link, NEW cmd, Receives(k, cmd), toBroker' = Taken(toBroker, k)
    PROVE  /\ Head(toBroker[k]) \in ForBroker /\ Head(toBroker[k]) \in Messages(toBroker[k])
           /\ Head(toBroker[k]).cmd = cmd
           /\ \A l \in Link : Messages(toBroker'[l]) \subseteq Messages(toBroker[l])
<1>1. toBroker \in Queues(ForBroker) /\ toBroker[k] # <<>> /\ Head(toBroker[k]).cmd = cmd
  BY DEF RpcInv, LinkInv, QueueTypeInv, Receives
<1>2. PICK q : q = Taken(toBroker, k)
  OBVIOUS
<1>3. /\ \A d \in Link \ {k} : q[d] = toBroker[d]
      /\ Messages(q[k]) \subseteq Messages(toBroker[k])
      /\ Head(toBroker[k]) \in Messages(toBroker[k]) /\ Head(toBroker[k]) \in ForBroker
  BY <1>1, <1>2, TakenQueue
<1> QED BY <1>1, <1>2, <1>3

\* A message was put on a link to a node.
LEMMA NodePut ==
    ASSUME RpcInv(TRUE), NEW l \in Link, NEW m \in ForNode, NEW q, q = Put(toNode, l, m)
    PROVE  \A k \in Link : \A x \in Messages(q[k]) : (x = m /\ k = l) \/ x \in Messages(toNode[k])
<1>1. toNode \in Queues(ForNode)
  BY DEF RpcInv, LinkInv, QueueTypeInv
<1>2. \A d \in Link \ {l} : q[d] = toNode[d]
  BY <1>1, PutQueue
<1>3. \A i \in DOMAIN q[l] : \/ i \in DOMAIN toNode[l] /\ q[l][i] = toNode[l][i]
                             \/ i = Len(toNode[l]) + 1 /\ q[l][i] = m
  BY <1>1, PutQueue
<1>4. \A x \in Messages(q[l]) : x = m \/ x \in Messages(toNode[l])
  BY <1>3 DEF Messages
<1> QED BY <1>2, <1>4

\* The broker handles a message and changes nothing but queues.
LEMMA BrokerSent ==
    ASSUME RpcInv(TRUE), AnswerInv, NEW k \in Link, NEW cmd, Receives(k, cmd), toBroker' = Taken(toBroker, k),
           UNCHANGED <<brokerEnd, nodeEnd, session, m_node_info, service2nodeId, cuts, rpcVars>>,
           \A l \in Link : \A m \in Messages(toNode'[l]) :
               \/ m \in Messages(toNode[l])
               \/ m.cmd = "BROKER_TO_CLIENT_MSG" /\ Comes(l, m)'
               \/ m.cmd = "REGISTER_TO_BROKER_RET" /\ NoName \notin DOMAIN m.service2nodeId
    PROVE  AnswerInv'
<1>1. UNCHANGED <<owner, pc, m_runing, m_nodeId, m_master_broker_sock, m_broker_data, gCallBackIDGen,
                  m_rpcTmpCallBack, restarts, ran>>
  BY DEF rpcVars, nodeVars
<1>2. \A l \in Link : Messages(toBroker'[l]) \subseteq Messages(toBroker[l])
  BY BrokerTook
<1>3. NamedInv'
  <2>1. NamedInv /\ NoName \notin DOMAIN service2nodeId'
    BY DEF AnswerInv, NamedInv
  <2> QED BY <1>1, <2>1, NamedStill
<1>4. CallsGoOn
  BY <1>1, CallsStay
<1>5. CallbacksGetTheirAnswer' /\ \A c \in Conn : Up(c) => Up(c)'
  BY <1>1 DEF AnswerInv, CallbacksGetTheirAnswer, Up
<1>6. \A l \in Link : \A m \in Messages(toNode'[l]) : m.cmd = "BROKER_TO_CLIENT_MSG" =>
          m \in Messages(toNode[l]) \/ Comes(l, m)'
  OBVIOUS
<1> QED BY <1>1, <1>2, <1>3, <1>4, <1>5, <1>6, UnmovedStep

\* A name is refused.
LEMMA RegisterRefusedStep ==
    ASSUME RpcInv(TRUE), AnswerInv, NEW c \in Conn, RegisterRefused(c), UNCHANGED <<rpcVars, cuts>>
    PROVE  AnswerInv'
<1>1. /\ Receives(c, "REGISTER_TO_BROKER_REQ") /\ c \in Link
      /\ toBroker' = Taken(toBroker, c)
      /\ toNode' = Put(toNode, c, Refusal)
      /\ UNCHANGED <<brokerEnd, nodeEnd, session, service2nodeId, m_node_info>>
  BY DEF RegisterRefused, brokerVars, Link
<1>2. Refusal \in ForNode /\ Refusal.cmd = "REGISTER_TO_BROKER_RET" /\ NoName \notin DOMAIN Refusal.service2nodeId
  <2>1. Refusal \in RegisterRets
    BY EmptyRegistry DEF Refusal, RegisterRet, RegisterRets
  <2>2. /\ Refusal.cmd = "REGISTER_TO_BROKER_RET" /\ Refusal.service2nodeId = Empty
    BY DEF Refusal, RegisterRet
  <2> QED BY <2>1, <2>2 DEF ForNode, Empty
<1>3. PICK q : q = toNode'
  OBVIOUS
<1>4. PICK r : r = Refusal
  OBVIOUS
<1>5. \A l \in Link : \A x \in Messages(q[l]) : x = r \/ x \in Messages(toNode[l])
  BY <1>1, <1>2, <1>3, <1>4, NodePut
<1> QED BY <1>1, <1>2, <1>3, <1>4, <1>5, BrokerSent

\* A broken connection: it was none that had registered.
LEMMA BrokenStep ==
    ASSUME RpcInv(TRUE), AnswerInv, NEW c \in Conn, HandleBroken(c), UNCHANGED <<rpcVars, cuts>>
    PROVE  AnswerInv'
<1>1. SteadyInv /\ NamedInv /\ RegistryTypeOK
  BY DEF AnswerInv, RpcInv, IInv
<1>2. brokerEnd[c] = "broken" /\ brokerEnd' = [brokerEnd EXCEPT ![c] = "none"]
  BY DEF HandleBroken
<1>3. ~Up(c)
  BY <1>2 DEF Up
<1>4. session[c].nodeId = 0
  BY <1>1, <1>3 DEF SteadyInv, Steady, Joins
<1>5. UNCHANGED <<nodeEnd, toBroker, toNode, session, m_node_info, service2nodeId>>
  BY <1>4 DEF HandleBroken
<1>6. UNCHANGED <<owner, pc, m_runing, m_nodeId, m_master_broker_sock, m_broker_data, gCallBackIDGen,
                  m_rpcTmpCallBack, restarts, ran>>
  BY DEF rpcVars, nodeVars
<1>7. \A d \in Conn : Up(d) => Up(d)'
  BY <1>1, <1>2, <1>5 DEF Up, RegistryTypeOK
<1>8. NamedInv' /\ CallbacksGetTheirAnswer'
  BY <1>1, <1>5, <1>6 DEF AnswerInv, NamedInv, CallbacksGetTheirAnswer
<1>9. CallsGoOn
  BY <1>6, CallsStay
<1> QED BY <1>5, <1>6, <1>7, <1>8, <1>9, UnmovedStep

\* A message is passed on: a call to its service, an answer, or a call that comes back, to
\* the caller.
LEMMA RouteStep ==
    ASSUME RpcInv(TRUE), AnswerInv, NEW k \in Link, Receives(k, "BROKER_ROUTE_MSG"),
           toBroker' = Taken(toBroker, k),
           toNode' = toNode \/ toNode' = sendToRPcNode(toNode, Head(toBroker[k])),
           UNCHANGED <<brokerEnd, nodeEnd, session, brokerVars, cuts, rpcVars>>
    PROVE  AnswerInv'
<1>1. SteadyInv /\ HomeInv /\ ReturnInv /\ TableTypeInv
  BY DEF AnswerInv, RpcInv, LinkInv
<1>2. PICK msg : msg = Head(toBroker[k])
  OBVIOUS
<1>3. msg \in RouteMsgs("BROKER_ROUTE_MSG") /\ Returns(Caller(msg), msg)
  <2>1. msg \in ForBroker /\ msg.cmd = "BROKER_ROUTE_MSG" /\ msg \in Messages(toBroker[k])
    BY <1>2, BrokerTook
  <2> QED BY <1>1, <2>1, MessageKinds DEF ReturnInv
<1>4. PICK caller \in Node : HasId(caller, Caller(msg)) /\ Belongs(caller, msg.callbackId, msg.tag)
  BY <1>3 DEF Returns
<1>5. PICK out : out = AsDelivered(msg)
  OBVIOUS
<1>6. PICK back : back = [AsDelivered(msg) EXCEPT !.errinfo = TRUE, !.destServiceName = NoName]
  OBVIOUS
<1>7. /\ out \in RouteMsgs("BROKER_TO_CLIENT_MSG") /\ out.destServiceName = msg.destServiceName
      /\ out.fromNodeId = msg.fromNodeId /\ out.callbackId = msg.callbackId /\ out.tag = msg.tag
      /\ back \in RouteMsgs("BROKER_TO_CLIENT_MSG") /\ back.destServiceName = NoName
      /\ back.callbackId = msg.callbackId /\ back.tag = msg.tag
  <2>1. /\ out \in RouteMsgs("BROKER_TO_CLIENT_MSG") /\ out.destServiceName = msg.destServiceName
        /\ back \in RouteMsgs("BROKER_TO_CLIENT_MSG") /\ back.destServiceName = NoName
    BY <1>3, <1>5, <1>6, DeliveredIs
  <2>2. out.fromNodeId = msg.fromNodeId /\ out.callbackId = msg.callbackId /\ out.tag = msg.tag
    BY <1>3, <1>5 DEF AsDelivered, RouteMsgs
  <2>3. back = [out EXCEPT !.errinfo = TRUE, !.destServiceName = NoName]
    BY <1>5, <1>6
  <2>4. back.callbackId = out.callbackId /\ back.tag = out.tag
    BY <2>1, <2>3 DEF RouteMsgs
  <2> QED BY <2>1, <2>2, <2>4
\* Both carry the number and the tag of the call, and the one at the end of the link has them.
<1>8. ASSUME NEW l \in Link, NEW m \in {out, back},
             m.destServiceName = NoName => \A n \in Node : l \in LinksOf(n) => n = caller,
             m.destServiceName # NoName => m = out
      PROVE  Comes(l, m)
  <2>1. m.destServiceName # NoName => Returns(m.fromNodeId, m)
    BY <1>4, <1>7, <1>8 DEF Returns, Caller
  <2>2. m.destServiceName = NoName => \A n \in Node : l \in LinksOf(n) => Belongs(n, m.callbackId, m.tag)
    BY <1>4, <1>7, <1>8
  <2> QED BY <2>1, <2>2 DEF Comes
<1>9. /\ Caller(msg) \in DOMAIN node_sockets /\ node_sockets[Caller(msg)] \in Conn
      /\ owner[node_sockets[Caller(msg)]] = caller
  BY <1>1, <1>4, HomeIs
<1>10. \A c \in Conn : \A n \in Node : c \in LinksOf(n) => owner[c] = n
  BY DEF LinksOf
<1>11. PICK q : q = toNode'
  OBVIOUS
<1>12. \/ q = toNode
       \/ \E l \in Link, m \in {out, back} : q = Put(toNode, l, m) /\ Comes(l, m)
  <2>1. ASSUME msg.destNodeId \in DOMAIN m_node_info,
               q = Put(toNode, m_node_info[msg.destNodeId], out)
        PROVE  \E l \in Link, m \in {out, back} : q = Put(toNode, l, m) /\ Comes(l, m)
    <3>1. PICK n \in InProc : n = m_node_info[msg.destNodeId]
      BY <1>1, <2>1 DEF TableTypeInv
    <3>2. n \in Link /\ n \in Node /\ \A x \in Node : n \in LinksOf(x) => x = n
      BY DEF Link, LinksOf
    <3>3. msg.destServiceName = NoName => n = caller
      <4>1. HasId(n, msg.destNodeId)
        BY <1>1, <2>1, <3>1 DEF HomeInv
      <4>2. owner[node_sockets[msg.destNodeId]] = n
        BY <1>1, <3>2, <4>1, HomeIs
      <4> QED BY <1>9, <4>2 DEF Caller
    <3>4. Comes(n, out)
      BY <1>7, <1>8, <3>2, <3>3
    <3> QED BY <2>1, <3>1, <3>2, <3>4
  <2>2. ASSUME msg.destNodeId \in DOMAIN node_sockets,
               q = Put(toNode, node_sockets[msg.destNodeId], out)
        PROVE  \E l \in Link, m \in {out, back} : q = Put(toNode, l, m) /\ Comes(l, m)
    <3>1. PICK c \in Conn : c = node_sockets[msg.destNodeId]
      BY <2>2, SocketIs
    <3>2. msg.destServiceName = NoName => owner[c] = caller
      BY <1>9, <3>1 DEF Caller
    <3>3. c \in Link /\ Comes(c, out)
      <4>1. c \in Link
        BY DEF Link
      <4> QED BY <1>7, <1>8, <1>10, <3>2, <4>1
    <3> QED BY <2>2, <3>1, <3>3
  <2>3. ASSUME msg.fromNodeId \in DOMAIN node_sockets, msg.destNodeId \notin DOMAIN node_sockets,
               q = Put(toNode, node_sockets[msg.fromNodeId], back)
        PROVE  \E l \in Link, m \in {out, back} : q = Put(toNode, l, m) /\ Comes(l, m)
    <3>1. PICK c \in Conn : c = node_sockets[msg.fromNodeId]
      BY <2>3, SocketIs
    <3>2. owner[c] = caller
      BY <1>9, <2>3, <3>1 DEF Caller
    <3>3. c \in Link /\ Comes(c, back)
      <4>1. c \in Link
        BY DEF Link
      <4> QED BY <1>7, <1>8, <1>10, <3>2, <4>1
    <3> QED BY <2>3, <3>1, <3>3
  <2> QED BY <1>2, <1>5, <1>6, <1>11, <2>1, <2>2, <2>3, RouteIs
<1>13. \A l \in Link : \A m \in Messages(q[l]) :
           m \in Messages(toNode[l]) \/ (m.cmd = "BROKER_TO_CLIENT_MSG" /\ Comes(l, m))
  <2>1. ASSUME NEW l \in Link, NEW m \in {out, back}, q = Put(toNode, l, m), Comes(l, m)
        PROVE  \A d \in Link : \A x \in Messages(q[d]) :
                   x \in Messages(toNode[d]) \/ (x.cmd = "BROKER_TO_CLIENT_MSG" /\ Comes(d, x))
    <3>1. m \in ForNode /\ m.cmd = "BROKER_TO_CLIENT_MSG"
      BY <1>7 DEF ForNode, RouteMsgs
    <3>2. \A d \in Link : \A x \in Messages(q[d]) : (x = m /\ d = l) \/ x \in Messages(toNode[d])
      BY <2>1, <3>1, NodePut
    <3> QED BY <2>1, <3>1, <3>2
  <2> QED BY <1>12, <2>1
<1>14. /\ UNCHANGED <<brokerEnd, nodeEnd, session, m_node_info, service2nodeId, cuts, rpcVars, owner,
                      gCallBackIDGen, m_rpcTmpCallBack>>
  BY DEF brokerVars, rpcVars, nodeVars
<1>15. ASSUME NEW l \in Link, NEW m, Comes(l, m) PROVE Comes(l, m)'
  <2>1. CallsGoOn /\ RegisteredStay
    BY <1>14, CallsStay DEF RegisteredStay
  <2>2. \A n \in Node : l \in LinksOf(n)' => l \in LinksOf(n)
    BY <1>14 DEF LinksOf
  <2> QED BY <1>15, <2>1, <2>2, ReturnsStay DEF Comes
<1>16. \A l \in Link : \A m \in Messages(toNode'[l]) :
           m \in Messages(toNode[l]) \/ (m.cmd = "BROKER_TO_CLIENT_MSG" /\ Comes(l, m)')
  BY <1>11, <1>13, <1>15
<1> QED BY <1>14, <1>16, BrokerSent

-----------------------------------------------------------------------------
(* A node finds its place: it connects, is registered, and opens. *)

\* open() returns.
LEMMA OpenedStep ==
    ASSUME RpcInv(TRUE), AnswerInv, NEW n \in Node, UNCHANGED <<registryVars, cuts>>, OpenSucceeds(n)
    PROVE  AnswerInv'
<1>1. SteadyInv /\ HomeInv /\ ReturnInv /\ NamedInv /\ NodeTypeInv /\ \A c \in Conn : c \in Link
  BY DEF AnswerInv, RpcInv, NodeInv, Link
<1>2. /\ m_nodeId[n] # 0 /\ pc' = [pc EXCEPT ![n] = "open"] /\ m_runing' = [m_runing EXCEPT ![n] = TRUE]
      /\ UNCHANGED <<brokerEnd, nodeEnd, toBroker, toNode, session, m_node_info, m_nodeId,
                     m_master_broker_sock, m_broker_data, m_rpcTmpCallBack, gCallBackIDGen, owner,
                     restarts, ran, service2nodeId, cuts>>
  BY DEF OpenSucceeds, netVars, registryVars
<1>3. /\ pc'[n] = "open" /\ \A m \in Node \ {n} : pc'[m] = pc[m] /\ m_runing'[m] = m_runing[m]
  BY <1>1, <1>2 DEF NodeTypeInv
<1>4. RegisteredStay /\ CallsGoOn
  BY <1>2, CallsStay DEF RegisteredStay
<1>5. SteadyInv'
  <2>1. ASSUME NEW c \in Conn, Joins(c)' PROVE Steady(c)'
    <3>1. Steady(c)
      BY <1>1, <1>2, <2>1 DEF SteadyInv, Joins, Registers
    <3>2. owner[c] \in Node
      BY <1>1, <3>1 DEF Steady, NodeTypeInv
    <3>3. pc'[owner[c]] \in {"polling", "open"}
      BY <1>3, <3>1, <3>2 DEF Steady
    <3> QED BY <1>2, <3>1, <3>3 DEF Steady, Up
  <2> QED BY <2>1 DEF SteadyInv
<1>6. HomeInv'
  <2>1. /\ \A id \in DOMAIN m_node_info' : HasId(m_node_info[id], id)'
        /\ \A m \in Node : (m_nodeId[m] # 0 => HasId(m, m_nodeId[m]))'
    BY <1>1, <1>2, <1>4, IdsKept
  <2>2. \A m \in Node : m_master_broker_sock'[m] # NULL => owner'[m_master_broker_sock'[m]] = m
    BY <1>1, <1>2 DEF HomeInv
  <2>3. \A m \in Node : /\ m_runing'[m] => pc'[m] = "open"
                        /\ pc'[m] \notin {"closing", "forgetting", "closed"}
                        /\ pc'[m] = "open" => m_nodeId'[m] # 0
                        /\ gCallBackIDGen'[m] # 0 => pc'[m] = "open"
    BY <1>1, <1>2, <1>3 DEF HomeInv
  <2> QED BY <2>1, <2>2, <2>3 DEF HomeInv
<1>7. ReturnInv'
  <2>1. \A l \in Link : \A m \in Node : l \in LinksOf(m)' => l \in LinksOf(m)
    BY <1>2 DEF LinksOf
  <2> QED BY <1>1, <1>2, <1>4, <2>1, ReturnStep
<1>8. NamedInv' /\ CallbacksGetTheirAnswer' /\ Undisturbed'
  BY <1>1, <1>2 DEF AnswerInv, NamedInv, CallbacksGetTheirAnswer, Undisturbed
<1> QED BY <1>5, <1>6, <1>7, <1>8 DEF AnswerInv

\* The registry arrives, with an id or without: the id is that of the node's session.
LEMMA RegistryStep ==
    ASSUME RpcInv(TRUE), AnswerInv, NEW n \in Node, NEW c \in Conn, UNCHANGED <<registryVars, cuts>>,
           RegistryArrives(n, c)
    PROVE  AnswerInv'
<1>1. SteadyInv /\ HomeInv /\ ReturnInv /\ NamedInv /\ NodeTypeInv /\ \A d \in Conn : d \in Link
  BY DEF AnswerInv, RpcInv, NodeInv, Link
<1>2. PICK ret : ret = Head(toNode[c])
  OBVIOUS
<1>3. /\ Arrives(n, c, "REGISTER_TO_BROKER_RET")
      /\ \/ /\ ret.registerFlag = 1
            /\ m_nodeId' = [m_nodeId EXCEPT ![n] = ret.nodeId]
            /\ \/ n \in InProc /\ m_node_info' = addNode(m_node_info, ret.nodeId, n)
               \/ m_node_info' = m_node_info
         \/ ret.registerFlag # 1 /\ UNCHANGED <<m_nodeId, m_node_info>>
      /\ m_broker_data' = [m_broker_data EXCEPT ![n] = ret.service2nodeId]
      /\ toNode' = Taken(toNode, c)
      /\ UNCHANGED <<brokerEnd, nodeEnd, toBroker, session, pc, m_runing, m_master_broker_sock,
                     m_rpcTmpCallBack, gCallBackIDGen, owner, restarts, ran, service2nodeId, cuts>>
  BY <1>2 DEF RegistryArrives, LearnsId, registryVars
<1>4. PICK q : q = Taken(toNode, c)
  OBVIOUS
<1>5. /\ owner[c] = n /\ n # NoOne /\ ret \in Messages(toNode[c]) /\ ret.cmd = "REGISTER_TO_BROKER_RET"
      /\ \A l \in Link : Messages(q[l]) \subseteq Messages(toNode[l])
  <2>1. PICK lasting \in BOOLEAN : RpcInv(lasting) /\ c \in Link
    BY <1>1
  <2> QED BY <1>1, <1>2, <1>3, <1>4, <2>1, ArrivesIs
<1>6. ret.registerFlag = 1 => HasId(n, ret.nodeId) /\ ret.nodeId # 0
  <2>1. ret.registerFlag = 1 => ret.nodeId = session[c].nodeId /\ ret.nodeId # 0
    <3>1. RegisterInv(TRUE)
      BY DEF RpcInv, LinkInv
    <3> QED BY <1>5, <3>1 DEF RegisterInv
  <2> QED BY <1>5, <2>1 DEF HasId
<1>7. RegisteredStay /\ CallsGoOn
  BY <1>3, CallsStay DEF RegisteredStay
<1>8. \A m, id : HasId(m, id) => HasId(m, id)'
  BY <1>7, ReturnsStay
<1>9. \A m \in Node : m_nodeId'[m] = m_nodeId[m] \/ (m = n /\ m_nodeId'[n] = ret.nodeId /\ ret.registerFlag = 1)
  BY <1>1, <1>3 DEF NodeTypeInv
<1>10. HomeInv'
  <2>1. ASSUME NEW m \in Node, m_nodeId'[m] # 0 PROVE HasId(m, m_nodeId[m])'
    <3>1. PICK id : id = m_nodeId'[m]
      OBVIOUS
    <3>2. HasId(m, id)
      BY <1>1, <1>6, <1>9, <2>1, <3>1 DEF HomeInv
    <3> QED BY <1>8, <3>1, <3>2 DEF HasId
  <2>2. ASSUME NEW id \in DOMAIN m_node_info' PROVE HasId(m_node_info[id], id)'
    <3>1. PICK m : m = m_node_info'[id]
      OBVIOUS
    <3>2. HasId(m, id)
      <4>1. CASE m_node_info' = m_node_info
        BY <1>1, <2>2, <3>1, <4>1 DEF HomeInv
      <4>2. CASE ret.registerFlag = 1 /\ m_node_info' = addNode(m_node_info, ret.nodeId, n)
        <5>1. PICK map : map = m_node_info'
          OBVIOUS
        <5>2. \/ id = ret.nodeId /\ map[id] = n
              \/ id \in DOMAIN m_node_info /\ map[id] = m_node_info[id]
          BY <2>2, <4>2, <5>1, AddedNode
        <5> QED BY <1>1, <1>6, <3>1, <4>2, <5>1, <5>2 DEF HomeInv
      <4> QED BY <1>3, <4>1, <4>2
    <3> QED BY <1>8, <3>1, <3>2 DEF HasId
  <2>3. \A m \in Node : m_nodeId[m] # 0 => m_nodeId'[m] # 0
    BY <1>6, <1>9
  <2>4. \A m \in Node : m_master_broker_sock'[m] # NULL => owner'[m_master_broker_sock'[m]] = m
    BY <1>1, <1>3 DEF HomeInv
  <2>5. \A m \in Node : /\ m_runing'[m] => pc'[m] = "open"
                        /\ pc'[m] \notin {"closing", "forgetting", "closed"}
                        /\ pc'[m] = "open" => m_nodeId'[m] # 0
                        /\ gCallBackIDGen'[m] # 0 => pc'[m] = "open"
    BY <1>1, <1>3, <2>3 DEF HomeInv
  <2> QED BY <2>1, <2>2, <2>4, <2>5 DEF HomeInv
<1>11. SteadyInv'
  BY <1>1, <1>3 DEF SteadyInv, Joins, Registers, Steady, Up
<1>12. ReturnInv'
  <2>1. \A l \in Link : \A m \in Node : l \in LinksOf(m)' => l \in LinksOf(m)
    BY <1>3 DEF LinksOf
  <2> QED BY <1>1, <1>3, <1>4, <1>5, <1>7, <2>1, ReturnStep
<1>13. NamedInv'
  <2>1. NoName \notin DOMAIN ret.service2nodeId /\ NoName \notin DOMAIN service2nodeId'
    BY <1>1, <1>3, <1>5 DEF NamedInv
  <2>2. \A m \in Node : m_broker_data'[m] \in {m_broker_data[m], ret.service2nodeId}
    BY <1>1, <1>3 DEF NodeTypeInv
  <2> QED BY <1>1, <1>3, <1>4, <1>5, <2>1, <2>2, NamedStill
<1>14. CallbacksGetTheirAnswer' /\ Undisturbed'
  BY <1>3 DEF AnswerInv, CallbacksGetTheirAnswer, Undisturbed
<1> QED BY <1>10, <1>11, <1>12, <1>13, <1>14 DEF AnswerInv

\* A node connects: it had no connection, so no id and no calls.
LEMMA ConnectStep ==
    ASSUME RpcInv(TRUE), AnswerInv, NEW n \in Node, UNCHANGED <<registryVars, cuts>>, OpenConnects(n)
    PROVE  AnswerInv'
<1>1. SteadyInv /\ HomeInv /\ ReturnInv /\ NamedInv /\ NodeTypeInv /\ OneWayInv /\ OwnerInv
      /\ toBroker \in Queues(ForBroker) /\ toNode \in Queues(ForNode) /\ n # NoOne
      /\ RegistryTypeOK /\ DOMAIN session = Conn /\ \A c \in Conn : c \in Link
  BY DEF AnswerInv, RpcInv, NodeInv, LinkInv, QueueTypeInv, IInv, RegistryTypeOK, Link
<1>2. /\ pc[n] = "start" /\ connectToBroker(n) /\ pc' = [pc EXCEPT ![n] = "polling"]
      /\ UNCHANGED <<m_node_info, m_runing, m_nodeId, m_broker_data, m_rpcTmpCallBack,
                     gCallBackIDGen, restarts, ran, service2nodeId, cuts>>
  BY DEF OpenConnects, registryVars
<1> DEFINE req == RegisterReq("RPC_NODE", ServiceOf[n])
<1>3. PICK c \in Conn : /\ Connect(c, <<req>>) /\ owner' = [owner EXCEPT ![c] = n]
                        /\ m_master_broker_sock' = [m_master_broker_sock EXCEPT ![n] = c]
  BY <1>2 DEF connectToBroker
<1>4. req.cmd = "REGISTER_TO_BROKER_REQ"
  BY DEF RegisterReq
<1> HIDE DEF req
<1>5. /\ nodeEnd[c] = "none" /\ brokerEnd[c] = "none"
      /\ brokerEnd' = [brokerEnd EXCEPT ![c] = "open"]
      /\ nodeEnd' = [nodeEnd EXCEPT ![c] = "open"] /\ toBroker' = [toBroker EXCEPT ![c] = <<req>>]
      /\ toNode' = [toNode EXCEPT ![c] = <<>>] /\ session' = [session EXCEPT ![c] = NoSession]
  BY <1>3 DEF Connect
<1>6. /\ owner'[c] = n /\ session'[c].nodeId = 0 /\ brokerEnd'[c] = "open" /\ nodeEnd'[c] = "open"
      /\ \A d \in Conn \ {c} : UNCHANGED <<nodeEnd[d], brokerEnd[d], session[d], owner[d], toBroker[d]>>
      /\ \A l \in Link \ {c} : toBroker'[l] = toBroker[l] /\ toNode'[l] = toNode[l]
      /\ toBroker'[c] = <<req>> /\ toNode'[c] = <<>>
  BY <1>1, <1>3, <1>5, NoSessionIs DEF RegistryTypeOK, NodeTypeInv, Queues
<1>7. Messages(toNode'[c]) = {} /\ Messages(toBroker'[c]) = {req}
  BY <1>6 DEF Messages
<1>8. owner[c] = NoOne /\ session[c].nodeId = 0
  <2>1. ~Joins(c)
    BY <1>1, <1>5 DEF SteadyInv, Steady, Up
  <2> QED BY <1>1, <1>5, <2>1 DEF OwnerInv, Joins
<1>9. \A d \in Conn : owner[d] # n
  BY <1>1, <1>2 DEF OneWayInv
<1>10. /\ pc'[n] = "polling" /\ m_master_broker_sock'[n] = c
       /\ \A m \in Node \ {n} : pc'[m] = pc[m] /\ m_master_broker_sock'[m] = m_master_broker_sock[m]
  BY <1>1, <1>2, <1>3 DEF NodeTypeInv
<1>11. RegisteredStay /\ CallsGoOn
  BY <1>2, <1>6, <1>8, CallsStay DEF RegisteredStay
<1>12. SteadyInv'
  <2>1. ASSUME NEW d \in Conn, Joins(d)' PROVE Steady(d)'
    <3>1. CASE d = c
      BY <1>1, <1>6, <1>10, <3>1 DEF Steady, Up
    <3>2. CASE d # c
      <4>1. Steady(d)
        BY <1>1, <1>6, <2>1, <3>2 DEF SteadyInv, Joins, Registers
      <4>2. owner[d] \in Node \ {n}
        BY <1>1, <1>9, <4>1 DEF Steady, NodeTypeInv
      <4>3. UNCHANGED <<nodeEnd[d], brokerEnd[d], owner[d]>>
        BY <1>6, <3>2
      <4> QED BY <1>10, <4>1, <4>2, <4>3 DEF Steady, Up
    <3> QED BY <3>1, <3>2
  <2> QED BY <2>1 DEF SteadyInv
<1>13. HomeInv'
  <2>1. /\ \A id \in DOMAIN m_node_info' : HasId(m_node_info[id], id)'
        /\ \A m \in Node : (m_nodeId[m] # 0 => HasId(m, m_nodeId[m]))'
    BY <1>1, <1>2, <1>11, IdsKept
  <2>2. ASSUME NEW m \in Node, m_master_broker_sock'[m] # NULL
        PROVE  owner'[m_master_broker_sock'[m]] = m
    <3>1. CASE m = n
      BY <1>6, <1>10, <3>1
    <3>2. CASE m # n
      <4>1. PICK d \in Conn : d = m_master_broker_sock[m] /\ owner[d] = m /\ d = m_master_broker_sock'[m]
        BY <1>1, <1>10, <2>2, <3>2 DEF HomeInv, NodeTypeInv
      <4>2. d # c
        BY <1>8, <4>1
      <4> QED BY <1>6, <4>1, <4>2
    <3> QED BY <3>1, <3>2
  <2>3. \A m \in Node : /\ m_runing'[m] => pc'[m] = "open"
                        /\ pc'[m] \notin {"closing", "forgetting", "closed"}
                        /\ pc'[m] = "open" => m_nodeId'[m] # 0
                        /\ gCallBackIDGen'[m] # 0 => pc'[m] = "open"
    BY <1>1, <1>2, <1>10 DEF HomeInv
  <2> QED BY <2>1, <2>2, <2>3 DEF HomeInv
<1>14. ReturnInv'
  <2>1. ASSUME NEW l \in Link, NEW m \in Node, l \in LinksOf(m)'
        PROVE  l \in LinksOf(m) \/ Messages(toNode'[l]) = {}
    <3>1. CASE l = c
      BY <1>7, <3>1
    <3>2. CASE l # c
      BY <1>6, <2>1, <3>2 DEF LinksOf
    <3> QED BY <3>1, <3>2
  <2>2. \A l \in Link : \A m \in Messages(toBroker'[l]) : m.cmd = "BROKER_ROUTE_MSG" =>
            \E k \in Link : m \in Messages(toBroker[k])
    BY <1>4, <1>6, <1>7
  <2>3. \A l \in Link : Messages(toNode'[l]) \subseteq Messages(toNode[l])
    BY <1>6, <1>7
  <2> QED BY <1>1, <1>11, <2>1, <2>2, <2>3, ReturnStep
<1>15. NamedInv'
  <2>1. NoName \notin DOMAIN service2nodeId'
    BY <1>1, <1>2 DEF NamedInv
  <2>2. \A l \in Link : Messages(toNode'[l]) \subseteq Messages(toNode[l])
    BY <1>6, <1>7
  <2> QED BY <1>1, <1>2, <2>1, <2>2, NamedStill
<1>16. CallbacksGetTheirAnswer' /\ Undisturbed'
  BY <1>2 DEF AnswerInv, CallbacksGetTheirAnswer, Undisturbed
<1> QED BY <1>12, <1>13, <1>14, <1>15, <1>16 DEF AnswerInv

\* The timer finds nothing to do: a node that runs has its connection.
LEMMA TimerStep ==
    ASSUME RpcInv(TRUE), AnswerInv, NEW n \in Node, UNCHANGED <<registryVars, cuts>>, timerReconnectBroker(n)
    PROVE  AnswerInv'
<1>1. HomeInv /\ NamedInv /\ NodeTypeInv /\ OneWayInv
  BY DEF AnswerInv, RpcInv, NodeInv
<1>2. \A c \in Conn : owner[c] # n
  BY <1>1 DEF timerReconnectBroker, OneWayInv, NodeTypeInv
<1>3. m_runing[n] = FALSE
  BY <1>1, <1>2, HomelessIs
<1>4. UNCHANGED <<netVars, m_master_broker_sock, owner, m_node_info, pc, m_runing, m_nodeId,
                  m_broker_data, m_rpcTmpCallBack, gCallBackIDGen, restarts, ran, service2nodeId>>
  BY <1>3 DEF timerReconnectBroker, registryVars
<1>5. UNCHANGED <<brokerEnd, nodeEnd, toBroker, toNode, session>>
  BY <1>4 DEF netVars
<1>6. CallsGoOn
  BY <1>4, CallsStay
<1>7. NamedInv' /\ CallbacksGetTheirAnswer' /\ \A c \in Conn : Up(c) => Up(c)'
  BY <1>1, <1>4, <1>5 DEF AnswerInv, NamedInv, CallbacksGetTheirAnswer, Up
<1> QED BY <1>4, <1>5, <1>6, <1>7, UnmovedStep

\* A registration is accepted: the connection that registered has a new id.
LEMMA RegisteredStep ==
    ASSUME RpcInv(TRUE), AnswerInv, NEW c \in Conn, RegisterAccepted(c), UNCHANGED <<rpcVars, cuts>>
    PROVE  AnswerInv'
<1>1. /\ SteadyInv /\ HomeInv /\ ReturnInv /\ NamedInv /\ service2nodeId \in Registry
      /\ toNode \in Queues(ForNode) /\ DOMAIN session = Conn /\ m_for_allocID \in Nat
      /\ c \in Link /\ \A d \in Conn : d \in Link
  BY DEF AnswerInv, RpcInv, LinkInv, QueueTypeInv, TableTypeInv, IInv, RegistryTypeOK, Link
<1>2. PICK req : req = Head(toBroker[c])
  OBVIOUS
<1>3. PICK id : id = m_for_allocID + 1
  OBVIOUS
<1>4. PICK name : name = req.strServiceName
  OBVIOUS
<1>5. PICK registry : /\ registry = service2nodeId'
                      /\ \/ registry = service2nodeId
                         \/ name # NoName /\ registry = Insert(service2nodeId, name, id)
  BY <1>2, <1>3, <1>4, Zenon DEF RegisterAccepted, NoName
<1>6. PICK sockets : sockets = Insert(node_sockets, id, c)
  OBVIOUS
<1>7. /\ Receives(c, "REGISTER_TO_BROKER_REQ") /\ session[c].nodeId = 0
      /\ session' = [session EXCEPT ![c] = [nodeType |-> "RPC_NODE", nodeId |-> id,
                                            strServiceName |-> name]]
      /\ toBroker' = Taken(toBroker, c)
      /\ toNode' = syncNodeInfo(toNode, sockets, registry, id, c)
      /\ UNCHANGED <<brokerEnd, nodeEnd, m_node_info>>
  BY <1>2, <1>3, <1>4, <1>5, <1>6, Zenon DEF RegisterAccepted, MayRegister
<1>8. UNCHANGED <<owner, pc, m_runing, m_nodeId, m_master_broker_sock, m_broker_data, gCallBackIDGen,
                  m_rpcTmpCallBack, restarts, ran, cuts>>
  BY DEF rpcVars, nodeVars
<1>9. /\ req \in ForBroker /\ req \in Messages(toBroker[c]) /\ req.cmd = "REGISTER_TO_BROKER_REQ"
      /\ \A l \in Link : Messages(toBroker'[l]) \subseteq Messages(toBroker[l])
  BY <1>1, <1>2, <1>7, BrokerTook
<1>10. id \in Nat /\ name \in Service /\ registry \in Registry /\ NoName \notin DOMAIN registry
  <2>1. id \in Nat /\ name \in Service
    BY <1>1, <1>3, <1>4, <1>9, MessageKinds, MessageFields
  <2>2. registry \in Registry
    BY <1>1, <1>5, <2>1, InsertRegistry
  <2> QED BY <1>1, <1>5, <2>1, <2>2 DEF NamedInv, Insert
\* The registry is all that is sent.
<1>11. \A l \in Link : \A m \in Messages(toNode'[l]) :
           \/ m \in Messages(toNode[l])
           \/ m.cmd = "REGISTER_TO_BROKER_RET" /\ m.service2nodeId = registry
  <2> SUFFICES ASSUME NEW l \in Link
               PROVE  \A m \in Messages(toNode'[l]) :
                          \/ m \in Messages(toNode[l])
                          \/ m.cmd = "REGISTER_TO_BROKER_RET" /\ m.service2nodeId = registry
    OBVIOUS
  <2>1. PICK flag \in {0, 1} : flag = IF l = c THEN 1 ELSE 0
    OBVIOUS
  <2>2. PICK r : r = RegisterRet(flag, id, registry)
    OBVIOUS
  <2>3. r \in ForNode /\ r.cmd = "REGISTER_TO_BROKER_RET" /\ r.service2nodeId = registry
    BY <1>10, <2>2 DEF RegisterRet, RegisterRets, ForNode
  <2>4. PICK s \in Seq(ForNode) : s = toNode[l]
    BY <1>1 DEF Queues
  <2>5. PICK q : q = toNode'[l]
    OBVIOUS
  <2>6. q = s \/ q = Append(s, r)
    BY <1>7, <2>1, <2>2, <2>4, <2>5 DEF syncNodeInfo
  <2>7. \A m \in Messages(q) : m = r \/ m \in Messages(s)
    BY <2>3, <2>6, AppendedIs
  <2> QED BY <2>3, <2>4, <2>5, <2>7
<1>12. session'[c].nodeId = id /\ \A d \in Conn \ {c} : session'[d] = session[d]
  BY <1>1, <1>7
<1>13. RegisteredStay /\ CallsGoOn
  BY <1>7, <1>8, <1>12, CallsStay DEF RegisteredStay
<1>14. SteadyInv'
  <2>1. ASSUME NEW d \in Conn, Joins(d)' PROVE Steady(d)'
    <3>1. Joins(d)
      <4>1. CASE d = c
        BY <1>9, <4>1 DEF Joins, Registers
      <4>2. CASE d # c
        BY <1>1, <1>9, <1>12, <2>1, <4>2 DEF Joins, Registers
      <4> QED BY <4>1, <4>2
    <3> QED BY <1>1, <1>7, <1>8, <3>1 DEF SteadyInv, Steady, Up
  <2> QED BY <2>1 DEF SteadyInv
<1>15. HomeInv'
  <2>1. /\ \A i \in DOMAIN m_node_info' : HasId(m_node_info[i], i)'
        /\ \A n \in Node : (m_nodeId[n] # 0 => HasId(n, m_nodeId[n]))'
    BY <1>1, <1>7, <1>8, <1>13, IdsKept
  <2> QED BY <1>1, <1>8, <2>1 DEF HomeInv
<1>16. ReturnInv'
  <2>1. \A l \in Link : \A n \in Node : l \in LinksOf(n)' => l \in LinksOf(n)
    BY <1>8 DEF LinksOf
  <2>2. \A l \in Link : \A m \in Messages(toNode'[l]) : m.cmd = "BROKER_TO_CLIENT_MSG" =>
            m \in Messages(toNode[l])
    BY <1>11
  <2> QED BY <1>1, <1>9, <1>13, <2>1, <2>2, ReturnStep
<1>17. NamedInv'
  <2>1. NoName \notin DOMAIN service2nodeId'
    BY <1>5, <1>10
  <2> QED BY <1>1, <1>8, <1>10, <1>11, <2>1, NamedStill
<1>18. CallbacksGetTheirAnswer' /\ Undisturbed'
  BY <1>8 DEF AnswerInv, CallbacksGetTheirAnswer, Undisturbed
<1> QED BY <1>14, <1>15, <1>16, <1>17, <1>18 DEF AnswerInv

-----------------------------------------------------------------------------
(* All steps. *)

\* A step of the broker.
LEMMA BrokerAnswers ==
    ASSUME RpcInv(TRUE), AnswerInv, BrokerStep
    PROVE  AnswerInv'
<1>1. BrokerNext /\ UNCHANGED <<rpcVars, cuts>>
  BY DEF BrokerStep
<1>2. ASSUME NEW c \in Conn, handleBrokerRouteMsg(c) PROVE AnswerInv'
  <2>1. c \in Link /\ Receives(c, "BROKER_ROUTE_MSG") /\ toBroker' = Taken(toBroker, c)
        /\ (toNode' = toNode \/ toNode' = sendToRPcNode(toNode, Head(toBroker[c])))
        /\ UNCHANGED <<brokerEnd, nodeEnd, session, brokerVars>>
    BY <1>2 DEF handleBrokerRouteMsg, Link
  <2> QED BY <1>1, <2>1, RouteStep
<1>3. ASSUME NEW n \in InProc, PostedRoute(n) PROVE AnswerInv'
  <2>1. n \in Link /\ Receives(n, "BROKER_ROUTE_MSG") /\ toBroker' = Taken(toBroker, n)
        /\ toNode' = sendToRPcNode(toNode, Head(toBroker[n]))
        /\ UNCHANGED <<brokerEnd, nodeEnd, session, brokerVars>>
    BY <1>3 DEF PostedRoute, Link
  <2> QED BY <1>1, <2>1, RouteStep
<1>4. ASSUME NEW c \in Conn, BrokerHandles(c) PROVE AnswerInv'
  BY <1>1, <1>2, <1>4, NeverTwice, NoSyncClients, RegisterRefusedStep, RegisteredStep, BrokenStep
     DEF BrokerHandles
<1> QED BY <1>1, <1>3, <1>4 DEF BrokerNext

\* A step of a node.
LEMMA NodeAnswers ==
    ASSUME MaxRestarts = 0, RpcInv(TRUE), AnswerInv, NEW n \in Node, NodeStep(n)
    PROVE  AnswerInv'
<1>1. UNCHANGED <<registryVars, cuts>> /\ restarts = 0 /\ HomeInv
  BY DEF NodeStep, AnswerInv, Undisturbed
<1>2. ASSUME NodeHandles(n) PROVE AnswerInv'
  <2>1. ASSUME NEW c \in Conn, \/ RegistrationRefused(n, c) \/ RefusalCrashes(n, c)
                               \/ RegistryArrives(n, c) \/ HandleNodeBroken(n, c)
        PROVE  AnswerInv'
    BY <1>1, <2>1, RefusedStep, GivesUpStep, RegistryStep, NodeBrokenStep
  <2>2. ASSUME NEW l \in Link, HandleCall(n, l) \/ HandleAnswer(n, l)
        PROVE  AnswerInv'
    BY <1>1, <2>2, HandleCallStep, HandleAnswerStep
  <2>3. ~CloseForgets(n) /\ ~CloseEnds(n)
    BY <1>1 DEF HomeInv, CloseForgets, CloseEnds
  <2> QED BY <1>1, <1>2, <2>1, <2>2, <2>3, ConnectStep, OpenedStep, GivesUpStep, TimerStep DEF NodeHandles
<1>3. ASSUME NodeDecides(n) PROVE AnswerInv'
  <2>1. ASSUME NEW service \in Service, NEW kind \in Kinds,
               CallWithoutService(n, service, kind) \/ docall(n, service, kind)
        PROVE  AnswerInv'
    BY <1>1, <2>1, CallFailsStep, CallStep
  <2>2. \A m \in Node : ServiceOf[m] \in Service
    BY DEF Service
  <2>3. ~OpenTimesOut(n) /\ ~CloseStarts(n)
    BY <1>1 DEF OpenTimesOut, CloseStarts
  <2> QED BY <1>1, <1>3, <2>1, <2>2, <2>3, RestartStep DEF NodeDecides
<1> QED BY <1>2, <1>3 DEF NodeStep

\* Nothing happens.
LEMMA StutterAnswers ==
    ASSUME RpcInv(TRUE), AnswerInv, UNCHANGED systemVars
    PROVE  AnswerInv'
<1>1. UNCHANGED <<brokerEnd, nodeEnd, toBroker, toNode, session, owner, pc, m_runing, m_nodeId,
                  m_master_broker_sock, m_broker_data, m_node_info, gCallBackIDGen, m_rpcTmpCallBack,
                  service2nodeId, restarts, ran, cuts>>
  BY DEF systemVars, netVars, brokerVars, rpcVars, nodeVars
<1>2. CallsGoOn
  BY <1>1, CallsStay
<1>3. NamedInv' /\ CallbacksGetTheirAnswer' /\ \A c \in Conn : Up(c) => Up(c)'
  BY <1>1 DEF AnswerInv, NamedInv, CallbacksGetTheirAnswer, Up
<1> QED BY <1>1, <1>2, <1>3, UnmovedStep

\* The initial states.
LEMMA AnswersAtFirst == RpcSystemInit => AnswerInv
<1> SUFFICES ASSUME RpcSystemInit PROVE AnswerInv
  OBVIOUS
<1>1. /\ toBroker = [l \in Link |-> <<>>] /\ toNode = [l \in Link |-> <<>>]
      /\ session = [c \in Conn |-> NoSession] /\ m_node_info = Empty /\ service2nodeId = Empty
      /\ cuts = 0
  BY DEF RpcSystemInit, NetInit, BrokerInit
<1>2. /\ pc = [n \in Node |-> "start"] /\ m_runing = [n \in Node |-> FALSE]
      /\ m_nodeId = [n \in Node |-> 0] /\ m_master_broker_sock = [n \in Node |-> NULL]
      /\ m_broker_data = [n \in Node |-> Empty] /\ gCallBackIDGen = [n \in Node |-> 0]
      /\ restarts = 0 /\ ran = {}
  BY DEF RpcSystemInit, RpcInit
<1>3. DOMAIN Empty = {} /\ NoSession.nodeId = 0 /\ Messages(<<>>) = {}
  <2>1. DOMAIN Empty = {}
    BY DEF Empty
  <2>2. NoSession.nodeId = 0
    BY NoSessionIs, Zenon
  <2>3. Messages(<<>>) = {}
    BY DEF Messages
  <2> QED BY <2>1, <2>2, <2>3
<1>4. /\ \A l \in Link : Messages(toBroker[l]) = {} /\ Messages(toNode[l]) = {}
      /\ \A c \in Conn : c \in Link /\ session[c].nodeId = 0
  BY <1>1, <1>3 DEF Link
<1>5. SteadyInv
  BY <1>4 DEF SteadyInv, Joins, Registers
<1>6. HomeInv
  BY <1>1, <1>2, <1>3 DEF HomeInv
<1>7. ReturnInv /\ NamedInv
  BY <1>1, <1>2, <1>3, <1>4 DEF ReturnInv, NamedInv
<1> QED BY <1>1, <1>2, <1>5, <1>6, <1>7 DEF AnswerInv, Undisturbed, CallbacksGetTheirAnswer

\* Every callback runs with the answer of its own call, whoever calls whom and in whatever
\* order the answers come, as long as no connection is lost and no node closes, is given up
\* while it opens, or is killed.  One lost connection is enough for it to run with another.
THEOREM OwnAnswers ==
    ASSUME MaxCuts = 0, MaxRestarts = 0
    PROVE  RpcSystemSpec => []CallbacksGetTheirAnswer
<1>1. RpcSystemInit => AnswerInv
  BY AnswersAtFirst
<1>2. RpcInv(TRUE) /\ AnswerInv /\ [RpcSystemNext]_systemVars => AnswerInv'
  <2> SUFFICES ASSUME RpcInv(TRUE), AnswerInv, [RpcSystemNext]_systemVars PROVE AnswerInv'
    OBVIOUS
  <2>1. \A c \in Conn : ~ConnectionLost(c)
    BY DEF ConnectionLost, AnswerInv, Undisturbed
  <2> QED BY <2>1, BrokerAnswers, NodeAnswers, StutterAnswers DEF RpcSystemNext
<1>3. AnswerInv => CallbacksGetTheirAnswer
  BY DEF AnswerInv
<1> QED BY <1>1, <1>2, <1>3, RpcInvariance, PTL DEF RpcSystemSpec
=============================================================================
