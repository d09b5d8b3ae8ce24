----------------------------- MODULE RpcSystem -----------------------------
(***************************************************************************)
(* The broker and its nodes: FFBroker and FFRpc over the links of RpcNet,  *)
(* with connections that are lost.                                         *)
(***************************************************************************)
EXTENDS FFBroker, FFRpc

CONSTANTS MaxCuts,          \* bound: connections lost by the network
          CutsWhileOpening  \* whether a connection may be lost before open() has returned

ASSUME RpcSystemAssumption == MaxCuts \in Nat /\ CutsWhileOpening \in BOOLEAN

VARIABLE cuts

registryVars == <<node_sockets, service2nodeId, m_for_allocID>>
systemVars == <<netVars, brokerVars, rpcVars, cuts>>

\* The loss of a connection, which both sides see as BROKEN.
ConnectionLost(c) ==
    /\ cuts < MaxCuts /\ cuts' = cuts + 1
    /\ Up(c)
    /\ CutsWhileOpening \/ (owner[c] # NoOne /\ m_runing[owner[c]])
    /\ Break(c, toBroker, toNode)
    /\ UNCHANGED <<session, brokerVars, rpcVars>>

BrokerStep == BrokerNext /\ UNCHANGED <<rpcVars, cuts>>

\* Handlers and timers, which a node that lives runs sooner or later.
NodeHandles(n) ==
    \/ OpenConnects(n) \/ OpenSucceeds(n) \/ OpenFails(n) \/ timerReconnectBroker(n)
    \/ CloseForgets(n) \/ CloseEnds(n)
    \/ \E c \in Conn : \/ RegistrationRefused(n, c) \/ RefusalCrashes(n, c)
                       \/ RegistryArrives(n, c) \/ HandleNodeBroken(n, c)
    \/ \E l \in Link : HandleCall(n, l) \/ HandleAnswer(n, l)
\* What it does when its users please, or when the time is up.
NodeDecides(n) ==
    \/ \E m \in Node, kind \in Kinds :
        CallWithoutService(n, ServiceOf[m], kind) \/ docall(n, ServiceOf[m], kind)
    \/ OpenTimesOut(n) \/ CloseStarts(n) \/ ProcessRestarts(n)

NodeStep(n) == (NodeHandles(n) \/ NodeDecides(n)) /\ UNCHANGED <<registryVars, cuts>>

RpcSystemInit == NetInit /\ BrokerInit /\ RpcInit /\ cuts = 0

RpcSystemNext == \/ BrokerStep
                 \/ \E n \in Node : NodeStep(n)
                 \/ \E c \in Conn : ConnectionLost(c)

RpcSystemSpec == RpcSystemInit /\ [][RpcSystemNext]_systemVars

\* The TaskQueues run what was posted to them, in the order of posting, and the
\* timers and the threads that open and close nodes get on.
RpcSystemFair ==
    /\ RpcSystemSpec
    /\ \A c \in Conn : WF_systemVars(BrokerHandles(c) /\ UNCHANGED <<rpcVars, cuts>>)
    /\ \A n \in InProc : WF_systemVars(PostedRoute(n) /\ UNCHANGED <<rpcVars, cuts>>)
    /\ \A n \in Node : WF_systemVars(NodeHandles(n) /\ UNCHANGED <<registryVars, cuts>>)

-----------------------------------------------------------------------------
(* Properties. *)

Labels == {"start", "polling", "open", "failed", "closing", "forgetting", "closed", "crashed"}

RpcTypeOK ==
    /\ pc \in [Node -> Labels]
    /\ m_runing \in [Node -> BOOLEAN]
    /\ m_nodeId \in [Node -> 0..m_for_allocID]
    /\ m_master_broker_sock \in [Node -> Conn \cup {NULL}]
    /\ \A n \in Node : \A s \in DOMAIN m_broker_data[n] : m_broker_data[n][s] \in 1..m_for_allocID
    /\ \A n \in Node : \A cb \in m_rpcTmpCallBack[n] : cb.id \in 1..gCallBackIDGen[n] /\ cb.tag \in 1..calls
    /\ reconnectTimers \in [Node -> 0..1]
    /\ owner \in [Conn -> Node \cup {NoOne}]

\* The callback of a call is run with the result of that call.
CallbacksGetTheirAnswer == \A p \in ran : p[1] = p[2]

\* A call is handled by a node that registered the service it was made to, however
\* stale the registry the caller looked the node id up in.
CallsReachTheirService == \A p \in served : ServiceOf[p[2]] = p[1]

\* A node that runs has one way to the broker: a connection it has not seen
\* broken, or one timer that will make the next.  Never none, and never two,
\* which would have BROKEN events close the wrong connection.
AlwaysOneWayBack ==
    \A n \in Node : pc[n] = "open" =>
        reconnectTimers[n] + Cardinality({c \in Conn : owner[c] = n}) = 1

\* A refusal finds the socket that handleBrokerRegResponse() closes.
RefusalFindsSocket == \A n \in Node : pc[n] # "crashed"

\* A node that runs comes back by one way, and never crashes on it.
OneWayBack == AlwaysOneWayBack /\ RefusalFindsSocket

\* Who knows a registry and will handle these messages knows this one in the end.
Registrations(queue) == {i \in DOMAIN queue : queue[i].cmd = "REGISTER_TO_BROKER_RET"}
Learns(known, queue, registry) ==
    /\ Registrations(queue) = {} => registry = known
    /\ \A i \in Registrations(queue) :
           (\A j \in Registrations(queue) : j <= i) => registry = queue[i].service2nodeId

\* What a connected node knows, or is about to be told last, is the registry.
NodesLearnTheRegistry ==
    \A c \in Conn :
        Up(c) /\ owner[c] # NoOne /\ session[c].nodeId # 0 =>
            Learns(m_broker_data[owner[c]], toNode[c], service2nodeId)

\* The broker and a connected node that has heard of its registration agree on
\* the id of the node, after any number of reconnections.
IdsAgree ==
    \A c \in Conn :
        Up(c) /\ owner[c] # NoOne /\ session[c].nodeId # 0 =>
            \/ m_nodeId[owner[c]] = session[c].nodeId
            \/ \E i \in 1..Len(toNode[c]) :
                    /\ toNode[c][i].cmd = "REGISTER_TO_BROKER_RET"
                    /\ toNode[c][i].registerFlag = 1
                    /\ toNode[c][i].nodeId = session[c].nodeId

\* Broker and nodes agree about ids and services, however connections come and go.
NodesAgree == RpcTypeOK /\ IdsAgree /\ NodesLearnTheRegistry

\* Whatever the nodes do, for the broker they are peers as FFBroker assumes them.
ImplementsAnyPeers == AnyPeersSpec

\* Every call with a callback is answered.
Waiting(t) == \E n \in Node : \E cb \in m_rpcTmpCallBack[n] : cb.tag = t
Answered(t) == \E p \in ran : p[1] = t
CallsAreAnswered == \A t \in 1..MaxCalls : Waiting(t) ~> Answered(t)

\* A node that runs is in the end registered for good, whatever connections it lost.
Registered(n) ==
    /\ m_master_broker_sock[n] # NULL
    /\ Up(m_master_broker_sock[n])
    /\ ServiceOf[n] \in DOMAIN service2nodeId
    /\ service2nodeId[ServiceOf[n]] = m_nodeId[n]
NodesComeBack == <>[](\A n \in Node : pc[n] = "open" => Registered(n))
=============================================================================
