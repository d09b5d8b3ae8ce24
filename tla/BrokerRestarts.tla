--------------------------- MODULE BrokerRestarts ---------------------------
(***************************************************************************)
(* The nodes of RpcSystem and a broker whose process ends and is started   *)
(* again: it keeps nothing, counts node ids from 0 again, and while it is  *)
(* down no node can connect.  All nodes have processes of their own.       *)
(***************************************************************************)
EXTENDS RpcSystem

CONSTANT MaxBrokerRestarts   \* bound: how often the broker's process ends

ASSUME BrokerRestartsAssumption == MaxBrokerRestarts \in Nat /\ InProc = {}

VARIABLES brokerUp, brokerRestarts

restartVars == <<systemVars, brokerUp, brokerRestarts>>

Prefixes(queue) == {SubSeq(queue, 1, k) : k \in 0..Len(queue)}
CutShort(queues) ==
    {q \in [Link -> UNION {Prefixes(queues[l]) : l \in Link}] : \A l \in Link : q[l] \in Prefixes(queues[l])}

\* The end of the process: for the nodes each connection breaks.
BrokerEnds ==
    /\ brokerUp /\ brokerUp' = FALSE
    /\ brokerRestarts < MaxBrokerRestarts /\ brokerRestarts' = brokerRestarts + 1
    /\ CutsWhileOpening \/ \A n \in Node : pc[n] # "polling"
    /\ brokerEnd' = [c \in Conn |-> "none"]
    /\ nodeEnd' = [c \in Conn |-> IF nodeEnd[c] = "open" THEN "broken" ELSE nodeEnd[c]]
    /\ toBroker' = [l \in Link |-> <<>>]
    /\ toNode' \in CutShort(toNode)
    /\ session' = [c \in Conn |-> NoSession]
    /\ node_sockets' = Empty /\ service2nodeId' = Empty /\ m_for_allocID' = 0
    /\ UNCHANGED <<m_node_info, rpcVars, cuts>>

BrokerStarts == /\ ~brokerUp /\ brokerUp' = TRUE
                /\ UNCHANGED <<systemVars, brokerRestarts>>

\* A node cannot connect to a broker that is down: open() closes the TaskQueue and fails;
\* timerReconnectBroker() sets its timer again, so that nothing has changed.
OpenCannotConnect(n) ==
    /\ pc[n] = "start" /\ ~brokerUp
    /\ pc' = [pc EXCEPT ![n] = "closed"]
    /\ UNCHANGED <<netVars, brokerVars, cuts, m_runing, m_nodeId, m_master_broker_sock,
                   m_broker_data, m_rpcTmpCallBack, gCallBackIDGen, reconnectTimers, owner,
                   calls, restarts, ran, served, brokerUp, brokerRestarts>>
CanConnect == brokerUp \/ \A c \in Conn : nodeEnd'[c] # "open"

Unrestarted == UNCHANGED <<brokerUp, brokerRestarts>>

RestartsInit == RpcSystemInit /\ brokerUp = TRUE /\ brokerRestarts = 0

RestartsNext == \/ BrokerEnds \/ BrokerStarts
                \/ \E n \in Node : OpenCannotConnect(n)
                \/ (RpcSystemNext /\ CanConnect /\ Unrestarted)

RestartsSpec == RestartsInit /\ [][RestartsNext]_restartVars

\* As RpcSystemFair; and the broker is started again.
RestartsFair ==
    /\ RestartsSpec /\ WF_restartVars(BrokerStarts)
    /\ \A c \in Conn : WF_restartVars(BrokerHandles(c) /\ UNCHANGED <<rpcVars, cuts>> /\ Unrestarted)
    /\ \A n \in Node : WF_restartVars(NodeHandles(n) /\ UNCHANGED <<registryVars, cuts>>
                                          /\ CanConnect /\ Unrestarted)

-----------------------------------------------------------------------------
\* A node that runs finds its way to the next broker, and there what it knows of ids and
\* services is replaced, although that broker begins with nothing (timerReconnectBroker,
\* handleBrokerRegResponse).
NodesFindTheBroker == OneWayBack /\ IdsAgree /\ NodesLearnTheRegistry
=============================================================================
