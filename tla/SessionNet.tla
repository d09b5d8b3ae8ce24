----------------------------- MODULE SessionNet -----------------------------
(***************************************************************************)
(* What joins the gate to the workers: the messages they exchange through  *)
(* the broker, each sender's in the order it sent them (RpcSystem checks   *)
(* the broker itself), and the gate's copy of the broker's registry, which *)
(* lags behind the workers whose connections break and come back.          *)
(***************************************************************************)
EXTENDS Integers, Sequences, FiniteSets

CONSTANTS NWorker,      \* the workers are worker#0 .. worker#(NWorker - 1)
          MaxRestarts   \* bound: how often a worker registers again

ASSUME SessionNetAssumption == NWorker \in Nat \ {0} /\ MaxRestarts \in Nat

Worker == 0 .. NWorker - 1
NoWorker == -1      \* the empty service name

VARIABLES toWorker,         \* messages of the gate a worker has not handled
          toGate,           \* messages of a worker the gate has not handled
          nodeId,           \* the broker's registry: node id of a worker that is up, or 0
          service2nodeId,   \* the gate's copy of it (m_broker_data)
          m_for_allocID,    \* the last node id the broker handed out
          missed            \* history: the sessions whose SessionOfflineReq was lost

sessionNetVars == <<toWorker, toGate, nodeId, service2nodeId, m_for_allocID, missed>>

Empty == [x \in {} |-> x]
Insert(map, k, v) == [x \in DOMAIN map \cup {k} |-> IF x = k THEN v ELSE map[x]]
Erase(map, k) == [x \in DOMAIN map \ {k} |-> map[x]]

-----------------------------------------------------------------------------
(* Messages.  "client" and "num" are no fields of the code: they name the   *)
(* client a routed message came from and its place among that client's.     *)

RouteLogicMsgReq(id, c, n, first) ==
    [cmd |-> "RouteLogicMsgReq", sessionId |-> id, client |-> c, num |-> n, first |-> first]
SessionOfflineReq(id) == [cmd |-> "SessionOfflineReq", sessionId |-> id]
SessionEnterWorkerReq(id, from) ==
    [cmd |-> "SessionEnterWorkerReq", sessionId |-> id, fromWorker |-> from]

GateChangeLogicNodeReq(id, w) ==
    [cmd |-> "GateChangeLogicNodeReq", sessionId |-> id, allocWorker |-> w]
GateCloseSessionReq(id) == [cmd |-> "GateCloseSessionReq", sessionId |-> id]
GateRouteMsgToSessionReq(id) == [cmd |-> "GateRouteMsgToSessionReq", sessionId |-> id]
GateBroadcastMsgToSessionReq == [cmd |-> "GateBroadcastMsgToSessionReq", sessionId |-> 0]

-----------------------------------------------------------------------------
NetInit == /\ toWorker = [w \in Worker |-> <<>>]
           /\ toGate = [w \in Worker |-> <<>>]
           /\ nodeId = [w \in Worker |-> w + 1]
           /\ service2nodeId = [w \in Worker |-> w + 1]
           /\ m_for_allocID = NWorker
           /\ missed = {}

\* asyncCall() of the gate: a name its registry does not hold, or one whose node
\* the broker no longer knows, loses the message.
Reachable(w) == w \in DOMAIN service2nodeId /\ service2nodeId[w] = nodeId[w]
asyncCall(w, msg) ==
    IF Reachable(w) THEN [toWorker EXCEPT ![w] = Append(@, msg)] ELSE toWorker

\* The connection of a worker and the broker breaks: of what was on the way each
\* side gets what it had received.  The worker itself goes on as it is.
ConnectionBreaks(w) ==
    /\ nodeId[w] # 0
    /\ nodeId' = [nodeId EXCEPT ![w] = 0]
    /\ \E k \in 0..Len(toWorker[w]) :
           /\ toWorker' = [toWorker EXCEPT ![w] = SubSeq(@, 1, k)]
           /\ missed' = missed \cup {toWorker[w][i].sessionId : i \in
                  {j \in k + 1 .. Len(toWorker[w]) : toWorker[w][j].cmd = "SessionOfflineReq"}}
    /\ \E k \in 0..Len(toGate[w]) : toGate' = [toGate EXCEPT ![w] = SubSeq(@, 1, k)]
    /\ UNCHANGED <<service2nodeId, m_for_allocID>>

\* It registers again, the process that it was or a new one, under its old name
\* and a new node id.
WorkerRegisters(w) ==
    /\ nodeId[w] = 0 /\ m_for_allocID < NWorker + MaxRestarts
    /\ m_for_allocID' = m_for_allocID + 1
    /\ nodeId' = [nodeId EXCEPT ![w] = m_for_allocID']
    /\ UNCHANGED <<toWorker, toGate, service2nodeId, missed>>

\* The registry the broker broadcast reaches the gate.
GateLearnsRegistry ==
    LET registry == [w \in {x \in Worker : nodeId[x] # 0} |-> nodeId[w]]
    IN  /\ service2nodeId # registry
        /\ service2nodeId' = registry
        /\ UNCHANGED <<toWorker, toGate, nodeId, m_for_allocID, missed>>
=============================================================================
