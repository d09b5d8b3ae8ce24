--------------------------- MODULE SessionProofs ---------------------------
(***************************************************************************)
(* Proofs about the sessions, for every set of clients and workers, every  *)
(* game and all bounds.                                                    *)
(*                                                                         *)
(* GateInv is inductive by itself.  It joins what the gate keeps about a   *)
(* session to what every message on its way may say, and gives the         *)
(* directory and the silence after the end.  Beside it are inductive       *)
(* OrderInv, for the order of what a worker serves; KnownInv, for what     *)
(* the worker a session is bound to knows, when no connection breaks; and  *)
(* LeftInv, for what a worker may keep when they break and come back.      *)
(***************************************************************************)
EXTENDS SessionSystem, FiniteSetTheorems, LogLemmas

-----------------------------------------------------------------------------
(* Messages. *)

\* To a worker: a client's message, the end of a session, its arrival.
Routes == [cmd : {"RouteLogicMsgReq"}, sessionId : Nat, client : Client, num : Nat, first : BOOLEAN]
Offlines == [cmd : {"SessionOfflineReq"}, sessionId : Nat]
Enters == [cmd : {"SessionEnterWorkerReq"}, sessionId : Nat, fromWorker : Named \cup {NoWorker}]
ForWorker == Routes \cup Offlines \cup Enters

\* To the gate.
Moves == [cmd : {"GateChangeLogicNodeReq"}, sessionId : Nat, allocWorker : Targets]
Others == [cmd : {"GateCloseSessionReq", "GateRouteMsgToSessionReq", "GateBroadcastMsgToSessionReq"},
           sessionId : Nat]
ForGate == Moves \cup Others

\* The messages on the way to each worker, or from each.
Queues(S) == [Worker -> Seq(S)]
Inboxes == [Client -> Seq(0..MaxMsgs)]

-----------------------------------------------------------------------------
(* The invariant of the gate. *)

\* The variables of clients and gate in their ranges.
SocketTypeInv == /\ sock \in [Client -> {"none", "open", "closed"}]
                 /\ inbox \in Inboxes
                 /\ num \in [Client -> 0..MaxMsgs]

GateTypeInv == /\ m_allocID \in Nat
               /\ sessionId \in [Client -> 0..m_allocID]
               /\ toClient \in [Client -> SUBSET (0..m_allocID)]
               /\ gate \in {"open", "closing", "closed"}

\* Who the entries of m_client_set are for.
EntryInv ==
    /\ DOMAIN m_client_set \subseteq 1..m_allocID
    /\ \A id \in DOMAIN m_client_set :
           /\ m_client_set[id] \in [sock : Client \cup {NoSock}, allocWorker : Named \cup {NoWorker}]
           /\ m_client_set[id].sock # NoSock => /\ sessionId[m_client_set[id].sock] = id
                                                /\ m_client_set[id].allocWorker \in Named
           /\ m_client_set[id].sock = NoSock /\ thrown = {} => m_client_set[id].allocWorker = NoWorker

\* Every id was handed out once, to a client that has connected.
IdInv == /\ \A c \in Client : sock[c] = "none" => sessionId[c] = 0
         /\ \A c, d \in Client : sessionId[c] = sessionId[d] /\ sessionId[c] # 0 => c = d
         /\ Cardinality({c \in Client : sessionId[c] # 0}) = m_allocID

\* A socket that has a Broken to handle is closed, and one that has anything to
\* handle was opened.
BrokenInv == \A c \in Client :
                 /\ sock[c] = "open" => \A i \in 1..Len(inbox[c]) : inbox[c][i] # Broken
                 /\ sock[c] = "none" => inbox[c] = <<>>

\* What joins gate and workers in its range; a name in the gate's registry has an id.
NetTypeInv == /\ nodeId \in [Worker -> 0 .. NWorker + MaxRestarts]
              /\ m_for_allocID \in NWorker .. NWorker + MaxRestarts
              /\ DOMAIN service2nodeId \subseteq Worker
              /\ \A w \in DOMAIN service2nodeId : service2nodeId[w] # 0
              /\ toWorker \in Queues(ForWorker)
              /\ toGate \in Queues(ForGate)

\* What a message to a worker may say: the client of a routed message has that
\* session, and an offline message is about a session that ended.
Truthful(m) == /\ m.sessionId \in 1..m_allocID
               /\ m \in Routes => sessionId[m.client] = m.sessionId /\ m.num \in 1..MaxMsgs
               /\ m \in Offlines => m.sessionId \notin Live

\* Every message on its way, and the sessions of those that were lost.
MessageInv == /\ \A w \in Worker : \A i \in 1..Len(toWorker[w]) : Truthful(toWorker[w][i])
              /\ \A w \in Worker : \A i \in 1..Len(toGate[w]) : toGate[w][i].sessionId \in 0..m_allocID
              /\ missed \subseteq 1..m_allocID

\* The variables of the workers in their ranges.
WorkerTypeInv == /\ DOMAIN m_worker_client = Worker /\ DOMAIN served = Worker
                 /\ movedAway \in [Worker -> SUBSET (1..m_allocID)]
                 /\ requests \in 0..MaxRequests /\ asked \subseteq 1..m_allocID
                 /\ \A w \in Worker : \A id \in DOMAIN served[w] :
                        id \in 1..m_allocID /\ served[w][id] \subseteq 1..MaxMsgs

\* The entity of a session was made for its client.
EntityInv == \A w \in Worker : \A id \in DOMAIN m_worker_client[w] :
                 /\ id \in 1..m_allocID
                 /\ m_worker_client[w][id] \in Client \cup {NoEntity}
                 /\ m_worker_client[w][id] # NoEntity => sessionId[m_worker_client[w][id]] = id

\* The inductive invariant of the gate.
GateSide == /\ SocketTypeInv /\ GateTypeInv /\ EntryInv /\ IdInv /\ BrokenInv
            /\ OpenSessionsAreBound /\ RepliesReachTheirClient
NetSide == NetTypeInv /\ MessageInv
WorkerSide == WorkerTypeInv /\ EntityInv
GateInv == GateSide /\ NetSide /\ WorkerSide

-----------------------------------------------------------------------------
(* The invariants of what the workers see. *)

\* The messages of a client are numbered in the order they wait in, at its socket,
\* on the way to a worker and at the worker.
InboxOrdered(box, n) ==
    /\ \A i \in 1..Len(box) : box[i] <= n
    /\ \A i, j \in 1..Len(box) : i < j => box[i] # Broken /\ (box[j] = Broken \/ box[i] < box[j])
Before(n, box) == \A k \in 1..Len(box) : box[k] = Broken \/ n < box[k]

InboxesInOrder == \A c \in Client : InboxOrdered(inbox[c], num[c])

\* A routed message comes before what still waits at the socket,
RoutedFirst == \A w \in Worker : \A i \in 1..Len(toWorker[w]) :
                   toWorker[w][i] \in Routes =>
                       /\ toWorker[w][i].num <= num[toWorker[w][i].client]
                       /\ Before(toWorker[w][i].num, inbox[toWorker[w][i].client])

\* after the earlier ones of its session,
RoutedInOrder == \A w \in Worker : \A i, j \in 1..Len(toWorker[w]) :
                     /\ i < j /\ toWorker[w][i] \in Routes /\ toWorker[w][j] \in Routes
                     /\ toWorker[w][i].sessionId = toWorker[w][j].sessionId
                     => toWorker[w][i].num < toWorker[w][j].num

\* and after what its worker has served.
ServedFirst == \A w \in Worker : \A id \in DOMAIN served[w] : \A n \in served[w][id] :
                   /\ \A c \in Client : sessionId[c] = id => n <= num[c] /\ Before(n, inbox[c])
                   /\ \A i \in 1..Len(toWorker[w]) :
                          toWorker[w][i] \in Routes /\ toWorker[w][i].sessionId = id => n < toWorker[w][i].num

OrderInv == InboxesInOrder /\ RoutedFirst /\ RoutedInOrder /\ ServedFirst

\* The gate's registry is right about every worker.
Steady == /\ nodeId = [w \in Worker |-> w + 1]
          /\ service2nodeId = [w \in Worker |-> w + 1]

\* A message that tells a worker of a session it may not know; the sessions a
\* worker has heard of, or will hear of.
Introduces(m, id) == m.sessionId = id /\ (m \in Enters \/ (m \in Routes /\ m.first))
Heard(w, id) == id \in DOMAIN m_worker_client[w] \cup movedAway[w]

Told(w, id) == Heard(w, id) \/ \E i \in 1..Len(toWorker[w]) : Introduces(toWorker[w][i], id)
Mentioned(w, id) == \E i \in 1..Len(toWorker[w]) : toWorker[w][i].sessionId = id
AskedToMove(id) == \E v \in Worker : \E i \in 1..Len(toGate[v]) :
                       toGate[v][i] \in Moves /\ toGate[v][i].sessionId = id

\* The worker a session is bound to was told of it or will be,
BoundAreTold == \A id \in Live : m_client_set[id].allocWorker \in Worker =>
                    Told(m_client_set[id].allocWorker, id)

\* and it has a client for it or will have, or it asked that the session be moved.
BoundAreKnown == \A id \in Live : m_client_set[id].allocWorker \in Worker =>
                     \/ id \in DOMAIN m_worker_client[m_client_set[id].allocWorker]
                     \/ Mentioned(m_client_set[id].allocWorker, id) \/ AskedToMove(id)

\* A routed message finds a worker that was told.
RoutedAreTold == thrown = {} =>
    \A w \in Worker : \A j \in 1..Len(toWorker[w]) :
        toWorker[w][j] \in Routes => \/ Heard(w, toWorker[w][j].sessionId)
                                     \/ \E i \in 1..j : Introduces(toWorker[w][i], toWorker[w][j].sessionId)

\* No worker hears of a session that its offline message ended.
OfflineIsLast == thrown = {} =>
    \A w \in Worker : \A j, k \in 1..Len(toWorker[w]) :
        toWorker[w][j] \in Offlines /\ k > j => toWorker[w][k].sessionId # toWorker[w][j].sessionId

\* The inductive invariant of what the workers know.
KnownInv == Steady /\ BoundAreTold /\ BoundAreKnown /\ RoutedAreTold /\ OfflineIsLast

\* A session lives and is bound to a worker.
Attached(w, id) == id \in Live /\ m_client_set[id].allocWorker = w

\* The offline message is the last one about a session.
Leaves(w, id) == \E j \in 1..Len(toWorker[w]) :
                     /\ toWorker[w][j] \in Offlines /\ toWorker[w][j].sessionId = id
                     /\ \A k \in 1..Len(toWorker[w]) : k > j => toWorker[w][k].sessionId # id

\* A worker has a client for the session, or is about to; one that the hook has
\* thrown for is not counted.
Serves(w, id) == \/ /\ id \in DOMAIN m_worker_client[w]
                    /\ ~(ThrowingHook /\ m_worker_client[w][id] = NoEntity)
                 \/ \E i \in 1..Len(toWorker[w]) : toWorker[w][i] \in Routes /\ toWorker[w][i].sessionId = id

\* Only a session that a game asked about is moved or closed for a worker,
Disturbs(m) == m \in Moves \/ m.cmd = "GateCloseSessionReq"
RequestsAreAsked == \A w \in Worker : \A i \in 1..Len(toGate[w]) :
                        Disturbs(toGate[w][i]) => toGate[w][i].sessionId \in asked

\* arrives at one,
ArrivalsAreAsked == \A w \in Worker : \A i \in 1..Len(toWorker[w]) :
                        toWorker[w][i] \in Enters => toWorker[w][i].sessionId \in asked

\* or is bound to one after it has ended.
EntriesAreAsked == \A id \in DOMAIN m_client_set :
                       id \in Live \/ m_client_set[id].allocWorker = NoWorker \/ id \in asked

\* A worker that serves any other session is the one it is bound to, or will hear
\* of its end, unless the word of it was lost.
ServersAreFollowed == \A w \in Worker : \A id : Serves(w, id) /\ id \notin asked \cup missed =>
                                            Attached(w, id) \/ Leaves(w, id)

\* The inductive invariant of who is left behind.
LeftInv == RequestsAreAsked /\ ArrivalsAreAsked /\ EntriesAreAsked /\ ServersAreFollowed

-----------------------------------------------------------------------------
(* Names, messages and queues. *)

\* What stands for nothing is none of them.
LEMMA Names == /\ NoWorker \notin Named /\ Worker \subseteq Named /\ Targets \subseteq Named
               /\ NoSock \notin Client /\ NoEntity \notin Client
               /\ NWorker \in Nat \ {0} /\ MaxRestarts \in Nat /\ MaxMsgs \in Nat /\ MaxRequests \in Nat
               /\ IsFiniteSet(Client) /\ \A w \in Worker : w + 1 \in 1..NWorker
BY SessionNetAssumption, FFGateAssumption, FFWorkerAssumption DEF NoWorker, Worker, Named, NoEntity, NoSock

\* A message is of the kind its command says.
LEMMA MessageKinds ==
    ASSUME NEW m \in ForWorker
    PROVE  /\ m.cmd = "RouteLogicMsgReq" <=> m \in Routes
           /\ m.cmd = "SessionOfflineReq" <=> m \in Offlines
           /\ m.cmd = "SessionEnterWorkerReq" <=> m \in Enters
           /\ ~(m \in Routes /\ m \in Offlines) /\ ~(m \in Routes /\ m \in Enters)
           /\ ~(m \in Offlines /\ m \in Enters)
           /\ m \in Routes => m.client \in Client /\ m.num \in Nat /\ m.first \in BOOLEAN
           /\ m.sessionId \in Nat
BY DEF ForWorker, Routes, Offlines, Enters

\* So is a request.
LEMMA RequestKinds ==
    ASSUME NEW m \in ForGate
    PROVE  /\ m.cmd = "GateChangeLogicNodeReq" <=> m \in Moves
           /\ m \in Moves => m.allocWorker \in Targets
           /\ m.sessionId \in Nat
BY DEF ForGate, Moves, Others

\* What the gate and the workers make are messages of those kinds.
LEMMA MadeOf ==
    ASSUME NEW id \in Nat
    PROVE  /\ \A c \in Client, n \in Nat, b \in BOOLEAN :
                  /\ RouteLogicMsgReq(id, c, n, b) \in Routes
                  /\ RouteLogicMsgReq(id, c, n, b).sessionId = id
                  /\ RouteLogicMsgReq(id, c, n, b).client = c
                  /\ RouteLogicMsgReq(id, c, n, b).num = n
                  /\ RouteLogicMsgReq(id, c, n, b).first = b
           /\ SessionOfflineReq(id) \in Offlines /\ SessionOfflineReq(id).sessionId = id
           /\ \A w \in Named \cup {NoWorker} : /\ SessionEnterWorkerReq(id, w) \in Enters
                                                /\ SessionEnterWorkerReq(id, w).sessionId = id
           /\ \A w \in Targets : /\ GateChangeLogicNodeReq(id, w) \in Moves
                                 /\ GateChangeLogicNodeReq(id, w).sessionId = id
           /\ GateCloseSessionReq(id) \in Others /\ GateCloseSessionReq(id).sessionId = id
           /\ GateRouteMsgToSessionReq(id) \in Others /\ GateRouteMsgToSessionReq(id).sessionId = id
           /\ GateBroadcastMsgToSessionReq \in Others /\ GateBroadcastMsgToSessionReq.sessionId = 0
BY DEF RouteLogicMsgReq, SessionOfflineReq, SessionEnterWorkerReq, GateChangeLogicNodeReq,
       GateCloseSessionReq, GateRouteMsgToSessionReq, GateBroadcastMsgToSessionReq,
       Routes, Offlines, Enters, Moves, Others

\* The k-th smallest of a set of workers exists.
LEMMA RanksExist ==
    \A n \in Nat : \A S \in SUBSET (0 .. n - 1) : \A k \in Nat :
        k < Cardinality(S) => \E w \in S : Cardinality({x \in S : x < w}) = k
<1> DEFINE T == {n \in Nat : \A S \in SUBSET (0 .. n - 1) : \A k \in Nat :
                     k < Cardinality(S) => \E w \in S : Cardinality({x \in S : x < w}) = k}
<1>1. 0 \in T
  <2> SUFFICES ASSUME NEW S \in SUBSET (0 .. 0 - 1), NEW k \in Nat, k < Cardinality(S) PROVE FALSE
    BY DEF T
  <2>1. S = {}
    OBVIOUS
  <2> QED BY <2>1, FS_EmptySet
<1>2. ASSUME NEW n \in Nat, n \in T PROVE n + 1 \in T
  <2> SUFFICES ASSUME NEW S \in SUBSET (0 .. n + 1 - 1), NEW k \in Nat, k < Cardinality(S)
               PROVE  \E w \in S : Cardinality({x \in S : x < w}) = k
    BY DEF T
  <2> DEFINE R == S \ {n}
  <2>0. \A U \in SUBSET (0 .. n - 1) : \A i \in Nat :
            i < Cardinality(U) => \E w \in U : Cardinality({x \in U : x < w}) = i
    BY <1>2 DEF T
  <2> HIDE DEF T
  <2>1. R \in SUBSET (0 .. n - 1) /\ S \in SUBSET (0 .. n) /\ \A x \in S : x \in Int /\ x <= n
    OBVIOUS
  <2>2. IsFiniteSet(S) /\ IsFiniteSet(R) /\ Cardinality(R) \in Nat /\ Cardinality(S) \in Nat
        /\ Cardinality(R) = IF n \in S THEN Cardinality(S) - 1 ELSE Cardinality(S)
    <3>1. IsFiniteSet(0 .. n)
      BY FS_Interval
    <3>2. IsFiniteSet(S)
      BY <2>1, <3>1, FS_Subset
    <3> QED BY <3>2, FS_RemoveElement, FS_CardinalityType
  <2>3. CASE k < Cardinality(R)
    <3>1. PICK w \in R : Cardinality({x \in R : x < w}) = k
      BY <2>0, <2>1, <2>3
    <3>2. w \in S /\ {x \in S : x < w} = {x \in R : x < w}
      BY <2>1, <3>1
    <3> QED BY <3>1, <3>2
  <2>4. CASE ~(k < Cardinality(R))
    <3>1. n \in S /\ k = Cardinality(R)
      BY <2>2, <2>4
    <3>2. \A x \in S : x < n <=> x # n
      BY <2>1
    <3>3. {x \in S : x < n} = R
      BY <3>2
    <3> QED BY <3>1, <3>3
  <2> QED BY <2>3, <2>4
<1>3. \A n \in Nat : n \in T
  <2> HIDE DEF T
  <2> QED BY <1>1, <1>2, SetInduction
<1> QED BY <1>3 DEF T

\* So a session is given to one of the workers the gate knows, when it knows any.
LEMMA AllocWorkerIs ==
    ASSUME NEW id \in Nat, DOMAIN service2nodeId \subseteq Worker, DOMAIN service2nodeId # {}
    PROVE  allocWorker(id) \in DOMAIN service2nodeId
<1> DEFINE all == DOMAIN service2nodeId
           k == id % Cardinality(all)
<1>1. all \in SUBSET (0 .. NWorker - 1) /\ NWorker \in Nat
  BY Names DEF Worker
<1>2. IsFiniteSet(all)
  <2>1. IsFiniteSet(0 .. NWorker - 1)
    BY <1>1, FS_Interval
  <2> QED BY <1>1, <2>1, FS_Subset
<1>3. Cardinality(all) \in Nat /\ Cardinality(all) # 0
  BY <1>2, FS_EmptySet, FS_CardinalityType
<1>4. k \in Nat /\ k < Cardinality(all)
  BY <1>3
<1>5. \E w \in all : Cardinality({x \in all : x < w}) = k
  BY <1>1, <1>4, RanksExist
<1> QED BY <1>5 DEF allocWorker

\* What becomes of the queues of the workers when the gate sends m to w.
Arrives(w, m) ==
    \A v \in Worker :
        \/ toWorker'[v] = toWorker[v] /\ ~(v = w /\ Reachable(v))
        \/ /\ v = w /\ Reachable(v)
           /\ toWorker'[v] = Append(toWorker[v], m)

\* asyncCall appends the message to the queue of its worker, or loses it.
LEMMA AsyncArrives ==
    ASSUME NetTypeInv, NEW w, NEW m \in ForWorker, toWorker' = asyncCall(w, m)
    PROVE  Arrives(w, m) /\ toWorker' \in Queues(ForWorker)
<1>1. toWorker \in [Worker -> Seq(ForWorker)] /\ DOMAIN service2nodeId \subseteq Worker
  BY DEF NetTypeInv, Queues
<1>2. CASE Reachable(w)
  <2>1. toWorker' = [toWorker EXCEPT ![w] = Append(@, m)] /\ w \in Worker
    BY <1>1, <1>2 DEF asyncCall, Reachable
  <2>2. Append(toWorker[w], m) \in Seq(ForWorker)
    BY <1>1, <2>1
  <2>3. toWorker'[w] = Append(toWorker[w], m) /\ \A v \in Worker \ {w} : toWorker'[v] = toWorker[v]
    BY <1>1, <2>1
  <2> QED BY <1>1, <1>2, <2>1, <2>2, <2>3 DEF Arrives, Queues
<1>3. CASE ~Reachable(w)
  BY <1>1, <1>3 DEF asyncCall, Arrives, Queues
<1> QED BY <1>2, <1>3

-----------------------------------------------------------------------------
(* What every step leaves alone. *)

\* Ids are only handed out, clients keep theirs, and no session comes back.
Grows == /\ m_allocID' \in Nat /\ m_allocID <= m_allocID'
         /\ \A c \in Client : sessionId[c] # 0 => sessionId'[c] = sessionId[c]
         /\ \A id \in Live' : id \in Live \/ id > m_allocID

\* What a message said stays true.
LEMMA TruthLasts ==
    ASSUME GateSide, Grows, NEW m \in ForWorker, Truthful(m)
    PROVE  Truthful(m)'
<1>1. m_allocID \in Nat /\ m_allocID' \in Nat /\ m_allocID <= m_allocID'
  BY DEF GateSide, GateTypeInv, Grows
<1>2. m.sessionId \in 1..m_allocID /\ m.sessionId \in 1..m_allocID'
  BY <1>1 DEF Truthful
<1>3. m \in Routes => sessionId'[m.client] = m.sessionId /\ m.num \in 1..MaxMsgs
  BY <1>2, MessageKinds DEF Truthful, Grows
<1>4. m \in Offlines => m.sessionId \notin Live'
  BY <1>1, <1>2 DEF Truthful, Grows
<1> QED BY <1>2, <1>3, <1>4 DEF Truthful

\* Messages stay true when the new ones are.
LEMMA MessagesKeep ==
    ASSUME GateInv, Grows, NEW M, \A m \in M : Truthful(m)',
           toWorker' \in Queues(ForWorker),
           \A w \in Worker : \A i \in 1..Len(toWorker'[w]) :
               \/ \E j \in 1..Len(toWorker[w]) : toWorker'[w][i] = toWorker[w][j]
               \/ toWorker'[w][i] \in M,
           \A w \in Worker : \A i \in 1..Len(toGate'[w]) :
               \/ \E j \in 1..Len(toGate[w]) : toGate'[w][i] = toGate[w][j]
               \/ toGate'[w][i].sessionId \in 0..m_allocID',
           missed' = missed \/ missed' \subseteq 1..m_allocID'
    PROVE  MessageInv'
<1>1. /\ toWorker \in [Worker -> Seq(ForWorker)] /\ GateSide /\ MessageInv
      /\ m_allocID \in Nat /\ m_allocID' \in Nat /\ m_allocID <= m_allocID'
  BY DEF GateInv, NetSide, NetTypeInv, Queues, GateSide, GateTypeInv, Grows
<1>2. ASSUME NEW w \in Worker, NEW i \in 1..Len(toWorker'[w])
      PROVE  Truthful(toWorker[w][i])'
  <2>1. PICK m : m = toWorker'[w][i]
    OBVIOUS
  <2>2. CASE \E j \in 1..Len(toWorker[w]) : m = toWorker[w][j]
    <3>1. m \in ForWorker /\ Truthful(m)
      BY <1>1, <2>2 DEF MessageInv
    <3>2. Truthful(m)'
      BY <1>1, <3>1, TruthLasts
    <3> QED BY <2>1, <3>2 DEF Truthful
  <2>3. CASE m \in M
    <3>1. Truthful(m)'
      BY <2>3
    <3> QED BY <2>1, <3>1 DEF Truthful
  <2> QED BY <2>1, <2>2, <2>3
<1>3. \A w \in Worker : \A i \in 1..Len(toGate'[w]) : toGate'[w][i].sessionId \in 0..m_allocID'
  <2>1. 0..m_allocID \subseteq 0..m_allocID'
    BY <1>1
  <2>2. \A w \in Worker : \A i \in 1..Len(toGate[w]) : toGate[w][i].sessionId \in 0..m_allocID
    BY <1>1 DEF MessageInv
  <2> QED BY <2>1, <2>2
<1>5. missed \subseteq 1..m_allocID /\ 1..m_allocID \subseteq 1..m_allocID'
  BY <1>1 DEF MessageInv
<1>6. missed' = missed \/ missed' \subseteq 1..m_allocID'
  OBVIOUS
<1>4. missed' \subseteq 1..m_allocID'
  BY <1>5, <1>6
<1> QED BY <1>2, <1>3, <1>4 DEF MessageInv

\* A message that the gate sends leaves the others where they were.
LEMMA ArrivedMessages ==
    ASSUME NetTypeInv, NEW w, NEW m \in ForWorker, Arrives(w, m)
    PROVE  \A v \in Worker : \A i \in 1..Len(toWorker'[v]) :
               \/ \E j \in 1..Len(toWorker[v]) : toWorker'[v][i] = toWorker[v][j]
               \/ toWorker'[v][i] \in {m}
<1> SUFFICES ASSUME NEW v \in Worker, NEW i \in 1..Len(toWorker'[v]),
                    ~ \E j \in 1..Len(toWorker[v]) : toWorker'[v][i] = toWorker[v][j]
             PROVE  toWorker'[v][i] = m
  OBVIOUS
<1>1. toWorker[v] \in Seq(ForWorker)
  BY DEF NetTypeInv, Queues
<1>2. toWorker'[v] = Append(toWorker[v], m)
  BY DEF Arrives
<1> QED BY <1>1, <1>2

\* The workers do not notice what the gate does.
LEMMA WorkersAlone ==
    ASSUME GateInv, Grows, UNCHANGED workerVars
    PROVE  WorkerSide'
<1>1. /\ m_allocID \in Nat /\ m_allocID' \in Nat /\ m_allocID <= m_allocID'
      /\ WorkerTypeInv /\ EntityInv
      /\ UNCHANGED <<m_worker_client, requests, served, movedAway, asked>>
  BY DEF GateInv, GateSide, GateTypeInv, Grows, WorkerSide, workerVars
<1>2. 1..m_allocID \subseteq 1..m_allocID'
  BY <1>1
<1>3. WorkerTypeInv'
  BY <1>1, <1>2 DEF WorkerTypeInv
<1>4. EntityInv'
  <2> SUFFICES ASSUME NEW w \in Worker, NEW id \in DOMAIN m_worker_client[w]
               PROVE  /\ id \in 1..m_allocID'
                      /\ m_worker_client[w][id] \in Client \cup {NoEntity}
                      /\ m_worker_client[w][id] # NoEntity => sessionId'[m_worker_client[w][id]] = id
    BY <1>1 DEF EntityInv
  <2>1. /\ id \in 1..m_allocID
        /\ m_worker_client[w][id] \in Client \cup {NoEntity}
        /\ m_worker_client[w][id] # NoEntity => sessionId[m_worker_client[w][id]] = id
    BY <1>1 DEF EntityInv
  <2> QED BY <1>2, <2>1 DEF Grows
<1> QED BY <1>3, <1>4 DEF WorkerSide

\* Nor does the gate notice what the workers do.
LEMMA GateAlone ==
    ASSUME GateInv, UNCHANGED <<socketVars, gateVars>>
    PROVE  GateSide' /\ Grows
<1>1. UNCHANGED <<sock, inbox, num, sessionId, m_client_set, m_allocID, toClient, gate, thrown>>
  BY DEF socketVars, gateVars
<1>2. GateSide'
  BY <1>1 DEF GateInv, GateSide, SocketTypeInv, GateTypeInv, EntryInv, IdInv, BrokenInv,
              OpenSessionsAreBound, RepliesReachTheirClient
<1>3. Grows
  BY <1>1 DEF GateInv, GateSide, GateTypeInv, Grows, Live
<1> QED BY <1>2, <1>3

-----------------------------------------------------------------------------
(* The sockets. *)

\* Nothing is sent and no registration changes: the network stays as it is.
LEMMA NetAlone ==
    ASSUME GateInv, Grows, UNCHANGED sessionNetVars
    PROVE  NetSide'
<1>1. UNCHANGED <<toWorker, toGate, nodeId, service2nodeId, m_for_allocID, missed>> /\ NetTypeInv
  BY DEF sessionNetVars, GateInv, NetSide
<1>2. NetTypeInv'
  BY <1>1 DEF NetTypeInv
<1>3. MessageInv'
  <2>1. toWorker' \in Queues(ForWorker)
    BY <1>1 DEF NetTypeInv
  <2>2. PICK M : M = {}
    OBVIOUS
  <2>3. \A m \in M : Truthful(m)'
    BY <2>2
  <2>4. \A w \in Worker : \A i \in 1..Len(toWorker'[w]) :
            \/ \E j \in 1..Len(toWorker[w]) : toWorker'[w][i] = toWorker[w][j]
            \/ toWorker'[w][i] \in M
    BY <1>1
  <2>5. \A w \in Worker : \A i \in 1..Len(toGate'[w]) :
            \/ \E j \in 1..Len(toGate[w]) : toGate'[w][i] = toGate[w][j]
            \/ toGate'[w][i].sessionId \in 0..m_allocID'
    BY <1>1
  <2> QED BY <1>1, <2>1, <2>3, <2>4, <2>5, MessagesKeep
<1> QED BY <1>2, <1>3 DEF NetSide

\* Closing sockets posts their Broken and opens none.
LEMMA SocksClosed ==
    ASSUME SocketTypeInv, BrokenInv, NEW S, CloseSocks(S)
    PROVE  /\ SocketTypeInv' /\ BrokenInv'
           /\ \A c \in Client : /\ sock'[c] = "open" => sock[c] = "open" /\ c \notin S
                                /\ sock'[c] = "none" => sock[c] = "none"
<1> DEFINE open == {c \in S : sock[c] = "open"}
<1>1. /\ sock' = [c \in Client |-> IF c \in open THEN "closed" ELSE sock[c]]
      /\ inbox' = [c \in Client |-> IF c \in open THEN Append(inbox[c], Broken) ELSE inbox[c]]
      /\ num' = num
  BY DEF CloseSocks
<1>2. /\ sock \in [Client -> {"none", "open", "closed"}] /\ inbox \in [Client -> Seq(0..MaxMsgs)]
      /\ num \in [Client -> 0..MaxMsgs] /\ Broken \in 0..MaxMsgs
  BY Names DEF SocketTypeInv, Inboxes, Broken
<1>3. \A c \in Client : Append(inbox[c], Broken) \in Seq(0..MaxMsgs)
  BY <1>2
<1>4. SocketTypeInv'
  BY <1>1, <1>2, <1>3 DEF SocketTypeInv, Inboxes
<1>5. \A c \in Client : sock'[c] = "open" => sock[c] = "open" /\ c \notin S /\ inbox'[c] = inbox[c]
  BY <1>1, <1>2
<1>6. \A c \in Client : sock'[c] = "none" => sock[c] = "none" /\ inbox'[c] = inbox[c]
  BY <1>1, <1>2
<1>7. BrokenInv'
  BY <1>5, <1>6 DEF BrokenInv
<1> QED BY <1>4, <1>5, <1>6, <1>7

\* A task of a socket is taken.
LEMMA TaskTaken ==
    ASSUME SocketTypeInv, BrokenInv, NEW c \in Client, Handled(c), inbox[c] # <<>>
    PROVE  /\ SocketTypeInv' /\ BrokenInv' /\ Head(inbox[c]) \in 0..MaxMsgs
           /\ Head(inbox[c]) = Broken => sock[c] # "open"
           /\ sock[c] # "none"
           /\ UNCHANGED <<sock, num>>
<1>1. /\ inbox' = [inbox EXCEPT ![c] = Tail(@)] /\ UNCHANGED <<sock, num>>
      /\ inbox \in [Client -> Seq(0..MaxMsgs)]
  BY DEF Handled, SocketTypeInv, Inboxes
<1>2. /\ inbox[c] \in Seq(0..MaxMsgs) /\ Tail(inbox[c]) \in Seq(0..MaxMsgs)
      /\ Head(inbox[c]) = inbox[c][1] /\ 1 \in 1..Len(inbox[c])
      /\ \A i \in 1..Len(Tail(inbox[c])) : i + 1 \in 1..Len(inbox[c]) /\ Tail(inbox[c])[i] = inbox[c][i + 1]
  BY <1>1
<1>3. /\ inbox' \in Inboxes /\ inbox'[c] = Tail(inbox[c])
      /\ \A d \in Client \ {c} : inbox'[d] = inbox[d]
  BY <1>1, <1>2 DEF Inboxes
<1>4. SocketTypeInv'
  BY <1>1, <1>3 DEF SocketTypeInv
<1>5. BrokenInv'
  <2>1. ASSUME NEW d \in Client, sock[d] = "open", NEW i \in 1..Len(inbox'[d])
        PROVE  inbox'[d][i] # Broken
    <3>1. CASE d = c
      <4>1. i \in 1..Len(Tail(inbox[c])) /\ inbox'[d][i] = Tail(inbox[c])[i]
        BY <1>3, <2>1, <3>1
      <4>2. i + 1 \in 1..Len(inbox[c]) /\ inbox'[d][i] = inbox[c][i + 1]
        BY <1>2, <4>1
      <4> QED BY <2>1, <3>1, <4>2 DEF BrokenInv
    <3>2. CASE d # c
      BY <1>3, <2>1, <3>2 DEF BrokenInv
    <3> QED BY <3>1, <3>2
  <2>2. \A d \in Client : sock[d] = "none" => inbox'[d] = <<>>
    BY <1>3 DEF BrokenInv
  <2> QED BY <1>1, <2>1, <2>2 DEF BrokenInv
<1>6. (Head(inbox[c]) = Broken => sock[c] # "open") /\ sock[c] # "none"
  BY <1>2 DEF BrokenInv
<1>7. Head(inbox[c]) \in 0..MaxMsgs
  <2>1. inbox[c] \in Seq(0..MaxMsgs) /\ 1 \in 1..Len(inbox[c])
    BY <1>2
  <2>2. inbox[c][1] \in 0..MaxMsgs
    BY <2>1, ElementOfSeq
  <2> QED BY <1>2, <2>2
<1> QED BY <1>1, <1>4, <1>5, <1>6, <1>7

\* What the gate keeps of its sessions stays true when sockets only close.
LEMMA SessionsKeep ==
    ASSUME GateSide, SocketTypeInv', BrokenInv',
           UNCHANGED <<sessionId, m_client_set, m_allocID, toClient>>, gate' \in {"open", "closing", "closed"},
           thrown \subseteq thrown',
           \A c \in Client : /\ sock'[c] = "open" => sock[c] = "open" \/ sock[c] = "none"
                             /\ sock'[c] = "none" => sock[c] = "none"
    PROVE  GateSide' /\ Grows
<1>1. GateTypeInv' /\ EntryInv' /\ IdInv' /\ RepliesReachTheirClient'
  BY DEF GateSide, GateTypeInv, EntryInv, IdInv, RepliesReachTheirClient
<1>2. OpenSessionsAreBound'
  BY DEF GateSide, OpenSessionsAreBound, IdInv
<1>3. Grows
  BY DEF GateSide, GateTypeInv, Grows, Live
<1> QED BY <1>1, <1>2, <1>3 DEF GateSide

\* A client connects, sends or leaves.
LEMMA ClientStepKeeps ==
    ASSUME GateInv, NEW c \in Client, Connect(c) \/ Send(c) \/ Disconnect(c)
    PROVE  GateSide' /\ Grows /\ UNCHANGED <<gateVars, sessionNetVars>>
<1>1. UNCHANGED <<gateVars, sessionNetVars>> /\ GateSide /\ SocketTypeInv /\ BrokenInv
      /\ UNCHANGED <<sessionId, m_client_set, m_allocID, toClient, gate, thrown>>
      /\ gate \in {"open", "closing", "closed"}
  BY DEF Connect, Send, Disconnect, gateVars, GateInv, GateSide, GateTypeInv
<1>2. SocketTypeInv' /\ BrokenInv'
  <2>1. /\ sock \in [Client -> {"none", "open", "closed"}] /\ inbox \in [Client -> Seq(0..MaxMsgs)]
        /\ num \in [Client -> 0..MaxMsgs]
    BY <1>1 DEF SocketTypeInv, Inboxes
  <2>2. CASE Connect(c)
    BY <1>1, <2>1, <2>2 DEF Connect, SocketTypeInv, BrokenInv, Inboxes
  <2>3. CASE Send(c)
    <3>1. /\ sock[c] = "open" /\ sock' = sock
          /\ num' = [num EXCEPT ![c] = num[c] + 1] /\ num[c] + 1 \in 1..MaxMsgs
          /\ inbox' = [inbox EXCEPT ![c] = Append(inbox[c], num[c] + 1)]
      BY <2>1, <2>3, Names DEF Send
    <3>2. inbox[c] \in Seq(0..MaxMsgs) /\ Append(inbox[c], num[c] + 1) \in Seq(0..MaxMsgs)
      BY <2>1, <3>1
    <3>3. SocketTypeInv'
      BY <2>1, <3>1, <3>2 DEF SocketTypeInv, Inboxes
    <3>4. \A i \in 1..Len(inbox'[c]) : inbox'[c][i] = num[c] + 1 \/ (i \in 1..Len(inbox[c]) /\ inbox'[c][i] = inbox[c][i])
      BY <2>1, <3>1, <3>2
    <3>5. \A d \in Client \ {c} : inbox'[d] = inbox[d]
      BY <2>1, <3>1
    <3>6. BrokenInv'
      BY <1>1, <3>1, <3>4, <3>5 DEF BrokenInv, Broken
    <3> QED BY <3>3, <3>6
  <2>4. CASE Disconnect(c)
    BY <1>1, <2>4, SocksClosed DEF Disconnect
  <2> QED BY <2>2, <2>3, <2>4
<1>3. \A d \in Client : /\ sock'[d] = "open" => sock[d] = "open" \/ sock[d] = "none"
                        /\ sock'[d] = "none" => sock[d] = "none"
  <2>1. CASE Connect(c)
    BY <1>1, <2>1 DEF Connect, SocketTypeInv
  <2>2. CASE Send(c)
    BY <2>2 DEF Send
  <2>3. CASE Disconnect(c)
    BY <1>1, <2>3, SocksClosed DEF Disconnect
  <2> QED BY <2>1, <2>2, <2>3
<1> QED BY <1>1, <1>2, <1>3, SessionsKeep

-----------------------------------------------------------------------------
(* handleMsg and handleBroken. *)

\* What the operators on maps do: Insert,
LEMMA InsertIs ==
    ASSUME NEW map, NEW k, NEW v
    PROVE  /\ DOMAIN Insert(map, k, v) = DOMAIN map \cup {k} /\ Insert(map, k, v)[k] = v
           /\ \A x \in DOMAIN map : x # k => Insert(map, k, v)[x] = map[x]
BY DEF Insert

\* Erase,
LEMMA EraseIs ==
    ASSUME NEW map, NEW k
    PROVE  /\ DOMAIN Erase(map, k) = DOMAIN map \ {k}
           /\ \A x \in DOMAIN map : x # k => Erase(map, k)[x] = map[x]
BY DEF Erase

\* and At, which makes an empty entry of what is not there.
LEMMA AtIs ==
    ASSUME NEW map, NEW k
    PROVE  /\ DOMAIN At(map, k) = DOMAIN map \cup {k}
           /\ \A x \in DOMAIN map : At(map, k)[x] = map[x]
           /\ k \in DOMAIN map => At(map, k) = map
           /\ k \notin DOMAIN map => At(map, k)[k] = NewInfo
BY DEF Insert, At

\* The empty entry.
LEMMA NewInfoIs ==
    /\ NewInfo.sock = NoSock /\ NewInfo.allocWorker = NoWorker
    /\ NewInfo \in [sock : Client \cup {NoSock}, allocWorker : Named \cup {NoWorker}]
BY DEF NewInfo

\* The first message of a client starts its session.
SessionStarts(c, new, w) ==
    /\ new = m_allocID + 1 /\ w \in Worker /\ sessionId[c] = 0
    /\ m_allocID' = new
    /\ sessionId' = [sessionId EXCEPT ![c] = new]
    /\ m_client_set' = Insert(m_client_set, new, [sock |-> c, allocWorker |-> w])
    /\ toWorker' = asyncCall(w, RouteLogicMsgReq(new, c, Head(inbox[c]), TRUE))
    /\ UNCHANGED <<toClient, gate, thrown, toGate, nodeId, service2nodeId, m_for_allocID, missed>>

\* A later one goes to the worker of the session, if there is one.
MessageGoesOn(c, w) ==
    /\ sessionId[c] # 0
    /\ m_client_set' = At(m_client_set, sessionId[c])
    /\ w = m_client_set'[sessionId[c]].allocWorker
    /\ toWorker' = asyncCall(w, RouteLogicMsgReq(sessionId[c], c, Head(inbox[c]), FALSE))
    /\ UNCHANGED <<sessionId, m_allocID, toClient, gate, thrown, toGate, nodeId, service2nodeId,
                   m_for_allocID, missed>>

\* Without a worker the client is told that the server is busy.
MessageRefused(c) ==
    /\ sessionId[c] = 0
    /\ toClient' = [toClient EXCEPT ![c] = @ \cup {0}]
    /\ UNCHANGED <<sessionId, m_client_set, m_allocID, gate, thrown, sessionNetVars>>

\* handleMsg does one of the three.
LEMMA handleMsgIs ==
    ASSUME GateInv, NEW c \in Client, handleMsg(c)
    PROVE  /\ Handled(c) /\ inbox[c] # <<>> /\ Head(inbox[c]) # Broken /\ gate # "closed"
           /\ \/ \E w \in Worker : SessionStarts(c, m_allocID + 1, w)
              \/ \E w \in Named \cup {NoWorker} : MessageGoesOn(c, w)
              \/ MessageRefused(c)
<1>1. /\ Handled(c) /\ inbox[c] # <<>> /\ Head(inbox[c]) # Broken /\ gate # "closed"
      /\ UNCHANGED <<gate, thrown, toGate, nodeId, service2nodeId,
                   m_for_allocID, missed>>
  BY DEF handleMsg
<1>2. CASE /\ sessionId[c] = 0 /\ DOMAIN service2nodeId = {}
           /\ toClient' = [toClient EXCEPT ![c] = @ \cup {0}]
           /\ UNCHANGED <<sessionId, m_client_set, m_allocID, toWorker>>
  BY <1>1, <1>2 DEF MessageRefused, sessionNetVars
<1>3. CASE /\ sessionId[c] = 0 /\ DOMAIN service2nodeId # {}
           /\ m_allocID' = m_allocID + 1
           /\ sessionId' = [sessionId EXCEPT ![c] = allocID]
           /\ routeLogicMsg(c, Head(inbox[c]), allocID,
                  Insert(m_client_set, allocID, [sock |-> c, allocWorker |-> allocWorker(allocID)]), TRUE)
           /\ UNCHANGED toClient
  <2> DEFINE w == allocWorker(allocID)
  <2>0. PICK info : info = [sock |-> c, allocWorker |-> w]
    OBVIOUS
  <2>a. PICK new : new = allocID
    OBVIOUS
  <2>b. PICK map : map = Insert(m_client_set, new, info)
    OBVIOUS
  <2>1. allocID = m_allocID + 1 /\ allocID \in Nat /\ DOMAIN service2nodeId \subseteq Worker
    BY DEF allocID, GateInv, GateSide, GateTypeInv, NetSide, NetTypeInv
  <2>2. w \in Worker
    BY <1>3, <2>1, AllocWorkerIs
  <2> HIDE DEF w
  <2>3. new \in DOMAIN map /\ map[new] = info
    BY <2>b DEF Insert
  <2>c. info.allocWorker = w
    BY <2>0
  <2>4. At(map, new) = map
    BY <2>3, AtIs
  <2>5. SessionStarts(c, m_allocID + 1, w)
    BY <1>1, <1>3, <2>0, <2>a, <2>b, <2>c, <2>1, <2>2, <2>3, <2>4 DEF SessionStarts, routeLogicMsg, w
  <2> QED BY <1>1, <2>2, <2>5
<1>4. CASE /\ sessionId[c] # 0
           /\ routeLogicMsg(c, Head(inbox[c]), sessionId[c], m_client_set, FALSE)
           /\ UNCHANGED <<sessionId, m_allocID, toClient>>
  <2>0. PICK map : map = m_client_set'
    OBVIOUS
  <2>a. PICK id : id = sessionId[c]
    OBVIOUS
  <2>b. PICK w : w = map[id].allocWorker
    OBVIOUS
  <2>1. /\ m_client_set' = At(m_client_set, sessionId[c])
        /\ toWorker' = asyncCall(w, RouteLogicMsgReq(sessionId[c], c, Head(inbox[c]), FALSE))
    BY <1>4, <2>0, <2>a, <2>b DEF routeLogicMsg
  <2>2. w \in Named \cup {NoWorker}
    <3>1. CASE sessionId[c] \in DOMAIN m_client_set
      BY <2>0, <2>a, <2>b, <2>1, <3>1, AtIs DEF GateInv, GateSide, EntryInv
    <3>2. CASE sessionId[c] \notin DOMAIN m_client_set
      <4>1. map[id] = NewInfo
        BY <2>0, <2>a, <2>1, <3>2, AtIs
      <4> QED BY <2>b, <4>1, NewInfoIs
    <3> QED BY <3>1, <3>2
  <2>3. MessageGoesOn(c, w)
    BY <1>1, <1>4, <2>0, <2>a, <2>b, <2>1 DEF MessageGoesOn
  <2> QED BY <1>1, <2>2, <2>3
<1> QED BY <1>1, <1>2, <1>3, <1>4 DEF handleMsg

\* A sent message leaves the network in order when it is true.
LEMMA SentKeeps ==
    ASSUME GateInv, Grows, NEW w, NEW m \in ForWorker, toWorker' = asyncCall(w, m), Truthful(m)',
           UNCHANGED <<nodeId, service2nodeId, m_for_allocID>>,
           missed' = missed \/ missed' \subseteq 1..m_allocID', toGate' \in Queues(ForGate),
           \A v \in Worker : \A i \in 1..Len(toGate'[v]) :
               \E j \in 1..Len(toGate[v]) : toGate'[v][i] = toGate[v][j]
    PROVE  NetSide'
<1>1. NetTypeInv
  BY DEF GateInv, NetSide
<1>2. Arrives(w, m) /\ toWorker' \in Queues(ForWorker)
  BY <1>1, AsyncArrives
<1>3. NetTypeInv'
  BY <1>1, <1>2 DEF NetTypeInv
<1>4. MessageInv'
  <2>1. PICK M : M = {m}
    OBVIOUS
  <2>2. \A x \in M : Truthful(x)'
    <3> SUFFICES ASSUME NEW x \in M PROVE Truthful(x)'
      OBVIOUS
    <3> QED BY <2>1 DEF Truthful
  <2>3. \A v \in Worker : \A i \in 1..Len(toWorker'[v]) :
            \/ \E j \in 1..Len(toWorker[v]) : toWorker'[v][i] = toWorker[v][j]
            \/ toWorker'[v][i] \in M
    BY <1>1, <1>2, <2>1, ArrivedMessages
  <2>4. \A v \in Worker : \A i \in 1..Len(toGate'[v]) :
            \/ \E j \in 1..Len(toGate[v]) : toGate'[v][i] = toGate[v][j]
            \/ toGate'[v][i].sessionId \in 0..m_allocID'
    OBVIOUS
  <2> QED BY <1>2, <2>2, <2>3, <2>4, MessagesKeep
<1> QED BY <1>3, <1>4 DEF NetSide

\* A session that starts is the only one of its client, and bound.
LEMMA SessionStartsKeeps ==
    ASSUME GateInv, NEW c \in Client, NEW w \in Worker, SessionStarts(c, m_allocID + 1, w),
           SocketTypeInv', BrokenInv', sock' = sock, sock[c] # "none"
    PROVE  GateSide' /\ Grows /\ Live' = Live \cup {m_allocID + 1}
<1> DEFINE new == m_allocID + 1
<1>1. /\ m_allocID \in Nat /\ new \in Nat /\ new > m_allocID /\ new # 0 /\ new \in 0..new
      /\ 0..m_allocID \subseteq 0..new /\ 1..m_allocID \subseteq 1..new /\ new \in 1..new
      /\ new \notin 1..m_allocID /\ new \notin 0..m_allocID
  BY DEF GateInv, GateSide, GateTypeInv
<1>2. /\ sessionId[c] = 0 /\ m_allocID' = new /\ UNCHANGED <<toClient, gate, thrown>>
      /\ sessionId' = [sessionId EXCEPT ![c] = new]
      /\ m_client_set' = Insert(m_client_set, new, [sock |-> c, allocWorker |-> w])
  BY DEF SessionStarts
<1>3. GateTypeInv /\ EntryInv /\ IdInv /\ OpenSessionsAreBound /\ RepliesReachTheirClient
  BY DEF GateInv, GateSide
<1> HIDE DEF new
<1>4. /\ sessionId \in [Client -> 0..m_allocID] /\ sessionId' \in [Client -> 0..new]
      /\ sessionId'[c] = new /\ \A d \in Client : d # c => sessionId'[d] = sessionId[d]
  BY <1>1, <1>2, <1>3 DEF GateTypeInv
<1>5. GateTypeInv'
  BY <1>1, <1>2, <1>3, <1>4 DEF GateTypeInv
<1>6. /\ DOMAIN m_client_set \subseteq 1..m_allocID /\ DOMAIN m_client_set' = DOMAIN m_client_set \cup {new}
      /\ m_client_set'[new] = [sock |-> c, allocWorker |-> w]
      /\ \A id \in DOMAIN m_client_set : id # new /\ m_client_set'[id] = m_client_set[id]
  BY <1>1, <1>2, <1>3 DEF EntryInv, Insert
<1>7. EntryInv'
  <2> SUFFICES ASSUME NEW id \in DOMAIN m_client_set'
               PROVE  /\ m_client_set'[id] \in [sock : Client \cup {NoSock}, allocWorker : Named \cup {NoWorker}]
                      /\ m_client_set'[id].sock # NoSock => /\ sessionId'[m_client_set'[id].sock] = id
                                                            /\ m_client_set'[id].allocWorker \in Named
                      /\ m_client_set'[id].sock = NoSock /\ thrown' = {} => m_client_set'[id].allocWorker = NoWorker
    BY <1>1, <1>2, <1>6 DEF EntryInv
  <2>1. CASE id = new
    BY <1>4, <1>6, <2>1, Names
  <2>2. CASE id # new
    <3>1. /\ id \in DOMAIN m_client_set /\ m_client_set'[id] = m_client_set[id] /\ id \in 1..m_allocID
          /\ m_client_set[id] \in [sock : Client \cup {NoSock}, allocWorker : Named \cup {NoWorker}]
          /\ m_client_set[id].sock # NoSock => /\ sessionId[m_client_set[id].sock] = id
                                               /\ m_client_set[id].allocWorker \in Named
          /\ m_client_set[id].sock = NoSock /\ thrown = {} => m_client_set[id].allocWorker = NoWorker
      BY <1>3, <1>6, <2>2 DEF EntryInv
    <3>2. m_client_set[id].sock # NoSock => m_client_set[id].sock \in Client /\ m_client_set[id].sock # c
      BY <1>1, <1>2, <3>1
    <3> QED BY <1>2, <1>4, <3>1, <3>2
  <2> QED BY <2>1, <2>2
<1>8. IdInv'
  <2>1. \A d \in Client : sock'[d] = "none" => sessionId'[d] = 0
    BY <1>3, <1>4 DEF IdInv
  <2>2. \A d, e \in Client : sessionId'[d] = sessionId'[e] /\ sessionId'[d] # 0 => d = e
    BY <1>1, <1>3, <1>4 DEF IdInv
  <2>3. Cardinality({d \in Client : sessionId'[d] # 0}) = new
    <3> DEFINE S == {d \in Client : sessionId[d] # 0}
    <3>1. {d \in Client : sessionId'[d] # 0} = S \cup {c} /\ c \notin S
      BY <1>1, <1>2, <1>4
    <3>2. IsFiniteSet(S) /\ Cardinality(S) = m_allocID
      BY <1>3, FS_Subset, Names DEF IdInv
    <3>3. Cardinality(S \cup {c}) = m_allocID + 1
      BY <3>1, <3>2, FS_AddElement
    <3> QED BY <3>1, <3>3 DEF new
  <2> QED BY <1>2, <2>1, <2>2, <2>3 DEF IdInv
<1>9. OpenSessionsAreBound'
  <2> SUFFICES ASSUME NEW d \in Client, sock[d] = "open", sessionId'[d] # 0
               PROVE  /\ sessionId'[d] \in DOMAIN m_client_set'
                      /\ m_client_set'[sessionId'[d]].sock = d
                      /\ m_client_set'[sessionId'[d]].allocWorker # NoWorker
    BY DEF OpenSessionsAreBound
  <2>1. CASE d = c
    BY <1>4, <1>6, <2>1, Names
  <2>2. CASE d # c
    BY <1>3, <1>4, <1>6, <2>2 DEF OpenSessionsAreBound
  <2> QED BY <2>1, <2>2
<1>10. RepliesReachTheirClient'
  BY <1>2, <1>3, <1>4 DEF RepliesReachTheirClient
<1>11. Live' = Live \cup {new}
  <2>1. m_client_set'[new].sock # NoSock
    BY <1>6, Names
  <2> QED BY <1>6, <2>1 DEF Live
<1>12. Grows
  BY <1>1, <1>2, <1>4, <1>11 DEF Grows
<1> QED BY <1>5, <1>7, <1>8, <1>9, <1>10, <1>11, <1>12 DEF GateSide, new

\* An empty entry that is made names nobody.
LEMMA AtKeeps ==
    ASSUME GateInv, NEW k \in 1..m_allocID, m_client_set' = At(m_client_set, k),
           UNCHANGED <<sessionId, m_allocID, toClient, gate, thrown, sock>>,
           SocketTypeInv', BrokenInv'
    PROVE  GateSide' /\ Grows /\ Live' = Live
<1>1. GateTypeInv /\ EntryInv /\ IdInv /\ OpenSessionsAreBound /\ RepliesReachTheirClient
  BY DEF GateInv, GateSide
<1>2. /\ DOMAIN m_client_set' = DOMAIN m_client_set \cup {k}
      /\ \A x \in DOMAIN m_client_set : m_client_set'[x] = m_client_set[x]
      /\ k \notin DOMAIN m_client_set => m_client_set'[k] = NewInfo
  BY DEF At, Insert
<1>3. EntryInv'
  <2> SUFFICES ASSUME NEW id \in DOMAIN m_client_set'
               PROVE  /\ id \in 1..m_allocID
                      /\ m_client_set'[id] \in [sock : Client \cup {NoSock}, allocWorker : Named \cup {NoWorker}]
                      /\ m_client_set'[id].sock # NoSock => /\ sessionId[m_client_set'[id].sock] = id
                                                            /\ m_client_set'[id].allocWorker \in Named
                      /\ m_client_set'[id].sock = NoSock /\ thrown = {} => m_client_set'[id].allocWorker = NoWorker
    BY DEF EntryInv
  <2>1. CASE id \in DOMAIN m_client_set
    BY <1>1, <1>2, <2>1 DEF EntryInv
  <2>2. CASE id \notin DOMAIN m_client_set
    BY <1>2, <2>2, NewInfoIs
  <2> QED BY <2>1, <2>2
<1>4. OpenSessionsAreBound'
  BY <1>1, <1>2 DEF OpenSessionsAreBound
<1>5. Live' = Live
  <2>1. k \notin DOMAIN m_client_set => m_client_set'[k].sock = NoSock
    BY <1>2, NewInfoIs
  <2> QED BY <1>2, <2>1 DEF Live
<1>6. Grows
  BY <1>1, <1>5 DEF Grows, GateTypeInv
<1>7. GateTypeInv' /\ IdInv' /\ RepliesReachTheirClient'
  BY <1>1 DEF GateTypeInv, IdInv, RepliesReachTheirClient
<1> QED BY <1>3, <1>4, <1>5, <1>6, <1>7 DEF GateSide

\* A message of a client is handled.
LEMMA handleMsgKeeps ==
    ASSUME GateInv, NEW c \in Client, handleMsg(c), UNCHANGED workerVars
    PROVE  GateInv' /\ Grows
<1>1. /\ Handled(c) /\ inbox[c] # <<>> /\ Head(inbox[c]) # Broken
      /\ \/ \E w \in Worker : SessionStarts(c, m_allocID + 1, w)
         \/ \E w \in Named \cup {NoWorker} : MessageGoesOn(c, w)
         \/ MessageRefused(c)
  BY handleMsgIs
<1>2. /\ SocketTypeInv' /\ BrokenInv' /\ sock' = sock /\ sock[c] # "none"
      /\ Head(inbox[c]) \in 1..MaxMsgs
  <2>1. SocketTypeInv /\ BrokenInv
    BY DEF GateInv, GateSide
  <2>2. /\ SocketTypeInv' /\ BrokenInv' /\ Head(inbox[c]) \in 0..MaxMsgs
        /\ sock[c] # "none" /\ UNCHANGED <<sock, num>>
    BY <1>1, <2>1, TaskTaken
  <2>3. Head(inbox[c]) \in 1..MaxMsgs
    BY <1>1, <2>2, Names DEF Broken
  <2> QED BY <2>2, <2>3
<1>3. /\ m_allocID \in Nat /\ sessionId \in [Client -> 0..m_allocID] /\ GateSide
      /\ toGate \in Queues(ForGate)
  BY DEF GateInv, GateSide, GateTypeInv, NetSide, NetTypeInv
<1>4. PICK n \in 1..MaxMsgs : n = Head(inbox[c])
  BY <1>2
<1>5. n \in Nat /\ n \in 1..MaxMsgs
  BY <1>4
<1>6. ASSUME NEW w \in Worker, SessionStarts(c, m_allocID + 1, w)
      PROVE  GateSide' /\ Grows /\ NetSide'
  <2>1. GateSide' /\ Grows
    BY <1>2, <1>6, SessionStartsKeeps
  <2>2. PICK new : new = m_allocID + 1
    OBVIOUS
  <2>3. PICK m : m = RouteLogicMsgReq(new, c, n, TRUE)
    OBVIOUS
  <2>4. /\ m \in Routes /\ m \in ForWorker /\ m.sessionId = new /\ m.client = c /\ m.num = n
        /\ new \in 1..new
    BY <1>3, <1>5, <2>2, <2>3 DEF ForWorker, Routes, RouteLogicMsgReq
  <2>5. Truthful(m)'
    <3>1. sessionId'[c] = new /\ m_allocID' = new
      BY <1>3, <1>6, <2>2 DEF SessionStarts
    <3>2. m \notin Offlines
      BY <2>4, MessageKinds
    <3> QED BY <1>5, <2>4, <3>1, <3>2 DEF Truthful
  <2>6. /\ toWorker' = asyncCall(w, m)
        /\ UNCHANGED <<nodeId, service2nodeId, m_for_allocID, missed, toGate>>
    BY <1>4, <1>6, <2>2, <2>3 DEF SessionStarts
  <2>7. NetSide'
    BY <1>3, <2>1, <2>4, <2>5, <2>6, SentKeeps
  <2> QED BY <2>1, <2>7
<1>7. ASSUME NEW w \in Named \cup {NoWorker}, MessageGoesOn(c, w)
      PROVE  GateSide' /\ Grows /\ NetSide'
  <2>1. /\ sessionId[c] # 0 /\ sessionId[c] \in 1..m_allocID
        /\ m_client_set' = At(m_client_set, sessionId[c])
        /\ toWorker' = asyncCall(w, RouteLogicMsgReq(sessionId[c], c, Head(inbox[c]), FALSE))
        /\ UNCHANGED <<sessionId, m_allocID, toClient, gate, thrown, toGate, nodeId, service2nodeId,
                       m_for_allocID, missed>>
    BY <1>3, <1>7 DEF MessageGoesOn
  <2>2. PICK id \in 1..m_allocID : id = sessionId[c]
    BY <2>1
  <2>3. GateSide' /\ Grows
    BY <1>2, <2>1, <2>2, AtKeeps
  <2>4. PICK m : m = RouteLogicMsgReq(id, c, n, FALSE)
    OBVIOUS
  <2>5. /\ m \in Routes /\ m \in ForWorker /\ m.sessionId = id /\ m.client = c /\ m.num = n
    BY <1>3, <1>5, <2>2, <2>4 DEF ForWorker, Routes, RouteLogicMsgReq
  <2>6. Truthful(m)'
    <3>1. m \notin Offlines
      BY <2>5, MessageKinds
    <3> QED BY <1>5, <2>1, <2>2, <2>5, <3>1 DEF Truthful
  <2>7. toWorker' = asyncCall(w, m)
    BY <1>4, <2>1, <2>2, <2>4
  <2>8. NetSide'
    BY <1>3, <2>1, <2>3, <2>5, <2>6, <2>7, SentKeeps
  <2> QED BY <2>3, <2>8
<1>8. ASSUME MessageRefused(c)
      PROVE  GateSide' /\ Grows /\ NetSide'
  <2>1. /\ sessionId[c] = 0 /\ toClient' = [toClient EXCEPT ![c] = @ \cup {0}]
        /\ UNCHANGED <<sessionId, m_client_set, m_allocID, gate, thrown, sessionNetVars>>
    BY <1>8 DEF MessageRefused
  <2>2. GateTypeInv' /\ RepliesReachTheirClient'
    BY <1>3, <2>1 DEF GateSide, GateTypeInv, RepliesReachTheirClient
  <2>3. EntryInv' /\ IdInv' /\ OpenSessionsAreBound'
    BY <1>2, <1>3, <2>1 DEF GateSide, EntryInv, IdInv, OpenSessionsAreBound
  <2>4. Grows
    BY <1>3, <2>1 DEF Grows, Live
  <2>5. NetSide'
    BY <2>1, <2>4, NetAlone
  <2> QED BY <1>2, <2>2, <2>3, <2>4, <2>5 DEF GateSide
<1>9. GateSide' /\ Grows /\ NetSide'
  BY <1>1, <1>6, <1>7, <1>8
<1>10. WorkerSide'
  BY <1>9, WorkersAlone
<1> QED BY <1>9, <1>10 DEF GateInv

\* An entry that goes leaves no open client unbound when its own socket is closed.
LEMMA EraseKeeps ==
    ASSUME GateInv, NEW id \in DOMAIN m_client_set, NEW s \in Client, m_client_set[id].sock = s,
           m_client_set' = Erase(m_client_set, id), sock'[s] # "open",
           UNCHANGED <<sessionId, m_allocID, toClient, gate, thrown>>,
           SocketTypeInv', BrokenInv',
           \A d \in Client : /\ sock'[d] = "open" => sock[d] = "open"
                             /\ sock'[d] = "none" => sock[d] = "none"
    PROVE  GateSide' /\ Grows /\ Live' = Live \ {id}
<1>1. GateTypeInv /\ EntryInv /\ IdInv /\ OpenSessionsAreBound /\ RepliesReachTheirClient
  BY DEF GateInv, GateSide
<1>2. /\ DOMAIN m_client_set' = DOMAIN m_client_set \ {id}
      /\ \A x \in DOMAIN m_client_set : x # id => m_client_set'[x] = m_client_set[x]
  BY DEF Erase
<1>3. EntryInv'
  BY <1>1, <1>2 DEF EntryInv
<1>4. OpenSessionsAreBound'
  <2> SUFFICES ASSUME NEW d \in Client, sock'[d] = "open", sessionId[d] # 0
               PROVE  /\ sessionId[d] \in DOMAIN m_client_set'
                      /\ m_client_set'[sessionId[d]].sock = d
                      /\ m_client_set'[sessionId[d]].allocWorker # NoWorker
    BY DEF OpenSessionsAreBound
  <2>1. d # s /\ sock[d] = "open"
    OBVIOUS
  <2>2. /\ sessionId[d] \in DOMAIN m_client_set /\ m_client_set[sessionId[d]].sock = d
        /\ m_client_set[sessionId[d]].allocWorker # NoWorker
    BY <1>1, <2>1 DEF OpenSessionsAreBound
  <2>3. sessionId[d] # id
    BY <2>1, <2>2
  <2> QED BY <1>2, <2>2, <2>3
<1>5. Live' = Live \ {id}
  BY <1>2 DEF Live
<1>6. Grows
  BY <1>1, <1>5 DEF Grows, GateTypeInv
<1>7. GateTypeInv' /\ IdInv' /\ RepliesReachTheirClient'
  BY <1>1 DEF GateTypeInv, IdInv, RepliesReachTheirClient
<1> QED BY <1>3, <1>4, <1>5, <1>6, <1>7 DEF GateSide

\* A Broken ends the session of its client, or makes an empty entry.
SessionEnds(c, id, w) ==
    /\ id \in DOMAIN m_client_set /\ m_client_set[id].sock = c /\ m_client_set[id].allocWorker = w
    /\ m_client_set' = Erase(m_client_set, id)
    /\ toWorker' = asyncCall(w, SessionOfflineReq(id))
    /\ missed' = IF Reachable(w) THEN missed ELSE missed \cup {id}

\* handleBroken does one of three things.
LEMMA handleBrokenIs ==
    ASSUME GateInv, NEW c \in Client, handleBroken(c)
    PROVE  /\ Handled(c) /\ inbox[c] # <<>> /\ Head(inbox[c]) = Broken /\ gate # "closed"
           /\ UNCHANGED <<sessionId, m_allocID, toClient, gate, thrown, toGate, nodeId, service2nodeId,
                          m_for_allocID>>
           /\ \/ UNCHANGED <<m_client_set, toWorker, missed>>
              \/ \E id \in Live, w \in Named : SessionEnds(c, id, w)
              \/ \E id \in 1..m_allocID : /\ id \notin DOMAIN m_client_set \/ m_client_set[id].sock # c
                                          /\ id = sessionId[c] /\ sessionId[c] # 0
                                          /\ m_client_set' = At(m_client_set, id)
                                          /\ UNCHANGED <<toWorker, missed>>
<1>1. /\ Handled(c) /\ inbox[c] # <<>> /\ Head(inbox[c]) = Broken /\ gate # "closed"
      /\ UNCHANGED <<sessionId, m_allocID, toClient, gate, thrown, toGate, nodeId, service2nodeId,
                     m_for_allocID>>
  BY DEF handleBroken
<1>2. CASE sessionId[c] = 0
  BY <1>1, <1>2 DEF handleBroken
<1>3. CASE sessionId[c] # 0
  <2>1. PICK id \in 1..m_allocID : id = sessionId[c]
    BY <1>3 DEF GateInv, GateSide, GateTypeInv
  <2>2. PICK clients : clients = At(m_client_set, id)
    OBVIOUS
  <2>3. cleanup_session(c, clients, TRUE)
    BY <1>3, <2>1, <2>2 DEF handleBroken
  <2>4. CASE clients[id].sock = c
    <3>1. /\ m_client_set' = Erase(clients, id)
          /\ toWorker' = asyncCall(clients[id].allocWorker, SessionOfflineReq(id))
          /\ missed' = IF Reachable(clients[id].allocWorker) THEN missed ELSE missed \cup {id}
      BY <2>1, <2>3, <2>4 DEF cleanup_session
    <3>2. id \in DOMAIN m_client_set
      <4> SUFFICES ASSUME id \notin DOMAIN m_client_set PROVE FALSE
        OBVIOUS
      <4>1. clients[id] = NewInfo
        BY <2>2 DEF At, Insert
      <4> QED BY <2>4, <4>1, NewInfoIs, Names
    <3>3. clients = m_client_set
      BY <2>2, <3>2 DEF At
    <3>4. id \in Live /\ m_client_set[id].allocWorker \in Named
      BY <2>4, <3>2, <3>3, Names DEF Live, GateInv, GateSide, EntryInv
    <3>5. SessionEnds(c, id, m_client_set[id].allocWorker)
      BY <2>4, <3>1, <3>2, <3>3 DEF SessionEnds
    <3> QED BY <1>1, <3>4, <3>5
  <2>5. CASE clients[id].sock # c
    <3>1. m_client_set' = clients /\ UNCHANGED <<toWorker, missed>>
      BY <2>1, <2>3, <2>5 DEF cleanup_session
    <3>2. id \notin DOMAIN m_client_set \/ m_client_set[id].sock # c
      BY <2>2, <2>5 DEF At
    <3> QED BY <1>1, <1>3, <2>1, <2>2, <3>1, <3>2
  <2> QED BY <2>4, <2>5
<1> QED BY <1>2, <1>3

\* A Broken of a client is handled.
LEMMA handleBrokenKeeps ==
    ASSUME GateInv, NEW c \in Client, handleBroken(c), UNCHANGED workerVars
    PROVE  GateInv' /\ Grows
<1>1. /\ Handled(c) /\ inbox[c] # <<>> /\ Head(inbox[c]) = Broken
      /\ UNCHANGED <<sessionId, m_allocID, toClient, gate, thrown, toGate, nodeId, service2nodeId,
                     m_for_allocID>>
      /\ \/ UNCHANGED <<m_client_set, toWorker, missed>>
         \/ \E id \in Live, w \in Named : SessionEnds(c, id, w)
         \/ \E id \in 1..m_allocID : m_client_set' = At(m_client_set, id) /\ UNCHANGED <<toWorker, missed>>
  BY handleBrokenIs
<1>2. /\ SocketTypeInv' /\ BrokenInv' /\ sock' = sock /\ sock[c] # "none" /\ sock[c] # "open"
  <2>1. SocketTypeInv /\ BrokenInv
    BY DEF GateInv, GateSide
  <2> QED BY <1>1, <2>1, TaskTaken
<1>3. GateSide /\ toGate \in Queues(ForGate) /\ gate \in {"open", "closing", "closed"}
  BY DEF GateInv, GateSide, GateTypeInv, NetSide, NetTypeInv
<1>4. ASSUME UNCHANGED <<m_client_set, toWorker, missed>>
      PROVE  GateSide' /\ Grows /\ NetSide'
  <2>1. GateSide' /\ Grows
    BY <1>1, <1>2, <1>3, <1>4, SessionsKeep
  <2>2. NetSide'
    BY <1>1, <1>4, <2>1, NetAlone DEF sessionNetVars
  <2> QED BY <2>1, <2>2
<1>5. ASSUME NEW id \in Live, NEW w \in Named, SessionEnds(c, id, w)
      PROVE  GateSide' /\ Grows /\ NetSide'
  <2>1. /\ id \in DOMAIN m_client_set /\ m_client_set[id].sock = c
        /\ m_client_set' = Erase(m_client_set, id)
        /\ toWorker' = asyncCall(w, SessionOfflineReq(id))
        /\ missed' = missed \/ missed' = missed \cup {id}
    BY <1>5 DEF SessionEnds
  <2>2. GateSide' /\ Grows /\ Live' = Live \ {id}
    BY <1>1, <1>2, <2>1, EraseKeeps
  <2>3. PICK m : m = SessionOfflineReq(id)
    OBVIOUS
  <2>4. id \in 1..m_allocID /\ id \in Nat
    BY <1>3, <2>1 DEF GateSide, EntryInv
  <2>5. m \in Offlines /\ m \in ForWorker /\ m.sessionId = id
    BY <2>3, <2>4 DEF ForWorker, Offlines, SessionOfflineReq
  <2>6. Truthful(m)'
    <3>1. m \notin Routes
      BY <2>5, MessageKinds
    <3> QED BY <1>1, <2>2, <2>4, <2>5, <3>1 DEF Truthful
  <2>7. missed' \subseteq 1..m_allocID'
    BY <1>1, <2>1, <2>4 DEF GateInv, NetSide, MessageInv
  <2>8. NetSide'
    BY <1>1, <1>3, <2>1, <2>2, <2>3, <2>5, <2>6, <2>7, SentKeeps
  <2> QED BY <2>2, <2>8
<1>6. ASSUME NEW id \in 1..m_allocID, m_client_set' = At(m_client_set, id), UNCHANGED <<toWorker, missed>>
      PROVE  GateSide' /\ Grows /\ NetSide'
  <2>1. GateSide' /\ Grows
    BY <1>1, <1>2, <1>6, AtKeeps
  <2>2. NetSide'
    BY <1>1, <1>6, <2>1, NetAlone DEF sessionNetVars
  <2> QED BY <2>1, <2>2
<1>7. GateSide' /\ Grows /\ NetSide'
  BY <1>1, <1>4, <1>5, <1>6
<1>8. WorkerSide'
  BY <1>7, WorkersAlone
<1> QED BY <1>7, <1>8 DEF GateInv

-----------------------------------------------------------------------------
(* The requests of the workers, and the end of the gate. *)

\* A request is taken from its queue.
LEMMA RequestTaken ==
    ASSUME GateInv, NEW w \in Worker, NEW cmd, Requested(w, cmd)
    PROVE  /\ gate # "closed" /\ toGate[w] # <<>> /\ Head(toGate[w]).cmd = cmd
           /\ Head(toGate[w]) \in ForGate /\ Head(toGate[w]).sessionId \in 0..m_allocID
           /\ toGate' \in Queues(ForGate)
           /\ toGate'[w] = Tail(toGate[w]) /\ \A v \in Worker : v # w => toGate'[v] = toGate[v]
           /\ \A v \in Worker : \A i \in 1..Len(toGate'[v]) :
                  \E j \in 1..Len(toGate[v]) : toGate'[v][i] = toGate[v][j]
           /\ UNCHANGED <<gate, nodeId, service2nodeId, m_for_allocID, missed>>
<1>1. /\ gate # "closed" /\ toGate[w] # <<>> /\ Head(toGate[w]).cmd = cmd
      /\ toGate' = [toGate EXCEPT ![w] = Tail(@)]
      /\ UNCHANGED <<gate, nodeId, service2nodeId, m_for_allocID, missed>>
      /\ toGate \in [Worker -> Seq(ForGate)]
  BY DEF Requested, GateInv, NetSide, NetTypeInv, Queues
<1>2. toGate[w] \in Seq(ForGate) /\ Tail(toGate[w]) \in Seq(ForGate)
  BY <1>1
<1>3. /\ toGate' \in Queues(ForGate) /\ toGate'[w] = Tail(toGate[w])
      /\ \A v \in Worker : v # w => toGate'[v] = toGate[v]
  BY <1>1, <1>2 DEF Queues
<1>4. /\ 1 \in 1..Len(toGate[w]) /\ Head(toGate[w]) = toGate[w][1]
      /\ \A i \in 1..Len(Tail(toGate[w])) : i + 1 \in 1..Len(toGate[w]) /\ Tail(toGate[w])[i] = toGate[w][i + 1]
  BY <1>1, <1>2
<1>5. Head(toGate[w]) \in ForGate /\ Head(toGate[w]).sessionId \in 0..m_allocID
  BY <1>2, <1>4, ElementOfSeq DEF GateInv, NetSide, MessageInv
<1>6. \A v \in Worker : \A i \in 1..Len(toGate'[v]) :
          \E j \in 1..Len(toGate[v]) : toGate'[v][i] = toGate[v][j]
  <2> SUFFICES ASSUME NEW v \in Worker, NEW i \in 1..Len(toGate'[v])
               PROVE  \E j \in 1..Len(toGate[v]) : toGate'[v][i] = toGate[v][j]
    OBVIOUS
  <2>1. CASE v = w
    BY <1>3, <1>4, <2>1
  <2>2. CASE v # w
    BY <1>3, <2>2
  <2> QED BY <2>1, <2>2
<1> QED BY <1>1, <1>3, <1>5, <1>6

\* When the gate only takes requests the network stays in order.
LEMMA TakenKeeps ==
    ASSUME GateInv, Grows, toWorker' = toWorker, toGate' \in Queues(ForGate),
           UNCHANGED <<nodeId, service2nodeId, m_for_allocID, missed>>,
           \A v \in Worker : \A i \in 1..Len(toGate'[v]) :
               \E j \in 1..Len(toGate[v]) : toGate'[v][i] = toGate[v][j]
    PROVE  NetSide'
<1>1. NetTypeInv' /\ toWorker' \in Queues(ForWorker)
  BY DEF GateInv, NetSide, NetTypeInv
<1>2. MessageInv'
  <2>1. PICK M : M = {}
    OBVIOUS
  <2>2. \A m \in M : Truthful(m)'
    BY <2>1
  <2>3. \A v \in Worker : \A i \in 1..Len(toWorker'[v]) :
            \/ \E j \in 1..Len(toWorker[v]) : toWorker'[v][i] = toWorker[v][j]
            \/ toWorker'[v][i] \in M
    OBVIOUS
  <2>4. \A v \in Worker : \A i \in 1..Len(toGate'[v]) :
            \/ \E j \in 1..Len(toGate[v]) : toGate'[v][i] = toGate[v][j]
            \/ toGate'[v][i].sessionId \in 0..m_allocID'
    OBVIOUS
  <2> QED BY <1>1, <2>2, <2>3, <2>4, MessagesKeep
<1> QED BY <1>1, <1>2 DEF NetSide

\* A session that is moved.
SessionMoves(id, new) ==
    /\ id \in Live
    /\ m_client_set' = [m_client_set EXCEPT ![id].allocWorker = new]
    /\ toWorker' = asyncCall(new, SessionEnterWorkerReq(id, m_client_set[id].allocWorker))
    /\ thrown' = thrown

\* An empty entry that is moved: the handler fails.
EmptyMoves(id, new) ==
    /\ id \in DOMAIN m_client_set /\ m_client_set[id].sock = NoSock
    /\ m_client_set' = [m_client_set EXCEPT ![id].allocWorker = new]
    /\ toWorker' = toWorker
    /\ thrown' = thrown \cup {"changeSessionLogic"}

\* changeSessionLogic moves a session, an empty entry, or nothing.
LEMMA changeSessionLogicIs ==
    ASSUME GateInv, NEW w \in Worker, changeSessionLogic(w)
    PROVE  /\ Requested(w, "GateChangeLogicNodeReq") /\ UNCHANGED <<socketVars, sessionId, m_allocID, toClient>>
           /\ \E new \in Targets : \E id \in Nat :
                  /\ Head(toGate[w]) \in Moves /\ Head(toGate[w]).sessionId = id
                  /\ \/ id \notin DOMAIN m_client_set /\ UNCHANGED <<m_client_set, toWorker, thrown>>
                     \/ SessionMoves(id, new) \/ EmptyMoves(id, new)
<1>1. /\ Requested(w, "GateChangeLogicNodeReq") /\ UNCHANGED <<socketVars, sessionId, m_allocID, toClient>>
  BY DEF changeSessionLogic
<1>2. PICK cmd : cmd = "GateChangeLogicNodeReq"
  OBVIOUS
<1>3. Head(toGate[w]) \in ForGate /\ Head(toGate[w]).cmd = cmd
  BY <1>1, <1>2, RequestTaken
<1>4. Head(toGate[w]) \in Moves /\ Head(toGate[w]).allocWorker \in Targets /\ Head(toGate[w]).sessionId \in Nat
  BY <1>2, <1>3, RequestKinds
<1>5. PICK new \in Targets : new = Head(toGate[w]).allocWorker
  BY <1>4
<1>6. PICK id \in Nat : id = Head(toGate[w]).sessionId
  BY <1>4
<1>7. \/ id \notin DOMAIN m_client_set /\ UNCHANGED <<m_client_set, toWorker, thrown>>
      \/ SessionMoves(id, new) \/ EmptyMoves(id, new)
  BY <1>5, <1>6 DEF changeSessionLogic, SessionMoves, EmptyMoves, Live
<1> QED BY <1>1, <1>4, <1>6, <1>7

\* An entry that is given another worker stays the entry of its client.
LEMMA MoveKeeps ==
    ASSUME GateInv, NEW id \in DOMAIN m_client_set, NEW new \in Targets,
           m_client_set' = [m_client_set EXCEPT ![id].allocWorker = new],
           thrown \subseteq thrown', m_client_set[id].sock = NoSock => thrown' # {},
           UNCHANGED <<sessionId, m_allocID, toClient, gate, sock, inbox, num>>
    PROVE  GateSide' /\ Grows /\ Live' = Live
<1>0. new \in Named
  BY DEF Named
<1>1. GateTypeInv /\ EntryInv /\ IdInv /\ OpenSessionsAreBound /\ RepliesReachTheirClient
      /\ SocketTypeInv /\ BrokenInv
  BY DEF GateInv, GateSide
<1>2. \A x \in DOMAIN m_client_set :
          m_client_set[x] \in [sock : Client \cup {NoSock}, allocWorker : Named \cup {NoWorker}]
  BY <1>1 DEF EntryInv
<1>3. /\ DOMAIN m_client_set' = DOMAIN m_client_set
      /\ \A x \in DOMAIN m_client_set : x # id => m_client_set'[x] = m_client_set[x]
      /\ m_client_set'[id] \in [sock : Client \cup {NoSock}, allocWorker : Named \cup {NoWorker}]
      /\ m_client_set'[id].sock = m_client_set[id].sock /\ m_client_set'[id].allocWorker = new
  BY <1>0, <1>2
<1>4. EntryInv'
  <2>1. DOMAIN m_client_set \subseteq 1..m_allocID
    BY <1>1 DEF EntryInv
  <2> SUFFICES ASSUME NEW x \in DOMAIN m_client_set
               PROVE  /\ m_client_set'[x] \in [sock : Client \cup {NoSock}, allocWorker : Named \cup {NoWorker}]
                      /\ m_client_set'[x].sock # NoSock => /\ sessionId[m_client_set'[x].sock] = x
                                                           /\ m_client_set'[x].allocWorker \in Named
                      /\ m_client_set'[x].sock = NoSock /\ thrown' = {} => m_client_set'[x].allocWorker = NoWorker
    BY <1>3, <2>1 DEF EntryInv
  <2>2. CASE x = id
    BY <1>0, <1>1, <1>3, <2>2 DEF EntryInv
  <2>3. CASE x # id
    BY <1>1, <1>3, <2>3 DEF EntryInv
  <2> QED BY <2>2, <2>3
<1>5. OpenSessionsAreBound'
  <2> SUFFICES ASSUME NEW d \in Client, sock[d] = "open", sessionId[d] # 0
               PROVE  /\ sessionId[d] \in DOMAIN m_client_set'
                      /\ m_client_set'[sessionId[d]].sock = d
                      /\ m_client_set'[sessionId[d]].allocWorker # NoWorker
    BY DEF OpenSessionsAreBound
  <2>1. /\ sessionId[d] \in DOMAIN m_client_set /\ m_client_set[sessionId[d]].sock = d
        /\ m_client_set[sessionId[d]].allocWorker # NoWorker
    BY <1>1 DEF OpenSessionsAreBound
  <2>2. CASE sessionId[d] = id
    BY <1>3, <2>1, <2>2, Names
  <2>3. CASE sessionId[d] # id
    BY <1>3, <2>1, <2>3
  <2> QED BY <2>2, <2>3
<1>6. Live' = Live
  BY <1>3 DEF Live
<1>7. Grows
  BY <1>1, <1>6 DEF Grows, GateTypeInv
<1>8. GateTypeInv' /\ IdInv' /\ RepliesReachTheirClient' /\ SocketTypeInv' /\ BrokenInv'
  BY <1>1 DEF GateTypeInv, IdInv, RepliesReachTheirClient, SocketTypeInv, BrokenInv
<1> QED BY <1>4, <1>5, <1>6, <1>7, <1>8 DEF GateSide

\* The gate moves a session to another worker.
LEMMA changeSessionLogicKeeps ==
    ASSUME GateInv, NEW w \in Worker, changeSessionLogic(w), UNCHANGED workerVars
    PROVE  GateInv' /\ Grows
<1>1. PICK new \in Targets : \E id \in Nat :
          \/ id \notin DOMAIN m_client_set /\ UNCHANGED <<m_client_set, toWorker, thrown>>
          \/ SessionMoves(id, new) \/ EmptyMoves(id, new)
  BY changeSessionLogicIs
<1>2. PICK id \in Nat :
          \/ id \notin DOMAIN m_client_set /\ UNCHANGED <<m_client_set, toWorker, thrown>>
          \/ SessionMoves(id, new) \/ EmptyMoves(id, new)
  BY <1>1
<1>3. PICK cmd : cmd = "GateChangeLogicNodeReq"
  OBVIOUS
<1>4. /\ toGate' \in Queues(ForGate)
      /\ \A v \in Worker : \A i \in 1..Len(toGate'[v]) :
             \E j \in 1..Len(toGate[v]) : toGate'[v][i] = toGate[v][j]
      /\ UNCHANGED <<gate, nodeId, service2nodeId, m_for_allocID, missed>>
  BY <1>3, changeSessionLogicIs, RequestTaken
<1>5. UNCHANGED <<sock, inbox, num, sessionId, m_allocID, toClient>>
  BY changeSessionLogicIs DEF socketVars
<1>6. CASE UNCHANGED <<m_client_set, toWorker, thrown>>
  <2>1. GateSide' /\ Grows
    BY <1>4, <1>5, <1>6, GateAlone DEF socketVars, gateVars
  <2>2. NetSide'
    BY <1>4, <1>6, <2>1, TakenKeeps
  <2> QED BY <2>1, <2>2, WorkersAlone DEF GateInv
<1>7. CASE SessionMoves(id, new)
  <2>1. /\ id \in DOMAIN m_client_set /\ m_client_set[id].sock # NoSock
        /\ m_client_set' = [m_client_set EXCEPT ![id].allocWorker = new] /\ thrown' = thrown
        /\ toWorker' = asyncCall(new, SessionEnterWorkerReq(id, m_client_set[id].allocWorker))
    BY <1>7 DEF SessionMoves, Live
  <2>2. GateSide' /\ Grows
    BY <1>4, <1>5, <2>1, MoveKeeps
  <2>3. id \in 1..m_allocID /\ m_client_set[id].allocWorker \in Named
    BY <2>1 DEF GateInv, GateSide, EntryInv
  <2>4. PICK m : m = SessionEnterWorkerReq(id, m_client_set[id].allocWorker)
    OBVIOUS
  <2>5. m \in Enters /\ m \in ForWorker /\ m.sessionId = id
    BY <2>3, <2>4 DEF Enters, ForWorker, SessionEnterWorkerReq
  <2>6. Truthful(m)'
    <3>1. m \notin Routes /\ m \notin Offlines
      BY <2>5, MessageKinds
    <3> QED BY <1>5, <2>3, <2>5, <3>1 DEF Truthful
  <2>7. NetSide'
    BY <1>4, <2>1, <2>2, <2>4, <2>5, <2>6, SentKeeps
  <2> QED BY <2>2, <2>7, WorkersAlone DEF GateInv
<1>8. CASE EmptyMoves(id, new)
  <2>1. /\ id \in DOMAIN m_client_set
        /\ m_client_set' = [m_client_set EXCEPT ![id].allocWorker = new]
        /\ thrown \subseteq thrown' /\ thrown' # {} /\ toWorker' = toWorker
    BY <1>8 DEF EmptyMoves
  <2>2. GateSide' /\ Grows
    BY <1>4, <1>5, <2>1, MoveKeeps
  <2>3. NetSide'
    BY <1>4, <2>1, <2>2, TakenKeeps
  <2> QED BY <2>2, <2>3, WorkersAlone DEF GateInv
<1> QED BY <1>2, <1>6, <1>7, <1>8

\* A session that a worker closes ends with its socket.
SessionCloses(id, s) ==
    /\ id \in DOMAIN m_client_set /\ m_client_set[id].sock = s
    /\ CloseSocks({s})
    /\ m_client_set' = Erase(m_client_set, id) /\ UNCHANGED thrown

\* closeSession ends a session, fails on an empty entry, or does nothing.
LEMMA closeSessionIs ==
    ASSUME GateInv, NEW w \in Worker, closeSession(w)
    PROVE  /\ Requested(w, "GateCloseSessionReq")
           /\ UNCHANGED <<sessionId, m_allocID, toClient, toWorker>>
           /\ \/ UNCHANGED <<m_client_set, sock, inbox, num>> /\ thrown \subseteq thrown'
              \/ \E id \in Live, s \in Client : id = Head(toGate[w]).sessionId /\ SessionCloses(id, s)
<1>1. Requested(w, "GateCloseSessionReq") /\ UNCHANGED <<sessionId, m_allocID, toClient>>
  BY DEF closeSession
<1>2. PICK id : id = Head(toGate[w]).sessionId
  OBVIOUS
<1>3. CASE id \notin DOMAIN m_client_set /\ UNCHANGED <<m_client_set, toWorker, socketVars, thrown>>
  BY <1>1, <1>3 DEF socketVars
<1>4. CASE /\ id \in DOMAIN m_client_set /\ m_client_set[id].sock = NoSock
           /\ thrown' = thrown \cup {"closeSession"}
           /\ UNCHANGED <<m_client_set, toWorker, socketVars>>
  BY <1>1, <1>4 DEF socketVars
<1>5. CASE /\ id \in DOMAIN m_client_set /\ m_client_set[id].sock # NoSock
           /\ CloseSocks({m_client_set[id].sock})
           /\ cleanup_session(m_client_set[id].sock, m_client_set, FALSE)
           /\ UNCHANGED thrown
  <2>1. PICK s : s = m_client_set[id].sock
    OBVIOUS
  <2>2. s \in Client /\ sessionId[s] = id /\ id \in Live
    BY <1>5, <2>1 DEF GateInv, GateSide, EntryInv, Live
  <2>3. CloseSocks({s}) /\ cleanup_session(s, m_client_set, FALSE)
    BY <1>5, <2>1
  <2>4. m_client_set' = Erase(m_client_set, id) /\ toWorker' = toWorker
    BY <2>1, <2>2, <2>3 DEF cleanup_session
  <2>5. SessionCloses(id, s)
    BY <1>5, <2>1, <2>3, <2>4 DEF SessionCloses
  <2> QED BY <1>1, <1>2, <2>2, <2>4, <2>5
<1> QED BY <1>2, <1>3, <1>4, <1>5 DEF closeSession

\* The gate closes a session for a worker.
LEMMA closeSessionKeeps ==
    ASSUME GateInv, NEW w \in Worker, closeSession(w), UNCHANGED workerVars
    PROVE  GateInv' /\ Grows
<1>1. PICK cmd : cmd = "GateCloseSessionReq"
  OBVIOUS
<1>2. /\ toGate' \in Queues(ForGate)
      /\ \A v \in Worker : \A i \in 1..Len(toGate'[v]) :
             \E j \in 1..Len(toGate[v]) : toGate'[v][i] = toGate[v][j]
      /\ UNCHANGED <<gate, nodeId, service2nodeId, m_for_allocID, missed>>
  BY <1>1, closeSessionIs, RequestTaken
<1>3. /\ UNCHANGED <<sessionId, m_allocID, toClient, toWorker>>
      /\ \/ UNCHANGED <<m_client_set, sock, inbox, num>> /\ thrown \subseteq thrown'
         \/ \E id \in Live, s \in Client : SessionCloses(id, s)
  BY closeSessionIs
<1>4. GateSide /\ SocketTypeInv /\ BrokenInv /\ gate \in {"open", "closing", "closed"}
  BY DEF GateInv, GateSide, GateTypeInv
<1>5. CASE UNCHANGED <<m_client_set, sock, inbox, num>> /\ thrown \subseteq thrown'
  <2>1. SocketTypeInv' /\ BrokenInv'
    BY <1>4, <1>5 DEF SocketTypeInv, BrokenInv
  <2>2. GateSide' /\ Grows
    BY <1>2, <1>3, <1>4, <1>5, <2>1, SessionsKeep
  <2>3. NetSide'
    BY <1>2, <1>3, <2>2, TakenKeeps
  <2> QED BY <2>2, <2>3, WorkersAlone DEF GateInv
<1>6. ASSUME NEW id \in Live, NEW s \in Client, SessionCloses(id, s)
      PROVE  GateInv' /\ Grows
  <2>1. /\ id \in DOMAIN m_client_set /\ m_client_set[id].sock = s
        /\ m_client_set' = Erase(m_client_set, id) /\ thrown' = thrown
    BY <1>6 DEF SessionCloses
  <2>2. PICK S : S = {s}
    OBVIOUS
  <2>3. CloseSocks(S)
    BY <1>6, <2>2 DEF SessionCloses
  <2>4. /\ SocketTypeInv' /\ BrokenInv'
        /\ \A d \in Client : /\ sock'[d] = "open" => sock[d] = "open" /\ d \notin S
                             /\ sock'[d] = "none" => sock[d] = "none"
    BY <1>4, <2>3, SocksClosed
  <2>5. sock'[s] # "open"
    BY <2>2, <2>4
  <2>6. GateSide' /\ Grows
    BY <1>2, <1>3, <2>1, <2>4, <2>5, EraseKeeps
  <2>7. NetSide'
    BY <1>2, <1>3, <2>6, TakenKeeps
  <2> QED BY <2>6, <2>7, WorkersAlone DEF GateInv
<1> QED BY <1>3, <1>5, <1>6

\* The gate passes a message on to a session, or to all of them.
LEMMA RepliesKeep ==
    ASSUME GateInv, NEW w \in Worker, routeMsgToSession(w) \/ broadcastMsgToSession(w),
           UNCHANGED workerVars
    PROVE  GateInv' /\ Grows
<1>1. PICK cmd : /\ Requested(w, cmd)
                 /\ UNCHANGED <<m_client_set, thrown, toWorker, socketVars, sessionId, m_allocID>>
  BY DEF routeMsgToSession, broadcastMsgToSession
<1>2. /\ toGate' \in Queues(ForGate)
      /\ \A v \in Worker : \A i \in 1..Len(toGate'[v]) :
             \E j \in 1..Len(toGate[v]) : toGate'[v][i] = toGate[v][j]
      /\ UNCHANGED <<gate, nodeId, service2nodeId, m_for_allocID, missed>>
  BY <1>1, RequestTaken
<1>3. /\ GateTypeInv /\ EntryInv /\ RepliesReachTheirClient
  BY DEF GateInv, GateSide
<1>4. toClient' \in [Client -> SUBSET (0..m_allocID)]
      /\ \A c \in Client : toClient'[c] \subseteq toClient[c] \cup {0, sessionId[c]}
  <2>1. /\ m_allocID \in Nat /\ sessionId \in [Client -> 0..m_allocID] /\ 0 \in 0..m_allocID
        /\ toClient \in [Client -> SUBSET (0..m_allocID)]
    BY <1>3 DEF GateTypeInv
  <2>2. CASE routeMsgToSession(w)
    <3>1. PICK id : id = Head(toGate[w]).sessionId
      OBVIOUS
    <3>2. toClient' = [c \in Client |->
              IF c \in {m_client_set[i].sock : i \in DOMAIN m_client_set \cap {id}} /\ sock[c] = "open"
              THEN toClient[c] \cup {id} ELSE toClient[c]]
      BY <2>2, <3>1 DEF routeMsgToSession, Reach
    <3>3. ASSUME NEW c \in Client, c \in {m_client_set[i].sock : i \in DOMAIN m_client_set \cap {id}}
          PROVE  id = sessionId[c]
      BY <1>3, <3>3, Names DEF EntryInv
    <3> QED BY <2>1, <3>2, <3>3
  <2>3. CASE broadcastMsgToSession(w)
    <3>1. \A c \in Client : toClient'[c] \in {toClient[c], toClient[c] \cup {0}}
      BY <2>3 DEF broadcastMsgToSession, Reach
    <3>2. toClient' \in [Client -> SUBSET (0..m_allocID)]
      BY <2>1, <2>3 DEF broadcastMsgToSession, Reach
    <3> QED BY <3>1, <3>2
  <2> QED BY <2>2, <2>3
<1>5. GateSide'
  <2>1. GateTypeInv' /\ RepliesReachTheirClient'
    BY <1>1, <1>2, <1>3, <1>4 DEF GateTypeInv, RepliesReachTheirClient
  <2>2. SocketTypeInv' /\ EntryInv' /\ IdInv' /\ BrokenInv' /\ OpenSessionsAreBound'
    BY <1>1 DEF GateInv, GateSide, SocketTypeInv, EntryInv, IdInv, BrokenInv, OpenSessionsAreBound, socketVars
  <2> QED BY <2>1, <2>2 DEF GateSide
<1>6. Grows
  BY <1>1, <1>3 DEF Grows, GateTypeInv, Live
<1>7. NetSide'
  BY <1>1, <1>2, <1>6, TakenKeeps
<1> QED BY <1>5, <1>6, <1>7, WorkersAlone DEF GateInv

\* The gate is closed, and its queue after it.
LEMMA GateClosesKeeps ==
    ASSUME GateInv, close_impl \/ queueClosed, UNCHANGED workerVars
    PROVE  GateInv' /\ Grows
<1>1. /\ GateSide /\ SocketTypeInv /\ BrokenInv
  BY DEF GateInv, GateSide
<1>2. /\ UNCHANGED <<sessionId, m_client_set, m_allocID, toClient, sessionNetVars>>
      /\ gate' \in {"open", "closing", "closed"} /\ thrown \subseteq thrown'
  BY DEF close_impl, queueClosed
<1>3. /\ SocketTypeInv' /\ BrokenInv'
      /\ \A c \in Client : /\ sock'[c] = "open" => sock[c] = "open" \/ sock[c] = "none"
                           /\ sock'[c] = "none" => sock[c] = "none"
  <2>1. CASE close_impl
    <3>1. PICK S : CloseSocks(S)
      BY <2>1 DEF close_impl
    <3> QED BY <1>1, <3>1, SocksClosed
  <2>2. CASE queueClosed
    BY <1>1, <2>2 DEF queueClosed, socketVars, SocketTypeInv, BrokenInv
  <2> QED BY <2>1, <2>2
<1>4. GateSide' /\ Grows
  BY <1>1, <1>2, <1>3, SessionsKeep
<1>5. NetSide'
  BY <1>2, <1>4, NetAlone
<1> QED BY <1>4, <1>5, WorkersAlone DEF GateInv

-----------------------------------------------------------------------------
(* The workers. *)

\* A worker takes its next message.
LEMMA MessageTaken ==
    ASSUME GateInv, UNCHANGED <<socketVars, gateVars>>, NEW w \in Worker, NEW cmd, Received(w, cmd)
    PROVE  /\ toWorker[w] # <<>> /\ Head(toWorker[w]).cmd = cmd
           /\ Head(toWorker[w]) \in ForWorker /\ Truthful(Head(toWorker[w]))
           /\ 1 \in 1..Len(toWorker[w]) /\ Head(toWorker[w]) = toWorker[w][1]
           /\ toWorker' \in Queues(ForWorker)
           /\ toWorker'[w] = Tail(toWorker[w]) /\ \A v \in Worker : v # w => toWorker'[v] = toWorker[v]
           /\ UNCHANGED <<toGate, nodeId, service2nodeId, m_for_allocID, missed, requests, asked>>
           /\ NetSide'
<1>1. /\ toWorker[w] # <<>> /\ Head(toWorker[w]).cmd = cmd
      /\ toWorker' = [toWorker EXCEPT ![w] = Tail(@)]
      /\ UNCHANGED <<toGate, nodeId, service2nodeId, m_for_allocID, missed, requests, asked>>
      /\ toWorker \in [Worker -> Seq(ForWorker)]
  BY DEF Received, GateInv, NetSide, NetTypeInv, Queues
<1>2. toWorker[w] \in Seq(ForWorker) /\ Tail(toWorker[w]) \in Seq(ForWorker)
  BY <1>1
<1>3. /\ toWorker' \in Queues(ForWorker) /\ toWorker'[w] = Tail(toWorker[w])
      /\ \A v \in Worker : v # w => toWorker'[v] = toWorker[v]
  BY <1>1, <1>2 DEF Queues
<1>4. /\ 1 \in 1..Len(toWorker[w]) /\ Head(toWorker[w]) = toWorker[w][1]
      /\ \A i \in 1..Len(Tail(toWorker[w])) : i + 1 \in 1..Len(toWorker[w]) /\ Tail(toWorker[w])[i] = toWorker[w][i + 1]
  BY <1>1, <1>2
<1>5. Head(toWorker[w]) \in ForWorker /\ Truthful(Head(toWorker[w]))
  BY <1>2, <1>4, ElementOfSeq DEF GateInv, NetSide, MessageInv
<1>6. NetSide'
  <2>1. Grows
    BY GateAlone
  <2>2. PICK M : M = {}
    OBVIOUS
  <2>3. \A m \in M : Truthful(m)'
    BY <2>2
  <2>4. \A v \in Worker : \A i \in 1..Len(toWorker'[v]) :
            \/ \E j \in 1..Len(toWorker[v]) : toWorker'[v][i] = toWorker[v][j]
            \/ toWorker'[v][i] \in M
    <3> SUFFICES ASSUME NEW v \in Worker, NEW i \in 1..Len(toWorker'[v])
                 PROVE  \E j \in 1..Len(toWorker[v]) : toWorker'[v][i] = toWorker[v][j]
      OBVIOUS
    <3>1. CASE v = w
      BY <1>3, <1>4, <3>1
    <3>2. CASE v # w
      BY <1>3, <3>2
    <3> QED BY <3>1, <3>2
  <2>5. \A v \in Worker : \A i \in 1..Len(toGate'[v]) :
            \/ \E j \in 1..Len(toGate[v]) : toGate'[v][i] = toGate[v][j]
            \/ toGate'[v][i].sessionId \in 0..m_allocID'
    BY <1>1
  <2>6. MessageInv'
    BY <1>1, <1>3, <2>1, <2>3, <2>4, <2>5, MessagesKeep
  <2>7. NetTypeInv'
    BY <1>1, <1>3 DEF GateInv, NetSide, NetTypeInv
  <2> QED BY <2>6, <2>7 DEF NetSide
<1> QED BY <1>1, <1>3, <1>4, <1>5, <1>6

\* A worker asks the gate for something.
LEMMA RequestMade ==
    ASSUME GateInv, UNCHANGED <<socketVars, gateVars>>, NEW w \in Worker, NEW kind, NEW m \in ForGate,
           m.sessionId \in 0..m_allocID, Requesting(w, kind, m)
    PROVE  /\ requests' = requests + 1 /\ requests' \in 0..MaxRequests /\ requests' # 0
           /\ toGate' \in Queues(ForGate)
           /\ toGate'[w] = toGate[w] \/ toGate'[w] = Append(toGate[w], m)
           /\ nodeId[w] # 0 => toGate'[w] = Append(toGate[w], m)
           /\ \A v \in Worker : v # w => toGate'[v] = toGate[v]
           /\ UNCHANGED <<toWorker, nodeId, service2nodeId, m_for_allocID, missed, served>>
           /\ NetSide'
<1>1. /\ requests < MaxRequests /\ requests' = requests + 1
      /\ toGate' = [toGate EXCEPT ![w] = Append(@, m)] \/ toGate' = toGate
      /\ nodeId[w] # 0 => toGate' = [toGate EXCEPT ![w] = Append(@, m)]
      /\ UNCHANGED <<toWorker, nodeId, service2nodeId, m_for_allocID, missed, served>>
      /\ toGate \in [Worker -> Seq(ForGate)] /\ requests \in 0..MaxRequests
  BY DEF Requesting, GateInv, NetSide, NetTypeInv, Queues, WorkerSide, WorkerTypeInv
<1>2. requests' \in 0..MaxRequests /\ requests' # 0
  BY <1>1, Names
<1>3. toGate[w] \in Seq(ForGate) /\ Append(toGate[w], m) \in Seq(ForGate)
  BY <1>1
<1>4. /\ toGate' \in Queues(ForGate) /\ (toGate'[w] = toGate[w] \/ toGate'[w] = Append(toGate[w], m))
      /\ nodeId[w] # 0 => toGate'[w] = Append(toGate[w], m)
      /\ \A v \in Worker : v # w => toGate'[v] = toGate[v]
  BY <1>1, <1>3 DEF Queues
<1>5. NetSide'
  <2>1. Grows /\ m_allocID' = m_allocID
    BY GateAlone DEF gateVars
  <2>2. PICK M : M = {}
    OBVIOUS
  <2>3. \A x \in M : Truthful(x)'
    BY <2>2
  <2>4. toWorker' \in Queues(ForWorker)
    BY <1>1 DEF GateInv, NetSide, NetTypeInv
  <2>5. \A v \in Worker : \A i \in 1..Len(toWorker'[v]) :
            \/ \E j \in 1..Len(toWorker[v]) : toWorker'[v][i] = toWorker[v][j]
            \/ toWorker'[v][i] \in M
    BY <1>1
  <2>6. \A v \in Worker : \A i \in 1..Len(toGate'[v]) :
            \/ \E j \in 1..Len(toGate[v]) : toGate'[v][i] = toGate[v][j]
            \/ toGate'[v][i].sessionId \in 0..m_allocID'
    <3> SUFFICES ASSUME NEW v \in Worker, NEW i \in 1..Len(toGate'[v]),
                        ~ \E j \in 1..Len(toGate[v]) : toGate'[v][i] = toGate[v][j]
                 PROVE  toGate'[v][i].sessionId \in 0..m_allocID'
      OBVIOUS
    <3>1. toGate'[v][i] = m
      BY <1>1, <1>3, <1>4
    <3> QED BY <2>1, <3>1
  <2>7. MessageInv'
    BY <1>1, <2>1, <2>3, <2>4, <2>5, <2>6, MessagesKeep
  <2>8. NetTypeInv'
    BY <1>1, <1>4 DEF GateInv, NetSide, NetTypeInv
  <2> QED BY <2>7, <2>8 DEF NetSide
<1> QED BY <1>1, <1>2, <1>4, <1>5

\* A worker gets to know a session, or forgets one.
LEMMA KnowsAfter ==
    ASSUME GateInv, UNCHANGED <<socketVars, gateVars>>, NEW w \in Worker, NEW id \in 1..m_allocID, NEW e,
           e = NoEntity \/ (e \in Client /\ sessionId[e] = id),
           \/ m_worker_client' = m_worker_client
           \/ m_worker_client' = [m_worker_client EXCEPT ![w] = Insert(@, id, e)]
           \/ m_worker_client' = [m_worker_client EXCEPT ![w] = Erase(@, id)]
           \/ m_worker_client' = [m_worker_client EXCEPT ![w] = Empty]
    PROVE  EntityInv' /\ DOMAIN m_worker_client' = Worker
<1>1. /\ EntityInv /\ DOMAIN m_worker_client = Worker /\ UNCHANGED <<sessionId, m_allocID>>
  BY DEF GateInv, WorkerSide, WorkerTypeInv, gateVars
<1>2. /\ DOMAIN m_worker_client' = Worker
      /\ \A v \in Worker : v # w => m_worker_client'[v] = m_worker_client[v]
      /\ m_worker_client'[w] \in {m_worker_client[w], Insert(m_worker_client[w], id, e),
                                  Erase(m_worker_client[w], id), Empty}
  BY <1>1
<1>3. EntityInv'
  <2> SUFFICES ASSUME NEW v \in Worker, NEW x \in DOMAIN m_worker_client'[v]
               PROVE  /\ x \in 1..m_allocID
                      /\ m_worker_client'[v][x] \in Client \cup {NoEntity}
                      /\ m_worker_client'[v][x] # NoEntity => sessionId[m_worker_client'[v][x]] = x
    BY <1>1 DEF EntityInv
  <2>1. CASE x \in DOMAIN m_worker_client[v] /\ m_worker_client'[v][x] = m_worker_client[v][x]
    BY <1>1, <2>1 DEF EntityInv
  <2>2. CASE ~(x \in DOMAIN m_worker_client[v] /\ m_worker_client'[v][x] = m_worker_client[v][x])
    <3>1. v = w /\ x = id /\ m_worker_client'[v][x] = e
      BY <1>2, <2>2 DEF Insert, Erase, Empty
    <3> QED BY <3>1
  <2> QED BY <2>1, <2>2
<1> QED BY <1>2, <1>3

\* A worker handles a message of a client.
LEMMA processSessionReqKeeps ==
    ASSUME GateInv, UNCHANGED <<socketVars, gateVars>>, NEW w \in Worker, processSessionReq(w)
    PROVE  GateInv'
<1>1. PICK msg : msg = Head(toWorker[w])
  OBVIOUS
<1>2. PICK cmd : cmd = "RouteLogicMsgReq"
  OBVIOUS
<1>3. /\ Received(w, cmd)
      /\ m_worker_client' = IF msg.sessionId \in DOMAIN m_worker_client[w] THEN m_worker_client
                            ELSE [m_worker_client EXCEPT ![w] = Insert(@, msg.sessionId, msg.client)]
      /\ served' = [served EXCEPT ![w] = Insert(@, msg.sessionId,
                       (IF msg.sessionId \in DOMAIN @ THEN @[msg.sessionId] ELSE {}) \cup {msg.num})]
      /\ movedAway' = movedAway
  BY <1>1, <1>2 DEF processSessionReq
<1>4. msg \in ForWorker /\ Truthful(msg) /\ msg.cmd = cmd /\ NetSide' /\ requests' = requests
  BY <1>1, <1>3, MessageTaken
<1>5. /\ msg \in Routes /\ msg.client \in Client /\ msg.sessionId \in 1..m_allocID
      /\ sessionId[msg.client] = msg.sessionId /\ msg.num \in 1..MaxMsgs
  BY <1>2, <1>4, MessageKinds DEF Truthful
<1>6. PICK id \in 1..m_allocID : id = msg.sessionId
  BY <1>5
<1>7. PICK e \in Client : e = msg.client
  BY <1>5
<1>8. EntityInv' /\ DOMAIN m_worker_client' = Worker
  BY <1>3, <1>5, <1>6, <1>7, KnowsAfter
<1>9. WorkerTypeInv'
  <2>1. WorkerTypeInv /\ m_allocID' = m_allocID
    BY DEF GateInv, WorkerSide, gateVars
  <2>2. /\ DOMAIN served' = Worker /\ \A v \in Worker : v # w => served'[v] = served[v]
        /\ DOMAIN served'[w] \subseteq DOMAIN served[w] \cup {id}
        /\ \A x \in DOMAIN served[w] : x # id => served'[w][x] = served[w][x]
        /\ id \notin DOMAIN served[w] => served'[w][id] = {msg.num}
        /\ id \in DOMAIN served[w] => served'[w][id] = served[w][id] \cup {msg.num}
    BY <1>3, <1>6, <2>1 DEF Insert, WorkerTypeInv
  <2>3. ASSUME NEW v \in Worker, NEW x \in DOMAIN served'[v]
        PROVE  x \in 1..m_allocID /\ served'[v][x] \subseteq 1..MaxMsgs
    <3>1. CASE v = w /\ x = id
      BY <1>5, <2>1, <2>2, <3>1 DEF WorkerTypeInv
    <3>2. CASE ~(v = w /\ x = id)
      BY <2>1, <2>2, <3>2 DEF WorkerTypeInv
    <3> QED BY <3>1, <3>2
  <2> QED BY <1>2, <1>3, <1>4, <1>8, <2>1, <2>2, <2>3 DEF WorkerTypeInv, Received
<1> QED BY <1>4, <1>8, <1>9, GateAlone DEF GateInv, WorkerSide

\* It hears that a session has ended, or entered.
LEMMA OfflineEnterKeep ==
    ASSUME GateInv, UNCHANGED <<socketVars, gateVars>>, NEW w \in Worker,
           processSessionOffline(w) \/ processSessionEnter(w)
    PROVE  GateInv'
<1>1. PICK id : id = Head(toWorker[w]).sessionId
  OBVIOUS
<1>2. PICK cmd : Received(w, cmd)
  BY DEF processSessionOffline, processSessionEnter
<1>3. id \in 1..m_allocID /\ NetSide' /\ requests' = requests
  BY <1>1, <1>2, MessageTaken DEF Truthful
<1>4. /\ served' = served
      /\ movedAway' = movedAway \/ movedAway' = [movedAway EXCEPT ![w] = @ \ {id}]
      /\ \/ m_worker_client' = m_worker_client
         \/ m_worker_client' = [m_worker_client EXCEPT ![w] = Insert(@, id, NoEntity)]
         \/ m_worker_client' = [m_worker_client EXCEPT ![w] = Erase(@, id)]
  BY <1>1 DEF processSessionOffline, processSessionEnter
<1>5. EntityInv' /\ DOMAIN m_worker_client' = Worker
  <2>1. PICK e : e = NoEntity
    OBVIOUS
  <2> QED BY <1>3, <1>4, <2>1, KnowsAfter
<1>6. WorkerTypeInv'
  <2>1. WorkerTypeInv /\ m_allocID' = m_allocID
    BY DEF GateInv, WorkerSide, gateVars
  <2>2. movedAway' \in [Worker -> SUBSET (1..m_allocID)]
    BY <1>4, <2>1 DEF WorkerTypeInv
  <2> QED BY <1>2, <1>3, <1>4, <1>5, <2>1, <2>2 DEF WorkerTypeInv, Received
<1> QED BY <1>3, <1>5, <1>6, GateAlone DEF GateInv, WorkerSide

\* What a game asks for.
Asks(w, kind, m, id) ==
    /\ m \in ForGate /\ m.sessionId \in 0..m_allocID /\ id \in 0..m_allocID
    /\ Requesting(w, kind, m)
    /\ asked' = asked \/ (id \in 1..m_allocID /\ asked' = asked \cup {id})
    /\ m \in Moves \/ m.cmd = "GateCloseSessionReq" => m.sessionId \in asked'
    /\ \/ m \in Others /\ UNCHANGED <<m_worker_client, movedAway>>
       \/ /\ m \in Moves /\ m.sessionId = id /\ id \in DOMAIN m_worker_client[w]
          /\ m_worker_client' = [m_worker_client EXCEPT ![w] = Erase(@, id)]
          /\ movedAway' = [movedAway EXCEPT ![w] = @ \cup {id}]

\* A game sends, broadcasts, closes or moves.
LEMMA GameStepIs ==
    ASSUME GateInv, GameSteps
    PROVE  \E w \in Worker : \E kind, m, id : Asks(w, kind, m, id)
<1>1. PICK w \in Worker :
          \/ gateBroadcastMsg(w)
          \/ \E id \in DOMAIN m_worker_client[w] :
                 \/ sessionSendMsg(w, id) \/ sessionClose(w, id)
                 \/ \E to \in Targets : sessionChangeWorker(w, id, to)
  BY DEF GameSteps
<1>2. /\ \A id \in DOMAIN m_worker_client[w] : id \in 1..m_allocID
      /\ m_allocID \in Nat
  BY DEF GateInv, WorkerSide, EntityInv, GateSide, GateTypeInv
<1>3. CASE gateBroadcastMsg(w)
  <2>1. PICK m : m = GateBroadcastMsgToSessionReq
    OBVIOUS
  <2>2. /\ m \in Others /\ m \in ForGate /\ m.sessionId = 0
        /\ m \notin Moves /\ m.cmd # "GateCloseSessionReq"
    BY <2>1 DEF GateBroadcastMsgToSessionReq, Others, Moves, ForGate
  <2>3. Asks(w, "broadcast", m, 0)
    BY <1>2, <1>3, <2>1, <2>2 DEF gateBroadcastMsg, Asks
  <2> QED BY <2>3
<1>4. ASSUME NEW id \in DOMAIN m_worker_client[w], sessionSendMsg(w, id)
      PROVE  \E kind, m, x : Asks(w, kind, m, x)
  <2>1. PICK m : m = GateRouteMsgToSessionReq(id)
    OBVIOUS
  <2>2. /\ m \in Others /\ m \in ForGate /\ m.sessionId = id
        /\ m \notin Moves /\ m.cmd # "GateCloseSessionReq"
    BY <1>2, <2>1 DEF GateRouteMsgToSessionReq, Others, Moves, ForGate
  <2>3. Asks(w, "send", m, id)
    BY <1>2, <1>4, <2>1, <2>2 DEF sessionSendMsg, Asks
  <2> QED BY <2>3
<1>5. ASSUME NEW id \in DOMAIN m_worker_client[w], sessionClose(w, id)
      PROVE  \E kind, m, x : Asks(w, kind, m, x)
  <2>1. PICK m : m = GateCloseSessionReq(id)
    OBVIOUS
  <2>2. m \in Others /\ m \in ForGate /\ m.sessionId = id
    BY <1>2, <2>1 DEF GateCloseSessionReq, Others, ForGate
  <2>3. Asks(w, "close", m, id)
    BY <1>2, <1>5, <2>1, <2>2 DEF sessionClose, Asks
  <2> QED BY <2>3
<1>6. ASSUME NEW id \in DOMAIN m_worker_client[w], NEW to \in Targets, sessionChangeWorker(w, id, to)
      PROVE  \E kind, m, x : Asks(w, kind, m, x)
  <2>1. PICK m : m = GateChangeLogicNodeReq(id, to)
    OBVIOUS
  <2>2. m \in Moves /\ m \in ForGate /\ m.sessionId = id
    BY <1>2, <2>1 DEF GateChangeLogicNodeReq, Moves, ForGate
  <2>3. Asks(w, "move", m, id)
    BY <1>2, <1>6, <2>1, <2>2 DEF sessionChangeWorker, Asks
  <2> QED BY <2>3
<1> QED BY <1>1, <1>3, <1>4, <1>5, <1>6

\* It leaves the invariant as it is.
LEMMA GameStepKeeps ==
    ASSUME GateInv, UNCHANGED <<socketVars, gateVars>>, NEW w \in Worker, NEW kind, NEW m, NEW id,
           Asks(w, kind, m, id)
    PROVE  GateInv'
<1>1. /\ m \in ForGate /\ m.sessionId \in 0..m_allocID /\ Requesting(w, kind, m)
      /\ asked' = asked \/ (id \in 1..m_allocID /\ asked' = asked \cup {id})
      /\ \/ UNCHANGED <<m_worker_client, movedAway>>
         \/ /\ id \in DOMAIN m_worker_client[w]
            /\ m_worker_client' = [m_worker_client EXCEPT ![w] = Erase(@, id)]
            /\ movedAway' = [movedAway EXCEPT ![w] = @ \cup {id}]
  BY DEF Asks
<1>2. NetSide' /\ requests' \in 0..MaxRequests /\ served' = served
  BY <1>1, RequestMade
<1>3. WorkerTypeInv /\ EntityInv /\ UNCHANGED <<m_allocID, sessionId>>
  BY DEF GateInv, WorkerSide, gateVars
<1>4. CASE UNCHANGED <<m_worker_client, movedAway>>
  <2>1. EntityInv'
    BY <1>3, <1>4 DEF EntityInv
  <2>2. WorkerTypeInv'
    BY <1>1, <1>2, <1>3, <1>4 DEF WorkerTypeInv
  <2> QED BY <1>2, <2>1, <2>2, GateAlone DEF GateInv, WorkerSide
<1>5. CASE /\ id \in DOMAIN m_worker_client[w]
           /\ m_worker_client' = [m_worker_client EXCEPT ![w] = Erase(@, id)]
           /\ movedAway' = [movedAway EXCEPT ![w] = @ \cup {id}]
  <2>1. id \in 1..m_allocID
    BY <1>3, <1>5 DEF EntityInv
  <2>2. PICK e : e = NoEntity
    OBVIOUS
  <2>3. EntityInv' /\ DOMAIN m_worker_client' = Worker
    BY <1>5, <2>1, <2>2, KnowsAfter
  <2>4. movedAway' \in [Worker -> SUBSET (1..m_allocID)]
    BY <1>3, <1>5, <2>1 DEF WorkerTypeInv
  <2>5. WorkerTypeInv'
    BY <1>1, <1>2, <1>3, <2>3, <2>4 DEF WorkerTypeInv
  <2> QED BY <1>2, <2>3, <2>5, GateAlone DEF GateInv, WorkerSide
<1> QED BY <1>1, <1>4, <1>5

\* A queue that is cut keeps its first messages.
CutTo(q, r) == /\ Len(q) \in Nat /\ Len(r) \in Nat /\ Len(r) <= Len(q)
               /\ \A i \in 1..Len(r) : i \in 1..Len(q) /\ r[i] = q[i]

LEMMA CutIs ==
    ASSUME NEW S, NEW q \in Seq(S), NEW k \in 0..Len(q)
    PROVE  SubSeq(q, 1, k) \in Seq(S) /\ CutTo(q, SubSeq(q, 1, k)) /\ Len(SubSeq(q, 1, k)) = k
           /\ CutTo(q, q) /\ CutTo(q, <<>>)
BY DEF CutTo

\* What a broken connection or the end of a worker's process leaves.
Remains == /\ \A v \in Worker : CutTo(toWorker[v], toWorker'[v]) /\ CutTo(toGate[v], toGate'[v])
           /\ \A v \in Worker : \/ m_worker_client'[v] = m_worker_client[v] /\ served'[v] = served[v]
                                \/ /\ DOMAIN m_worker_client'[v] = {} /\ DOMAIN served'[v] = {}
                                   /\ toWorker'[v] = <<>>
           /\ UNCHANGED <<requests, movedAway, asked, service2nodeId, m_for_allocID>>
           /\ missed \subseteq missed'

\* A connection breaks,
LEMMA BreakLeaves ==
    ASSUME GateInv, NEW w \in Worker, ConnectionBreaks(w), UNCHANGED workerVars
    PROVE  /\ Remains /\ toWorker' \in Queues(ForWorker) /\ toGate' \in Queues(ForGate)
           /\ nodeId' \in [Worker -> 0 .. NWorker + MaxRestarts]
           /\ missed' \subseteq 1..m_allocID
           /\ \A v \in Worker : \A j \in 1..Len(toWorker[v]) :
                  toWorker[v][j] \in Offlines /\ ~(j <= Len(toWorker'[v])) => toWorker[v][j].sessionId \in missed'
<1>1. /\ nodeId' = [nodeId EXCEPT ![w] = 0]
      /\ UNCHANGED <<service2nodeId, m_for_allocID, requests, movedAway, asked, m_worker_client, served>>
      /\ NetTypeInv /\ MessageInv /\ m_allocID \in Nat
      /\ toWorker \in [Worker -> Seq(ForWorker)] /\ toGate \in [Worker -> Seq(ForGate)]
  BY DEF ConnectionBreaks, workerVars, GateInv, NetSide, NetTypeInv, Queues, GateSide, GateTypeInv
<1>2. PICK k \in 0..Len(toWorker[w]) :
          /\ toWorker' = [toWorker EXCEPT ![w] = SubSeq(@, 1, k)]
          /\ missed' = missed \cup {toWorker[w][i].sessionId : i \in
                 {j \in k + 1 .. Len(toWorker[w]) : toWorker[w][j].cmd = "SessionOfflineReq"}}
  BY DEF ConnectionBreaks
<1>3. PICK n \in 0..Len(toGate[w]) : toGate' = [toGate EXCEPT ![w] = SubSeq(@, 1, n)]
  BY DEF ConnectionBreaks
<1>4. /\ toWorker[w] \in Seq(ForWorker) /\ toGate[w] \in Seq(ForGate)
      /\ Len(toWorker[w]) \in Nat /\ k \in Nat
  BY <1>1
<1>5. /\ toWorker'[w] = SubSeq(toWorker[w], 1, k) /\ toGate'[w] = SubSeq(toGate[w], 1, n)
      /\ \A v \in Worker : v # w => toWorker'[v] = toWorker[v] /\ toGate'[v] = toGate[v]
  BY <1>1, <1>2, <1>3
<1>6. /\ SubSeq(toWorker[w], 1, k) \in Seq(ForWorker) /\ CutTo(toWorker[w], SubSeq(toWorker[w], 1, k))
      /\ Len(SubSeq(toWorker[w], 1, k)) = k
  BY <1>4, CutIs
<1>7. SubSeq(toGate[w], 1, n) \in Seq(ForGate) /\ CutTo(toGate[w], SubSeq(toGate[w], 1, n))
  BY <1>4, CutIs
<1>8. toWorker' \in Queues(ForWorker) /\ toGate' \in Queues(ForGate)
  BY <1>1, <1>2, <1>3, <1>6, <1>7 DEF Queues
<1>9. \A v \in Worker : CutTo(toWorker[v], toWorker[v]) /\ CutTo(toGate[v], toGate[v])
  <2> SUFFICES ASSUME NEW v \in Worker PROVE CutTo(toWorker[v], toWorker[v]) /\ CutTo(toGate[v], toGate[v])
    OBVIOUS
  <2>1. toWorker[v] \in Seq(ForWorker) /\ toGate[v] \in Seq(ForGate)
    BY <1>1
  <2>2. 0 \in 0..Len(toWorker[v]) /\ 0 \in 0..Len(toGate[v])
    BY <2>1
  <2> QED BY <2>1, <2>2, CutIs
<1>10. nodeId' \in [Worker -> 0 .. NWorker + MaxRestarts]
  BY <1>1, Names DEF NetTypeInv
<1>11. missed \subseteq missed' /\ missed' \subseteq 1..m_allocID
  <2>1. \A j \in k + 1 .. Len(toWorker[w]) : toWorker[w][j].sessionId \in 1..m_allocID
    BY <1>1, <1>4 DEF MessageInv, Truthful
  <2> QED BY <1>1, <1>2, <2>1 DEF MessageInv
<1>12. ASSUME NEW v \in Worker, NEW j \in 1..Len(toWorker[v]), toWorker[v][j] \in Offlines,
              ~(j <= Len(toWorker'[v]))
       PROVE  toWorker[v][j].sessionId \in missed'
  <2>1. v = w
    BY <1>5, <1>9, <1>12 DEF CutTo
  <2>2. j \in k + 1 .. Len(toWorker[w])
    BY <1>4, <1>5, <1>6, <1>12, <2>1
  <2>3. toWorker[w][j].cmd = "SessionOfflineReq"
    BY <1>12, <2>1 DEF Offlines
  <2> QED BY <1>2, <2>1, <2>2, <2>3
<1> QED BY <1>1, <1>5, <1>6, <1>7, <1>8, <1>9, <1>10, <1>11, <1>12 DEF Remains

\* and the process of a worker ends.
LEMMA EndLeaves ==
    ASSUME GateInv, NEW w \in Worker, WorkerEnds(w)
    PROVE  /\ Remains /\ toWorker' \in Queues(ForWorker) /\ toGate' = toGate
           /\ UNCHANGED <<nodeId, missed>>
           /\ \A v \in Worker : v # w => toWorker'[v] = toWorker[v] /\ m_worker_client'[v] = m_worker_client[v]
           /\ DOMAIN m_worker_client' = Worker /\ DOMAIN served' = Worker
           /\ DOMAIN m_worker_client'[w] = {} /\ toWorker'[w] = <<>>
<1>1. /\ m_worker_client' = [m_worker_client EXCEPT ![w] = Empty]
      /\ served' = [served EXCEPT ![w] = Empty] /\ toWorker' = [toWorker EXCEPT ![w] = <<>>]
      /\ UNCHANGED <<requests, movedAway, asked, toGate, nodeId, service2nodeId, m_for_allocID, missed>>
      /\ DOMAIN m_worker_client = Worker /\ DOMAIN served = Worker /\ DOMAIN Empty = {}
      /\ toWorker \in [Worker -> Seq(ForWorker)] /\ toGate \in [Worker -> Seq(ForGate)]
  BY DEF WorkerEnds, Empty, GateInv, NetSide, NetTypeInv, Queues, WorkerSide, WorkerTypeInv
<1>2. \A v \in Worker : /\ CutTo(toWorker[v], toWorker[v]) /\ CutTo(toGate[v], toGate[v])
                        /\ CutTo(toWorker[v], <<>>)
  <2> SUFFICES ASSUME NEW v \in Worker
               PROVE  /\ CutTo(toWorker[v], toWorker[v]) /\ CutTo(toGate[v], toGate[v])
                      /\ CutTo(toWorker[v], <<>>)
    OBVIOUS
  <2>1. toWorker[v] \in Seq(ForWorker) /\ toGate[v] \in Seq(ForGate)
    BY <1>1
  <2>2. 0 \in 0..Len(toWorker[v]) /\ 0 \in 0..Len(toGate[v])
    BY <2>1
  <2> QED BY <2>1, <2>2, CutIs
<1>3. toWorker' \in Queues(ForWorker)
  BY <1>1 DEF Queues
<1>4. /\ toWorker'[w] = <<>> /\ \A v \in Worker : v # w => toWorker'[v] = toWorker[v]
      /\ DOMAIN m_worker_client'[w] = {} /\ DOMAIN served'[w] = {}
      /\ \A v \in Worker : v # w => m_worker_client'[v] = m_worker_client[v] /\ served'[v] = served[v]
      /\ DOMAIN m_worker_client' = Worker /\ DOMAIN served' = Worker
  BY <1>1
<1> QED BY <1>1, <1>2, <1>3, <1>4 DEF Remains

\* The invariant is kept by both.
LEMMA CrashKeeps ==
    ASSUME GateInv, Crash
    PROVE  GateInv' /\ Remains
<1>1. PICK w \in Worker : (ConnectionBreaks(w) /\ UNCHANGED workerVars) \/ WorkerEnds(w)
  BY DEF Crash
<1>2. /\ UNCHANGED <<socketVars, gateVars>> /\ UNCHANGED <<m_allocID, sessionId>>
      /\ NetTypeInv /\ WorkerTypeInv /\ EntityInv
  BY DEF Crash, gateVars, GateInv, NetSide, WorkerSide
<1>3. /\ Remains /\ toWorker' \in Queues(ForWorker) /\ toGate' \in Queues(ForGate)
      /\ nodeId' \in [Worker -> 0 .. NWorker + MaxRestarts]
      /\ missed' = missed \/ missed' \subseteq 1..m_allocID
      /\ DOMAIN m_worker_client' = Worker /\ DOMAIN served' = Worker
  <2>1. CASE ConnectionBreaks(w) /\ UNCHANGED workerVars
    BY <1>2, <2>1, BreakLeaves DEF workerVars, WorkerTypeInv
  <2>2. CASE WorkerEnds(w)
    BY <1>2, <2>2, EndLeaves DEF NetTypeInv
  <2> QED BY <1>1, <2>1, <2>2
<1>4. NetTypeInv'
  BY <1>2, <1>3 DEF Remains, NetTypeInv
<1>5. MessageInv'
  <2>1. Grows
    BY <1>2, GateAlone
  <2>2. PICK M : M = {}
    OBVIOUS
  <2>3. \A m \in M : Truthful(m)'
    BY <2>2
  <2>4. \A v \in Worker : \A i \in 1..Len(toWorker'[v]) :
            \/ \E j \in 1..Len(toWorker[v]) : toWorker'[v][i] = toWorker[v][j]
            \/ toWorker'[v][i] \in M
    BY <1>3 DEF Remains, CutTo
  <2>5. \A v \in Worker : \A i \in 1..Len(toGate'[v]) :
            \/ \E j \in 1..Len(toGate[v]) : toGate'[v][i] = toGate[v][j]
            \/ toGate'[v][i].sessionId \in 0..m_allocID'
    BY <1>3 DEF Remains, CutTo
  <2> QED BY <1>2, <1>3, <2>1, <2>3, <2>4, <2>5, MessagesKeep
<1>6. EntityInv'
  <2>1. PICK old : old = m_worker_client
    OBVIOUS
  <2>2. PICK map : map = m_worker_client'
    OBVIOUS
  <2>3. \A v \in Worker : \A x \in DOMAIN map[v] : x \in DOMAIN old[v] /\ map[v][x] = old[v][x]
    BY <1>3, <2>1, <2>2 DEF Remains
  <2>4. \A v \in Worker : \A x \in DOMAIN old[v] :
            /\ x \in 1..m_allocID
            /\ old[v][x] \in Client \cup {NoEntity}
            /\ old[v][x] # NoEntity => sessionId[old[v][x]] = x
    BY <1>2, <2>1 DEF EntityInv
  <2>5. \A v \in Worker : \A x \in DOMAIN map[v] :
            /\ x \in 1..m_allocID'
            /\ map[v][x] \in Client \cup {NoEntity}
            /\ map[v][x] # NoEntity => sessionId'[map[v][x]] = x
    <3> SUFFICES ASSUME NEW v \in Worker, NEW x \in DOMAIN map[v]
                 PROVE  /\ x \in 1..m_allocID
                        /\ map[v][x] \in Client \cup {NoEntity}
                        /\ map[v][x] # NoEntity => sessionId[map[v][x]] = x
      BY <1>2
    <3>1. x \in DOMAIN old[v] /\ map[v][x] = old[v][x]
      BY <2>3
    <3> QED BY <2>4, <3>1
  <2> QED BY <2>2, <2>5 DEF EntityInv
<1>7. WorkerTypeInv'
  <2>1. \A v \in Worker : \A x \in DOMAIN served'[v] : x \in 1..m_allocID /\ served'[v][x] \subseteq 1..MaxMsgs
    BY <1>2, <1>3 DEF WorkerTypeInv, Remains
  <2> QED BY <1>2, <1>3, <2>1 DEF WorkerTypeInv, Remains
<1> QED BY <1>2, <1>3, <1>4, <1>5, <1>6, <1>7, GateAlone DEF GateInv, NetSide, WorkerSide

\* Workers register, and the gate hears of it.
LEMMA RecoveryKeeps ==
    ASSUME GateInv, (\E w \in Worker : WorkerRegisters(w)) \/ GateLearnsRegistry,
           UNCHANGED <<socketVars, gateVars, workerVars>>
    PROVE  GateInv'
<1>1. /\ NetTypeInv /\ UNCHANGED <<toWorker, toGate, missed>> /\ GateSide' /\ Grows
  BY GateAlone DEF GateInv, NetSide, WorkerRegisters, GateLearnsRegistry
<1>2. NWorker \in Nat \ {0} /\ MaxRestarts \in Nat
  BY Names
<1>3. ASSUME \E w \in Worker : WorkerRegisters(w) PROVE NetTypeInv'
  <2>1. PICK w \in Worker : WorkerRegisters(w)
    BY <1>3
  <2>2. /\ m_for_allocID < NWorker + MaxRestarts /\ m_for_allocID' = m_for_allocID + 1
        /\ nodeId' = [nodeId EXCEPT ![w] = m_for_allocID'] /\ service2nodeId' = service2nodeId
        /\ m_for_allocID \in NWorker .. NWorker + MaxRestarts
        /\ nodeId \in [Worker -> 0 .. NWorker + MaxRestarts]
    BY <1>1, <2>1 DEF WorkerRegisters, NetTypeInv
  <2>3. m_for_allocID' \in NWorker .. NWorker + MaxRestarts /\ m_for_allocID' \in 0 .. NWorker + MaxRestarts
    BY <1>2, <2>2
  <2>4. nodeId' \in [Worker -> 0 .. NWorker + MaxRestarts]
    BY <2>2, <2>3
  <2> QED BY <1>1, <2>2, <2>3, <2>4 DEF NetTypeInv
<1>4. ASSUME GateLearnsRegistry PROVE NetTypeInv'
  <2>1. /\ service2nodeId' = [w \in {x \in Worker : nodeId[x] # 0} |-> nodeId[w]]
        /\ UNCHANGED <<nodeId, m_for_allocID>>
    BY <1>4 DEF GateLearnsRegistry
  <2> QED BY <1>1, <2>1 DEF NetTypeInv
<1>5. NetTypeInv'
  BY <1>3, <1>4
<1>6. MessageInv'
  <2>1. toWorker' \in Queues(ForWorker)
    BY <1>5 DEF NetTypeInv
  <2>2. PICK M : M = {}
    OBVIOUS
  <2>3. \A m \in M : Truthful(m)'
    BY <2>2
  <2>4. \A w \in Worker : \A i \in 1..Len(toWorker'[w]) :
            \/ \E j \in 1..Len(toWorker[w]) : toWorker'[w][i] = toWorker[w][j]
            \/ toWorker'[w][i] \in M
    BY <1>1
  <2>5. \A w \in Worker : \A i \in 1..Len(toGate'[w]) :
            \/ \E j \in 1..Len(toGate[w]) : toGate'[w][i] = toGate[w][j]
            \/ toGate'[w][i].sessionId \in 0..m_allocID'
    BY <1>1
  <2> QED BY <1>1, <2>1, <2>3, <2>4, <2>5, MessagesKeep
<1> QED BY <1>1, <1>5, <1>6, WorkersAlone DEF GateInv, NetSide

-----------------------------------------------------------------------------
(* The invariant of the gate holds. *)

\* It holds at the start.
LEMMA GateInitHolds == SessionInit => GateInv
<1> SUFFICES ASSUME SessionInit PROVE GateInv
  OBVIOUS
<1>1. /\ sock = [c \in Client |-> "none"] /\ inbox = [c \in Client |-> <<>>]
      /\ num = [c \in Client |-> 0] /\ sessionId = [c \in Client |-> 0] /\ m_client_set = Empty
      /\ m_allocID = 0 /\ toClient = [c \in Client |-> {}] /\ gate = "open" /\ thrown = {}
  BY DEF SessionInit, GateInit
<1>2. /\ toWorker = [w \in Worker |-> <<>>] /\ toGate = [w \in Worker |-> <<>>]
      /\ nodeId = [w \in Worker |-> w + 1] /\ service2nodeId = [w \in Worker |-> w + 1]
      /\ m_for_allocID = NWorker /\ missed = {}
  BY DEF SessionInit, NetInit
<1>3. /\ m_worker_client = [w \in Worker |-> Empty] /\ requests = 0
      /\ served = [w \in Worker |-> Empty] /\ movedAway = [w \in Worker |-> {}] /\ asked = {}
  BY DEF SessionInit, WorkerInit
<1>4. DOMAIN Empty = {}
  BY DEF Empty
<1>5. SocketTypeInv
  BY <1>1, Names DEF SocketTypeInv, Inboxes
<1>6. GateTypeInv /\ EntryInv /\ BrokenInv /\ OpenSessionsAreBound /\ RepliesReachTheirClient
  BY <1>1, <1>4 DEF GateTypeInv, EntryInv, BrokenInv, OpenSessionsAreBound, RepliesReachTheirClient
<1>7. IdInv
  <2>1. {c \in Client : sessionId[c] # 0} = {}
    BY <1>1
  <2> QED BY <1>1, <2>1, FS_EmptySet DEF IdInv
<1>8. NetTypeInv
  BY <1>2, Names DEF NetTypeInv, Queues, Worker
<1>9. MessageInv
  BY <1>1, <1>2 DEF MessageInv
<1>10. WorkerTypeInv /\ EntityInv
  BY <1>1, <1>3, <1>4, Names DEF WorkerTypeInv, EntityInv
<1> QED BY <1>5, <1>6, <1>7, <1>8, <1>9, <1>10 DEF GateInv, GateSide, NetSide, WorkerSide

\* A client's step keeps it,
LEMMA ClientsKeep ==
    ASSUME GateInv, ClientSteps, UNCHANGED workerVars
    PROVE  GateInv' /\ UNCHANGED gateVars
<1>1. PICK c \in Client : Connect(c) \/ Send(c) \/ Disconnect(c)
  BY DEF ClientSteps
<1>2. GateSide' /\ Grows /\ UNCHANGED <<gateVars, sessionNetVars>>
  BY <1>1, ClientStepKeeps
<1> QED BY <1>2, NetAlone, WorkersAlone DEF GateInv

\* one of the gate,
LEMMA GatesKeep ==
    ASSUME GateInv, GateSteps \/ close_impl \/ queueClosed, UNCHANGED workerVars
    PROVE  GateInv'
BY handleMsgKeeps, handleBrokenKeeps, changeSessionLogicKeeps, closeSessionKeeps, RepliesKeep,
   GateClosesKeeps DEF GateSteps

\* one of a worker or its game,
LEMMA WorkersKeep ==
    ASSUME GateInv, WorkerSteps \/ GameSteps, UNCHANGED <<socketVars, gateVars>>
    PROVE  GateInv'
<1>1. CASE WorkerSteps
  BY <1>1, processSessionReqKeeps, OfflineEnterKeep DEF WorkerSteps
<1>2. CASE GameSteps
  BY <1>2, GameStepIs, GameStepKeeps
<1> QED BY <1>1, <1>2

\* and a step of none of them.
LEMMA StutterKeeps ==
    ASSUME GateInv, UNCHANGED sessionVars
    PROVE  GateInv'
<1>1. UNCHANGED <<socketVars, gateVars, workerVars, sessionNetVars>>
  BY DEF sessionVars
<1> QED BY <1>1, GateAlone, NetAlone, WorkersAlone DEF GateInv

\* So every step keeps it.
LEMMA StepKeepsGateInv ==
    ASSUME GateInv, [SessionNext]_sessionVars
    PROVE  GateInv'
<1>1. CASE (ClientSteps \/ GateSteps \/ close_impl \/ queueClosed) /\ UNCHANGED workerVars
  BY <1>1, ClientsKeep, GatesKeep
<1>2. CASE (WorkerSteps \/ GameSteps) /\ UNCHANGED <<socketVars, gateVars>>
  BY <1>2, WorkersKeep
<1>3. CASE Crash
  BY <1>3, CrashKeeps
<1>4. CASE Recovery
  BY <1>4, RecoveryKeeps DEF Recovery
<1>5. CASE UNCHANGED sessionVars
  BY <1>5, StutterKeeps
<1> QED BY <1>1, <1>2, <1>3, <1>4, <1>5 DEF SessionNext

\* The invariant of the gate, its network and its workers: every session id was
\* handed out once, its entry, its messages and its entities are those of one client.
THEOREM SessionInvariance == SessionSpec => []GateInv
<1>1. GateInv /\ [SessionNext]_sessionVars => GateInv'
  BY StepKeepsGateInv
<1> QED BY <1>1, GateInitHolds, PTL DEF SessionSpec


-----------------------------------------------------------------------------
(* What a step does to the sessions that live. *)

\* Each of them stays with its socket and its worker.
Stay == Live' = Live /\ \A x \in Live : m_client_set'[x] = m_client_set[x]

\* A session that starts leaves the others alone,
LEMMA StartIs ==
    ASSUME GateInv, NEW c \in Client, NEW w, SessionStarts(c, m_allocID + 1, w)
    PROVE  /\ m_allocID \in Nat /\ m_allocID' = m_allocID + 1 /\ w \in Worker
           /\ m_allocID + 1 \notin Live /\ Live' = Live \cup {m_allocID + 1}
           /\ \A x \in Live : m_client_set'[x] = m_client_set[x]
           /\ m_client_set'[m_allocID + 1].allocWorker = w
<1>1. /\ m_allocID \in Nat /\ DOMAIN m_client_set \subseteq 1..m_allocID /\ NoSock \notin Client
  BY Names DEF GateInv, GateSide, GateTypeInv, EntryInv
<1>2. PICK new : new = m_allocID + 1
  OBVIOUS
<1>3. /\ m_allocID' = new /\ w \in Worker
      /\ m_client_set' = Insert(m_client_set, new, [sock |-> c, allocWorker |-> w])
  BY <1>2 DEF SessionStarts
<1>4. /\ DOMAIN m_client_set' = DOMAIN m_client_set \cup {new}
      /\ m_client_set'[new].sock = c /\ m_client_set'[new].allocWorker = w
      /\ \A x \in DOMAIN m_client_set : x # new => m_client_set'[x] = m_client_set[x]
  BY <1>3 DEF Insert
<1>5. new \notin DOMAIN m_client_set
  BY <1>1, <1>2
<1> QED BY <1>1, <1>2, <1>3, <1>4, <1>5 DEF Live

\* an empty entry is no session,
LEMMA AtStays ==
    ASSUME NEW k, m_client_set' = At(m_client_set, k)
    PROVE  Stay
<1>1. /\ DOMAIN m_client_set' = DOMAIN m_client_set \cup {k}
      /\ \A x \in DOMAIN m_client_set : m_client_set'[x] = m_client_set[x]
      /\ k \notin DOMAIN m_client_set => m_client_set'[k] = NewInfo
  BY DEF At, Insert
<1> QED BY <1>1, NewInfoIs DEF Stay, Live

\* a session that ends leaves the others alone,
LEMMA EndIs ==
    ASSUME NEW id, m_client_set' = Erase(m_client_set, id)
    PROVE  /\ Live' = Live \ {id}
           /\ \A x \in Live : x # id => m_client_set'[x] = m_client_set[x]
<1>1. /\ DOMAIN m_client_set' = DOMAIN m_client_set \ {id}
      /\ \A x \in DOMAIN m_client_set : x # id => m_client_set'[x] = m_client_set[x]
  BY DEF Erase
<1> QED BY <1>1 DEF Live

\* and a move changes the worker only.
LEMMA MoveIs ==
    ASSUME GateInv, NEW id \in DOMAIN m_client_set, NEW w,
           m_client_set' = [m_client_set EXCEPT ![id].allocWorker = w]
    PROVE  /\ Live' = Live /\ m_client_set'[id].allocWorker = w
           /\ \A x \in DOMAIN m_client_set : x # id => m_client_set'[x] = m_client_set[x]
<1>1. m_client_set[id] \in [sock : Client \cup {NoSock}, allocWorker : Named \cup {NoWorker}]
  BY DEF GateInv, GateSide, EntryInv
<1>2. /\ DOMAIN m_client_set' = DOMAIN m_client_set
      /\ \A x \in DOMAIN m_client_set : x # id => m_client_set'[x] = m_client_set[x]
      /\ m_client_set'[id].sock = m_client_set[id].sock /\ m_client_set'[id].allocWorker = w
  BY <1>1
<1> QED BY <1>2 DEF Live

-----------------------------------------------------------------------------
(* The gate keeps a directory. *)

\* The directory as the gate keeps it, and its steps.
Owner == [id \in Live |-> m_client_set[id].allocWorker]
DirectoryStep == Directory!DirectoryNext \/ (m_allocID' = m_allocID /\ Owner' = Owner)

\* A session that starts is bound to a worker,
LEMMA StartIsDirected ==
    ASSUME GateInv, NEW c \in Client, NEW w, SessionStarts(c, m_allocID + 1, w)
    PROVE  DirectoryStep
<1>1. PICK new : new = m_allocID + 1
  OBVIOUS
<1>2. /\ m_allocID' = new /\ w \in Worker /\ new \notin Live /\ Live' = Live \cup {new}
      /\ \A x \in Live : m_client_set'[x] = m_client_set[x]
      /\ m_client_set'[new].allocWorker = w
  BY <1>1, StartIs
<1>3. Owner' = [i \in DOMAIN Owner \cup {m_allocID'} |-> IF i = m_allocID' THEN w ELSE Owner[i]]
  BY <1>2 DEF Owner
<1>4. Directory!Start(w) /\ w \in Named
  BY <1>1, <1>2, <1>3, Names DEF Directory!Start, Owner
<1> QED BY <1>4 DEF DirectoryStep, Directory!DirectoryNext

\* stays bound,
LEMMA StayIsDirected ==
    ASSUME Stay, m_allocID' = m_allocID
    PROVE  DirectoryStep
BY DEF Stay, Owner, DirectoryStep

\* ends
LEMMA EndIsDirected ==
    ASSUME NEW id \in Live, m_client_set' = Erase(m_client_set, id), m_allocID' = m_allocID
    PROVE  DirectoryStep
<1>1. /\ Live' = Live \ {id}
      /\ \A x \in Live : x # id => m_client_set'[x] = m_client_set[x]
  BY EndIs
<1>2. Owner' = [i \in DOMAIN Owner \ {id} |-> Owner[i]] /\ id \in DOMAIN Owner
  BY <1>1 DEF Owner
<1>3. Directory!End(id)
  BY <1>2 DEF Directory!End, Owner
<1> QED BY <1>2, <1>3 DEF DirectoryStep, Directory!DirectoryNext, Owner

\* or moves to another one.
LEMMA MoveIsDirected ==
    ASSUME GateInv, NEW id \in DOMAIN m_client_set, NEW w \in Named, m_allocID' = m_allocID,
           m_client_set' = [m_client_set EXCEPT ![id].allocWorker = w]
    PROVE  DirectoryStep
<1>1. /\ Live' = Live /\ m_client_set'[id].allocWorker = w
      /\ \A x \in DOMAIN m_client_set : x # id => m_client_set'[x] = m_client_set[x]
      /\ Live \subseteq DOMAIN m_client_set
  BY MoveIs DEF Live
<1>2. CASE id \in Live
  <2>1. Owner' = [Owner EXCEPT ![id] = w] /\ id \in DOMAIN Owner
    BY <1>1, <1>2 DEF Owner
  <2>2. Directory!Move(id, w)
    BY <2>1 DEF Directory!Move, Owner
  <2> QED BY <2>1, <2>2 DEF DirectoryStep, Directory!DirectoryNext, Owner
<1>3. CASE id \notin Live
  BY <1>1, <1>3 DEF Owner, DirectoryStep
<1> QED BY <1>2, <1>3

\* Every step is one of these.
LEMMA StepIsDirected ==
    ASSUME GateInv, [SessionNext]_sessionVars
    PROVE  DirectoryStep
<1>0. ASSUME UNCHANGED <<m_client_set, m_allocID>> PROVE DirectoryStep
  BY <1>0, StayIsDirected DEF Stay, Live
<1>1. ASSUME UNCHANGED gateVars PROVE DirectoryStep
  BY <1>0, <1>1 DEF gateVars
<1>2. ASSUME NEW c \in Client, handleMsg(c) PROVE DirectoryStep
  <2>1. CASE \E w \in Worker : SessionStarts(c, m_allocID + 1, w)
    BY <2>1, StartIsDirected
  <2>2. CASE \E w \in Named \cup {NoWorker} : MessageGoesOn(c, w)
    <3>1. m_client_set' = At(m_client_set, sessionId[c]) /\ m_allocID' = m_allocID
      BY <2>2 DEF MessageGoesOn
    <3> QED BY <3>1, AtStays, StayIsDirected
  <2>3. CASE MessageRefused(c)
    BY <1>0, <2>3 DEF MessageRefused
  <2> QED BY <1>2, <2>1, <2>2, <2>3, handleMsgIs
<1>3. ASSUME NEW c \in Client, handleBroken(c) PROVE DirectoryStep
  <2>1. m_allocID' = m_allocID
    BY <1>3 DEF handleBroken
  <2>2. CASE UNCHANGED <<m_client_set, toWorker>>
    BY <1>0, <2>1, <2>2
  <2>3. CASE \E id \in Live, w \in Named : SessionEnds(c, id, w)
    BY <2>1, <2>3, EndIsDirected DEF SessionEnds
  <2>4. CASE \E id \in 1..m_allocID : m_client_set' = At(m_client_set, id)
    BY <2>1, <2>4, AtStays, StayIsDirected
  <2> QED BY <1>3, <2>2, <2>3, <2>4, handleBrokenIs
<1>4. ASSUME NEW w \in Worker, changeSessionLogic(w) PROVE DirectoryStep
  <2>1. m_allocID' = m_allocID
    BY <1>4 DEF changeSessionLogic
  <2>2. PICK new \in Targets : \E id \in Nat :
            \/ id \notin DOMAIN m_client_set /\ UNCHANGED <<m_client_set, toWorker, thrown>>
            \/ SessionMoves(id, new) \/ EmptyMoves(id, new)
    BY <1>4, changeSessionLogicIs
  <2>3. CASE UNCHANGED m_client_set
    BY <1>0, <2>1, <2>3
  <2>4. ASSUME NEW id, SessionMoves(id, new) \/ EmptyMoves(id, new) PROVE DirectoryStep
    <3>1. id \in DOMAIN m_client_set /\ m_client_set' = [m_client_set EXCEPT ![id].allocWorker = new]
      BY <2>4 DEF SessionMoves, EmptyMoves, Live
    <3> QED BY <2>1, <3>1, Names, MoveIsDirected
  <2> QED BY <2>2, <2>3, <2>4
<1>5. ASSUME NEW w \in Worker, closeSession(w) PROVE DirectoryStep
  <2>1. m_allocID' = m_allocID
    BY <1>5 DEF closeSession
  <2>2. CASE UNCHANGED m_client_set
    BY <1>0, <2>1, <2>2
  <2>3. CASE \E id \in Live, s \in Client : SessionCloses(id, s)
    BY <2>1, <2>3, EndIsDirected DEF SessionCloses
  <2> QED BY <1>5, <2>2, <2>3, closeSessionIs
<1>6. ASSUME NEW w \in Worker, routeMsgToSession(w) \/ broadcastMsgToSession(w) PROVE DirectoryStep
  BY <1>0, <1>6 DEF routeMsgToSession, broadcastMsgToSession
<1>7. CASE close_impl \/ queueClosed
  BY <1>0, <1>7 DEF close_impl, queueClosed
<1>8. CASE GateSteps
  BY <1>2, <1>3, <1>4, <1>5, <1>6, <1>8 DEF GateSteps
<1>9. CASE ClientSteps /\ UNCHANGED workerVars
  BY <1>1, <1>9, ClientsKeep
<1> QED BY <1>1, <1>7, <1>8, <1>9 DEF SessionNext, Crash, Recovery, sessionVars

\* The gate hands out ids in order and never again, a session has one worker at a
\* time, and none comes back: it implements the directory (FFGate::handleMsg,
\* handleBroken, changeSessionLogic, closeSession), for all clients and workers.
THEOREM Directories == SessionSpec => DirectorySpec
<1>1. SessionInit => Directory!DirectoryInit
  <2> SUFFICES ASSUME SessionInit PROVE Directory!DirectoryInit
    OBVIOUS
  <2>1. m_allocID = 0 /\ Live = {}
    BY DEF SessionInit, GateInit, Empty, Live
  <2> QED BY <2>1 DEF Directory!DirectoryInit
<1>2. GateInv /\ [SessionNext]_sessionVars => [Directory!DirectoryNext]_<<m_allocID, Owner>>
  BY StepIsDirected DEF DirectoryStep
<1>3. [][Directory!DirectoryNext]_<<m_allocID, Owner>> /\ Directory!DirectoryInit => DirectorySpec
  BY PTL DEF DirectorySpec, Directory!DirectorySpec, Owner
<1> QED BY <1>1, <1>2, <1>3, SessionInvariance, PTL DEF SessionSpec


-----------------------------------------------------------------------------
(* No word of a session that ended. *)

\* What EndedSessionsAreSilent says of a step.
SilentStep == \A w \in Worker : thrown = {} /\ Len(toWorker'[w]) > Len(toWorker[w]) =>
                  toWorker'[w][Len(toWorker'[w])].sessionId \in Live \cup Live'

\* What the gate sends about a session that lives is the last thing it sent.
LEMMA SpeaksOfLiving ==
    ASSUME GateInv, NEW w, NEW m \in ForWorker, toWorker' = asyncCall(w, m), m.sessionId \in Live \cup Live'
    PROVE  SilentStep
<1>1. NetTypeInv /\ toWorker \in [Worker -> Seq(ForWorker)]
  BY DEF GateInv, NetSide, NetTypeInv, Queues
<1>2. Arrives(w, m)
  BY <1>1, AsyncArrives
<1> SUFFICES ASSUME NEW v \in Worker, Len(toWorker'[v]) > Len(toWorker[v])
             PROVE  toWorker'[v][Len(toWorker'[v])].sessionId \in Live \cup Live'
  BY DEF SilentStep
<1>3. toWorker[v] \in Seq(ForWorker) /\ Len(toWorker[v]) \in Nat
  BY <1>1
<1>4. toWorker'[v] = Append(toWorker[v], m)
  BY <1>2, <1>3 DEF Arrives
<1>5. toWorker'[v][Len(toWorker'[v])] = m
  BY <1>3, <1>4
<1> QED BY <1>5

\* A step that sends nothing breaks no silence,
LEMMA SaysNothing ==
    ASSUME GateInv,
           \A w \in Worker : \/ toWorker'[w] = toWorker[w] \/ CutTo(toWorker[w], toWorker'[w])
                             \/ toWorker[w] # <<>> /\ toWorker'[w] = Tail(toWorker[w])
    PROVE  SilentStep
<1> SUFFICES ASSUME NEW w \in Worker, Len(toWorker'[w]) > Len(toWorker[w])
             PROVE  FALSE
  BY DEF SilentStep
<1>1. toWorker[w] \in Seq(ForWorker) /\ Len(toWorker[w]) \in Nat
  BY DEF GateInv, NetSide, NetTypeInv, Queues
<1>2. CASE toWorker'[w] = toWorker[w]
  BY <1>1, <1>2
<1>3. CASE CutTo(toWorker[w], toWorker'[w])
  BY <1>1, <1>3 DEF CutTo
<1>4. CASE toWorker[w] # <<>> /\ toWorker'[w] = Tail(toWorker[w])
  <2>1. Len(Tail(toWorker[w])) = Len(toWorker[w]) - 1
    BY <1>1, <1>4
  <2> QED BY <1>1, <1>4, <2>1
<1> QED BY <1>2, <1>3, <1>4


\* and what the gate says of a session it does not know is lost.
LEMMA ForwardsSilently ==
    ASSUME GateInv, NEW c \in Client, NEW w \in Named \cup {NoWorker}, MessageGoesOn(c, w),
           Head(inbox[c]) \in Nat
    PROVE  SilentStep
<1>1. PICK id : id = sessionId[c]
  OBVIOUS
<1>2. PICK n : n = Head(inbox[c])
  OBVIOUS
<1>3. PICK m : m = RouteLogicMsgReq(id, c, n, FALSE)
  OBVIOUS
<1>4. id \in Nat
  BY <1>1 DEF GateInv, GateSide, GateTypeInv
<1>5. m \in ForWorker /\ m.sessionId = id
  BY <1>2, <1>3, <1>4 DEF ForWorker, Routes, RouteLogicMsgReq
<1>6. m_client_set' = At(m_client_set, id) /\ w = m_client_set'[id].allocWorker /\ toWorker' = asyncCall(w, m)
  BY <1>1, <1>2, <1>3 DEF MessageGoesOn
<1>7. CASE id \in Live
  BY <1>5, <1>6, <1>7, SpeaksOfLiving
<1>8. CASE id \notin Live
  <2>1. /\ \A x \in DOMAIN m_client_set : m_client_set'[x] = m_client_set[x]
        /\ id \notin DOMAIN m_client_set => m_client_set'[id] = NewInfo
    BY <1>6 DEF At, Insert
  <2>2. thrown = {} => w = NoWorker
    BY <1>6, <1>8, <2>1, NewInfoIs DEF Live, GateInv, GateSide, EntryInv
  <2>3. NoWorker \notin DOMAIN service2nodeId
    BY Names DEF GateInv, NetSide, NetTypeInv
  <2>4. CASE thrown = {}
    <3>1. toWorker' = toWorker
      BY <1>6, <2>2, <2>3, <2>4 DEF asyncCall, Reachable
    <3> QED BY <3>1, SaysNothing
  <2>5. CASE thrown # {}
    BY <2>5 DEF SilentStep
  <2> QED BY <2>4, <2>5
<1> QED BY <1>7, <1>8

\* No step breaks the silence: a step of the gate,
LEMMA GateIsSilent ==
    ASSUME GateInv, GateSteps
    PROVE  SilentStep
<1>0. ASSUME toWorker' = toWorker PROVE SilentStep
  BY <1>0, SaysNothing
<1>1. ASSUME NEW c \in Client, handleMsg(c) PROVE SilentStep
  <2>0. Head(inbox[c]) \in Nat /\ m_allocID \in Nat
    <3>1. SocketTypeInv /\ BrokenInv
      BY DEF GateInv, GateSide
    <3>2. Head(inbox[c]) \in 0..MaxMsgs
      BY <1>1, <3>1, TaskTaken, handleMsgIs
    <3> QED BY <3>2, Names DEF GateInv, GateSide, GateTypeInv
  <2>1. ASSUME NEW w \in Worker, SessionStarts(c, m_allocID + 1, w) PROVE SilentStep
    <3>1. PICK n : n = Head(inbox[c])
      OBVIOUS
    <3>2. PICK id \in Nat : id = m_allocID + 1
      BY <2>0
    <3>3. PICK m : m = RouteLogicMsgReq(id, c, n, TRUE)
      OBVIOUS
    <3>4. m \in ForWorker /\ m.sessionId = id
      BY <2>0, <3>1, <3>3 DEF ForWorker, Routes, RouteLogicMsgReq
    <3>5. toWorker' = asyncCall(w, m)
      BY <2>1, <3>1, <3>2, <3>3 DEF SessionStarts
    <3>6. id \in Live'
      BY <2>1, <3>2, StartIs
    <3> QED BY <3>4, <3>5, <3>6, SpeaksOfLiving
  <2>2. CASE \E w \in Named \cup {NoWorker} : MessageGoesOn(c, w)
    BY <2>0, <2>2, ForwardsSilently
  <2>3. CASE MessageRefused(c)
    BY <1>0, <2>3 DEF MessageRefused, sessionNetVars
  <2> QED BY <1>1, <2>1, <2>2, <2>3, handleMsgIs
<1>2. ASSUME NEW c \in Client, handleBroken(c) PROVE SilentStep
  <2>1. CASE toWorker' = toWorker
    BY <1>0, <2>1
  <2>2. ASSUME NEW id \in Live, NEW w \in Named, SessionEnds(c, id, w) PROVE SilentStep
    <3>1. PICK m : m = SessionOfflineReq(id)
      OBVIOUS
    <3>2. id \in Nat
      BY DEF GateInv, GateSide, GateTypeInv, EntryInv, Live
    <3>3. m \in ForWorker /\ m.sessionId = id
      BY <3>1, <3>2, MadeOf DEF ForWorker
    <3>4. toWorker' = asyncCall(w, m)
      BY <2>2, <3>1 DEF SessionEnds
    <3> QED BY <3>3, <3>4, SpeaksOfLiving
  <2> QED BY <1>2, <2>1, <2>2, handleBrokenIs
<1>3. ASSUME NEW w \in Worker, changeSessionLogic(w) PROVE SilentStep
  <2>1. CASE toWorker' = toWorker
    BY <1>0, <2>1
  <2>2. ASSUME NEW id \in Live, NEW new \in Targets, SessionMoves(id, new) PROVE SilentStep
    <3>1. PICK m : m = SessionEnterWorkerReq(id, m_client_set[id].allocWorker)
      OBVIOUS
    <3>2. id \in Nat /\ m_client_set[id].allocWorker \in Named \cup {NoWorker}
      BY DEF GateInv, GateSide, GateTypeInv, EntryInv, Live
    <3>3. m \in ForWorker /\ m.sessionId = id
      BY <3>1, <3>2, MadeOf DEF ForWorker
    <3>4. toWorker' = asyncCall(new, m)
      BY <2>2, <3>1 DEF SessionMoves
    <3> QED BY <3>3, <3>4, SpeaksOfLiving
  <2>3. PICK new \in Targets : \E id \in Nat :
            \/ id \notin DOMAIN m_client_set /\ UNCHANGED <<m_client_set, toWorker, thrown>>
            \/ SessionMoves(id, new) \/ EmptyMoves(id, new)
    BY <1>3, changeSessionLogicIs
  <2> QED BY <2>1, <2>2, <2>3 DEF SessionMoves, EmptyMoves
<1>4. ASSUME NEW w \in Worker, closeSession(w) PROVE SilentStep
  BY <1>0, <1>4, closeSessionIs
<1>5. ASSUME NEW w \in Worker, routeMsgToSession(w) \/ broadcastMsgToSession(w) PROVE SilentStep
  BY <1>0, <1>5 DEF routeMsgToSession, broadcastMsgToSession
<1> QED BY <1>1, <1>2, <1>3, <1>4, <1>5 DEF GateSteps

\* and any other.
LEMMA StepIsSilent ==
    ASSUME GateInv, [SessionNext]_sessionVars
    PROVE  SilentStep
<1>0. ASSUME toWorker' = toWorker PROVE SilentStep
  BY <1>0, SaysNothing
<1>1. CASE close_impl \/ queueClosed
  BY <1>0, <1>1 DEF close_impl, queueClosed, sessionNetVars
<1>2. CASE ClientSteps
  BY <1>0, <1>2, ClientStepKeeps DEF ClientSteps, sessionNetVars
<1>3. ASSUME WorkerSteps, UNCHANGED <<socketVars, gateVars>> PROVE SilentStep
  <2>1. PICK w \in Worker : \E cmd : Received(w, cmd)
    BY <1>3 DEF WorkerSteps, processSessionReq, processSessionOffline, processSessionEnter
  <2>2. PICK cmd : Received(w, cmd)
    BY <2>1
  <2>3. /\ toWorker[w] # <<>> /\ toWorker'[w] = Tail(toWorker[w])
        /\ \A v \in Worker : v # w => toWorker'[v] = toWorker[v]
    BY <1>3, <2>2, MessageTaken
  <2> QED BY <2>3, SaysNothing
<1>4. CASE GameSteps
  <2>1. PICK w \in Worker : \E kind, m, id : Asks(w, kind, m, id)
    BY <1>4, GameStepIs
  <2> QED BY <1>0, <2>1 DEF Asks, Requesting
<1>5. CASE Crash
  <2>1. \A w \in Worker : CutTo(toWorker[w], toWorker'[w])
    BY <1>5, CrashKeeps DEF Remains
  <2> QED BY <2>1, SaysNothing
<1>6. CASE Recovery
  BY <1>0, <1>6 DEF Recovery, WorkerRegisters, GateLearnsRegistry
<1>7. CASE UNCHANGED sessionVars
  BY <1>0, <1>7 DEF sessionVars, sessionNetVars
<1> QED BY <1>1, <1>2, <1>3, <1>4, <1>5, <1>6, <1>7, GateIsSilent DEF SessionNext

\* As long as no handler has failed half way, no worker is sent anything about a
\* session that ended (FFGate::cleanup_session, changeSessionLogic).
THEOREM Silence == SessionSpec => EndedSessionsAreSilent
<1>1. GateInv /\ [SessionNext]_sessionVars =>
          [\A w \in Worker : thrown = {} /\ Len(toWorker'[w]) > Len(toWorker[w]) =>
               toWorker'[w][Len(toWorker'[w])].sessionId \in Live \cup Live']_sessionVars
  BY StepIsSilent DEF SilentStep
<1> QED BY <1>1, SessionInvariance, PTL DEF SessionSpec, EndedSessionsAreSilent


-----------------------------------------------------------------------------
(* What the invariant of the gate says. *)

\* The type invariant: among others, as many ids as there are clients suffice.
LEMMA GateInvTypes == GateInv => SessionTypeOK
<1> SUFFICES ASSUME GateInv PROVE SessionTypeOK
  OBVIOUS
<1>1. /\ SocketTypeInv /\ GateTypeInv /\ EntryInv /\ IdInv /\ NetTypeInv /\ MessageInv
      /\ WorkerTypeInv /\ EntityInv
  BY DEF GateInv, GateSide, NetSide, WorkerSide
<1>2. m_allocID \in 0..Cardinality(Client)
  <2>1. Cardinality({c \in Client : sessionId[c] # 0}) <= Cardinality(Client) /\ Cardinality(Client) \in Nat
    BY Names, FS_Subset, FS_CardinalityType
  <2> QED BY <1>1, <2>1 DEF IdInv, GateTypeInv
<1>3. /\ nodeId \in [Worker -> 0 .. NWorker + MaxRestarts]
      /\ m_for_allocID \in NWorker .. NWorker + MaxRestarts
      /\ DOMAIN service2nodeId \subseteq Worker
  BY <1>1 DEF NetTypeInv
<1>4. /\ sock \in [Client -> {"none", "open", "closed"}] /\ num \in [Client -> 0..MaxMsgs]
      /\ \A c \in Client : inbox[c] \in Seq(0..MaxMsgs)
  BY <1>1 DEF SocketTypeInv, Inboxes
<1>5. /\ sessionId \in [Client -> 0..m_allocID] /\ toClient \in [Client -> SUBSET (0..m_allocID)]
      /\ gate \in {"open", "closing", "closed"}
  BY <1>1 DEF GateTypeInv
<1>6. /\ DOMAIN m_client_set \subseteq 1..m_allocID
      /\ \A id \in DOMAIN m_client_set :
             m_client_set[id] \in [sock : Client \cup {NoSock}, allocWorker : Named \cup {NoWorker}]
  BY <1>1 DEF EntryInv
<1>7. requests \in 0..MaxRequests /\ missed \cup asked \subseteq 1..m_allocID
  BY <1>1 DEF WorkerTypeInv, MessageInv
<1>8. ASSUME NEW w \in Worker
      PROVE  /\ DOMAIN m_worker_client[w] \cup DOMAIN served[w] \cup movedAway[w] \subseteq 1..m_allocID
             /\ \A id \in DOMAIN served[w] : served[w][id] \subseteq 1..MaxMsgs
             /\ \A i \in 1..Len(toWorker[w]) : toWorker[w][i].sessionId \in 1..m_allocID
             /\ \A i \in 1..Len(toGate[w]) : toGate[w][i].sessionId \in 0..m_allocID
  <2>1. DOMAIN m_worker_client[w] \subseteq 1..m_allocID
    BY <1>1 DEF EntityInv
  <2>2. DOMAIN served[w] \subseteq 1..m_allocID /\ movedAway[w] \subseteq 1..m_allocID
        /\ \A id \in DOMAIN served[w] : served[w][id] \subseteq 1..MaxMsgs
    BY <1>1 DEF WorkerTypeInv
  <2>3. /\ \A i \in 1..Len(toWorker[w]) : toWorker[w][i].sessionId \in 1..m_allocID
        /\ \A i \in 1..Len(toGate[w]) : toGate[w][i].sessionId \in 0..m_allocID
    BY <1>1 DEF MessageInv, Truthful
  <2> QED BY <2>1, <2>2, <2>3
<1> QED BY <1>2, <1>3, <1>4, <1>5, <1>6, <1>7, <1>8 DEF SessionTypeOK

\* The entity of a session is that of the client whose messages come.
LEMMA GateInvEntities == GateInv => EntitiesAreTheirClients
<1> SUFFICES ASSUME GateInv, NEW w \in Worker, NEW id \in DOMAIN m_worker_client[w]
             PROVE  /\ m_worker_client[w][id] # NoEntity => sessionId[m_worker_client[w][id]] = id
                    /\ \A i \in 1..Len(toWorker[w]) :
                           toWorker[w][i].cmd = "RouteLogicMsgReq" /\ toWorker[w][i].sessionId = id =>
                               m_worker_client[w][id] \in {NoEntity, toWorker[w][i].client}
  BY DEF EntitiesAreTheirClients
<1>1. /\ id \in 1..m_allocID /\ m_worker_client[w][id] \in Client \cup {NoEntity}
      /\ m_worker_client[w][id] # NoEntity => sessionId[m_worker_client[w][id]] = id
  BY DEF GateInv, WorkerSide, EntityInv
<1>2. ASSUME NEW i \in 1..Len(toWorker[w]), toWorker[w][i].cmd = "RouteLogicMsgReq",
             toWorker[w][i].sessionId = id, m_worker_client[w][id] # NoEntity
      PROVE  m_worker_client[w][id] = toWorker[w][i].client
  <2>1. PICK m : m = toWorker[w][i]
    OBVIOUS
  <2>2. m \in ForWorker /\ Truthful(m)
    BY <2>1 DEF GateInv, NetSide, NetTypeInv, MessageInv, Queues
  <2>3. m \in Routes /\ m.client \in Client
    BY <1>2, <2>1, <2>2, MessageKinds
  <2>4. sessionId[m.client] = id
    BY <1>2, <2>1, <2>2, <2>3 DEF Truthful
  <2>5. id # 0 /\ IdInv
    BY <1>1 DEF GateInv, GateSide
  <2> QED BY <1>1, <1>2, <2>1, <2>3, <2>4, <2>5 DEF IdInv
<1> QED BY <1>1, <1>2

-----------------------------------------------------------------------------
(* The order of the messages. *)

\* A task less keeps what is left in order,
LEMMA TailOrdered ==
    ASSUME NEW box \in Seq(0..MaxMsgs), NEW n \in Nat, InboxOrdered(box, n), box # <<>>
    PROVE  /\ InboxOrdered(Tail(box), n) /\ Head(box) <= n
           /\ Head(box) # Broken => Before(Head(box), Tail(box))
           /\ \A k \in Nat : Before(k, box) => Before(k, Tail(box)) /\ (Head(box) # Broken => k < Head(box))
<1>1. /\ Head(box) = box[1] /\ 1 \in 1..Len(box) /\ Tail(box) \in Seq(0..MaxMsgs)
      /\ \A i \in 1..Len(Tail(box)) : i + 1 \in 1..Len(box) /\ Tail(box)[i] = box[i + 1] /\ 1 < i + 1
      /\ \A i, j \in 1..Len(Tail(box)) : i < j => i + 1 < j + 1
  OBVIOUS
<1>2. InboxOrdered(Tail(box), n)
  BY <1>1 DEF InboxOrdered
<1>3. Head(box) <= n
  BY <1>1 DEF InboxOrdered
<1>4. Head(box) # Broken => Before(Head(box), Tail(box))
  BY <1>1 DEF InboxOrdered, Before
<1>5. ASSUME NEW k \in Nat, Before(k, box)
      PROVE  Before(k, Tail(box)) /\ (Head(box) # Broken => k < Head(box))
  BY <1>1, <1>5 DEF Before
<1> QED BY <1>2, <1>3, <1>4, <1>5

\* and one more does when it is the last.
LEMMA AppendOrdered ==
    ASSUME NEW box \in Seq(0..MaxMsgs), NEW n \in Nat, InboxOrdered(box, n),
           \A i \in 1..Len(box) : box[i] # Broken, NEW x \in 0..MaxMsgs, NEW new \in Nat,
           (x = Broken /\ new = n) \/ (x = n + 1 /\ new = n + 1)
    PROVE  /\ InboxOrdered(Append(box, x), new)
           /\ \A k \in Nat : k <= n /\ Before(k, box) => k <= new /\ Before(k, Append(box, x))
<1>1. /\ Len(Append(box, x)) = Len(box) + 1 /\ Append(box, x)[Len(box) + 1] = x /\ Len(box) \in Nat
      /\ \A i \in 1..Len(box) : Append(box, x)[i] = box[i] /\ box[i] \in 0..MaxMsgs /\ box[i] <= n
      /\ MaxMsgs \in Nat
  BY Names DEF InboxOrdered
<1>2. \A i \in 1..Len(box) + 1 : i \in 1..Len(box) \/ i = Len(box) + 1
  BY <1>1
<1>3. n <= new /\ x <= new /\ (x = Broken \/ n < x)
  BY DEF Broken
<1>4. \A i \in 1..Len(Append(box, x)) : Append(box, x)[i] <= new
  BY <1>1, <1>2, <1>3
<1>5. ASSUME NEW i \in 1..Len(Append(box, x)), NEW j \in 1..Len(Append(box, x)), i < j
      PROVE  /\ Append(box, x)[i] # Broken
             /\ Append(box, x)[j] = Broken \/ Append(box, x)[i] < Append(box, x)[j]
  <2>1. i \in 1..Len(box)
    BY <1>1, <1>2, <1>5
  <2>2. CASE j \in 1..Len(box)
    BY <1>1, <1>5, <2>1, <2>2 DEF InboxOrdered
  <2>3. CASE j = Len(box) + 1
    <3>1. Append(box, x)[j] = x /\ Append(box, x)[i] = box[i] /\ box[i] <= n /\ box[i] # Broken
      BY <1>1, <2>1, <2>3
    <3> QED BY <1>1, <1>3, <2>1, <3>1
  <2> QED BY <1>1, <1>2, <2>2, <2>3
<1>6. ASSUME NEW k \in Nat, k <= n, Before(k, box) PROVE k <= new /\ Before(k, Append(box, x))
  <2>1. k <= new
    BY <1>3, <1>6
  <2>2. ASSUME NEW i \in 1..Len(Append(box, x)) PROVE Append(box, x)[i] = Broken \/ k < Append(box, x)[i]
    <3>1. CASE i \in 1..Len(box)
      BY <1>1, <1>6, <3>1 DEF Before
    <3>2. CASE i = Len(box) + 1
      BY <1>1, <1>3, <1>6, <3>2
    <3> QED BY <1>1, <1>2, <3>1, <3>2
  <2> QED BY <2>1, <2>2 DEF Before
<1> QED BY <1>4, <1>5, <1>6 DEF InboxOrdered


\* The inboxes stay in order, and what came before them still does.
Advances == \A c \in Client :
                /\ InboxOrdered(inbox'[c], num'[c])
                /\ \A k \in Nat : k <= num[c] /\ Before(k, inbox[c]) => k <= num'[c] /\ Before(k, inbox'[c])

\* Only the next id is handed out.
Numbers == \A c \in Client : sessionId'[c] = sessionId[c] \/ sessionId'[c] = m_allocID + 1

\* What a routed message and what a served one says.
LEMMA OrderTypes ==
    ASSUME GateInv
    PROVE  /\ \A w \in Worker : /\ toWorker[w] \in Seq(ForWorker)
                                /\ \A i \in 1..Len(toWorker[w]) : /\ toWorker[w][i] \in ForWorker
                                                                  /\ Truthful(toWorker[w][i])
           /\ \A w \in Worker : \A id \in DOMAIN served[w] :
                  id \in 1..m_allocID /\ \A n \in served[w][id] : n \in Nat
           /\ m_allocID \in Nat
           /\ \A c \in Client : inbox[c] \in Seq(0..MaxMsgs) /\ num[c] \in Nat /\ sessionId[c] \in 0..m_allocID
<1>1. \A w \in Worker : toWorker[w] \in Seq(ForWorker)
  BY DEF GateInv, NetSide, NetTypeInv, Queues
<1>2. \A w \in Worker : \A i \in 1..Len(toWorker[w]) : toWorker[w][i] \in ForWorker /\ Truthful(toWorker[w][i])
  BY <1>1 DEF GateInv, NetSide, MessageInv
<1>3. \A w \in Worker : \A id \in DOMAIN served[w] : id \in 1..m_allocID /\ \A n \in served[w][id] : n \in Nat
  BY Names DEF GateInv, WorkerSide, WorkerTypeInv
<1>4. /\ m_allocID \in Nat
      /\ \A c \in Client : inbox[c] \in Seq(0..MaxMsgs) /\ num[c] \in Nat /\ sessionId[c] \in 0..m_allocID
  BY Names DEF GateInv, GateSide, GateTypeInv, SocketTypeInv, Inboxes
<1> QED BY <1>1, <1>2, <1>3, <1>4

\* Messages that only go keep the order,
LEMMA OrderKept ==
    ASSUME GateInv, OrderInv, Advances, Numbers,
           \A w \in Worker : \/ toWorker'[w] = toWorker[w] \/ CutTo(toWorker[w], toWorker'[w])
                             \/ toWorker[w] # <<>> /\ toWorker'[w] = Tail(toWorker[w]),
           \A w \in Worker : \A id \in DOMAIN served'[w] :
               id \in DOMAIN served[w] /\ served'[w][id] = served[w][id]
    PROVE  OrderInv'
<1> DEFINE sh(w) == IF CutTo(toWorker[w], toWorker'[w]) THEN 0 ELSE 1
<1>1. ASSUME NEW w \in Worker, NEW i \in 1..Len(toWorker'[w])
      PROVE  i + sh(w) \in 1..Len(toWorker[w]) /\ toWorker'[w][i] = toWorker[w][i + sh(w)]
  <2>1. toWorker[w] \in Seq(ForWorker) /\ Len(toWorker[w]) \in Nat
    BY OrderTypes
  <2>2. CASE CutTo(toWorker[w], toWorker'[w])
    BY <2>1, <2>2 DEF CutTo
  <2>3. CASE ~CutTo(toWorker[w], toWorker'[w]) /\ toWorker[w] # <<>> /\ toWorker'[w] = Tail(toWorker[w])
    BY <2>1, <2>3
  <2>4. toWorker'[w] = toWorker[w] => CutTo(toWorker[w], toWorker'[w])
    BY <2>1 DEF CutTo
  <2> QED BY <2>2, <2>3, <2>4
<1>2. \A w \in Worker : sh(w) \in {0, 1}
  OBVIOUS
<1> HIDE DEF sh
<1>3. InboxesInOrder'
  BY DEF Advances, InboxesInOrder
<1>4. RoutedFirst'
  <2> SUFFICES ASSUME NEW w \in Worker, NEW i \in 1..Len(toWorker'[w]), toWorker'[w][i] \in Routes
               PROVE  /\ toWorker'[w][i].num <= num'[toWorker'[w][i].client]
                      /\ Before(toWorker'[w][i].num, inbox'[toWorker'[w][i].client])
    BY DEF RoutedFirst, Before
  <2>1. PICK m : m = toWorker'[w][i]
    OBVIOUS
  <2>2. PICK j \in 1..Len(toWorker[w]) : m = toWorker[w][j]
    BY <1>1, <2>1
  <2>3. m \in Routes /\ m.num \in Nat /\ m.client \in Client
    BY <2>1, <2>2, OrderTypes, MessageKinds
  <2>4. m.num <= num[m.client] /\ Before(m.num, inbox[m.client])
    BY <2>2, <2>3 DEF OrderInv, RoutedFirst
  <2> QED BY <2>1, <2>3, <2>4 DEF Advances
<1>5. RoutedInOrder'
  <2> SUFFICES ASSUME NEW w \in Worker, NEW i \in 1..Len(toWorker'[w]), NEW j \in 1..Len(toWorker'[w]),
                      i < j, toWorker'[w][i] \in Routes, toWorker'[w][j] \in Routes,
                      toWorker'[w][i].sessionId = toWorker'[w][j].sessionId
               PROVE  toWorker'[w][i].num < toWorker'[w][j].num
    BY DEF RoutedInOrder
  <2>1. PICK k \in {0, 1} : k = sh(w)
    BY <1>2
  <2>2. /\ i + k \in 1..Len(toWorker[w]) /\ j + k \in 1..Len(toWorker[w])
        /\ toWorker'[w][i] = toWorker[w][i + k] /\ toWorker'[w][j] = toWorker[w][j + k] /\ i + k < j + k
    BY <1>1, <2>1
  <2> QED BY <2>2 DEF OrderInv, RoutedInOrder
<1>6. ServedFirst'
  <2> SUFFICES ASSUME NEW w \in Worker, NEW id \in DOMAIN served'[w], NEW n \in served'[w][id]
               PROVE  /\ \A c \in Client : sessionId'[c] = id => n <= num'[c] /\ Before(n, inbox'[c])
                      /\ \A i \in 1..Len(toWorker'[w]) :
                             toWorker'[w][i] \in Routes /\ toWorker'[w][i].sessionId = id =>
                                 n < toWorker'[w][i].num
    BY DEF ServedFirst, Before
  <2>1. id \in DOMAIN served[w] /\ n \in served[w][id] /\ id \in 1..m_allocID /\ n \in Nat /\ m_allocID \in Nat
    BY OrderTypes
  <2>2. \A c \in Client : sessionId'[c] = id => sessionId[c] = id
    BY <2>1 DEF Numbers
  <2>3. \A c \in Client : sessionId'[c] = id => n <= num'[c] /\ Before(n, inbox'[c])
    BY <2>1, <2>2 DEF Advances, OrderInv, ServedFirst
  <2>4. \A i \in 1..Len(toWorker'[w]) :
            toWorker'[w][i] \in Routes /\ toWorker'[w][i].sessionId = id => n < toWorker'[w][i].num
    <3> SUFFICES ASSUME NEW i \in 1..Len(toWorker'[w]),
                        toWorker'[w][i] \in Routes, toWorker'[w][i].sessionId = id
                 PROVE  n < toWorker'[w][i].num
      OBVIOUS
    <3>1. PICK j \in 1..Len(toWorker[w]) : toWorker'[w][i] = toWorker[w][j]
      BY <1>1
    <3> QED BY <2>1, <3>1 DEF OrderInv, ServedFirst
  <2> QED BY <2>3, <2>4
<1> QED BY <1>3, <1>4, <1>5, <1>6 DEF OrderInv


\* so does one that is sent after all of its session,
LEMMA OrderSent ==
    ASSUME GateInv, OrderInv, Advances, Numbers, served' = served,
           NEW w, NEW m \in ForWorker, Arrives(w, m),
           m \in Routes => /\ m.num <= num'[m.client] /\ Before(m.num, inbox'[m.client])
                           /\ \A v \in Worker : \A i \in 1..Len(toWorker[v]) :
                                  toWorker[v][i] \in Routes /\ toWorker[v][i].sessionId = m.sessionId =>
                                      toWorker[v][i].num < m.num
                           /\ \A v \in Worker : \A id \in DOMAIN served[v] : \A n \in served[v][id] :
                                  id = m.sessionId => n < m.num
    PROVE  OrderInv'
<1>1. ASSUME NEW v \in Worker
      PROVE  /\ toWorker[v] \in Seq(ForWorker) /\ Len(toWorker[v]) \in Nat
             /\ \A i \in 1..Len(toWorker'[v]) :
                    \/ i \in 1..Len(toWorker[v]) /\ toWorker'[v][i] = toWorker[v][i]
                    \/ i = Len(toWorker[v]) + 1 /\ toWorker'[v][i] = m
  <2>1. toWorker[v] \in Seq(ForWorker) /\ Len(toWorker[v]) \in Nat
    BY OrderTypes
  <2>2. toWorker'[v] = toWorker[v] \/ toWorker'[v] = Append(toWorker[v], m)
    BY DEF Arrives
  <2> QED BY <2>1, <2>2
<1>2. InboxesInOrder'
  BY DEF Advances, InboxesInOrder
<1>3. RoutedFirst'
  <2> SUFFICES ASSUME NEW v \in Worker, NEW i \in 1..Len(toWorker'[v]), toWorker'[v][i] \in Routes
               PROVE  /\ toWorker'[v][i].num <= num'[toWorker'[v][i].client]
                      /\ Before(toWorker'[v][i].num, inbox'[toWorker'[v][i].client])
    BY DEF RoutedFirst, Before
  <2>1. PICK x : x = toWorker'[v][i]
    OBVIOUS
  <2>2. CASE i \in 1..Len(toWorker[v]) /\ x = toWorker[v][i]
    <3>1. x \in Routes /\ x.num \in Nat /\ x.client \in Client
      BY <2>1, <2>2, OrderTypes, MessageKinds
    <3>2. x.num <= num[x.client] /\ Before(x.num, inbox[x.client])
      BY <2>2, <3>1 DEF OrderInv, RoutedFirst
    <3> QED BY <2>1, <3>1, <3>2 DEF Advances
  <2>3. CASE x = m
    BY <2>1, <2>3
  <2> QED BY <1>1, <2>1, <2>2, <2>3
<1>4. RoutedInOrder'
  <2> SUFFICES ASSUME NEW v \in Worker, NEW i \in 1..Len(toWorker'[v]), NEW j \in 1..Len(toWorker'[v]),
                      i < j, toWorker'[v][i] \in Routes, toWorker'[v][j] \in Routes,
                      toWorker'[v][i].sessionId = toWorker'[v][j].sessionId
               PROVE  toWorker'[v][i].num < toWorker'[v][j].num
    BY DEF RoutedInOrder
  <2>1. i \in 1..Len(toWorker[v]) /\ toWorker'[v][i] = toWorker[v][i]
    BY <1>1
  <2>2. CASE j \in 1..Len(toWorker[v]) /\ toWorker'[v][j] = toWorker[v][j]
    BY <2>1, <2>2 DEF OrderInv, RoutedInOrder
  <2>3. CASE toWorker'[v][j] = m
    BY <2>1, <2>3
  <2> QED BY <1>1, <2>2, <2>3
<1>5. ServedFirst'
  <2> SUFFICES ASSUME NEW v \in Worker, NEW id \in DOMAIN served[v], NEW n \in served[v][id]
               PROVE  /\ \A c \in Client : sessionId'[c] = id => n <= num'[c] /\ Before(n, inbox'[c])
                      /\ \A i \in 1..Len(toWorker'[v]) :
                             toWorker'[v][i] \in Routes /\ toWorker'[v][i].sessionId = id =>
                                 n < toWorker'[v][i].num
    BY DEF ServedFirst, Before
  <2>1. id \in 1..m_allocID /\ n \in Nat /\ m_allocID \in Nat
    BY OrderTypes
  <2>2. \A c \in Client : sessionId'[c] = id => sessionId[c] = id
    BY <2>1 DEF Numbers
  <2>3. \A c \in Client : sessionId'[c] = id => n <= num'[c] /\ Before(n, inbox'[c])
    BY <2>1, <2>2 DEF Advances, OrderInv, ServedFirst
  <2>4. ASSUME NEW i \in 1..Len(toWorker'[v]), toWorker'[v][i] \in Routes, toWorker'[v][i].sessionId = id
        PROVE  n < toWorker'[v][i].num
    <3>1. CASE i \in 1..Len(toWorker[v]) /\ toWorker'[v][i] = toWorker[v][i]
      BY <2>4, <3>1 DEF OrderInv, ServedFirst
    <3>2. CASE toWorker'[v][i] = m
      BY <2>4, <3>2
    <3> QED BY <1>1, <3>1, <3>2
  <2> QED BY <2>3, <2>4
<1> QED BY <1>2, <1>3, <1>4, <1>5 DEF OrderInv

\* and the one that is served next.
LEMMA OrderServed ==
    ASSUME GateInv, OrderInv, NEW w \in Worker, processSessionReq(w), UNCHANGED <<socketVars, gateVars>>
    PROVE  /\ OrderInv'
           /\ \A v \in Worker : \A id \in DOMAIN served[v] \cap DOMAIN served'[v] :
                  \A n \in served'[v][id] \ served[v][id] : \A k \in served[v][id] : k < n
<1>1. PICK msg : msg = Head(toWorker[w])
  OBVIOUS
<1>2. PICK cmd : cmd = "RouteLogicMsgReq"
  OBVIOUS
<1>3. /\ Received(w, cmd)
      /\ served' = [served EXCEPT ![w] = Insert(@, msg.sessionId,
                       (IF msg.sessionId \in DOMAIN @ THEN @[msg.sessionId] ELSE {}) \cup {msg.num})]
      /\ DOMAIN served = Worker
  BY <1>1, <1>2 DEF processSessionReq, GateInv, WorkerSide, WorkerTypeInv
<1>4. /\ msg \in ForWorker /\ Truthful(msg) /\ msg.cmd = cmd /\ msg = toWorker[w][1] /\ 1 \in 1..Len(toWorker[w])
      /\ toWorker[w] # <<>> /\ toWorker'[w] = Tail(toWorker[w])
      /\ \A v \in Worker : v # w => toWorker'[v] = toWorker[v]
  BY <1>1, <1>3, MessageTaken
<1>5. msg \in Routes /\ msg.num \in Nat /\ msg.client \in Client /\ sessionId[msg.client] = msg.sessionId
      /\ msg.sessionId \in 1..m_allocID
  BY <1>2, <1>4, MessageKinds DEF Truthful
<1>6. PICK sid : sid = msg.sessionId
  OBVIOUS
<1>7. /\ \A v \in Worker : v # w => served'[v] = served[v]
      /\ DOMAIN served'[w] = DOMAIN served[w] \cup {sid}
      /\ \A x \in DOMAIN served[w] : x # sid => served'[w][x] = served[w][x]
      /\ served'[w][sid] = (IF sid \in DOMAIN served[w] THEN served[w][sid] ELSE {}) \cup {msg.num}
  BY <1>3, <1>6 DEF Insert
<1>8. \A v \in Worker : \A id \in DOMAIN served'[v] : \A n \in served'[v][id] :
          \/ id \in DOMAIN served[v] /\ n \in served[v][id]
          \/ v = w /\ id = sid /\ n = msg.num
  BY <1>7
<1>9. UNCHANGED <<inbox, num, sessionId>>
  BY DEF socketVars, gateVars
<1>10. ASSUME NEW v \in Worker, NEW i \in 1..Len(toWorker'[v])
       PROVE  \E j \in 1..Len(toWorker[v]) :
                  toWorker'[v][i] = toWorker[v][j] /\ (v = w => j > 1 /\ j = i + 1) /\ (v # w => j = i)
  <2>1. toWorker[v] \in Seq(ForWorker)
    BY OrderTypes
  <2>2. CASE v = w
    <3>1. PICK q \in Seq(ForWorker) : q = toWorker[w] /\ q # <<>> /\ toWorker'[w] = Tail(q)
      BY <1>4, <2>1, <2>2
    <3>2. i \in 1..Len(Tail(q))
      BY <2>2, <3>1
    <3>3. i + 1 \in 1..Len(q) /\ Tail(q)[i] = q[i + 1] /\ i + 1 > 1
      BY <3>1, <3>2
    <3> QED BY <2>2, <3>1, <3>3
  <2>3. CASE v # w
    BY <1>4, <2>3
  <2> QED BY <2>2, <2>3
<1>11. InboxesInOrder'
  BY <1>9 DEF OrderInv, InboxesInOrder
<1>12. RoutedFirst'
  <2> SUFFICES ASSUME NEW v \in Worker, NEW i \in 1..Len(toWorker'[v]), toWorker'[v][i] \in Routes
               PROVE  /\ toWorker'[v][i].num <= num[toWorker'[v][i].client]
                      /\ Before(toWorker'[v][i].num, inbox[toWorker'[v][i].client])
    BY <1>9 DEF RoutedFirst, Before
  <2>1. PICK j \in 1..Len(toWorker[v]) : toWorker'[v][i] = toWorker[v][j]
    BY <1>10
  <2> QED BY <2>1 DEF OrderInv, RoutedFirst
<1>13. RoutedInOrder'
  <2> SUFFICES ASSUME NEW v \in Worker, NEW i \in 1..Len(toWorker'[v]), NEW j \in 1..Len(toWorker'[v]),
                      i < j, toWorker'[v][i] \in Routes, toWorker'[v][j] \in Routes,
                      toWorker'[v][i].sessionId = toWorker'[v][j].sessionId
               PROVE  toWorker'[v][i].num < toWorker'[v][j].num
    BY DEF RoutedInOrder
  <2>1. PICK a \in 1..Len(toWorker[v]) :
            toWorker'[v][i] = toWorker[v][a] /\ (v = w => a > 1 /\ a = i + 1) /\ (v # w => a = i)
    BY <1>10
  <2>2. PICK b \in 1..Len(toWorker[v]) :
            toWorker'[v][j] = toWorker[v][b] /\ (v = w => b > 1 /\ b = j + 1) /\ (v # w => b = j)
    BY <1>10
  <2>3. a < b
    BY <2>1, <2>2
  <2> QED BY <2>1, <2>2, <2>3 DEF OrderInv, RoutedInOrder
<1>14. ServedFirst'
  <2> SUFFICES ASSUME NEW v \in Worker, NEW id \in DOMAIN served'[v], NEW n \in served'[v][id]
               PROVE  /\ \A c \in Client : sessionId[c] = id => n <= num[c] /\ Before(n, inbox[c])
                      /\ \A i \in 1..Len(toWorker'[v]) :
                             toWorker'[v][i] \in Routes /\ toWorker'[v][i].sessionId = id =>
                                 n < toWorker'[v][i].num
    BY <1>9 DEF ServedFirst, Before
  <2>1. CASE id \in DOMAIN served[v] /\ n \in served[v][id]
    <3>1. \A i \in 1..Len(toWorker[v]) :
              toWorker[v][i] \in Routes /\ toWorker[v][i].sessionId = id => n < toWorker[v][i].num
      BY <2>1 DEF OrderInv, ServedFirst
    <3>2. ASSUME NEW i \in 1..Len(toWorker'[v]), toWorker'[v][i] \in Routes, toWorker'[v][i].sessionId = id
          PROVE  n < toWorker'[v][i].num
      <4>1. PICK j \in 1..Len(toWorker[v]) : toWorker'[v][i] = toWorker[v][j]
        BY <1>10
      <4> QED BY <3>1, <3>2, <4>1
    <3>3. \A c \in Client : sessionId[c] = id => n <= num[c] /\ Before(n, inbox[c])
      BY <2>1 DEF OrderInv, ServedFirst
    <3> QED BY <3>2, <3>3
  <2>2. CASE v = w /\ id = sid /\ n = msg.num
    <3>1. ASSUME NEW c \in Client, sessionId[c] = id PROVE n <= num[c] /\ Before(n, inbox[c])
      <4>1. c = msg.client
        BY <1>5, <1>6, <2>2, <3>1 DEF GateInv, GateSide, GateTypeInv, IdInv
      <4> QED BY <1>4, <1>5, <2>2, <4>1 DEF OrderInv, RoutedFirst
    <3>2. ASSUME NEW i \in 1..Len(toWorker'[v]), toWorker'[v][i] \in Routes, toWorker'[v][i].sessionId = id
          PROVE  n < toWorker'[v][i].num
      <4>1. PICK j \in 1..Len(toWorker[v]) : toWorker'[v][i] = toWorker[v][j] /\ (v = w => j > 1)
        BY <1>10
      <4>2. 1 \in 1..Len(toWorker[v]) /\ 1 < j
        BY <1>4, <2>2, <4>1
      <4>3. toWorker[v][1] = msg /\ msg \in Routes /\ msg.sessionId = id
        BY <1>4, <1>5, <1>6, <2>2
      <4> QED BY <2>2, <3>2, <4>1, <4>2, <4>3 DEF OrderInv, RoutedInOrder
    <3> QED BY <3>1, <3>2
  <2> QED BY <1>8, <2>1, <2>2
<1>15. ASSUME NEW v \in Worker, NEW id \in DOMAIN served[v] \cap DOMAIN served'[v],
              NEW n \in served'[v][id] \ served[v][id], NEW k \in served[v][id]
       PROVE  k < n
  <2>1. v = w /\ id = sid /\ n = msg.num
    BY <1>8
  <2> QED BY <1>4, <1>5, <1>6, <2>1 DEF OrderInv, ServedFirst
<1> QED BY <1>11, <1>12, <1>13, <1>14, <1>15 DEF OrderInv


\* Closed sockets leave the inboxes in order,
LEMMA SocksAdvance ==
    ASSUME GateInv, OrderInv, NEW S, CloseSocks(S)
    PROVE  Advances
<1>1. /\ num' = num
      /\ \A c \in Client : \/ inbox'[c] = inbox[c]
                           \/ sock[c] = "open" /\ inbox'[c] = Append(inbox[c], Broken)
  BY DEF CloseSocks
<1> SUFFICES ASSUME NEW c \in Client
             PROVE  /\ InboxOrdered(inbox'[c], num'[c])
                    /\ \A k \in Nat : k <= num[c] /\ Before(k, inbox[c]) => k <= num'[c] /\ Before(k, inbox'[c])
  BY DEF Advances
<1>2. InboxOrdered(inbox[c], num[c]) /\ inbox[c] \in Seq(0..MaxMsgs) /\ num[c] \in Nat
  BY OrderTypes DEF OrderInv, InboxesInOrder
<1>3. CASE inbox'[c] = inbox[c]
  BY <1>1, <1>2, <1>3
<1>4. CASE sock[c] = "open" /\ inbox'[c] = Append(inbox[c], Broken)
  <2>1. \A i \in 1..Len(inbox[c]) : inbox[c][i] # Broken
    BY <1>4 DEF GateInv, GateSide, BrokenInv
  <2>2. PICK x \in 0..MaxMsgs : x = Broken
    BY Names DEF Broken
  <2>3. PICK n \in Nat : n = num[c]
    BY <1>2
  <2>4. PICK box \in Seq(0..MaxMsgs) : box = inbox[c]
    BY <1>2
  <2>5. PICK new \in Nat : new = n
    OBVIOUS
  <2>6. InboxOrdered(box, n) /\ \A i \in 1..Len(box) : box[i] # Broken
    BY <1>2, <2>1, <2>3, <2>4
  <2>7. /\ InboxOrdered(Append(box, x), new)
        /\ \A k \in Nat : k <= n /\ Before(k, box) => k <= new /\ Before(k, Append(box, x))
    <3>1. x \in 0..MaxMsgs /\ ((x = Broken /\ new = n) \/ (x = n + 1 /\ new = n + 1))
      BY <2>2, <2>5
    <3> HIDE <2>2, <2>5
    <3> QED BY <2>6, <3>1, AppendOrdered, Zenon
  <2> QED BY <1>1, <1>4, <2>2, <2>3, <2>4, <2>5, <2>7
<1> QED BY <1>1, <1>3, <1>4

\* so does what clients do,
LEMMA ClientsAdvance ==
    ASSUME GateInv, OrderInv, ClientSteps
    PROVE  Advances
<1>0. ASSUME UNCHANGED <<inbox, num>> PROVE Advances
  BY <1>0 DEF Advances, OrderInv, InboxesInOrder
<1>1. PICK c \in Client : Connect(c) \/ Send(c) \/ Disconnect(c)
  BY DEF ClientSteps
<1>2. CASE Connect(c)
  BY <1>0, <1>2 DEF Connect
<1>3. CASE Disconnect(c)
  BY <1>3, SocksAdvance DEF Disconnect
<1>4. CASE Send(c)
  <2>1. /\ num \in [Client -> 0..MaxMsgs] /\ inbox \in [Client -> Seq(0..MaxMsgs)]
        /\ InboxOrdered(inbox[c], num[c])
        /\ \A i \in 1..Len(inbox[c]) : inbox[c][i] # Broken
    BY <1>4 DEF Send, GateInv, GateSide, SocketTypeInv, Inboxes, BrokenInv, OrderInv, InboxesInOrder
  <2>2. num[c] < MaxMsgs /\ num' = [num EXCEPT ![c] = @ + 1] /\ inbox' = [inbox EXCEPT ![c] = Append(@, num'[c])]
    BY <1>4 DEF Send
  <2>3. PICK n \in Nat : n = num[c]
    BY <2>1, Names
  <2>4. n + 1 \in 0..MaxMsgs /\ n + 1 \in Nat
    BY <2>1, <2>2, <2>3, Names
  <2>5. /\ InboxOrdered(Append(inbox[c], n + 1), n + 1)
        /\ \A k \in Nat : k <= n /\ Before(k, inbox[c]) => k <= n + 1 /\ Before(k, Append(inbox[c], n + 1))
    BY <2>1, <2>3, <2>4, AppendOrdered
  <2>6. /\ num'[c] = n + 1 /\ inbox'[c] = Append(inbox[c], n + 1)
        /\ \A d \in Client : d # c => num'[d] = num[d] /\ inbox'[d] = inbox[d]
    BY <2>1, <2>2, <2>3
  <2>7. \A d \in Client : d # c => InboxOrdered(inbox[d], num[d])
    BY DEF OrderInv, InboxesInOrder
  <2> QED BY <2>3, <2>5, <2>6, <2>7 DEF Advances
<1> QED BY <1>1, <1>2, <1>3, <1>4

\* and so does a task that is taken.
LEMMA TaskAdvances ==
    ASSUME GateInv, OrderInv, NEW c \in Client, Handled(c), inbox[c] # <<>>
    PROVE  /\ Advances
           /\ \A n : n = Head(inbox[c]) /\ n # Broken =>
                  /\ n \in Nat /\ n <= num'[c] /\ Before(n, inbox'[c])
                  /\ \A k \in Nat : Before(k, inbox[c]) => k < n
<1>1. /\ inbox \in [Client -> Seq(0..MaxMsgs)] /\ num[c] \in Nat /\ num' = num
      /\ inbox' = [inbox EXCEPT ![c] = Tail(@)] /\ InboxOrdered(inbox[c], num[c])
  BY OrderTypes DEF GateInv, GateSide, SocketTypeInv, Inboxes, OrderInv, InboxesInOrder, Handled
<1>2. PICK box \in Seq(0..MaxMsgs) : box = inbox[c] /\ box # <<>>
  BY <1>1
<1>3. PICK n \in Nat : n = num[c]
  BY <1>1
<1>4. /\ InboxOrdered(Tail(box), n) /\ Head(box) <= n
      /\ Head(box) # Broken => Before(Head(box), Tail(box))
      /\ \A k \in Nat : Before(k, box) => Before(k, Tail(box)) /\ (Head(box) # Broken => k < Head(box))
  BY <1>1, <1>2, <1>3, TailOrdered
<1>5. Head(box) \in Nat
  <2>1. 1 \in 1..Len(box) /\ Head(box) = box[1]
    BY <1>2
  <2> QED BY <2>1, Names
<1>6. inbox'[c] = Tail(box) /\ \A d \in Client : d # c => inbox'[d] = inbox[d]
  BY <1>1, <1>2
<1>7. Advances
  <2>1. \A d \in Client : d # c => InboxOrdered(inbox[d], num[d])
    BY DEF OrderInv, InboxesInOrder
  <2> QED BY <1>1, <1>2, <1>3, <1>4, <1>6, <2>1 DEF Advances
<1>8. \A k : k = Head(inbox[c]) => k = Head(box)
  BY <1>2
<1> QED BY <1>1, <1>2, <1>3, <1>4, <1>5, <1>6, <1>7, <1>8

\* A message of a client keeps the order when the gate handles it.
LEMMA handleMsgOrders ==
    ASSUME GateInv, OrderInv, NEW c \in Client, handleMsg(c), UNCHANGED workerVars
    PROVE  OrderInv'
<1>1. PICK n : n = Head(inbox[c])
  OBVIOUS
<1>2. /\ Advances /\ n \in Nat /\ n <= num'[c] /\ Before(n, inbox'[c])
      /\ \A k \in Nat : Before(k, inbox[c]) => k < n
  BY <1>1, TaskAdvances, handleMsgIs
<1>3. served' = served /\ sessionId \in [Client -> 0..m_allocID] /\ m_allocID \in Nat /\ NetTypeInv
  BY DEF workerVars, GateInv, GateSide, GateTypeInv, NetSide
<1>4. ASSUME NEW w \in Worker, SessionStarts(c, m_allocID + 1, w) PROVE OrderInv'
  <2>1. PICK id \in Nat : id = m_allocID + 1
    BY <1>3
  <2>2. PICK m : m = RouteLogicMsgReq(id, c, n, TRUE)
    OBVIOUS
  <2>3. m \in ForWorker /\ m.sessionId = id /\ m.client = c /\ m.num = n
    BY <1>2, <2>2 DEF ForWorker, Routes, RouteLogicMsgReq
  <2>4. toWorker' = asyncCall(w, m) /\ sessionId' = [sessionId EXCEPT ![c] = id]
    BY <1>1, <1>4, <2>1, <2>2 DEF SessionStarts
  <2>5. Arrives(w, m)
    BY <1>3, <2>3, <2>4, AsyncArrives
  <2>6. Numbers
    BY <1>3, <2>1, <2>4 DEF Numbers
  <2>7. \A v \in Worker : \A i \in 1..Len(toWorker[v]) : toWorker[v][i].sessionId # id
    BY <1>3, <2>1, OrderTypes DEF Truthful
  <2>8. \A v \in Worker : id \notin DOMAIN served[v]
    BY <1>3, <2>1, OrderTypes
  <2> QED BY <1>2, <1>3, <2>3, <2>5, <2>6, <2>7, <2>8, OrderSent
<1>5. ASSUME NEW w \in Named \cup {NoWorker}, MessageGoesOn(c, w) PROVE OrderInv'
  <2>1. PICK id \in Nat : id = sessionId[c] /\ id # 0
    BY <1>3, <1>5 DEF MessageGoesOn
  <2>2. PICK m : m = RouteLogicMsgReq(id, c, n, FALSE)
    OBVIOUS
  <2>3. m \in ForWorker /\ m.sessionId = id /\ m.client = c /\ m.num = n
    BY <1>2, <2>1, <2>2 DEF ForWorker, Routes, RouteLogicMsgReq
  <2>4. toWorker' = asyncCall(w, m) /\ sessionId' = sessionId
    BY <1>1, <1>5, <2>1, <2>2 DEF MessageGoesOn
  <2>5. Arrives(w, m)
    BY <1>3, <2>3, <2>4, AsyncArrives
  <2>6. Numbers
    BY <2>4 DEF Numbers
  <2>7. ASSUME NEW v \in Worker, NEW i \in 1..Len(toWorker[v]), toWorker[v][i] \in Routes,
               toWorker[v][i].sessionId = id
        PROVE  toWorker[v][i].num < n
    <3>1. PICK x : x = toWorker[v][i]
      OBVIOUS
    <3>2. x \in Routes /\ x.client \in Client /\ x.num \in Nat /\ sessionId[x.client] = id
      BY <2>7, <3>1, OrderTypes, MessageKinds DEF Truthful
    <3>3. x.client = c
      BY <2>1, <3>2 DEF GateInv, GateSide, IdInv
    <3>4. Before(x.num, inbox[c])
      BY <3>1, <3>2, <3>3 DEF OrderInv, RoutedFirst
    <3> QED BY <1>2, <3>1, <3>2, <3>4
  <2>8. ASSUME NEW v \in Worker, NEW x \in DOMAIN served[v], NEW k \in served[v][x], x = id
        PROVE  k < n
    <3>1. k \in Nat /\ Before(k, inbox[c])
      BY <2>1, <2>8, OrderTypes DEF OrderInv, ServedFirst
    <3> QED BY <1>2, <3>1
  <2> QED BY <1>2, <1>3, <2>3, <2>5, <2>6, <2>7, <2>8, OrderSent
<1>6. CASE MessageRefused(c)
  <2>1. toWorker' = toWorker /\ sessionId' = sessionId
    BY <1>6 DEF MessageRefused, sessionNetVars
  <2> QED BY <1>2, <1>3, <2>1, OrderKept DEF Numbers
<1> QED BY <1>4, <1>5, <1>6, handleMsgIs

\* Any other step of the gate keeps it too,
LEMMA GateOrders ==
    ASSUME GateInv, OrderInv, GateSteps \/ close_impl \/ queueClosed, UNCHANGED workerVars
    PROVE  OrderInv'
<1>1. served' = served /\ NetTypeInv
  BY DEF workerVars, GateInv, NetSide
<1>2. ASSUME UNCHANGED <<inbox, num>> PROVE Advances
  BY <1>2 DEF Advances, OrderInv, InboxesInOrder
<1>3. ASSUME sessionId' = sessionId PROVE Numbers
  BY <1>3 DEF Numbers
<1>4. ASSUME NEW c \in Client, handleBroken(c) PROVE OrderInv'
  <2>1. Advances
    BY <1>4, TaskAdvances, handleBrokenIs
  <2>2. Numbers
    BY <1>3, <1>4 DEF handleBroken
  <2>3. CASE toWorker' = toWorker
    BY <1>1, <2>1, <2>2, <2>3, OrderKept
  <2>4. ASSUME NEW id \in Live, NEW w \in Named, SessionEnds(c, id, w) PROVE OrderInv'
    <3>1. PICK m : m = SessionOfflineReq(id)
      OBVIOUS
    <3>2. id \in Nat
      BY DEF GateInv, GateSide, GateTypeInv, EntryInv, Live
    <3>3. m \in ForWorker /\ m \notin Routes
      BY <3>1, <3>2, MadeOf, MessageKinds DEF ForWorker
    <3>4. Arrives(w, m)
      BY <1>1, <2>4, <3>1, <3>3, AsyncArrives DEF SessionEnds
    <3> QED BY <1>1, <2>1, <2>2, <3>3, <3>4, OrderSent
  <2> QED BY <1>4, <2>3, <2>4, handleBrokenIs
<1>5. ASSUME NEW v \in Worker, changeSessionLogic(v) PROVE OrderInv'
  <2>1. Advances /\ Numbers
    BY <1>2, <1>3, <1>5 DEF changeSessionLogic, socketVars
  <2>2. CASE toWorker' = toWorker
    BY <1>1, <2>1, <2>2, OrderKept
  <2>3. ASSUME NEW id \in Live, NEW new \in Targets, SessionMoves(id, new) PROVE OrderInv'
    <3>1. PICK m : m = SessionEnterWorkerReq(id, m_client_set[id].allocWorker)
      OBVIOUS
    <3>2. id \in Nat /\ m_client_set[id].allocWorker \in Named \cup {NoWorker}
      BY DEF GateInv, GateSide, GateTypeInv, EntryInv, Live
    <3>3. m \in ForWorker /\ m \notin Routes
      BY <3>1, <3>2, MadeOf, MessageKinds DEF ForWorker
    <3>4. Arrives(new, m)
      BY <1>1, <2>3, <3>1, <3>3, AsyncArrives DEF SessionMoves
    <3> QED BY <1>1, <2>1, <3>3, <3>4, OrderSent
  <2>4. PICK new \in Targets : \E id \in Nat :
            \/ id \notin DOMAIN m_client_set /\ UNCHANGED <<m_client_set, toWorker, thrown>>
            \/ SessionMoves(id, new) \/ EmptyMoves(id, new)
    BY <1>5, changeSessionLogicIs
  <2> QED BY <2>2, <2>3, <2>4 DEF SessionMoves, EmptyMoves
<1>6. ASSUME NEW w \in Worker, closeSession(w) PROVE OrderInv'
  <2>1. Numbers /\ toWorker' = toWorker
    BY <1>3, <1>6, closeSessionIs
  <2>2. Advances
    BY <1>2, <1>6, closeSessionIs, SocksAdvance DEF SessionCloses
  <2> QED BY <1>1, <2>1, <2>2, OrderKept
<1>7. ASSUME NEW w \in Worker, routeMsgToSession(w) \/ broadcastMsgToSession(w) PROVE OrderInv'
  <2>1. Advances /\ Numbers /\ toWorker' = toWorker
    BY <1>2, <1>3, <1>7 DEF routeMsgToSession, broadcastMsgToSession, socketVars
  <2> QED BY <1>1, <2>1, OrderKept
<1>8. CASE close_impl \/ queueClosed
  <2>1. Numbers /\ toWorker' = toWorker
    BY <1>3, <1>8 DEF close_impl, queueClosed, sessionNetVars
  <2>2. Advances
    BY <1>2, <1>8, SocksAdvance DEF close_impl, queueClosed, socketVars
  <2> QED BY <1>1, <2>1, <2>2, OrderKept
<1> QED BY <1>4, <1>5, <1>6, <1>7, <1>8, handleMsgOrders DEF GateSteps

\* What ServedInOrder says of a step.
ServeStep == \A w \in Worker : \A id \in DOMAIN served[w] \cap DOMAIN served'[w] :
                 \A n \in served'[w][id] \ served[w][id] : \A k \in served[w][id] : k < n

\* and so does every step of the system; what is served comes after what was.
LEMMA StepOrders ==
    ASSUME GateInv, OrderInv, [SessionNext]_sessionVars
    PROVE  OrderInv' /\ ServeStep
<1>0. ASSUME served' = served PROVE ServeStep
  BY <1>0 DEF ServeStep
<1>1. ASSUME UNCHANGED <<socketVars, gateVars>> PROVE Advances /\ Numbers
  BY <1>1 DEF Advances, Numbers, OrderInv, InboxesInOrder, socketVars, gateVars
<1>2. CASE ClientSteps /\ UNCHANGED workerVars
  <2>1. UNCHANGED <<sessionId, toWorker, served>>
    BY <1>2, ClientStepKeeps DEF ClientSteps, workerVars, gateVars, sessionNetVars
  <2>2. Numbers /\ Advances
    BY <1>2, <2>1, ClientsAdvance DEF Numbers
  <2> QED BY <1>0, <2>1, <2>2, OrderKept
<1>3. CASE (GateSteps \/ close_impl \/ queueClosed) /\ UNCHANGED workerVars
  BY <1>0, <1>3, GateOrders DEF workerVars
<1>4. ASSUME NEW w \in Worker, UNCHANGED <<socketVars, gateVars>>,
             processSessionOffline(w) \/ processSessionEnter(w)
      PROVE  OrderInv' /\ ServeStep
  <2>1. PICK cmd : Received(w, cmd)
    BY <1>4 DEF processSessionOffline, processSessionEnter
  <2>2. /\ toWorker[w] # <<>> /\ toWorker'[w] = Tail(toWorker[w])
        /\ \A v \in Worker : v # w => toWorker'[v] = toWorker[v]
    BY <1>4, <2>1, MessageTaken
  <2>3. served' = served
    BY <1>4 DEF processSessionOffline, processSessionEnter
  <2> QED BY <1>0, <1>1, <1>4, <2>2, <2>3, OrderKept
<1>5. CASE WorkerSteps /\ UNCHANGED <<socketVars, gateVars>>
  BY <1>4, <1>5, OrderServed DEF WorkerSteps, ServeStep
<1>6. CASE GameSteps /\ UNCHANGED <<socketVars, gateVars>>
  <2>1. UNCHANGED <<toWorker, served>>
    BY <1>6, GameStepIs DEF Asks, Requesting
  <2> QED BY <1>0, <1>1, <1>6, <2>1, OrderKept
<1>7. CASE Crash
  <2>1. Remains /\ UNCHANGED <<socketVars, gateVars>>
    BY <1>7, CrashKeeps DEF Crash
  <2>2. \A v \in Worker : CutTo(toWorker[v], toWorker'[v])
    BY <2>1 DEF Remains
  <2>3. \A v \in Worker : \A id \in DOMAIN served'[v] : id \in DOMAIN served[v] /\ served'[v][id] = served[v][id]
    BY <2>1 DEF Remains
  <2> QED BY <1>1, <2>1, <2>2, <2>3, OrderKept DEF ServeStep
<1>8. CASE Recovery
  <2>1. UNCHANGED <<toWorker, served, socketVars, gateVars>>
    BY <1>8 DEF Recovery, WorkerRegisters, GateLearnsRegistry, workerVars
  <2> QED BY <1>0, <1>1, <2>1, OrderKept
<1>9. CASE UNCHANGED sessionVars
  <2>1. UNCHANGED <<toWorker, served, socketVars, gateVars>>
    BY <1>9 DEF sessionVars, workerVars, sessionNetVars
  <2> QED BY <1>0, <1>1, <2>1, OrderKept
<1> QED BY <1>2, <1>3, <1>5, <1>6, <1>7, <1>8, <1>9 DEF SessionNext

\* No message is numbered at the start.
LEMMA OrderInitHolds == SessionInit => OrderInv
<1> SUFFICES ASSUME SessionInit PROVE OrderInv
  OBVIOUS
<1>1. /\ inbox = [c \in Client |-> <<>>] /\ toWorker = [w \in Worker |-> <<>>]
      /\ \A w \in Worker : DOMAIN served[w] = {}
  BY DEF SessionInit, GateInit, NetInit, WorkerInit, Empty
<1>2. InboxesInOrder /\ RoutedFirst /\ RoutedInOrder
  BY <1>1 DEF InboxesInOrder, InboxOrdered, RoutedFirst, RoutedInOrder
<1>3. ServedFirst
  BY <1>1 DEF ServedFirst
<1> QED BY <1>2, <1>3 DEF OrderInv

\* A worker handles the messages of a session in the order the client sent them,
\* through moves, crashes and returns (FFGate::handleMsg, FFWorker::processSessionReq).
THEOREM Orderly == SessionSpec => ServedInOrder
<1>1. GateInv /\ OrderInv /\ [SessionNext]_sessionVars => OrderInv'
  BY StepOrders
<1>2. GateInv /\ OrderInv /\ [SessionNext]_sessionVars =>
          [\A w \in Worker : \A id \in DOMAIN served[w] \cap DOMAIN served'[w] :
               \A n \in served'[w][id] \ served[w][id] : \A k \in served[w][id] : k < n]_sessionVars
  BY StepOrders DEF ServeStep
<1> QED BY <1>1, <1>2, SessionInvariance, OrderInitHolds, PTL DEF SessionSpec, ServedInOrder


-----------------------------------------------------------------------------
(* What the workers are told, as long as none stops. *)

\* Every worker is reached.
LEMMA SteadyArrives ==
    ASSUME GateInv, Steady, NEW w \in Worker, NEW m \in ForWorker, toWorker' = asyncCall(w, m)
    PROVE  toWorker'[w] = Append(toWorker[w], m) /\ \A v \in Worker : v # w => toWorker'[v] = toWorker[v]
<1>1. Arrives(w, m)
  BY AsyncArrives DEF GateInv, NetSide
<1>2. w \in DOMAIN service2nodeId /\ service2nodeId[w] = nodeId[w]
  BY DEF Steady
<1> QED BY <1>1, <1>2 DEF Arrives, Reachable

\* What is sent to an index of no worker is lost.
LEMMA NobodyArrives ==
    ASSUME GateInv, NEW w, w \notin Worker, NEW m, toWorker' = asyncCall(w, m)
    PROVE  toWorker' = toWorker
BY DEF asyncCall, Reachable, GateInv, NetSide, NetTypeInv

\* A request that is taken leaves the others.
LEMMA AskedStays ==
    ASSUME GateInv, NEW w \in Worker, NEW cmd, Requested(w, cmd), NEW id, AskedToMove(id)
    PROVE  \/ \E v \in Worker : \E i \in 1..Len(toGate'[v]) :
                  toGate'[v][i] \in Moves /\ toGate'[v][i].sessionId = id
           \/ Head(toGate[w]) \in Moves /\ Head(toGate[w]).sessionId = id
<1>1. PICK v \in Worker : \E i \in 1..Len(toGate[v]) : toGate[v][i] \in Moves /\ toGate[v][i].sessionId = id
  BY DEF AskedToMove
<1>2. PICK i \in 1..Len(toGate[v]) : toGate[v][i] \in Moves /\ toGate[v][i].sessionId = id
  BY <1>1
<1>3. /\ toGate[w] # <<>> /\ toGate'[w] = Tail(toGate[w])
      /\ \A u \in Worker : u # w => toGate'[u] = toGate[u]
  BY RequestTaken
<1>4. CASE v # w
  BY <1>2, <1>3, <1>4
<1>5. CASE v = w
  <2>1. PICK q \in Seq(ForGate) : q = toGate[w]
    BY DEF GateInv, NetSide, NetTypeInv, Queues
  <2>2. CASE i = 1
    <3>1. Head(q) = q[i]
      BY <2>2
    <3> QED BY <1>2, <1>5, <2>1, <3>1
  <2>3. CASE i # 1
    <3>1. i - 1 \in 1..Len(Tail(q)) /\ Tail(q)[i - 1] = q[i]
      BY <1>2, <1>3, <1>5, <2>1, <2>3
    <3> QED BY <1>2, <1>3, <1>5, <2>1, <3>1
  <2> QED BY <2>2, <2>3
<1> QED BY <1>4, <1>5

\* Nothing is sent and no session is bound anew: what was known is.
LEMMA KnownKept ==
    ASSUME KnownInv, UNCHANGED workerVars, UNCHANGED <<toWorker, nodeId, service2nodeId>>, thrown \subseteq thrown',
           \A id \in Live' : m_client_set'[id].allocWorker \in Worker =>
                              /\ id \in Live /\ m_client_set'[id].allocWorker = m_client_set[id].allocWorker
                              /\ (AskedToMove(id) => AskedToMove(id)')
    PROVE  KnownInv'
<1>1. UNCHANGED <<toWorker, m_worker_client, movedAway>>
  BY DEF workerVars
<1>2. Steady'
  BY DEF KnownInv, Steady
<1>3. \A w, id : (Told(w, id) <=> Told(w, id)') /\ (Heard(w, id) <=> Heard(w, id)') /\ (Mentioned(w, id) <=> Mentioned(w, id)')
  BY <1>1 DEF Told, Heard, Mentioned, Introduces
<1>4. BoundAreTold'
  BY <1>3 DEF KnownInv, BoundAreTold
<1>5. BoundAreKnown'
  BY <1>1, <1>3 DEF KnownInv, BoundAreKnown
<1>6. RoutedAreTold' /\ OfflineIsLast'
  BY <1>1 DEF KnownInv, RoutedAreTold, OfflineIsLast, Heard, Introduces
<1> QED BY <1>2, <1>4, <1>5, <1>6 DEF KnownInv


\* A message that is sent tells its worker of a session that starts there or comes.
LEMMA KnownSent ==
    ASSUME GateInv, KnownInv, UNCHANGED workerVars, UNCHANGED <<nodeId, service2nodeId>>, thrown \subseteq thrown',
           NEW w \in Worker, NEW m \in ForWorker,
           toWorker'[w] = Append(toWorker[w], m), \A v \in Worker : v # w => toWorker'[v] = toWorker[v],
           \A id \in Live' : m_client_set'[id].allocWorker \in Worker =>
                              \/ /\ id \in Live /\ m_client_set'[id].allocWorker = m_client_set[id].allocWorker
                                 /\ (AskedToMove(id) => AskedToMove(id)')
                              \/ m_client_set'[id].allocWorker = w /\ Introduces(m, id),
           thrown' = {} /\ m \in Routes => m.first \/ Told(w, m.sessionId),
           thrown' = {} => \A j \in 1..Len(toWorker[w]) :
                               toWorker[w][j] \in Offlines => toWorker[w][j].sessionId # m.sessionId
    PROVE  KnownInv'
<1> DEFINE q == toWorker[w]
           n == Len(q) + 1
<1>1. /\ UNCHANGED <<m_worker_client, movedAway>> /\ q \in Seq(ForWorker) /\ Len(q) \in Nat
      /\ Steady /\ Steady'
  BY OrderTypes DEF workerVars, KnownInv, Steady
<1>2. /\ Len(toWorker'[w]) = n /\ toWorker'[w][n] = m /\ n \in 1..n
      /\ \A i \in 1..Len(q) : i \in 1..n /\ toWorker'[w][i] = q[i]
      /\ \A i \in 1..n : i \in 1..Len(q) \/ i = n
  BY <1>1
<1>3. \A v \in Worker : \A id : Heard(v, id)' <=> Heard(v, id)
  BY <1>1 DEF Heard
<1>4. ASSUME NEW v \in Worker, NEW id
      PROVE  /\ Told(v, id) => Told(v, id)'
             /\ Mentioned(v, id) => Mentioned(v, id)'
  <2>1. CASE v # w
    BY <1>3, <2>1 DEF Told, Mentioned, Introduces
  <2>2. CASE v = w
    <3>1. Told(v, id) => Told(v, id)'
      BY <1>2, <1>3, <2>2 DEF Told, Introduces
    <3>2. Mentioned(v, id) => Mentioned(v, id)'
      BY <1>2, <2>2 DEF Mentioned
    <3> QED BY <3>1, <3>2
  <2> QED BY <2>1, <2>2
<1>5. ASSUME NEW id, Introduces(m, id) PROVE Told(w, id)' /\ Mentioned(w, id)'
  BY <1>2, <1>5 DEF Told, Mentioned, Introduces
<1>6. BoundAreTold'
  <2> SUFFICES ASSUME NEW id \in Live', m_client_set'[id].allocWorker \in Worker
               PROVE  Told(m_client_set[id].allocWorker, id)'
    BY DEF BoundAreTold
  <2>1. PICK v \in Worker : v = m_client_set'[id].allocWorker
    OBVIOUS
  <2>2. Told(v, id)'
    <3>1. CASE id \in Live /\ v = m_client_set[id].allocWorker
      <4>1. Told(v, id)
        BY <3>1 DEF KnownInv, BoundAreTold
      <4> QED BY <1>4, <4>1
    <3>2. CASE v = w /\ Introduces(m, id)
      BY <1>5, <3>2
    <3> QED BY <2>1, <3>1, <3>2
  <2> QED BY <2>1, <2>2 DEF Told, Heard, Introduces
<1>7. BoundAreKnown'
  <2> SUFFICES ASSUME NEW id \in Live', m_client_set'[id].allocWorker \in Worker
               PROVE  \/ id \in DOMAIN m_worker_client'[m_client_set'[id].allocWorker]
                      \/ Mentioned(m_client_set[id].allocWorker, id)' \/ AskedToMove(id)'
    BY DEF BoundAreKnown
  <2>1. PICK v \in Worker : v = m_client_set'[id].allocWorker
    OBVIOUS
  <2>2. id \in DOMAIN m_worker_client'[v] \/ Mentioned(v, id)' \/ AskedToMove(id)'
    <3>1. CASE /\ id \in Live /\ v = m_client_set[id].allocWorker
               /\ (AskedToMove(id) => AskedToMove(id)')
      <4>1. id \in DOMAIN m_worker_client[v] \/ Mentioned(v, id) \/ AskedToMove(id)
        BY <3>1 DEF KnownInv, BoundAreKnown
      <4> QED BY <1>1, <1>4, <3>1, <4>1
    <3>2. CASE v = w /\ Introduces(m, id)
      BY <1>5, <3>2
    <3> QED BY <2>1, <3>1, <3>2
  <2> QED BY <2>1, <2>2 DEF Mentioned
<1>8. RoutedAreTold'
  <2> SUFFICES ASSUME thrown' = {}, NEW v \in Worker, NEW j \in 1..Len(toWorker'[v]), toWorker'[v][j] \in Routes
               PROVE  \/ Heard(v, toWorker'[v][j].sessionId)
                      \/ \E i \in 1..j : Introduces(toWorker'[v][i], toWorker'[v][j].sessionId)
    BY <1>3 DEF RoutedAreTold, Introduces, Heard
  <2>0. thrown = {}
    OBVIOUS
  <2>1. ASSUME v # w \/ j \in 1..Len(q)
        PROVE  \/ Heard(v, toWorker'[v][j].sessionId)
               \/ \E i \in 1..j : Introduces(toWorker'[v][i], toWorker'[v][j].sessionId)
    <3>0. toWorker[v] \in Seq(ForWorker)
      BY OrderTypes
    <3>1. /\ j \in 1..Len(toWorker[v]) /\ toWorker'[v][j] = toWorker[v][j]
          /\ \A i \in 1..j : i \in 1..Len(toWorker[v]) /\ toWorker'[v][i] = toWorker[v][i]
      <4>1. CASE v # w
        BY <3>0, <4>1
      <4>2. CASE v = w /\ j \in 1..Len(q)
        BY <1>1, <1>2, <4>2
      <4> QED BY <2>1, <4>1, <4>2
    <3> QED BY <2>0, <3>1 DEF KnownInv, RoutedAreTold
  <2>2. CASE v = w /\ j = n
    <3>1. toWorker'[v][j] = m
      BY <1>2, <2>2
    <3>2. CASE m.first
      <4>1. Introduces(toWorker'[v][j], m.sessionId) /\ j \in 1..j
        BY <1>1, <2>2, <3>1, <3>2 DEF Introduces
      <4> QED BY <3>1, <4>1
    <3>3. CASE Told(w, m.sessionId)
      <4>1. \A i \in 1..Len(q) : i \in 1..j /\ toWorker'[v][i] = toWorker[w][i]
        BY <1>2, <2>2
      <4> QED BY <2>2, <3>1, <3>3, <4>1 DEF Told
    <3> QED BY <3>1, <3>2, <3>3
  <2> QED BY <1>2, <2>1, <2>2
<1>9. OfflineIsLast'
  <2> SUFFICES ASSUME thrown' = {}, NEW v \in Worker, NEW j \in 1..Len(toWorker'[v]), NEW k \in 1..Len(toWorker'[v]),
                      toWorker'[v][j] \in Offlines, k > j
               PROVE  toWorker'[v][k].sessionId # toWorker'[v][j].sessionId
    BY DEF OfflineIsLast
  <2>0. thrown = {}
    OBVIOUS
  <2>1. CASE v # w
    BY <2>0, <2>1 DEF KnownInv, OfflineIsLast
  <2>2. CASE v = w /\ k \in 1..Len(q)
    <3>1. j \in 1..Len(q)
      BY <1>1, <1>2, <2>2
    <3>2. toWorker'[v][j] = q[j] /\ toWorker'[v][k] = q[k]
      BY <1>2, <2>2, <3>1
    <3>3. q[j] \in Offlines => q[k].sessionId # q[j].sessionId
      BY <2>0, <2>2, <3>1 DEF KnownInv, OfflineIsLast
    <3> QED BY <3>2, <3>3
  <2>3. CASE v = w /\ k = n
    <3>1. j \in 1..Len(q)
      BY <1>1, <1>2, <2>3
    <3> QED BY <1>2, <2>3, <3>1
  <2> QED BY <1>2, <2>1, <2>2, <2>3
<1> QED BY <1>1, <1>6, <1>7, <1>8, <1>9 DEF KnownInv

\* What the worker hears of next it knows, or it was the end of a session.
LEMMA KnownReceived ==
    ASSUME GateInv, KnownInv, UNCHANGED <<socketVars, gateVars>>, NEW w \in Worker, NEW cmd, Received(w, cmd),
           \A v \in Worker : v # w => /\ DOMAIN m_worker_client'[v] = DOMAIN m_worker_client[v]
                                      /\ movedAway'[v] = movedAway[v],
           \A x : x # Head(toWorker[w]).sessionId =>
                      /\ x \in DOMAIN m_worker_client[w] => x \in DOMAIN m_worker_client'[w]
                      /\ x \in movedAway[w] => x \in movedAway'[w],
           Head(toWorker[w]) \notin Offlines => Head(toWorker[w]).sessionId \in DOMAIN m_worker_client'[w]
    PROVE  KnownInv'
<1>1. PICK q \in Seq(ForWorker) : q = toWorker[w]
  BY OrderTypes
<1>2. PICK sid : sid = Head(toWorker[w]).sessionId
  OBVIOUS
<1>3. /\ q # <<>> /\ 1 \in 1..Len(q) /\ q[1].sessionId = sid /\ Truthful(q[1]) /\ Head(toWorker[w]) = q[1]
      /\ toWorker'[w] = Tail(q) /\ \A v \in Worker : v # w => toWorker'[v] = toWorker[v]
      /\ UNCHANGED <<toGate, nodeId, service2nodeId>>
  BY <1>1, <1>2, MessageTaken
<1>4. UNCHANGED <<m_client_set, thrown>> /\ Live' = Live
  BY DEF gateVars, Live
<1>5. /\ \A i \in 1..Len(Tail(q)) : i + 1 \in 1..Len(q) /\ Tail(q)[i] = q[i + 1] /\ i \in Nat
      /\ \A i \in 1..Len(q) : i # 1 => i - 1 \in 1..Len(Tail(q)) /\ Tail(q)[i - 1] = q[i] /\ i \in Nat
  BY <1>3
<1>6. /\ \A v \in Worker : \A x : v # w => (Heard(v, x)' <=> Heard(v, x))
      /\ \A x : x # sid /\ Heard(w, x) => Heard(w, x)'
      /\ q[1] \notin Offlines => sid \in DOMAIN m_worker_client'[w] /\ Heard(w, sid)'
  BY <1>2, <1>3 DEF Heard
<1>7. sid \in Live => q[1] \notin Offlines
  BY <1>3 DEF Truthful
<1>8. Steady'
  BY <1>3 DEF KnownInv, Steady
<1>9. ASSUME NEW v \in Worker, NEW x, Told(v, x), v = w /\ x = sid => q[1] \notin Offlines
      PROVE  Told(v, x)'
  <2>1. CASE v # w
    BY <1>3, <1>6, <1>9, <2>1 DEF Told, Introduces
  <2>2. CASE v = w /\ x = sid
    BY <1>6, <1>9, <2>2 DEF Told
  <2>3. CASE v = w /\ x # sid
    <3>1. CASE Heard(w, x)
      BY <1>6, <2>3, <3>1 DEF Told
    <3>2. CASE \E i \in 1..Len(q) : Introduces(q[i], x)
      <4>1. PICK i \in 1..Len(q) : Introduces(q[i], x)
        BY <3>2
      <4>2. i # 1
        BY <1>3, <2>3, <4>1 DEF Introduces
      <4>3. i - 1 \in 1..Len(toWorker'[w]) /\ toWorker'[w][i - 1] = q[i]
        BY <1>3, <1>5, <4>2
      <4> QED BY <2>3, <4>1, <4>3 DEF Told, Introduces
    <3> QED BY <1>1, <1>9, <2>3, <3>1, <3>2 DEF Told
  <2> QED BY <2>1, <2>2, <2>3
<1>10. ASSUME NEW v \in Worker, NEW x, Mentioned(v, x), v # w \/ x # sid
       PROVE  Mentioned(v, x)'
  <2>1. CASE v # w
    BY <1>3, <1>10, <2>1 DEF Mentioned
  <2>2. CASE v = w /\ x # sid
    <3>1. PICK i \in 1..Len(q) : q[i].sessionId = x
      BY <1>1, <1>10, <2>2 DEF Mentioned
    <3>2. i # 1
      BY <1>3, <2>2, <3>1
    <3>3. i - 1 \in 1..Len(toWorker'[w]) /\ toWorker'[w][i - 1] = q[i]
      BY <1>3, <1>5, <3>2
    <3> QED BY <2>2, <3>1, <3>3 DEF Mentioned
  <2> QED BY <1>10, <2>1, <2>2
<1>12. BoundAreTold'
  <2> SUFFICES ASSUME NEW id \in Live, m_client_set[id].allocWorker \in Worker
               PROVE  Told(m_client_set[id].allocWorker, id)'
    BY <1>4 DEF BoundAreTold
  <2>1. PICK v \in Worker : v = m_client_set[id].allocWorker
    OBVIOUS
  <2>2. Told(v, id)
    BY <2>1 DEF KnownInv, BoundAreTold
  <2>3. Told(v, id)'
    BY <1>7, <1>9, <2>2
  <2>4. v = m_client_set'[id].allocWorker
    BY <1>4, <2>1
  <2> QED BY <2>3, <2>4 DEF Told, Heard, Introduces
<1>13. BoundAreKnown'
  <2> SUFFICES ASSUME NEW id \in Live, m_client_set[id].allocWorker \in Worker
               PROVE  \/ id \in DOMAIN m_worker_client'[m_client_set'[id].allocWorker]
                      \/ Mentioned(m_client_set[id].allocWorker, id)' \/ AskedToMove(id)'
    BY <1>4 DEF BoundAreKnown
  <2>1. PICK v \in Worker : v = m_client_set[id].allocWorker
    OBVIOUS
  <2>2. id \in DOMAIN m_worker_client[v] \/ Mentioned(v, id) \/ AskedToMove(id)
    BY <2>1 DEF KnownInv, BoundAreKnown
  <2>3. AskedToMove(id) => AskedToMove(id)'
    BY <1>3 DEF AskedToMove
  <2>4. id \in DOMAIN m_worker_client'[v] \/ Mentioned(v, id)' \/ AskedToMove(id)'
    <3>1. CASE v = w /\ id = sid
      BY <1>6, <1>7, <3>1
    <3>2. CASE v # w
      BY <1>10, <2>2, <2>3, <3>2
    <3>3. CASE v = w /\ id # sid
      BY <1>2, <1>10, <2>2, <2>3, <3>3
    <3> QED BY <3>1, <3>2, <3>3
  <2>5. v = m_client_set'[id].allocWorker
    BY <1>4, <2>1
  <2> QED BY <2>4, <2>5 DEF Mentioned
<1>14. RoutedAreTold'
  <2> SUFFICES ASSUME thrown = {}, NEW v \in Worker, NEW j \in 1..Len(toWorker'[v]), toWorker'[v][j] \in Routes
               PROVE  \/ toWorker'[v][j].sessionId \in DOMAIN m_worker_client'[v] \cup movedAway'[v]
                      \/ \E i \in 1..j : Introduces(toWorker'[v][i], toWorker'[v][j].sessionId)
    BY <1>4 DEF RoutedAreTold, Introduces, Heard
  <2>0. \A x : Heard(v, x)' => x \in DOMAIN m_worker_client'[v] \cup movedAway'[v]
    BY DEF Heard
  <2>1. CASE v # w
    <3>0. PICK x : x = toWorker[v][j].sessionId
      OBVIOUS
    <3>1. Heard(v, x) \/ \E i \in 1..j : Introduces(toWorker[v][i], x)
      BY <1>3, <2>1, <3>0 DEF KnownInv, RoutedAreTold
    <3>2. Heard(v, x) => x \in DOMAIN m_worker_client'[v] \cup movedAway'[v]
      BY <1>6, <2>0, <2>1
    <3> QED BY <1>3, <2>1, <3>0, <3>1, <3>2
  <2>2. CASE v = w
    <3>1. j \in 1..Len(Tail(q)) /\ j \in Nat
      BY <1>3, <1>5, <2>2
    <3>2. PICK x : x = q[j + 1].sessionId
      OBVIOUS
    <3>3. toWorker'[v][j] = q[j + 1] /\ q[j + 1] \in Routes /\ j + 1 \in 1..Len(q) /\ j + 1 > 1
      BY <1>3, <1>5, <2>2, <3>1
    <3>4. Heard(w, x) \/ \E i \in 1..j + 1 : Introduces(q[i], x)
      BY <1>1, <3>2, <3>3 DEF KnownInv, RoutedAreTold
    <3>5. CASE x = sid
      <4>1. q[1] \notin Offlines
        <5>1. \A k \in 1..Len(q) : q[1] \in Offlines /\ k > 1 => q[k].sessionId # q[1].sessionId
          BY <1>1, <1>3 DEF KnownInv, OfflineIsLast
        <5> QED BY <1>3, <3>2, <3>3, <3>5, <5>1
      <4>2. Heard(w, x)'
        BY <1>6, <3>5, <4>1
      <4> QED BY <2>0, <2>2, <3>2, <3>3, <4>2
    <3>6. CASE x # sid /\ Heard(w, x)
      <4>1. Heard(w, x)'
        BY <1>6, <3>6
      <4> QED BY <2>0, <2>2, <3>2, <3>3, <4>1
    <3>7. CASE x # sid /\ \E i \in 1..j + 1 : Introduces(q[i], x)
      <4>1. PICK i \in 1..j + 1 : Introduces(q[i], x)
        BY <3>7
      <4>2. i # 1
        BY <1>3, <3>7, <4>1 DEF Introduces
      <4>3. i \in 1..Len(q) /\ i - 1 \in 1..j
        BY <1>3, <3>1, <3>3, <4>2
      <4>4. toWorker'[v][i - 1] = q[i]
        BY <1>3, <1>5, <2>2, <4>2, <4>3
      <4> QED BY <3>2, <3>3, <4>1, <4>3, <4>4
    <3> QED BY <3>4, <3>5, <3>6, <3>7
  <2> QED BY <2>1, <2>2
<1>15. OfflineIsLast'
  <2> SUFFICES ASSUME thrown = {}, NEW v \in Worker, NEW j \in 1..Len(toWorker'[v]), NEW k \in 1..Len(toWorker'[v]),
                      toWorker'[v][j] \in Offlines, k > j
               PROVE  toWorker'[v][k].sessionId # toWorker'[v][j].sessionId
    BY <1>4 DEF OfflineIsLast
  <2>1. CASE v # w
    BY <1>3, <2>1 DEF KnownInv, OfflineIsLast
  <2>2. CASE v = w
    <3>0. toWorker'[v] = Tail(q) /\ j \in 1..Len(Tail(q)) /\ k \in 1..Len(Tail(q))
      BY <1>3, <2>2
    <3>1. /\ j + 1 \in 1..Len(q) /\ k + 1 \in 1..Len(q) /\ k + 1 > j + 1
          /\ toWorker'[v][j] = q[j + 1] /\ toWorker'[v][k] = q[k + 1]
      BY <1>5, <3>0
    <3>2. \A a, b \in 1..Len(q) : q[a] \in Offlines /\ b > a => q[b].sessionId # q[a].sessionId
      BY <1>1 DEF KnownInv, OfflineIsLast
    <3> QED BY <3>1, <3>2
  <2> QED BY <2>1, <2>2
<1> QED BY <1>8, <1>12, <1>13, <1>14, <1>15 DEF KnownInv


\* A message of a client is sent to a worker that was told, or that it tells.
LEMMA handleMsgTells ==
    ASSUME GateInv, KnownInv, NEW c \in Client, handleMsg(c), UNCHANGED workerVars
    PROVE  KnownInv'
<1>1. PICK n : n = Head(inbox[c])
  OBVIOUS
<1>2. n \in Nat
  <2>1. SocketTypeInv /\ BrokenInv
    BY DEF GateInv, GateSide
  <2>2. Head(inbox[c]) \in 0..MaxMsgs
    BY <2>1, TaskTaken, handleMsgIs
  <2> QED BY <1>1, <2>2, Names
<1>3. /\ m_allocID \in Nat /\ sessionId[c] \in Nat /\ Steady
      /\ \A id \in Live : id \in 1..m_allocID /\ m_client_set[id].allocWorker \in Named
      /\ UNCHANGED <<toGate, nodeId, service2nodeId>>
      /\ \A w \in Worker : \A j \in 1..Len(toWorker[w]) :
             toWorker[w][j] \in Offlines => toWorker[w][j].sessionId \notin Live /\ toWorker[w][j].sessionId <= m_allocID
  <2>1. UNCHANGED <<toGate, nodeId, service2nodeId>>
    BY DEF handleMsg
  <2>2. \A w \in Worker : \A j \in 1..Len(toWorker[w]) :
             toWorker[w][j] \in Offlines => toWorker[w][j].sessionId \notin Live /\ toWorker[w][j].sessionId <= m_allocID
    BY OrderTypes DEF Truthful
  <2>3. \A id \in Live : id \in 1..m_allocID /\ m_client_set[id].allocWorker \in Named
    BY DEF GateInv, GateSide, EntryInv, Live
  <2> QED BY <2>1, <2>2, <2>3, OrderTypes DEF KnownInv
<1>4. \A id : AskedToMove(id) => AskedToMove(id)'
  BY <1>3 DEF AskedToMove
<1>5. ASSUME NEW w \in Worker, SessionStarts(c, m_allocID + 1, w) PROVE KnownInv'
  <2>1. PICK id \in Nat : id = m_allocID + 1
    BY <1>3
  <2>2. PICK m : m = RouteLogicMsgReq(id, c, n, TRUE)
    OBVIOUS
  <2>3. m \in ForWorker /\ m \in Routes /\ m.sessionId = id /\ m.first
    BY <1>2, <2>2 DEF ForWorker, Routes, RouteLogicMsgReq
  <2>4. toWorker' = asyncCall(w, m) /\ thrown' = thrown
    BY <1>1, <1>5, <2>1, <2>2 DEF SessionStarts
  <2>5. toWorker'[w] = Append(toWorker[w], m) /\ \A v \in Worker : v # w => toWorker'[v] = toWorker[v]
    BY <1>3, <2>3, <2>4, SteadyArrives
  <2>6. /\ Live' = Live \cup {id} /\ \A x \in Live : m_client_set'[x] = m_client_set[x]
        /\ m_client_set'[id].allocWorker = w
    BY <1>5, <2>1, StartIs
  <2>7. Introduces(m, id)
    BY <2>3 DEF Introduces
  <2>8. \A x \in Live' : \/ /\ x \in Live /\ m_client_set'[x].allocWorker = m_client_set[x].allocWorker
                            /\ (AskedToMove(x) => AskedToMove(x)')
                         \/ m_client_set'[x].allocWorker = w /\ Introduces(m, x)
    BY <1>3, <1>4, <2>6, <2>7
  <2>9. \A j \in 1..Len(toWorker[w]) : toWorker[w][j] \in Offlines => toWorker[w][j].sessionId # m.sessionId
    BY <1>3, <2>1, <2>3
  <2> QED BY <1>3, <2>3, <2>4, <2>5, <2>8, <2>9, KnownSent
<1>6. ASSUME NEW w \in Named \cup {NoWorker}, MessageGoesOn(c, w) PROVE KnownInv'
  <2>1. PICK id \in Nat : id = sessionId[c]
    BY <1>3
  <2>2. PICK m : m = RouteLogicMsgReq(id, c, n, FALSE)
    OBVIOUS
  <2>3. m \in ForWorker /\ m \in Routes /\ m.sessionId = id
    BY <1>2, <2>1, <2>2 DEF ForWorker, Routes, RouteLogicMsgReq
  <2>4. /\ toWorker' = asyncCall(w, m) /\ thrown' = thrown
        /\ m_client_set' = At(m_client_set, id) /\ w = m_client_set'[id].allocWorker
    BY <1>1, <1>6, <2>1, <2>2 DEF MessageGoesOn
  <2>5. Live' = Live /\ \A x \in Live : m_client_set'[x] = m_client_set[x]
    BY <2>4, AtStays DEF Stay
  <2>6. CASE w \notin Worker
    <3>1. toWorker' = toWorker
      BY <2>4, <2>6, NobodyArrives
    <3> QED BY <1>3, <1>4, <2>4, <2>5, <3>1, KnownKept
  <2>7. CASE w \in Worker
    <3>1. toWorker'[w] = Append(toWorker[w], m) /\ \A v \in Worker : v # w => toWorker'[v] = toWorker[v]
      BY <1>3, <2>3, <2>4, <2>7, SteadyArrives
    <3>2. \A x \in Live' : /\ x \in Live /\ m_client_set'[x].allocWorker = m_client_set[x].allocWorker
                           /\ (AskedToMove(x) => AskedToMove(x)')
      BY <1>3, <1>4, <2>5
    <3>3. thrown = {} => id \in Live
      <4>1. /\ \A x \in DOMAIN m_client_set : m_client_set'[x] = m_client_set[x]
            /\ id \notin DOMAIN m_client_set => m_client_set'[id] = NewInfo
        BY <2>4 DEF At, Insert
      <4> QED BY <2>4, <2>7, <4>1, NewInfoIs, Names DEF Live, GateInv, GateSide, EntryInv
    <3>4. id \in Live => Told(w, id)
      BY <2>4, <2>5, <2>7 DEF KnownInv, BoundAreTold
    <3>5. thrown = {} => \A j \in 1..Len(toWorker[w]) :
                             toWorker[w][j] \in Offlines => toWorker[w][j].sessionId # m.sessionId
      BY <1>3, <2>3, <2>7, <3>3
    <3>6. thrown' = {} /\ m \in Routes => m.first \/ Told(w, m.sessionId)
      BY <2>3, <2>4, <3>3, <3>4
    <3>7. thrown' = {} => \A j \in 1..Len(toWorker[w]) :
                              toWorker[w][j] \in Offlines => toWorker[w][j].sessionId # m.sessionId
      BY <2>4, <3>5
    <3>8. \A x \in Live' : m_client_set'[x].allocWorker \in Worker =>
              \/ /\ x \in Live /\ m_client_set'[x].allocWorker = m_client_set[x].allocWorker
                 /\ (AskedToMove(x) => AskedToMove(x)')
              \/ m_client_set'[x].allocWorker = w /\ Introduces(m, x)
      BY <3>2
    <3>9. thrown \subseteq thrown' /\ UNCHANGED <<nodeId, service2nodeId>>
      BY <1>3, <2>4
    <3> QED BY <1>3, <2>3, <2>7, <3>1, <3>6, <3>7, <3>8, <3>9, KnownSent
  <2> QED BY <2>6, <2>7
<1>7. CASE MessageRefused(c)
  <2>1. UNCHANGED <<m_client_set, toWorker, thrown>> /\ Live' = Live
    BY <1>7 DEF MessageRefused, sessionNetVars, Live
  <2> QED BY <1>3, <1>4, <2>1, KnownKept
<1> QED BY <1>5, <1>6, <1>7, handleMsgIs

\* A client that leaves
LEMMA handleBrokenTells ==
    ASSUME GateInv, KnownInv, NEW c \in Client, handleBroken(c), UNCHANGED workerVars
    PROVE  KnownInv'
<1>1. /\ UNCHANGED <<thrown, toGate, nodeId, service2nodeId>> /\ Steady
      /\ \A id \in Live : id \in Nat /\ m_client_set[id].allocWorker \in Named
      /\ \A w \in Worker : \A j \in 1..Len(toWorker[w]) :
             toWorker[w][j] \in Offlines => toWorker[w][j].sessionId \notin Live
  <2>1. \A w \in Worker : \A j \in 1..Len(toWorker[w]) :
             toWorker[w][j] \in Offlines => toWorker[w][j].sessionId \notin Live
    BY OrderTypes DEF Truthful
  <2>2. \A id \in Live : id \in Nat /\ m_client_set[id].allocWorker \in Named
    BY DEF GateInv, GateSide, EntryInv, GateTypeInv, Live
  <2> QED BY <2>1, <2>2 DEF KnownInv, handleBroken
<1>2. \A id : AskedToMove(id) => AskedToMove(id)'
  BY <1>1 DEF AskedToMove
<1>3. CASE UNCHANGED <<m_client_set, toWorker>>
  BY <1>1, <1>2, <1>3, KnownKept DEF Live
<1>4. CASE \E id \in 1..m_allocID : m_client_set' = At(m_client_set, id) /\ toWorker' = toWorker
  <2>1. Stay /\ toWorker' = toWorker
    BY <1>4, AtStays
  <2> QED BY <1>1, <1>2, <2>1, KnownKept DEF Stay
<1>5. ASSUME NEW id \in Live, NEW w \in Named, SessionEnds(c, id, w) PROVE KnownInv'
  <2>1. PICK m : m = SessionOfflineReq(id)
    OBVIOUS
  <2>2. m \in ForWorker /\ m \in Offlines /\ m \notin Routes /\ m.sessionId = id
    BY <1>1, <2>1, MadeOf, MessageKinds DEF ForWorker
  <2>3. toWorker' = asyncCall(w, m) /\ m_client_set' = Erase(m_client_set, id)
    BY <1>5, <2>1 DEF SessionEnds
  <2>4. Live' = Live \ {id} /\ \A x \in Live : x # id => m_client_set'[x] = m_client_set[x]
    BY <2>3, EndIs
  <2>5. \A x \in Live' : /\ x \in Live /\ m_client_set'[x].allocWorker = m_client_set[x].allocWorker
                         /\ (AskedToMove(x) => AskedToMove(x)')
    BY <1>2, <2>4
  <2>6. CASE w \in Worker
    <3>1. toWorker'[w] = Append(toWorker[w], m) /\ \A v \in Worker : v # w => toWorker'[v] = toWorker[v]
      BY <1>1, <2>2, <2>3, <2>6, SteadyArrives
    <3>2. \A j \in 1..Len(toWorker[w]) : toWorker[w][j] \in Offlines => toWorker[w][j].sessionId # m.sessionId
      BY <1>1, <2>2, <2>6
    <3> QED BY <1>1, <2>2, <2>5, <2>6, <3>1, <3>2, KnownSent
  <2>7. CASE w \notin Worker
    <3>1. toWorker' = toWorker
      BY <2>3, <2>7, NobodyArrives
    <3> QED BY <1>1, <2>5, <3>1, KnownKept
  <2> QED BY <2>6, <2>7
<1> QED BY <1>3, <1>4, <1>5, handleBrokenIs

\* or moves is announced,
LEMMA changeSessionLogicTells ==
    ASSUME GateInv, KnownInv, NEW u \in Worker, changeSessionLogic(u), UNCHANGED workerVars
    PROVE  KnownInv'
<1>1. PICK cmd : cmd = "GateChangeLogicNodeReq" /\ Requested(u, cmd)
  BY changeSessionLogicIs
<1>2. PICK new \in Targets : \E id \in Nat :
          /\ Head(toGate[u]) \in Moves /\ Head(toGate[u]).sessionId = id
          /\ \/ id \notin DOMAIN m_client_set /\ UNCHANGED <<m_client_set, toWorker, thrown>>
             \/ SessionMoves(id, new) \/ EmptyMoves(id, new)
  BY changeSessionLogicIs
<1>3. PICK id \in Nat :
          /\ Head(toGate[u]) \in Moves /\ Head(toGate[u]).sessionId = id
          /\ \/ id \notin DOMAIN m_client_set /\ UNCHANGED <<m_client_set, toWorker, thrown>>
             \/ SessionMoves(id, new) \/ EmptyMoves(id, new)
  BY <1>2
<1>4. /\ UNCHANGED <<nodeId, service2nodeId>> /\ Steady
      /\ \A x : x # id /\ AskedToMove(x) => AskedToMove(x)'
  <2>1. UNCHANGED <<nodeId, service2nodeId>>
    BY <1>1, RequestTaken
  <2>2. ASSUME NEW x, x # id, AskedToMove(x) PROVE AskedToMove(x)'
    <3>1. \E v \in Worker : \E i \in 1..Len(toGate'[v]) : toGate'[v][i] \in Moves /\ toGate'[v][i].sessionId = x
      BY <1>1, <1>3, <2>2, AskedStays
    <3> QED BY <3>1 DEF AskedToMove
  <2> QED BY <2>1, <2>2 DEF KnownInv
<1>5. \A x \in Live : m_client_set[x].allocWorker \in Named /\ x \in DOMAIN m_client_set
  BY DEF GateInv, GateSide, EntryInv, Live
<1>6. CASE id \notin DOMAIN m_client_set /\ UNCHANGED <<m_client_set, toWorker, thrown>>
  <2>1. Live' = Live /\ id \notin Live
    BY <1>6 DEF Live
  <2> QED BY <1>4, <1>6, <2>1, KnownKept
<1>7. CASE EmptyMoves(id, new)
  <2>1. /\ id \in DOMAIN m_client_set /\ m_client_set' = [m_client_set EXCEPT ![id].allocWorker = new]
        /\ id \notin Live /\ toWorker' = toWorker /\ thrown \subseteq thrown'
    BY <1>7 DEF EmptyMoves, Live
  <2>2. Live' = Live /\ \A x \in DOMAIN m_client_set : x # id => m_client_set'[x] = m_client_set[x]
    BY <2>1, MoveIs
  <2>3. \A x \in Live : x \in DOMAIN m_client_set /\ x # id
    BY <1>5, <2>1
  <2> QED BY <1>4, <2>1, <2>2, <2>3, KnownKept
<1>8. CASE SessionMoves(id, new)
  <2>0. id \in Live /\ id \in DOMAIN m_client_set /\ m_client_set' = [m_client_set EXCEPT ![id].allocWorker = new]
        /\ thrown' = thrown
    BY <1>8 DEF SessionMoves, Live
  <2>1. PICK m : m = SessionEnterWorkerReq(id, m_client_set[id].allocWorker)
    OBVIOUS
  <2>2. m \in ForWorker /\ m \in Enters /\ m \notin Routes /\ m.sessionId = id
    BY <1>5, <2>0, <2>1, MadeOf, MessageKinds DEF ForWorker
  <2>3. toWorker' = asyncCall(new, m)
    BY <1>8, <2>1 DEF SessionMoves
  <2>4. /\ Live' = Live /\ m_client_set'[id].allocWorker = new
        /\ \A x \in DOMAIN m_client_set : x # id => m_client_set'[x] = m_client_set[x]
    BY <2>0, MoveIs
  <2>5. \A x \in Live' : x # id => /\ x \in Live /\ m_client_set'[x].allocWorker = m_client_set[x].allocWorker
                                   /\ (AskedToMove(x) => AskedToMove(x)')
    BY <1>4, <1>5, <2>4
  <2>6. CASE new \in Worker
    <3>1. toWorker'[new] = Append(toWorker[new], m) /\ \A v \in Worker : v # new => toWorker'[v] = toWorker[v]
      BY <1>4, <2>2, <2>3, <2>6, SteadyArrives
    <3>2. Introduces(m, id)
      BY <2>2 DEF Introduces
    <3>3. \A x \in Live' : \/ /\ x \in Live /\ m_client_set'[x].allocWorker = m_client_set[x].allocWorker
                              /\ (AskedToMove(x) => AskedToMove(x)')
                           \/ m_client_set'[x].allocWorker = new /\ Introduces(m, x)
      BY <2>4, <2>5, <3>2
    <3>4. \A j \in 1..Len(toWorker[new]) :
              toWorker[new][j] \in Offlines => toWorker[new][j].sessionId # m.sessionId
      BY <2>0, <2>2, <2>6, OrderTypes DEF Truthful
    <3> QED BY <1>4, <2>0, <2>2, <2>6, <3>1, <3>3, <3>4, KnownSent
  <2>7. CASE new \notin Worker
    <3>1. toWorker' = toWorker
      BY <2>3, <2>7, NobodyArrives
    <3> QED BY <1>4, <2>0, <2>4, <2>5, <2>7, <3>1, KnownKept
  <2> QED BY <2>6, <2>7
<1> QED BY <1>3, <1>6, <1>7, <1>8

\* and what else the gate does binds no session.
LEMMA GateTells ==
    ASSUME GateInv, KnownInv, GateSteps, UNCHANGED workerVars
    PROVE  KnownInv'
<1>1. ASSUME NEW w \in Worker, NEW cmd, Requested(w, cmd), cmd # "GateChangeLogicNodeReq"
      PROVE  UNCHANGED <<nodeId, service2nodeId>> /\ \A x : AskedToMove(x) => AskedToMove(x)'
  <2>1. /\ UNCHANGED <<nodeId, service2nodeId>> /\ Head(toGate[w]) \in ForGate /\ Head(toGate[w]).cmd = cmd
    BY <1>1, RequestTaken
  <2>2. Head(toGate[w]) \notin Moves
    BY <1>1, <2>1 DEF Moves
  <2>3. ASSUME NEW x, AskedToMove(x) PROVE AskedToMove(x)'
    <3>1. \E v \in Worker : \E i \in 1..Len(toGate'[v]) : toGate'[v][i] \in Moves /\ toGate'[v][i].sessionId = x
      BY <1>1, <2>2, <2>3, AskedStays
    <3> QED BY <3>1 DEF AskedToMove
  <2> QED BY <2>1, <2>3
<1>2. ASSUME NEW w \in Worker, closeSession(w) PROVE KnownInv'
  <2>1. PICK cmd : cmd = "GateCloseSessionReq" /\ Requested(w, cmd)
    BY <1>2 DEF closeSession
  <2>2. UNCHANGED <<nodeId, service2nodeId>> /\ \A x : AskedToMove(x) => AskedToMove(x)'
    BY <1>1, <2>1
  <2>3. toWorker' = toWorker
    BY <1>2, closeSessionIs
  <2>4. CASE UNCHANGED m_client_set /\ thrown \subseteq thrown'
    <3>1. Live' = Live
      BY <2>4 DEF Live
    <3> QED BY <2>2, <2>3, <2>4, <3>1, KnownKept
  <2>5. ASSUME NEW id, NEW s, SessionCloses(id, s) PROVE KnownInv'
    <3>1. m_client_set' = Erase(m_client_set, id) /\ thrown' = thrown
      BY <2>5 DEF SessionCloses
    <3>2. Live' = Live \ {id} /\ \A x \in Live : x # id => m_client_set'[x] = m_client_set[x]
      BY <3>1, EndIs
    <3> QED BY <2>2, <2>3, <3>1, <3>2, KnownKept
  <2> QED BY <1>2, <2>4, <2>5, closeSessionIs
<1>3. ASSUME NEW w \in Worker, routeMsgToSession(w) \/ broadcastMsgToSession(w) PROVE KnownInv'
  <2>1. PICK cmd : cmd # "GateChangeLogicNodeReq" /\ Requested(w, cmd)
    BY <1>3 DEF routeMsgToSession, broadcastMsgToSession
  <2>2. UNCHANGED <<nodeId, service2nodeId>> /\ \A x : AskedToMove(x) => AskedToMove(x)'
    BY <1>1, <2>1
  <2>3. UNCHANGED <<m_client_set, thrown, toWorker>> /\ Live' = Live
    BY <1>3 DEF routeMsgToSession, broadcastMsgToSession, Live
  <2> QED BY <2>2, <2>3, KnownKept
<1> QED BY <1>2, <1>3, handleMsgTells, handleBrokenTells, changeSessionLogicTells DEF GateSteps


\* A worker that handles a message knows what it told,
LEMMA WorkersTell ==
    ASSUME GateInv, KnownInv, WorkerSteps, UNCHANGED <<socketVars, gateVars>>
    PROVE  KnownInv'
<1>0. DOMAIN m_worker_client = Worker /\ movedAway \in [Worker -> SUBSET (1..m_allocID)]
  BY DEF GateInv, WorkerSide, WorkerTypeInv
<1>1. ASSUME NEW w \in Worker, processSessionReq(w) PROVE KnownInv'
  <2>1. PICK id : id = Head(toWorker[w]).sessionId
    OBVIOUS
  <2>2. PICK c : c = Head(toWorker[w]).client
    OBVIOUS
  <2>3. /\ Received(w, "RouteLogicMsgReq") /\ movedAway' = movedAway
        /\ m_worker_client' = IF id \in DOMAIN m_worker_client[w] THEN m_worker_client
                              ELSE [m_worker_client EXCEPT ![w] = Insert(@, id, c)]
    BY <1>1, <2>1, <2>2 DEF processSessionReq
  <2>4. PICK cmd : Received(w, cmd)
    BY <2>3
  <2>5. /\ \A v \in Worker : v # w => DOMAIN m_worker_client'[v] = DOMAIN m_worker_client[v]
        /\ id \in DOMAIN m_worker_client'[w]
        /\ \A x \in DOMAIN m_worker_client[w] : x \in DOMAIN m_worker_client'[w]
    BY <1>0, <2>3 DEF Insert
  <2> QED BY <2>1, <2>3, <2>4, <2>5, KnownReceived
<1>2. ASSUME NEW w \in Worker, processSessionEnter(w) PROVE KnownInv'
  <2>1. PICK id : id = Head(toWorker[w]).sessionId
    OBVIOUS
  <2>2. /\ Received(w, "SessionEnterWorkerReq") /\ movedAway' = [movedAway EXCEPT ![w] = @ \ {id}]
        /\ m_worker_client' = IF id \in DOMAIN m_worker_client[w] THEN m_worker_client
                              ELSE [m_worker_client EXCEPT ![w] = Insert(@, id, NoEntity)]
    BY <1>2, <2>1 DEF processSessionEnter
  <2>3. PICK cmd : Received(w, cmd)
    BY <2>2
  <2>4. /\ \A v \in Worker : v # w => /\ DOMAIN m_worker_client'[v] = DOMAIN m_worker_client[v]
                                      /\ movedAway'[v] = movedAway[v]
        /\ id \in DOMAIN m_worker_client'[w]
        /\ \A x \in DOMAIN m_worker_client[w] : x \in DOMAIN m_worker_client'[w]
        /\ \A x \in movedAway[w] : x # id => x \in movedAway'[w]
    BY <1>0, <2>2 DEF Insert
  <2> QED BY <2>1, <2>3, <2>4, KnownReceived
<1>3. ASSUME NEW w \in Worker, processSessionOffline(w) PROVE KnownInv'
  <2>1. PICK id : id = Head(toWorker[w]).sessionId
    OBVIOUS
  <2>2. PICK cmd : cmd = "SessionOfflineReq" /\ Received(w, cmd)
    BY <1>3 DEF processSessionOffline
  <2>3. /\ movedAway' = movedAway
        /\ \/ m_worker_client' = [m_worker_client EXCEPT ![w] = Insert(@, id, NoEntity)]
           \/ m_worker_client' = [m_worker_client EXCEPT ![w] = Erase(@, id)]
    BY <1>3, <2>1 DEF processSessionOffline
  <2>4. /\ \A v \in Worker : v # w => DOMAIN m_worker_client'[v] = DOMAIN m_worker_client[v]
        /\ \A x \in DOMAIN m_worker_client[w] : x # id => x \in DOMAIN m_worker_client'[w]
    BY <1>0, <2>3 DEF Insert, Erase
  <2>5. Head(toWorker[w]) \in ForWorker /\ Head(toWorker[w]).cmd = cmd
    BY <2>2, MessageTaken
  <2>6. Head(toWorker[w]) \in Offlines
    BY <2>2, <2>5, MessageKinds
  <2> QED BY <2>1, <2>2, <2>3, <2>4, <2>6, KnownReceived
<1> QED BY <1>1, <1>2, <1>3 DEF WorkerSteps

\* and one that moves a session away remembers it, and has asked.
LEMMA GamesTell ==
    ASSUME GateInv, KnownInv, GameSteps, UNCHANGED <<socketVars, gateVars>>
    PROVE  KnownInv'
<1>1. PICK w \in Worker : \E kind, m, id : Asks(w, kind, m, id)
  BY GameStepIs
<1>2. PICK kind, m, id : Asks(w, kind, m, id)
  BY <1>1
<1>3. /\ toGate[w] \in Seq(ForGate) /\ m \in ForGate
      /\ toGate'[w] = Append(toGate[w], m) /\ \A v \in Worker : v # w => toGate'[v] = toGate[v]
      /\ UNCHANGED <<toWorker, nodeId, service2nodeId>>
      /\ DOMAIN m_worker_client = Worker /\ movedAway \in [Worker -> SUBSET (1..m_allocID)]
  <2>1. toGate[w] \in Seq(ForGate) /\ DOMAIN m_worker_client = Worker
        /\ movedAway \in [Worker -> SUBSET (1..m_allocID)]
    BY DEF GateInv, NetSide, NetTypeInv, Queues, WorkerSide, WorkerTypeInv
  <2>2. m \in ForGate /\ m.sessionId \in 0..m_allocID /\ Requesting(w, kind, m)
    BY <1>2 DEF Asks
  <2>3. nodeId[w] # 0
    BY Names DEF KnownInv, Steady
  <2> QED BY <2>1, <2>2, <2>3, RequestMade
<1>4. UNCHANGED <<m_client_set, thrown>> /\ Live' = Live
  BY DEF gateVars, Live
<1>5. Steady'
  BY <1>3 DEF KnownInv, Steady
<1>6. PICK n \in Nat : n = Len(toGate[w]) + 1
  BY <1>3
<1>7. /\ n \in 1..Len(toGate'[w]) /\ toGate'[w][n] = m
      /\ \A i \in 1..Len(toGate[w]) : i \in 1..Len(toGate'[w]) /\ toGate'[w][i] = toGate[w][i]
  BY <1>3, <1>6
<1>8. \A x : AskedToMove(x) => AskedToMove(x)'
  BY <1>3, <1>7 DEF AskedToMove
<1>9. \A v \in Worker : \A x : /\ Heard(v, x) => Heard(v, x)'
                               /\ x \in DOMAIN m_worker_client[v] => x \in DOMAIN m_worker_client'[v] \/ AskedToMove(x)'
  <2>1. CASE UNCHANGED <<m_worker_client, movedAway>>
    BY <2>1 DEF Heard
  <2>2. CASE /\ m \in Moves /\ m.sessionId = id /\ id \in DOMAIN m_worker_client[w]
             /\ m_worker_client' = [m_worker_client EXCEPT ![w] = Erase(@, id)]
             /\ movedAway' = [movedAway EXCEPT ![w] = @ \cup {id}]
    <3>1. /\ \A v \in Worker : v # w => m_worker_client'[v] = m_worker_client[v] /\ movedAway'[v] = movedAway[v]
          /\ DOMAIN m_worker_client'[w] = DOMAIN m_worker_client[w] \ {id} /\ movedAway'[w] = movedAway[w] \cup {id}
      BY <1>3, <2>2 DEF Erase
    <3>2. AskedToMove(id)'
      BY <1>7, <2>2 DEF AskedToMove
    <3> QED BY <3>1, <3>2 DEF Heard
  <2> QED BY <1>2, <2>1, <2>2 DEF Asks
<1>10. \A v \in Worker : \A x : (Told(v, x) => Told(v, x)') /\ (Mentioned(v, x) => Mentioned(v, x)')
  BY <1>3, <1>9 DEF Told, Mentioned, Introduces
<1>12. BoundAreTold'
  <2> SUFFICES ASSUME NEW x \in Live, m_client_set[x].allocWorker \in Worker
               PROVE  Told(m_client_set[x].allocWorker, x)'
    BY <1>4 DEF BoundAreTold
  <2>1. PICK v \in Worker : v = m_client_set[x].allocWorker
    OBVIOUS
  <2>2. Told(v, x)' /\ v = m_client_set'[x].allocWorker
    BY <1>4, <1>10, <2>1 DEF KnownInv, BoundAreTold
  <2> QED BY <2>2 DEF Told, Heard, Introduces
<1>13. BoundAreKnown'
  <2> SUFFICES ASSUME NEW x \in Live, m_client_set[x].allocWorker \in Worker
               PROVE  \/ x \in DOMAIN m_worker_client'[m_client_set'[x].allocWorker]
                      \/ Mentioned(m_client_set[x].allocWorker, x)' \/ AskedToMove(x)'
    BY <1>4 DEF BoundAreKnown
  <2>1. PICK v \in Worker : v = m_client_set[x].allocWorker
    OBVIOUS
  <2>2. x \in DOMAIN m_worker_client[v] \/ Mentioned(v, x) \/ AskedToMove(x)
    BY <2>1 DEF KnownInv, BoundAreKnown
  <2>3. x \in DOMAIN m_worker_client'[v] \/ Mentioned(v, x)' \/ AskedToMove(x)'
    BY <1>8, <1>9, <1>10, <2>2
  <2>4. v = m_client_set'[x].allocWorker
    BY <1>4, <2>1
  <2> QED BY <2>3, <2>4 DEF Mentioned
<1>14. RoutedAreTold'
  <2> SUFFICES ASSUME thrown = {}, NEW v \in Worker, NEW j \in 1..Len(toWorker[v]), toWorker[v][j] \in Routes
               PROVE  \/ toWorker[v][j].sessionId \in DOMAIN m_worker_client'[v] \cup movedAway'[v]
                      \/ \E i \in 1..j : Introduces(toWorker[v][i], toWorker[v][j].sessionId)
    BY <1>3, <1>4 DEF RoutedAreTold, Heard, Introduces
  <2>1. Heard(v, toWorker[v][j].sessionId) => toWorker[v][j].sessionId \in DOMAIN m_worker_client'[v] \cup movedAway'[v]
    BY <1>9 DEF Heard
  <2> QED BY <2>1 DEF KnownInv, RoutedAreTold
<1>15. OfflineIsLast'
  BY <1>3, <1>4 DEF KnownInv, OfflineIsLast
<1> QED BY <1>5, <1>12, <1>13, <1>14, <1>15 DEF KnownInv

\* So every step keeps what is known.
LEMMA StepKeepsKnownInv ==
    ASSUME GateInv, KnownInv, [SteadyNext]_sessionVars
    PROVE  KnownInv'
<1>1. ASSUME UNCHANGED <<gateVars, sessionNetVars, workerVars>> PROVE KnownInv'
  <2>1. UNCHANGED <<m_client_set, thrown, toWorker, toGate, nodeId, service2nodeId>> /\ Live' = Live
    BY <1>1 DEF gateVars, sessionNetVars, Live
  <2>2. \A x : AskedToMove(x) => AskedToMove(x)'
    BY <2>1 DEF AskedToMove
  <2> QED BY <1>1, <2>1, <2>2, KnownKept
<1>2. CASE ClientSteps /\ UNCHANGED workerVars
  BY <1>1, <1>2, ClientStepKeeps DEF ClientSteps
<1>3. CASE GateSteps /\ UNCHANGED workerVars
  BY <1>3, GateTells
<1>4. CASE (WorkerSteps \/ GameSteps) /\ UNCHANGED <<socketVars, gateVars>>
  BY <1>4, WorkersTell, GamesTell
<1>5. CASE UNCHANGED sessionVars
  BY <1>1, <1>5 DEF sessionVars
<1> QED BY <1>2, <1>3, <1>4, <1>5 DEF SteadyNext

\* There is no session at the start, and no message.
LEMMA KnownInitHolds == SessionInit => KnownInv
<1> SUFFICES ASSUME SessionInit PROVE KnownInv
  OBVIOUS
<1>1. /\ Live = {} /\ Steady /\ \A w \in Worker : toWorker[w] = <<>>
  BY DEF SessionInit, GateInit, NetInit, Empty, Live, Steady
<1> QED BY <1>1 DEF KnownInv, BoundAreTold, BoundAreKnown, RoutedAreTold, OfflineIsLast

\* Without crashes both invariants hold together.
LEMMA SteadyInvariance == SteadySpec => [](GateInv /\ KnownInv)
<1>1. [SteadyNext]_sessionVars => [SessionNext]_sessionVars
  BY DEF SteadyNext, SessionNext
<1>2. GateInv /\ KnownInv /\ [SteadyNext]_sessionVars => (GateInv /\ KnownInv)'
  BY <1>1, StepKeepsGateInv, StepKeepsKnownInv
<1> QED BY <1>2, GateInitHolds, KnownInitHolds, PTL DEF SteadySpec

\* Gate, workers and clients agree about every session: each open one is bound to a
\* worker, its entity is its client's, no reply goes astray, and when nothing is
\* under way its worker knows it (FFGate::changeSessionLogic, FFWorker).
THEOREM Agreed == SteadySpec => []SessionsAgree
<1>1. GateInv /\ KnownInv => SessionsAgree
  <2> SUFFICES ASSUME GateInv, KnownInv PROVE SessionsAgree
    OBVIOUS
  <2>1. OpenSessionsAreBound /\ RepliesReachTheirClient
    BY DEF GateInv, GateSide
  <2>2. TheBoundWorkerKnows
    <3> SUFFICES ASSUME Quiet, NEW id \in Live, m_client_set[id].allocWorker \in Worker
                 PROVE  id \in DOMAIN m_worker_client[m_client_set[id].allocWorker]
      BY DEF TheBoundWorkerKnows
    <3> QED BY DEF KnownInv, BoundAreKnown, Quiet, Mentioned, AskedToMove
  <2> QED BY <2>1, <2>2, GateInvTypes, GateInvEntities DEF SessionsAgree
<1> QED BY <1>1, SteadyInvariance, PTL

\* A worker hears that a session started or entered before it hears from its client
\* (FFGate::handleMsg, changeSessionLogic), as long as no handler has failed.
THEOREM Introduced == SteadySpec => []StrangersAreIntroduced
<1>1. GateInv /\ KnownInv => StrangersAreIntroduced
  <2> SUFFICES ASSUME GateInv, KnownInv, thrown = {}, NEW w \in Worker, NEW j \in 1..Len(toWorker[w]),
                      toWorker[w][j].cmd = "RouteLogicMsgReq",
                      toWorker[w][j].sessionId \notin DOMAIN m_worker_client[w] \cup movedAway[w]
               PROVE  \E i \in 1..j : /\ toWorker[w][i].sessionId = toWorker[w][j].sessionId
                                      /\ \/ toWorker[w][i].cmd = "SessionEnterWorkerReq"
                                         \/ toWorker[w][i].cmd = "RouteLogicMsgReq" /\ toWorker[w][i].first
    BY DEF StrangersAreIntroduced
  <2>1. toWorker[w][j] \in ForWorker
    BY OrderTypes
  <2>2. toWorker[w][j] \in Routes
    BY <2>1, MessageKinds
  <2>3. PICK i \in 1..j : Introduces(toWorker[w][i], toWorker[w][j].sessionId)
    BY <2>2 DEF KnownInv, RoutedAreTold, Heard
  <2>4. toWorker[w] \in Seq(ForWorker) /\ i \in 1..Len(toWorker[w])
    BY OrderTypes, <2>3
  <2>5. toWorker[w][i] \in ForWorker
    BY <2>4, OrderTypes
  <2> QED BY <2>3, <2>5, MessageKinds DEF Introduces
<1> QED BY <1>1, SteadyInvariance, PTL


-----------------------------------------------------------------------------
(* Who is left behind. *)

\* A queue that stays is one that is cut nowhere.
LEMMA StayIsCut == GateInv => \A v \in Worker : CutTo(toWorker[v], toWorker[v])
<1> SUFFICES ASSUME GateInv, NEW v \in Worker PROVE CutTo(toWorker[v], toWorker[v])
  OBVIOUS
<1>1. Len(toWorker[v]) \in Nat
  BY OrderTypes
<1> QED BY <1>1 DEF CutTo

\* Messages that only go, and of whose loss somebody knows, leave nobody behind;
\* neither does a worker that ends, which takes its clients and its messages along.
LEMMA LeftKept ==
    ASSUME GateInv, LeftInv, asked \subseteq asked', missed \subseteq missed', EntriesAreAsked',
           \A v \in Worker : CutTo(toWorker[v], toWorker'[v]),
           \A v \in Worker : \A j \in 1..Len(toWorker[v]) :
               toWorker[v][j] \in Offlines /\ ~(j <= Len(toWorker'[v])) =>
                   \/ toWorker[v][j].sessionId \in missed'
                   \/ toWorker'[v] = <<>> /\ DOMAIN m_worker_client'[v] = {},
           \A v \in Worker : \A x \in DOMAIN m_worker_client'[v] :
               x \in DOMAIN m_worker_client[v] /\ m_worker_client'[v][x] = m_worker_client[v][x],
           \A x \in Live : \/ x \in asked' \cup missed'
                           \/ x \in Live' /\ m_client_set'[x].allocWorker = m_client_set[x].allocWorker,
           \A v \in Worker : \A i \in 1..Len(toGate'[v]) :
               \/ \E j \in 1..Len(toGate[v]) : toGate'[v][i] = toGate[v][j]
               \/ Disturbs(toGate'[v][i]) => toGate'[v][i].sessionId \in asked'
    PROVE  LeftInv'
<1>1. RequestsAreAsked'
  <2> SUFFICES ASSUME NEW v \in Worker, NEW i \in 1..Len(toGate'[v]), Disturbs(toGate'[v][i])
               PROVE  toGate'[v][i].sessionId \in asked'
    BY DEF RequestsAreAsked, Disturbs
  <2>1. CASE \E j \in 1..Len(toGate[v]) : toGate'[v][i] = toGate[v][j]
    BY <2>1 DEF LeftInv, RequestsAreAsked
  <2> QED BY <2>1
<1>2. ArrivalsAreAsked'
  BY DEF LeftInv, ArrivalsAreAsked, CutTo
<1>3. ASSUME NEW v \in Worker, NEW x, Serves(v, x)', x \notin asked' \cup missed'
      PROVE  Attached(v, x)' \/ Leaves(v, x)'
  <2>1. ~(toWorker'[v] = <<>> /\ DOMAIN m_worker_client'[v] = {})
    BY <1>3 DEF Serves
  <2>2. Serves(v, x)
    BY <1>3 DEF Serves, CutTo
  <2>3. CASE Attached(v, x)
    BY <1>3, <2>3 DEF Attached
  <2>4. CASE Leaves(v, x)
    <3>1. PICK j \in 1..Len(toWorker[v]) :
              /\ toWorker[v][j] \in Offlines /\ toWorker[v][j].sessionId = x
              /\ \A k \in 1..Len(toWorker[v]) : k > j => toWorker[v][k].sessionId # x
      BY <2>4 DEF Leaves
    <3>2. j <= Len(toWorker'[v])
      BY <1>3, <2>1, <3>1
    <3>3. j \in 1..Len(toWorker'[v]) /\ toWorker'[v][j] = toWorker[v][j]
      BY <3>2 DEF CutTo
    <3>4. \A k \in 1..Len(toWorker'[v]) : k > j => toWorker'[v][k].sessionId # x
      BY <3>1 DEF CutTo
    <3> QED BY <3>1, <3>3, <3>4 DEF Leaves
  <2> QED BY <1>3, <2>2, <2>3, <2>4 DEF LeftInv, ServersAreFollowed
<1> QED BY <1>1, <1>2, <1>3 DEF LeftInv, ServersAreFollowed

\* So does a step that sends nothing and takes no client from a worker.
LEMMA LeftAlone ==
    ASSUME GateInv, LeftInv, UNCHANGED <<toWorker, m_worker_client>>, asked \subseteq asked', missed \subseteq missed',
           EntriesAreAsked',
           \A x \in Live : \/ x \in asked' \cup missed'
                           \/ x \in Live' /\ m_client_set'[x].allocWorker = m_client_set[x].allocWorker,
           \A v \in Worker : \A i \in 1..Len(toGate'[v]) :
               \E j \in 1..Len(toGate[v]) : toGate'[v][i] = toGate[v][j]
    PROVE  LeftInv'
<1>1. \A v \in Worker : CutTo(toWorker[v], toWorker'[v])
  BY StayIsCut
<1>2. \A v \in Worker : \A j \in 1..Len(toWorker[v]) : j <= Len(toWorker'[v])
  BY OrderTypes
<1> QED BY <1>1, <1>2, LeftKept

\* A message is sent to the worker of its session, or ends it there, unless a game
\* has asked for it.
LEMMA LeftSent ==
    ASSUME GateInv, LeftInv, UNCHANGED workerVars, missed \subseteq missed', EntriesAreAsked',
           \A v \in Worker : \A i \in 1..Len(toGate'[v]) :
               \E j \in 1..Len(toGate[v]) : toGate'[v][i] = toGate[v][j],
           NEW w, NEW m \in ForWorker, NEW sid, sid = m.sessionId, Arrives(w, m),
           \A x \in Live : x # sid \/ m \in Routes =>
               x \in asked \/ (x \in Live' /\ m_client_set'[x].allocWorker = m_client_set[x].allocWorker),
           m \in Enters => sid \in asked,
           sid \in asked \/ \A v \in Worker : \A j \in 1..Len(toWorker[v]) :
                                toWorker[v][j] \in Offlines => toWorker[v][j].sessionId # sid,
           m \in Routes => sid \in asked \/ (sid \in Live' /\ m_client_set'[sid].allocWorker = w),
           m \in Offlines => /\ m_client_set[sid].allocWorker = w
                             /\ Reachable(w) \/ sid \in missed'
    PROVE  LeftInv'
<1>1. \/ m \in Enters /\ m \notin Routes /\ m \notin Offlines
      \/ m \in Routes /\ m \notin Enters /\ m \notin Offlines
      \/ m \in Offlines /\ m \notin Routes /\ m \notin Enters
  BY MessageKinds DEF ForWorker
<1>2. ASSUME NEW v \in Worker
      PROVE  /\ toWorker[v] \in Seq(ForWorker) /\ Len(toWorker[v]) \in Nat
             /\ \/ /\ toWorker'[v] = toWorker[v]
                   /\ ~(v = w /\ Reachable(v))
                \/ /\ v = w /\ Reachable(v)
                   /\ Len(toWorker'[v]) = Len(toWorker[v]) + 1 /\ toWorker'[v][Len(toWorker[v]) + 1] = m
                   /\ \A i \in 1..Len(toWorker[v]) : toWorker'[v][i] = toWorker[v][i]
  <2>1. toWorker[v] \in Seq(ForWorker) /\ Len(toWorker[v]) \in Nat
    BY OrderTypes
  <2> QED BY <2>1 DEF Arrives
<1>3. ASSUME NEW v \in Worker, NEW i \in 1..Len(toWorker'[v])
      PROVE  \/ i \in 1..Len(toWorker[v]) /\ toWorker'[v][i] = toWorker[v][i]
             \/ i = Len(toWorker[v]) + 1 /\ toWorker'[v][i] = m
  BY <1>2
<1>4. UNCHANGED <<m_worker_client, asked>>
  BY DEF workerVars
<1>5. RequestsAreAsked'
  <2> SUFFICES ASSUME NEW v \in Worker, NEW i \in 1..Len(toGate'[v]), Disturbs(toGate'[v][i])
               PROVE  toGate'[v][i].sessionId \in asked'
    BY DEF RequestsAreAsked, Disturbs
  <2>1. PICK j \in 1..Len(toGate[v]) : toGate'[v][i] = toGate[v][j]
    OBVIOUS
  <2> QED BY <1>4, <2>1 DEF LeftInv, RequestsAreAsked
<1>6. ArrivalsAreAsked'
  BY <1>3, <1>4 DEF LeftInv, ArrivalsAreAsked
<1>7. ASSUME NEW v \in Worker, NEW x, Serves(v, x)', x # sid \/ m \notin Routes \/ toWorker'[v] = toWorker[v]
      PROVE  Serves(v, x)
  BY <1>3, <1>4, <1>7 DEF Serves
<1>8. ASSUME NEW v \in Worker, NEW x, x # sid, Leaves(v, x)
      PROVE  Leaves(v, x)'
  <2>1. PICK j \in 1..Len(toWorker[v]) :
            /\ toWorker[v][j] \in Offlines /\ toWorker[v][j].sessionId = x
            /\ \A k \in 1..Len(toWorker[v]) : k > j => toWorker[v][k].sessionId # x
    BY <1>8 DEF Leaves
  <2>2. j \in 1..Len(toWorker'[v]) /\ toWorker'[v][j] = toWorker[v][j]
    BY <1>2
  <2>3. \A k \in 1..Len(toWorker'[v]) : k > j => toWorker'[v][k].sessionId # x
    BY <1>3, <1>8, <2>1
  <2> QED BY <2>1, <2>2, <2>3 DEF Leaves
<1>9. ASSUME NEW v \in Worker, NEW x, Attached(v, x), x # sid \/ m \in Routes, x \notin asked
      PROVE  Attached(v, x)'
  BY <1>9 DEF Attached
<1>10. ASSUME NEW v \in Worker, sid \notin asked PROVE ~Leaves(v, sid)
  BY <1>10 DEF Leaves
<1>11. ASSUME NEW v \in Worker, NEW x, Serves(v, x)', x \notin asked' \cup missed'
       PROVE  Attached(v, x)' \/ Leaves(v, x)'
  <2>0. x \notin asked \cup missed
    BY <1>4, <1>11
  <2>1. CASE x # sid
    <3>1. Serves(v, x)
      BY <1>7, <1>11, <2>1
    <3> QED BY <1>8, <1>9, <2>0, <2>1, <3>1 DEF LeftInv, ServersAreFollowed
  <2>2. CASE x = sid /\ m \in Routes /\ toWorker'[v] = toWorker[v]
    <3>1. Serves(v, x)
      BY <1>7, <1>11, <2>2
    <3> QED BY <1>9, <1>10, <2>0, <2>2, <3>1 DEF LeftInv, ServersAreFollowed
  <2>3. CASE x = sid /\ m \in Routes /\ toWorker'[v] # toWorker[v]
    <3>1. v = w
      BY <1>2, <2>3
    <3> QED BY <2>0, <2>3, <3>1 DEF Attached
  <2>4. CASE x = sid /\ m \in Offlines
    <3>1. Serves(v, x)
      BY <1>1, <1>7, <1>11, <2>4
    <3>2. Attached(v, x)
      BY <1>10, <2>0, <2>4, <3>1 DEF LeftInv, ServersAreFollowed
    <3>3. v = w /\ Reachable(v)
      BY <1>11, <2>4, <3>2 DEF Attached
    <3>4. PICK n \in Nat : n = Len(toWorker[v]) + 1
      BY <1>2
    <3>5. n \in 1..Len(toWorker'[v]) /\ toWorker'[v][n] = m /\ \A k \in 1..Len(toWorker'[v]) : ~(k > n)
      BY <1>2, <3>3, <3>4
    <3> QED BY <2>4, <3>5 DEF Leaves
  <2> QED BY <1>1, <2>0, <2>1, <2>2, <2>3, <2>4
<1> QED BY <1>5, <1>6, <1>11 DEF LeftInv, ServersAreFollowed

\* A request that the gate takes was asked for.
LEMMA AskedFor ==
    ASSUME GateInv, LeftInv, NEW w \in Worker, NEW cmd, Requested(w, cmd), Disturbs(Head(toGate[w]))
    PROVE  Head(toGate[w]).sessionId \in asked
<1>1. toGate[w] \in Seq(ForGate) /\ toGate[w] # <<>>
  BY RequestTaken DEF GateInv, NetSide, NetTypeInv, Queues
<1>2. 1 \in 1..Len(toGate[w]) /\ Head(toGate[w]) = toGate[w][1]
  BY <1>1
<1> QED BY <1>2 DEF LeftInv, RequestsAreAsked

\* An empty entry is bound to no worker.
LEMMA AtIsAsked ==
    ASSUME LeftInv, asked' = asked, NEW k, m_client_set' = At(m_client_set, k)
    PROVE  EntriesAreAsked'
<1>1. /\ DOMAIN m_client_set' = DOMAIN m_client_set \cup {k}
      /\ \A x \in DOMAIN m_client_set : m_client_set'[x] = m_client_set[x]
      /\ k \notin DOMAIN m_client_set => m_client_set'[k] = NewInfo
  BY DEF At, Insert
<1>2. Live' = Live
  BY AtStays DEF Stay
<1> QED BY <1>1, <1>2, NewInfoIs DEF LeftInv, EntriesAreAsked

\* A worker loses nothing but what it handles.
LEMMA LeftReceived ==
    ASSUME GateInv, LeftInv, UNCHANGED <<socketVars, gateVars>>, WorkerSteps
    PROVE  LeftInv'
<1>1. PICK w \in Worker : processSessionReq(w) \/ processSessionOffline(w) \/ processSessionEnter(w)
  BY DEF WorkerSteps
<1>2. PICK cmd : Received(w, cmd)
  BY <1>1 DEF processSessionReq, processSessionOffline, processSessionEnter
<1>3. PICK q \in Seq(ForWorker) : q = toWorker[w]
  BY OrderTypes
<1>4. PICK sid : sid = q[1].sessionId
  OBVIOUS
<1>5. /\ q # <<>> /\ 1 \in 1..Len(q) /\ Truthful(q[1]) /\ Head(toWorker[w]) = q[1] /\ q[1] \in ForWorker
      /\ toWorker'[w] = Tail(q) /\ \A v \in Worker : v # w => toWorker'[v] = toWorker[v]
      /\ UNCHANGED <<toGate, asked, missed>>
  BY <1>2, <1>3, MessageTaken
<1>6. /\ \A i \in 1..Len(Tail(q)) : i + 1 \in 1..Len(q) /\ Tail(q)[i] = q[i + 1] /\ i \in Nat
      /\ \A i \in 1..Len(q) : i # 1 => i - 1 \in 1..Len(Tail(q)) /\ Tail(q)[i - 1] = q[i] /\ i \in Nat
  BY <1>5
<1>7. UNCHANGED m_client_set /\ Live' = Live
  BY DEF gateVars, Live
<1>8. RequestsAreAsked' /\ EntriesAreAsked'
  BY <1>5, <1>7 DEF LeftInv, RequestsAreAsked, EntriesAreAsked
<1>9. ArrivalsAreAsked'
  <2> SUFFICES ASSUME NEW v \in Worker, NEW i \in 1..Len(toWorker'[v]), toWorker'[v][i] \in Enters
               PROVE  toWorker'[v][i].sessionId \in asked
    BY <1>5 DEF ArrivalsAreAsked
  <2>1. PICK j \in 1..Len(toWorker[v]) : toWorker'[v][i] = toWorker[v][j]
    <3>1. CASE v # w
      BY <1>5, <3>1
    <3>2. CASE v = w
      <4>1. i \in 1..Len(Tail(q)) /\ toWorker'[v][i] = Tail(q)[i]
        BY <1>5, <3>2
      <4> QED BY <1>3, <1>6, <3>2, <4>1
    <3> QED BY <3>1, <3>2
  <2> QED BY <2>1 DEF LeftInv, ArrivalsAreAsked
<1>10. /\ \A v \in Worker : v # w => m_worker_client'[v] = m_worker_client[v]
       /\ \A x \in DOMAIN m_worker_client'[w] :
              \/ x \in DOMAIN m_worker_client[w] /\ m_worker_client'[w][x] = m_worker_client[w][x] /\ x # sid
              \/ x = sid /\ q[1] \in Routes
              \/ x = sid /\ q[1] \in Enters
              \/ x = sid /\ ThrowingHook /\ m_worker_client'[w][x] = NoEntity
  <2>0. DOMAIN m_worker_client = Worker
    BY DEF GateInv, WorkerSide, WorkerTypeInv
  <2>1. CASE processSessionReq(w)
    <3>1. PICK c : c = q[1].client
      OBVIOUS
    <3>2. m_worker_client' = IF sid \in DOMAIN m_worker_client[w] THEN m_worker_client
                              ELSE [m_worker_client EXCEPT ![w] = Insert(@, sid, c)]
      BY <1>4, <1>5, <2>1, <3>1 DEF processSessionReq
    <3>3. PICK com : com = "RouteLogicMsgReq" /\ Received(w, com)
      BY <2>1 DEF processSessionReq
    <3>4. q[1].cmd = com
      BY <1>5, <3>3, MessageTaken
    <3>5. q[1] \in Routes
      BY <1>5, <3>3, <3>4, MessageKinds
    <3> QED BY <2>0, <3>2, <3>5 DEF Insert
  <2>2. CASE processSessionOffline(w)
    <3>1. \/ ThrowingHook /\ m_worker_client' = [m_worker_client EXCEPT ![w] = Insert(@, sid, NoEntity)]
          \/ m_worker_client' = [m_worker_client EXCEPT ![w] = Erase(@, sid)]
      BY <1>4, <1>5, <2>2 DEF processSessionOffline
    <3> QED BY <2>0, <3>1 DEF Erase, Insert
  <2>3. CASE processSessionEnter(w)
    <3>1. m_worker_client' = IF sid \in DOMAIN m_worker_client[w] THEN m_worker_client
                              ELSE [m_worker_client EXCEPT ![w] = Insert(@, sid, NoEntity)]
      BY <1>4, <1>5, <2>3 DEF processSessionEnter
    <3>2. PICK com : com = "SessionEnterWorkerReq" /\ Received(w, com)
      BY <2>3 DEF processSessionEnter
    <3>3. q[1].cmd = com
      BY <1>5, <3>2, MessageTaken
    <3>4. q[1] \in Enters
      BY <1>5, <3>2, <3>3, MessageKinds
    <3> QED BY <2>0, <3>1, <3>4 DEF Insert
  <2> QED BY <1>1, <2>1, <2>2, <2>3
<1>11. q[1] \in Enters => sid \in asked
  BY <1>3, <1>4, <1>5 DEF LeftInv, ArrivalsAreAsked
<1>12. ASSUME NEW v \in Worker, NEW x, Serves(v, x)', x \notin asked PROVE Serves(v, x)
  <2>1. CASE v # w
    BY <1>5, <1>10, <1>12, <2>1 DEF Serves
  <2>2. CASE v = w
    <3>1. CASE x \in DOMAIN m_worker_client'[w] /\ ~(ThrowingHook /\ m_worker_client'[w][x] = NoEntity)
      <4>1. CASE x \in DOMAIN m_worker_client[w] /\ m_worker_client'[w][x] = m_worker_client[w][x]
        BY <2>2, <3>1, <4>1 DEF Serves
      <4>2. CASE x = sid /\ q[1] \in Routes
        BY <1>3, <1>4, <1>5, <2>2, <4>2 DEF Serves
      <4> QED BY <1>10, <1>11, <1>12, <3>1, <4>1, <4>2
    <3>2. CASE \E i \in 1..Len(Tail(q)) : Tail(q)[i] \in Routes /\ Tail(q)[i].sessionId = x
      <4>1. PICK i \in 1..Len(Tail(q)) : Tail(q)[i] \in Routes /\ Tail(q)[i].sessionId = x
        BY <3>2
      <4>2. i + 1 \in 1..Len(q) /\ Tail(q)[i] = q[i + 1]
        BY <1>6
      <4> QED BY <1>3, <2>2, <4>1, <4>2 DEF Serves
    <3> QED BY <1>5, <1>12, <2>2, <3>1, <3>2 DEF Serves
  <2> QED BY <2>1, <2>2
<1>13. \A v \in Worker : \A x : Attached(v, x) => Attached(v, x)'
  BY <1>7 DEF Attached
<1>14. ASSUME NEW v \in Worker, NEW x, Serves(v, x)', x \notin asked, Leaves(v, x) PROVE Leaves(v, x)'
  <2>1. CASE v # w
    BY <1>5, <1>14, <2>1 DEF Leaves
  <2>2. CASE v = w
    <3>1. PICK j \in 1..Len(q) : /\ q[j] \in Offlines /\ q[j].sessionId = x
                                 /\ \A k \in 1..Len(q) : k > j => q[k].sessionId # x
      BY <1>3, <1>14, <2>2 DEF Leaves
    <3>2. CASE j # 1
      <4>1. PICK i \in 1..Len(Tail(q)) : i = j - 1 /\ Tail(q)[i] = q[j] /\ i \in Nat /\ j \in Nat
        BY <1>6, <3>2
      <4>2. \A k \in 1..Len(Tail(q)) : k > i => Tail(q)[k].sessionId # x
        <5>1. ASSUME NEW k \in 1..Len(Tail(q)), k > i PROVE k + 1 \in 1..Len(q) /\ k + 1 > j /\ Tail(q)[k] = q[k + 1]
          BY <1>6, <4>1, <5>1
        <5> QED BY <3>1, <5>1
      <4>3. toWorker'[v] = Tail(q)
        BY <1>5, <2>2
      <4>4. i \in 1..Len(toWorker'[v]) /\ toWorker'[v][i] \in Offlines /\ toWorker'[v][i].sessionId = x
        BY <3>1, <4>1, <4>3
      <4>5. \A k \in 1..Len(toWorker'[v]) : k > i => toWorker'[v][k].sessionId # x
        BY <4>2, <4>3
      <4> QED BY <4>4, <4>5 DEF Leaves
    <3>3. CASE j = 1
      <4>1. x = sid /\ q[1] \notin Routes /\ q[1] \notin Enters
        BY <1>4, <1>5, <3>1, <3>3, MessageKinds
      <4>2. ~(x \in DOMAIN m_worker_client'[w] /\ ~(ThrowingHook /\ m_worker_client'[w][x] = NoEntity))
        BY <1>10, <4>1
      <4>3. PICK i \in 1..Len(Tail(q)) : Tail(q)[i].sessionId = x
        BY <1>5, <1>14, <2>2, <4>2 DEF Serves
      <4>4. i + 1 \in 1..Len(q) /\ i + 1 > 1 /\ q[i + 1].sessionId = x
        BY <1>6, <4>3
      <4> QED BY <3>1, <3>3, <4>4
    <3> QED BY <3>2, <3>3
  <2> QED BY <2>1, <2>2
<1>15. ServersAreFollowed'
  <2> SUFFICES ASSUME NEW v \in Worker, NEW x, Serves(v, x)', x \notin asked \cup missed
               PROVE  Attached(v, x)' \/ Leaves(v, x)'
    BY <1>5 DEF ServersAreFollowed
  <2> QED BY <1>12, <1>13, <1>14 DEF LeftInv, ServersAreFollowed
<1> QED BY <1>8, <1>9, <1>15 DEF LeftInv

\* The gate forwards a message to the worker of its session,
LEMMA handleMsgLeaves ==
    ASSUME GateInv, LeftInv, NEW c \in Client, handleMsg(c), UNCHANGED workerVars
    PROVE  LeftInv'
<1>1. PICK n : n = Head(inbox[c])
  OBVIOUS
<1>2. n \in Nat
  <2>1. SocketTypeInv /\ BrokenInv
    BY DEF GateInv, GateSide
  <2>2. Head(inbox[c]) \in 0..MaxMsgs
    BY <2>1, TaskTaken, handleMsgIs
  <2> QED BY <1>1, <2>2, Names
<1>3. /\ m_allocID \in Nat /\ sessionId[c] \in Nat /\ NetTypeInv
      /\ UNCHANGED <<toGate, missed, asked, m_worker_client>>
      /\ \A v \in Worker : \A j \in 1..Len(toWorker[v]) :
             toWorker[v][j] \in Offlines => toWorker[v][j].sessionId \notin Live /\ toWorker[v][j].sessionId <= m_allocID
  <2>1. UNCHANGED <<toGate, missed, asked, m_worker_client>>
    BY DEF handleMsg, workerVars
  <2>2. \A v \in Worker : \A j \in 1..Len(toWorker[v]) :
             toWorker[v][j] \in Offlines => toWorker[v][j].sessionId \notin Live /\ toWorker[v][j].sessionId <= m_allocID
    BY OrderTypes DEF Truthful
  <2> QED BY <2>1, <2>2, OrderTypes DEF GateInv, NetSide
<1>4. ASSUME NEW w \in Worker, SessionStarts(c, m_allocID + 1, w) PROVE LeftInv'
  <2>1. PICK id \in Nat : id = m_allocID + 1
    BY <1>3
  <2>2. PICK m : m = RouteLogicMsgReq(id, c, n, TRUE)
    OBVIOUS
  <2>3. m \in ForWorker /\ m \in Routes /\ m.sessionId = id
    BY <1>2, <2>2 DEF ForWorker, Routes, RouteLogicMsgReq
  <2>4. /\ toWorker' = asyncCall(w, m)
        /\ m_client_set' = Insert(m_client_set, id, [sock |-> c, allocWorker |-> w])
    BY <1>1, <1>4, <2>1, <2>2 DEF SessionStarts
  <2>5. Arrives(w, m)
    BY <1>3, <2>3, <2>4, AsyncArrives
  <2>6. /\ id \in Live' /\ m_client_set'[id].allocWorker = w
        /\ \A x \in Live : x \in Live' /\ m_client_set'[x] = m_client_set[x]
    BY <1>4, <2>1, StartIs
  <2>7. \A v \in Worker : \A j \in 1..Len(toWorker[v]) :
            toWorker[v][j] \in Offlines => toWorker[v][j].sessionId # id
    BY <1>3, <2>1
  <2>8. EntriesAreAsked'
    <3>1. /\ DOMAIN m_client_set' = DOMAIN m_client_set \cup {id}
          /\ \A x \in DOMAIN m_client_set : x # id => m_client_set'[x] = m_client_set[x]
      BY <2>4 DEF Insert
    <3> QED BY <1>3, <2>6, <3>1 DEF LeftInv, EntriesAreAsked
  <2>9. m \notin Offlines /\ m \notin Enters
    BY <2>3, MessageKinds
  <2> QED BY <1>3, <2>3, <2>5, <2>6, <2>7, <2>8, <2>9, LeftSent
<1>5. ASSUME NEW w \in Named \cup {NoWorker}, MessageGoesOn(c, w) PROVE LeftInv'
  <2>1. PICK id \in Nat : id = sessionId[c]
    BY <1>3
  <2>2. PICK m : m = RouteLogicMsgReq(id, c, n, FALSE)
    OBVIOUS
  <2>3. m \in ForWorker /\ m \in Routes /\ m.sessionId = id /\ m \notin Offlines /\ m \notin Enters
    <3>1. m \in ForWorker /\ m \in Routes /\ m.sessionId = id
      BY <1>2, <2>1, <2>2 DEF ForWorker, Routes, RouteLogicMsgReq
    <3> QED BY <3>1, MessageKinds
  <2>4. /\ toWorker' = asyncCall(w, m)
        /\ m_client_set' = At(m_client_set, id) /\ w = m_client_set'[id].allocWorker
    BY <1>1, <1>5, <2>1, <2>2 DEF MessageGoesOn
  <2>5. Live' = Live /\ \A x \in Live : m_client_set'[x] = m_client_set[x]
    BY <2>4, AtStays DEF Stay
  <2>6. EntriesAreAsked'
    BY <1>3, <2>4, AtIsAsked
  <2>7. CASE id \in Live \/ id \in asked
    <3>1. Arrives(w, m)
      BY <1>3, <2>3, <2>4, AsyncArrives
    <3>2. id \in asked \/ \A v \in Worker : \A j \in 1..Len(toWorker[v]) :
                              toWorker[v][j] \in Offlines => toWorker[v][j].sessionId # id
      BY <1>3, <2>7
    <3> QED BY <1>3, <2>3, <2>4, <2>5, <2>6, <2>7, <3>1, <3>2, LeftSent
  <2>8. CASE id \notin Live /\ id \notin asked
    <3>1. /\ id \in DOMAIN m_client_set'
          /\ m_client_set'[id].allocWorker = NoWorker
      BY <1>3, <2>4, <2>5, <2>6, <2>8 DEF EntriesAreAsked, At, Insert
    <3>2. toWorker' = toWorker
      BY <2>4, <3>1, Names, NobodyArrives
    <3> QED BY <1>3, <2>5, <2>6, <3>2, LeftAlone
  <2> QED BY <2>7, <2>8
<1>6. CASE MessageRefused(c)
  <2>1. UNCHANGED <<m_client_set, toWorker>> /\ Live' = Live
    BY <1>6 DEF MessageRefused, sessionNetVars, Live
  <2>2. EntriesAreAsked'
    BY <1>3, <2>1 DEF LeftInv, EntriesAreAsked
  <2> QED BY <1>3, <2>1, <2>2, LeftAlone
<1> QED BY <1>4, <1>5, <1>6, handleMsgIs

\* and tells it when the client has gone.
LEMMA handleBrokenLeaves ==
    ASSUME GateInv, LeftInv, NEW c \in Client, handleBroken(c), UNCHANGED workerVars
    PROVE  LeftInv'
<1>1. /\ UNCHANGED <<toGate, asked, m_worker_client>> /\ NetTypeInv
      /\ \A id \in Live : id \in Nat
      /\ \A v \in Worker : \A j \in 1..Len(toWorker[v]) :
             toWorker[v][j] \in Offlines => toWorker[v][j].sessionId \notin Live
  <2>1. \A v \in Worker : \A j \in 1..Len(toWorker[v]) :
             toWorker[v][j] \in Offlines => toWorker[v][j].sessionId \notin Live
    BY OrderTypes DEF Truthful
  <2>2. \A id \in Live : id \in Nat
    BY DEF GateInv, GateSide, EntryInv, GateTypeInv, Live
  <2>3. UNCHANGED <<toGate, asked, m_worker_client>>
    BY DEF handleBroken, workerVars
  <2> QED BY <2>1, <2>2, <2>3 DEF GateInv, NetSide
<1>2. CASE UNCHANGED <<m_client_set, toWorker, missed>>
  <2>1. Live' = Live
    BY <1>2 DEF Live
  <2>2. EntriesAreAsked'
    BY <1>1, <1>2, <2>1 DEF LeftInv, EntriesAreAsked
  <2> QED BY <1>1, <1>2, <2>1, <2>2, LeftAlone
<1>3. ASSUME NEW id \in 1..m_allocID, m_client_set' = At(m_client_set, id), UNCHANGED <<toWorker, missed>>
      PROVE  LeftInv'
  <2>1. Live' = Live /\ \A x \in Live : m_client_set'[x] = m_client_set[x]
    BY <1>3, AtStays DEF Stay
  <2>2. EntriesAreAsked'
    BY <1>1, <1>3, AtIsAsked
  <2> QED BY <1>1, <1>3, <2>1, <2>2, LeftAlone
<1>4. ASSUME NEW id \in Live, NEW w \in Named, SessionEnds(c, id, w) PROVE LeftInv'
  <2>1. PICK m : m = SessionOfflineReq(id)
    OBVIOUS
  <2>2. m \in ForWorker /\ m \in Offlines /\ m \notin Routes /\ m \notin Enters /\ m.sessionId = id
    BY <1>1, <2>1, MadeOf, MessageKinds DEF ForWorker
  <2>3. /\ toWorker' = asyncCall(w, m) /\ m_client_set' = Erase(m_client_set, id)
        /\ m_client_set[id].allocWorker = w
        /\ missed' = IF Reachable(w) THEN missed ELSE missed \cup {id}
    BY <1>4, <2>1 DEF SessionEnds
  <2>4. Arrives(w, m)
    BY <1>1, <2>2, <2>3, AsyncArrives
  <2>5. Live' = Live \ {id} /\ \A x \in Live : x # id => m_client_set'[x] = m_client_set[x]
    BY <2>3, EndIs
  <2>6. \A v \in Worker : \A j \in 1..Len(toWorker[v]) :
            toWorker[v][j] \in Offlines => toWorker[v][j].sessionId # id
    BY <1>1
  <2>7. EntriesAreAsked'
    BY <1>1, <2>3, <2>5 DEF LeftInv, EntriesAreAsked, Erase
  <2>8. missed \subseteq missed' /\ (Reachable(w) \/ id \in missed')
    BY <2>3
  <2> QED BY <1>1, <2>2, <2>3, <2>4, <2>5, <2>6, <2>7, <2>8, LeftSent
<1> QED BY <1>2, <1>3, <1>4, handleBrokenIs

\* It moves a session for a game,
LEMMA changeSessionLogicLeaves ==
    ASSUME GateInv, LeftInv, NEW u \in Worker, changeSessionLogic(u), UNCHANGED workerVars
    PROVE  LeftInv'
<1>1. PICK cmd : cmd = "GateChangeLogicNodeReq" /\ Requested(u, cmd)
  BY changeSessionLogicIs
<1>2. PICK new \in Targets : \E id \in Nat :
          /\ Head(toGate[u]) \in Moves /\ Head(toGate[u]).sessionId = id
          /\ \/ id \notin DOMAIN m_client_set /\ UNCHANGED <<m_client_set, toWorker, thrown>>
             \/ SessionMoves(id, new) \/ EmptyMoves(id, new)
  BY changeSessionLogicIs
<1>3. PICK id \in Nat :
          /\ Head(toGate[u]) \in Moves /\ Head(toGate[u]).sessionId = id
          /\ \/ id \notin DOMAIN m_client_set /\ UNCHANGED <<m_client_set, toWorker, thrown>>
             \/ SessionMoves(id, new) \/ EmptyMoves(id, new)
  BY <1>2
<1>4. /\ missed' = missed /\ UNCHANGED <<asked, m_worker_client>>
      /\ \A v \in Worker : \A i \in 1..Len(toGate'[v]) :
             \E j \in 1..Len(toGate[v]) : toGate'[v][i] = toGate[v][j]
  BY <1>1, RequestTaken DEF workerVars
<1>5. id \in asked
  <2>1. Disturbs(Head(toGate[u]))
    BY <1>3 DEF Disturbs
  <2> QED BY <1>1, <1>3, <2>1, AskedFor
<1>6. \A x \in Live : m_client_set[x].allocWorker \in Named /\ x \in DOMAIN m_client_set
  BY DEF GateInv, GateSide, EntryInv, Live
<1>7. CASE id \notin DOMAIN m_client_set /\ UNCHANGED <<m_client_set, toWorker, thrown>>
  <2>1. Live' = Live
    BY <1>7 DEF Live
  <2>2. EntriesAreAsked'
    BY <1>4, <1>7, <2>1 DEF LeftInv, EntriesAreAsked
  <2> QED BY <1>4, <1>7, <2>1, <2>2, LeftAlone
<1>8. ASSUME id \in DOMAIN m_client_set, m_client_set' = [m_client_set EXCEPT ![id].allocWorker = new]
      PROVE  /\ EntriesAreAsked' /\ Live' = Live
             /\ \A x \in Live : x # id => m_client_set'[x].allocWorker = m_client_set[x].allocWorker
  <2>1. /\ Live' = Live
        /\ \A x \in DOMAIN m_client_set : x # id => m_client_set'[x] = m_client_set[x]
    BY <1>8, MoveIs
  <2>2. DOMAIN m_client_set' = DOMAIN m_client_set
    BY <1>8
  <2> QED BY <1>4, <1>5, <1>6, <2>1, <2>2 DEF LeftInv, EntriesAreAsked
<1>9. CASE EmptyMoves(id, new)
  <2>1. /\ id \in DOMAIN m_client_set /\ m_client_set' = [m_client_set EXCEPT ![id].allocWorker = new]
        /\ toWorker' = toWorker
    BY <1>9 DEF EmptyMoves
  <2>2. /\ EntriesAreAsked' /\ Live' = Live
        /\ \A x \in Live : x # id => m_client_set'[x].allocWorker = m_client_set[x].allocWorker
    BY <1>8, <2>1
  <2> QED BY <1>4, <1>5, <2>1, <2>2, LeftAlone
<1>10. CASE SessionMoves(id, new)
  <2>1. PICK m : m = SessionEnterWorkerReq(id, m_client_set[id].allocWorker)
    OBVIOUS
  <2>2. /\ id \in DOMAIN m_client_set /\ m_client_set' = [m_client_set EXCEPT ![id].allocWorker = new]
        /\ toWorker' = asyncCall(new, m) /\ m_client_set[id].allocWorker \in Named
    BY <1>6, <1>10, <2>1 DEF SessionMoves, Live
  <2>3. m \in ForWorker /\ m \in Enters /\ m \notin Routes /\ m \notin Offlines /\ m.sessionId = id
    BY <2>1, <2>2, MadeOf, MessageKinds DEF ForWorker
  <2>4. Arrives(new, m)
    BY <2>2, <2>3, AsyncArrives DEF GateInv, NetSide
  <2>5. /\ EntriesAreAsked' /\ Live' = Live
        /\ \A x \in Live : x # id => m_client_set'[x].allocWorker = m_client_set[x].allocWorker
    BY <1>8, <2>2
  <2> QED BY <1>4, <1>5, <2>3, <2>4, <2>5, LeftSent
<1> QED BY <1>3, <1>7, <1>9, <1>10

\* closes one, and passes on what it sends.
LEMMA GateLeaves ==
    ASSUME GateInv, LeftInv, GateSteps, UNCHANGED workerVars
    PROVE  LeftInv'
<1>1. ASSUME NEW w \in Worker, NEW cmd, Requested(w, cmd)
      PROVE  /\ missed' = missed /\ UNCHANGED <<asked, m_worker_client>>
             /\ \A v \in Worker : \A i \in 1..Len(toGate'[v]) :
                    \E j \in 1..Len(toGate[v]) : toGate'[v][i] = toGate[v][j]
  BY <1>1, RequestTaken DEF workerVars
<1>2. ASSUME NEW w \in Worker, NEW cmd, Requested(w, cmd), UNCHANGED <<m_client_set, toWorker>> PROVE LeftInv'
  <2>1. Live' = Live
    BY <1>2 DEF Live
  <2>2. /\ missed' = missed /\ UNCHANGED <<asked, m_worker_client>>
        /\ \A v \in Worker : \A i \in 1..Len(toGate'[v]) :
               \E j \in 1..Len(toGate[v]) : toGate'[v][i] = toGate[v][j]
    BY <1>1, <1>2
  <2>3. EntriesAreAsked'
    BY <1>2, <2>1, <2>2 DEF LeftInv, EntriesAreAsked
  <2> QED BY <1>2, <2>1, <2>2, <2>3, LeftAlone
<1>3. ASSUME NEW w \in Worker, closeSession(w) PROVE LeftInv'
  <2>1. PICK cmd : cmd = "GateCloseSessionReq" /\ Requested(w, cmd)
    BY <1>3 DEF closeSession
  <2>2. toWorker' = toWorker
    BY <1>3, closeSessionIs
  <2>3. CASE UNCHANGED m_client_set
    BY <1>2, <2>1, <2>2, <2>3
  <2>4. ASSUME NEW id \in Live, NEW s \in Client, id = Head(toGate[w]).sessionId, SessionCloses(id, s)
        PROVE  LeftInv'
    <3>1. Disturbs(Head(toGate[w]))
      BY <2>1, RequestTaken DEF Disturbs
    <3>2. id \in asked
      BY <2>1, <2>4, <3>1, AskedFor
    <3>3. m_client_set' = Erase(m_client_set, id)
      BY <2>4 DEF SessionCloses
    <3>4. Live' = Live \ {id} /\ \A x \in Live : x # id => m_client_set'[x] = m_client_set[x]
      BY <3>3, EndIs
    <3>5. /\ missed' = missed /\ UNCHANGED <<asked, m_worker_client>>
          /\ \A v \in Worker : \A i \in 1..Len(toGate'[v]) :
                 \E j \in 1..Len(toGate[v]) : toGate'[v][i] = toGate[v][j]
      BY <1>1, <2>1
    <3>6. EntriesAreAsked'
      BY <3>3, <3>4, <3>5 DEF LeftInv, EntriesAreAsked, Erase
    <3> QED BY <2>2, <3>2, <3>4, <3>5, <3>6, LeftAlone
  <2> QED BY <1>3, <2>3, <2>4, closeSessionIs
<1>4. ASSUME NEW w \in Worker, routeMsgToSession(w) \/ broadcastMsgToSession(w) PROVE LeftInv'
  <2>1. PICK cmd : Requested(w, cmd)
    BY <1>4 DEF routeMsgToSession, broadcastMsgToSession
  <2>2. UNCHANGED <<m_client_set, toWorker>>
    BY <1>4 DEF routeMsgToSession, broadcastMsgToSession
  <2> QED BY <1>2, <2>1, <2>2
<1> QED BY <1>3, <1>4, handleMsgLeaves, handleBrokenLeaves, changeSessionLogicLeaves DEF GateSteps

\* A game that moves or closes a session has asked for it.
LEMMA GamesLeave ==
    ASSUME GateInv, LeftInv, GameSteps, UNCHANGED <<socketVars, gateVars>>
    PROVE  LeftInv'
<1>1. PICK w \in Worker : \E kind, m, id : Asks(w, kind, m, id)
  BY GameStepIs
<1>2. PICK kind, m, id : Asks(w, kind, m, id)
  BY <1>1
<1>3. /\ m \in ForGate /\ m.sessionId \in 0..m_allocID /\ Requesting(w, kind, m)
      /\ asked \subseteq asked' /\ (Disturbs(m) => m.sessionId \in asked')
      /\ toGate[w] \in Seq(ForGate) /\ DOMAIN m_worker_client = Worker
  BY <1>2 DEF Asks, Disturbs, GateInv, NetSide, NetTypeInv, Queues, WorkerSide, WorkerTypeInv
<1>4. /\ toGate'[w] = toGate[w] \/ toGate'[w] = Append(toGate[w], m)
      /\ \A v \in Worker : v # w => toGate'[v] = toGate[v]
      /\ UNCHANGED <<toWorker, missed>>
  BY <1>3, RequestMade
<1>5. \A v \in Worker : \A i \in 1..Len(toGate'[v]) :
          \/ \E j \in 1..Len(toGate[v]) : toGate'[v][i] = toGate[v][j]
          \/ Disturbs(toGate'[v][i]) => toGate'[v][i].sessionId \in asked'
  <2> SUFFICES ASSUME NEW v \in Worker, NEW i \in 1..Len(toGate'[v])
               PROVE  (\E j \in 1..Len(toGate[v]) : toGate'[v][i] = toGate[v][j]) \/ toGate'[v][i] = m
    BY <1>3
  <2>1. CASE toGate'[v] = toGate[v]
    BY <2>1
  <2>2. CASE v = w /\ toGate'[w] = Append(toGate[w], m)
    BY <1>3, <2>2
  <2> QED BY <1>4, <2>1, <2>2
<1>6. \A v \in Worker : \A x \in DOMAIN m_worker_client'[v] :
          x \in DOMAIN m_worker_client[v] /\ m_worker_client'[v][x] = m_worker_client[v][x]
  <2>1. CASE UNCHANGED m_worker_client
    BY <2>1
  <2>2. CASE m_worker_client' = [m_worker_client EXCEPT ![w] = Erase(@, id)]
    BY <1>3, <2>2 DEF Erase
  <2> QED BY <1>2, <2>1, <2>2 DEF Asks
<1>7. UNCHANGED m_client_set /\ Live' = Live
  BY DEF gateVars, Live
<1>8. EntriesAreAsked'
  BY <1>3, <1>7 DEF LeftInv, EntriesAreAsked
<1>9. \A v \in Worker : CutTo(toWorker[v], toWorker'[v]) /\ \A j \in 1..Len(toWorker[v]) : j <= Len(toWorker'[v])
  BY <1>4, StayIsCut, OrderTypes
<1> QED BY <1>3, <1>4, <1>5, <1>6, <1>7, <1>8, <1>9, LeftKept

\* When a connection breaks the sessions whose end is not heard of are known; a
\* worker that ends leaves nobody.
LEMMA CrashLeaves ==
    ASSUME GateInv, LeftInv, Crash
    PROVE  LeftInv'
<1>1. PICK w \in Worker : (ConnectionBreaks(w) /\ UNCHANGED workerVars) \/ WorkerEnds(w)
  BY DEF Crash
<1>2. Remains /\ UNCHANGED <<m_client_set, asked>> /\ Live' = Live
  BY CrashKeeps DEF Crash, gateVars, Remains, Live
<1>3. EntriesAreAsked'
  BY <1>2 DEF LeftInv, EntriesAreAsked
<1>4. \A v \in Worker : \A x \in DOMAIN m_worker_client'[v] :
          x \in DOMAIN m_worker_client[v] /\ m_worker_client'[v][x] = m_worker_client[v][x]
  BY <1>2 DEF Remains
<1>5. \A v \in Worker : \A i \in 1..Len(toGate'[v]) :
          \E j \in 1..Len(toGate[v]) : toGate'[v][i] = toGate[v][j]
  BY <1>2 DEF Remains, CutTo
<1>6. ASSUME NEW v \in Worker, NEW j \in 1..Len(toWorker[v]), toWorker[v][j] \in Offlines,
             ~(j <= Len(toWorker'[v]))
      PROVE  \/ toWorker[v][j].sessionId \in missed'
             \/ toWorker'[v] = <<>> /\ DOMAIN m_worker_client'[v] = {}
  <2>1. CASE ConnectionBreaks(w) /\ UNCHANGED workerVars
    BY <1>6, <2>1, BreakLeaves
  <2>2. CASE WorkerEnds(w)
    <3>1. CASE v = w
      BY <2>2, <3>1, EndLeaves
    <3>2. CASE v # w
      <4>1. toWorker'[v] = toWorker[v]
        BY <2>2, <3>2, EndLeaves
      <4> QED BY <1>6, <4>1, OrderTypes
    <3> QED BY <3>1, <3>2
  <2> QED BY <1>1, <2>1, <2>2
<1>7. missed \subseteq missed' /\ \A v \in Worker : CutTo(toWorker[v], toWorker'[v])
  BY <1>2 DEF Remains
<1> QED BY <1>2, <1>3, <1>4, <1>5, <1>6, <1>7, LeftKept

\* Nobody is left behind by any step.
LEMMA StepKeepsLeftInv ==
    ASSUME GateInv, LeftInv, [SessionNext]_sessionVars
    PROVE  LeftInv'
<1>1. ASSUME UNCHANGED <<m_client_set, toWorker, toGate, missed, asked, m_worker_client>> PROVE LeftInv'
  <2>1. Live' = Live
    BY <1>1 DEF Live
  <2>2. EntriesAreAsked'
    BY <1>1, <2>1 DEF LeftInv, EntriesAreAsked
  <2>3. \A v \in Worker : \A i \in 1..Len(toGate'[v]) :
            \E j \in 1..Len(toGate[v]) : toGate'[v][i] = toGate[v][j]
    BY <1>1
  <2> QED BY <1>1, <2>1, <2>2, <2>3, LeftAlone
<1>2. CASE ClientSteps /\ UNCHANGED workerVars
  <2>1. UNCHANGED <<gateVars, sessionNetVars>>
    BY <1>2, ClientStepKeeps DEF ClientSteps
  <2> QED BY <1>1, <1>2, <2>1 DEF gateVars, sessionNetVars, workerVars
<1>3. CASE GateSteps /\ UNCHANGED workerVars
  BY <1>3, GateLeaves
<1>4. CASE (close_impl \/ queueClosed) /\ UNCHANGED workerVars
  BY <1>1, <1>4 DEF close_impl, queueClosed, sessionNetVars, workerVars
<1>5. CASE (WorkerSteps \/ GameSteps) /\ UNCHANGED <<socketVars, gateVars>>
  BY <1>5, LeftReceived, GamesLeave
<1>6. CASE Crash
  BY <1>6, CrashLeaves
<1>7. CASE Recovery
  BY <1>1, <1>7 DEF Recovery, gateVars, workerVars, WorkerRegisters, GateLearnsRegistry
<1>8. CASE UNCHANGED sessionVars
  BY <1>1, <1>8 DEF sessionVars, gateVars, sessionNetVars, workerVars
<1> QED BY <1>2, <1>3, <1>4, <1>5, <1>6, <1>7, <1>8 DEF SessionNext

\* At the start no worker serves anybody.
LEMMA LeftInitHolds == SessionInit => LeftInv
<1> SUFFICES ASSUME SessionInit PROVE LeftInv
  OBVIOUS
<1>1. /\ DOMAIN m_client_set = {}
      /\ \A w \in Worker : toWorker[w] = <<>> /\ toGate[w] = <<>> /\ DOMAIN m_worker_client[w] = {}
  BY DEF SessionInit, GateInit, NetInit, WorkerInit, Empty
<1> QED BY <1>1 DEF LeftInv, RequestsAreAsked, ArrivalsAreAsked, EntriesAreAsked, ServersAreFollowed, Serves

\* Of a session that ended or belongs to another a worker keeps a client only when a
\* game asked about it, its logout was lost on the way, or the hook threw before the
\* erase; through every move, every broken connection and every return
\* (FFGate::handleBroken, FFWorker::processSessionOffline).
THEOREM NobodyLeft == SessionSpec => []NobodyIsLeftBehind
<1>1. GateInv /\ LeftInv /\ [SessionNext]_sessionVars => (GateInv /\ LeftInv)'
  BY StepKeepsGateInv, StepKeepsLeftInv
<1>2. GateInv /\ LeftInv => NobodyIsLeftBehind
  <2> SUFFICES ASSUME LeftInv, Quiet, NEW w \in Worker,
                      NEW id \in DOMAIN m_worker_client[w], id \notin asked \cup missed,
                      ~(ThrowingHook /\ m_worker_client[w][id] = NoEntity)
               PROVE  id \in Live /\ m_client_set[id].allocWorker = w
    BY DEF NobodyIsLeftBehind
  <2>1. toWorker[w] = <<>> /\ Serves(w, id)
    BY DEF Quiet, Serves
  <2>2. ~Leaves(w, id)
    BY <2>1 DEF Leaves
  <2> QED BY <2>1, <2>2 DEF LeftInv, ServersAreFollowed, Attached
<1> QED BY <1>1, <1>2, GateInitHolds, LeftInitHolds, PTL DEF SessionSpec
=============================================================================
