--------------------------- MODULE FFBrokerProofs ---------------------------
(***************************************************************************)
(* The registry of the broker keeps its invariants, and never gives out a  *)
(* node id twice, for any number of connections, names and processes.      *)
(*                                                                         *)
(* The peers come in only through EnvStep, so that the theorems hold for   *)
(* whatever is put in their place.                                         *)
(***************************************************************************)
EXTENDS FFBroker, TLAPS

vars == <<netVars, brokerVars>>

\* Facts the properties rest on: the session of a connection and the broker's
\* table agree, and nothing is left to handle where there is no connection.
OwnersAreFound ==
    \A c \in Conn : brokerEnd[c] # "none" /\ session[c].nodeId # 0 =>
        /\ session[c].nodeId \in DOMAIN node_sockets
        /\ node_sockets[session[c].nodeId] = c
SessionsConsistent ==
    \A c \in Conn : /\ session[c].nodeType = "UNKNOWN_NODE" <=> session[c].nodeId = 0
                    /\ session[c].strServiceName # "" => session[c].nodeId # 0
QuietWhenGone ==
    /\ DOMAIN toBroker = Link
    /\ \A c \in Conn : brokerEnd[c] = "none" => toBroker[c] = <<>>

IInv == /\ RegistryTypeOK
        /\ SocketsAreTheirOwners
        /\ ServicesAreRoutable
        /\ NodesKeepTheirNames
        /\ GoneAreForgotten
        /\ OwnersAreFound
        /\ SessionsConsistent
        /\ QuietWhenGone

-----------------------------------------------------------------------------
(* The tables. *)

\* The ids up to m, and the next one.
LEMMA NextId ==
    ASSUME NEW m \in Nat, NEW id, id = m + 1
    PROVE  /\ id \in Nat /\ id # 0
           /\ id \notin 1..m /\ id \notin 0..m
           /\ \A i \in 1..m : i # 0
           /\ id \in 1..id /\ id \in 0..id
           /\ \A i \in 1..m : i \in 1..id
           /\ \A i \in 0..m : i \in 0..id
OBVIOUS

LEMMA NoSessionIs == /\ NoSession.nodeType = "UNKNOWN_NODE"
                     /\ NoSession.nodeId = 0
                     /\ NoSession.strServiceName = ""
BY DEF NoSession

LEMMA EmptyIs == DOMAIN Empty = {}
BY DEF Empty

\* A prefix of nothing is nothing.
LEMMA TruncatedIs ==
    ASSUME NEW queues, DOMAIN queues = Link, NEW c \in Link, NEW q \in Truncated(queues, c)
    PROVE  /\ DOMAIN q = Link
           /\ \A d \in Link \ {c} : q[d] = queues[d]
           /\ queues[c] = <<>> => q[c] = <<>>
<1>1. PICK k \in 0..Len(queues[c]) : q = [queues EXCEPT ![c] = SubSeq(@, 1, k)]
  BY DEF Truncated
<1>2. DOMAIN q = Link /\ \A d \in Link \ {c} : q[d] = queues[d]
  BY <1>1
<1>3. ASSUME queues[c] = <<>> PROVE q[c] = <<>>
  <2>1. k = 0 BY <1>1, <1>3
  <2>2. q[c] = SubSeq(<<>>, 1, 0) BY <1>1, <1>3, <2>1
  <2>3. QED BY <2>2
<1>4. QED BY <1>2, <1>3

-----------------------------------------------------------------------------
(* The initial states, and the steps of the peers. *)

LEMMA InitHolds == NetInit /\ BrokerInit => IInv
<1> SUFFICES ASSUME NetInit, BrokerInit PROVE IInv
  OBVIOUS
<1>1. DOMAIN node_sockets = {} /\ DOMAIN service2nodeId = {}
  BY EmptyIs DEF BrokerInit
<1>2. RegistryTypeOK
  <2>1. DOMAIN session = Conn /\ \A c \in Conn : session[c].nodeId = 0
    BY DEF NetInit, NoSession
  <2>2. m_for_allocID = 0
    BY DEF BrokerInit
  <2>3. brokerEnd \in [Conn -> Ends] /\ nodeEnd \in [Conn -> Ends]
    BY DEF NetInit, Ends
  <2>4. QED BY <1>1, <2>1, <2>2, <2>3 DEF RegistryTypeOK, Ends
<1>3. SocketsAreTheirOwners /\ ServicesAreRoutable /\ GoneAreForgotten
  BY <1>1 DEF SocketsAreTheirOwners, ServicesAreRoutable, GoneAreForgotten
<1>4. NodesKeepTheirNames /\ OwnersAreFound /\ SessionsConsistent
  BY DEF NetInit, NodesKeepTheirNames, OwnersAreFound, SessionsConsistent, NoSession
<1>5. QuietWhenGone
  BY DEF NetInit, QuietWhenGone, Link
<1>6. QED BY <1>2, <1>3, <1>4, <1>5 DEF IInv

LEMMA EnvKeeps == IInv /\ EnvStep => IInv'
<1> SUFFICES ASSUME IInv, EnvStep PROVE IInv'
  OBVIOUS
<1>1. ASSUME NEW id \in DOMAIN node_sockets
      PROVE  /\ node_sockets[id] \in Conn
             /\ session'[node_sockets[id]] = session[node_sockets[id]]
             /\ brokerEnd'[node_sockets[id]] # "none"
  BY DEF IInv, RegistryTypeOK, GoneAreForgotten, EnvStep
<1>2. RegistryTypeOK'
  <2>1. m_for_allocID \in Nat /\ \A c \in Conn : session[c].nodeId \in 0..m_for_allocID
    BY DEF IInv, RegistryTypeOK
  <2>4. 0 \in 0..m_for_allocID
    BY <2>1
  <2>5. \A c \in Conn : session'[c] = session[c] \/ session'[c] = NoSession
    BY DEF EnvStep
  <2>2. \A c \in Conn : session'[c].nodeId \in 0..m_for_allocID
    BY <2>1, <2>4, <2>5, NoSessionIs
  <2>3. QED BY <2>1, <2>2 DEF IInv, RegistryTypeOK, EnvStep, Ends
<1>3. SocketsAreTheirOwners' /\ GoneAreForgotten'
  BY <1>1 DEF IInv, SocketsAreTheirOwners, GoneAreForgotten, EnvStep
<1>4. ServicesAreRoutable'
  BY <1>1 DEF IInv, ServicesAreRoutable, EnvStep
<1>5. NodesKeepTheirNames'
  BY NoSessionIs DEF IInv, NodesKeepTheirNames, EnvStep
<1>6. OwnersAreFound'
  BY NoSessionIs DEF IInv, OwnersAreFound, EnvStep
<1>9. SessionsConsistent'
  BY NoSessionIs DEF IInv, SessionsConsistent, EnvStep
<1>7. QuietWhenGone'
  BY DEF IInv, QuietWhenGone, EnvStep
<1>8. QED BY <1>2, <1>3, <1>4, <1>5, <1>6, <1>7, <1>9 DEF IInv

LEMMA PeersAreEnv == IInv /\ PeerNext => EnvStep
<1> SUFFICES ASSUME IInv, PeerNext PROVE EnvStep
  OBVIOUS
<1>t. /\ brokerEnd \in [Conn -> Ends] /\ nodeEnd \in [Conn -> Ends]
      /\ DOMAIN session = Conn /\ DOMAIN toBroker = Link
      /\ \A c \in Conn : brokerEnd[c] = "none" => toBroker[c] = <<>>
      /\ Conn \subseteq Link
  BY DEF IInv, RegistryTypeOK, QuietWhenGone, Ends, Link
<1>1. ASSUME NEW c \in Conn, PeerConnects(c) PROVE EnvStep
  BY <1>t, <1>1 DEF PeerConnects, Connect, EnvStep, brokerVars, Ends
<1>2. ASSUME NEW c \in Conn, PeerBreaks(c) PROVE EnvStep
  <2>1. toBroker' \in Truncated(toBroker, c) /\ brokerEnd[c] = "open"
    BY <1>2 DEF PeerBreaks, Break, Up
  <2>2. /\ DOMAIN toBroker' = Link
        /\ \A d \in Link \ {c} : toBroker'[d] = toBroker[d]
    BY <1>t, <2>1, TruncatedIs
  <2>3. QED
    BY <1>t, <1>2, <2>1, <2>2 DEF PeerBreaks, Break, EnvStep, brokerVars, Ends
<1>3. ASSUME NEW c \in Conn, PeerForgets(c) PROVE EnvStep
  <2>1. toBroker' \in Truncated(toBroker, c)
    BY <1>3 DEF PeerForgets, Abandon
  <2>2. /\ DOMAIN toBroker' = Link
        /\ \A d \in Link \ {c} : toBroker'[d] = toBroker[d]
        /\ toBroker[c] = <<>> => toBroker'[c] = <<>>
    BY <1>t, <2>1, TruncatedIs
  <2>3. QED
    BY <1>t, <1>3, <2>2 DEF PeerForgets, Abandon, EnvStep, brokerVars, Ends
<1>4. ASSUME NEW l \in Link, PeerSends(l) PROVE EnvStep
  <2>1. l \in Conn => brokerEnd[l] = "open"
    BY <1>4 DEF PeerSends, Up
  <2>2. PICK m : toBroker' = Put(toBroker, l, m)
    BY <1>4 DEF PeerSends
  <2>3. /\ DOMAIN toBroker' = Link
        /\ \A d \in Link \ {l} : toBroker'[d] = toBroker[d]
    BY <1>t, <2>2 DEF Put
  <2>4. QED
    BY <1>t, <1>4, <2>1, <2>3 DEF PeerSends, EnvStep, brokerVars
<1>5. ASSUME NEW l \in Link, PeerReceives(l) PROVE EnvStep
  BY <1>t, <1>5 DEF PeerReceives, EnvStep, brokerVars
<1>6. ASSUME NEW n \in InProc, PeerJoinsMemoryRoute(n) PROVE EnvStep
  BY <1>t, <1>6 DEF PeerJoinsMemoryRoute, EnvStep, netVars
<1>7. QED
  BY <1>1, <1>2, <1>3, <1>4, <1>5, <1>6 DEF PeerNext

-----------------------------------------------------------------------------
(* The steps of the broker. *)

\* The first message of a queue is handled: the connection is not gone.
LEMMA TakenIs ==
    ASSUME IInv, NEW c \in Link, NEW cmd, Receives(c, cmd)
    PROVE  /\ c \in Conn => brokerEnd[c] # "none"
           /\ DOMAIN Taken(toBroker, c) = Link
           /\ \A d \in Link \ {c} : Taken(toBroker, c)[d] = toBroker[d]
           /\ \A d \in Conn : brokerEnd[d] = "none" => Taken(toBroker, c)[d] = <<>>
<1>1. c \in Conn => brokerEnd[c] # "none"
  BY DEF IInv, QuietWhenGone, Receives
<1>2. DOMAIN toBroker = Link /\ \A d \in Conn : d \in Link
  BY DEF IInv, QuietWhenGone, Link
<1>3. /\ DOMAIN Taken(toBroker, c) = Link
      /\ \A d \in Link \ {c} : Taken(toBroker, c)[d] = toBroker[d]
  BY <1>2 DEF Taken
<1>4. \A d \in Conn : brokerEnd[d] = "none" => toBroker[d] = <<>>
  BY DEF IInv, QuietWhenGone
<1>5. QED BY <1>1, <1>2, <1>3, <1>4

\* A message that is only passed on or refused changes nothing in the registry.
LEMMA PassedOn ==
    ASSUME IInv, NEW c \in Link, NEW cmd, Receives(c, cmd),
           toBroker' = Taken(toBroker, c),
           UNCHANGED <<brokerEnd, nodeEnd, session, node_sockets, service2nodeId, m_for_allocID>>
    PROVE  EnvStep
BY TakenIs DEF EnvStep, IInv, RegistryTypeOK, QuietWhenGone, Ends

\* A connection without an id gets the next one, and perhaps a name.
LEMMA NewNode ==
    ASSUME IInv, NEW c \in Conn, brokerEnd[c] # "none", session[c].nodeId = 0,
           NEW r, session' = [session EXCEPT ![c] = r],
           NEW id \in Nat, id = m_for_allocID + 1, r.nodeId = id, r.nodeType # "UNKNOWN_NODE",
           NEW name, r.strServiceName = name,
           m_for_allocID' = id,
           DOMAIN node_sockets' = DOMAIN node_sockets \cup {id},
           node_sockets'[id] = c,
           \A i \in DOMAIN node_sockets \ {id} : node_sockets'[i] = node_sockets[i],
           name = "" => service2nodeId' = service2nodeId,
           name # "" => /\ name \notin DOMAIN service2nodeId
                        /\ DOMAIN service2nodeId' = DOMAIN service2nodeId \cup {name}
                        /\ service2nodeId'[name] = id
                        /\ \A s \in DOMAIN service2nodeId \ {name} :
                              service2nodeId'[s] = service2nodeId[s],
           UNCHANGED <<brokerEnd, nodeEnd>>, QuietWhenGone'
    PROVE  IInv'
<1>1. /\ DOMAIN session = Conn /\ DOMAIN session' = Conn
      /\ session'[c] = r
      /\ \A d \in Conn \ {c} : session'[d] = session[d]
  BY DEF IInv, RegistryTypeOK
<1>a. /\ m_for_allocID \in Nat
      /\ \A i \in DOMAIN node_sockets : i \in 1..m_for_allocID
      /\ \A d \in Conn : session[d].nodeId \in 0..m_for_allocID
  BY DEF IInv, RegistryTypeOK
<1>b. /\ id \in Nat /\ id # 0
      /\ id \notin 1..m_for_allocID /\ id \notin 0..m_for_allocID
      /\ \A i \in 1..m_for_allocID : i # 0
      /\ id \in 1..id /\ id \in 0..id
      /\ \A i \in 1..m_for_allocID : i \in 1..id
      /\ \A i \in 0..m_for_allocID : i \in 0..id
  BY <1>a, NextId, Zenon
<1>2. /\ id \notin DOMAIN node_sockets
      /\ \A d \in Conn : session[d].nodeId # id
  BY <1>a, <1>b, Zenon
<1>3. /\ DOMAIN node_sockets' = DOMAIN node_sockets \cup {id}
      /\ node_sockets'[id] = c
      /\ \A i \in DOMAIN node_sockets : node_sockets'[i] = node_sockets[i]
  BY <1>2
\* Who was in the table is another connection.
<1>4. \A i \in DOMAIN node_sockets : node_sockets[i] \in Conn \ {c}
  <2>1. SUFFICES ASSUME NEW i \in DOMAIN node_sockets, node_sockets[i] = c PROVE FALSE
    BY DEF IInv, RegistryTypeOK
  <2>2. session[c].nodeId = i
    BY <2>1 DEF IInv, SocketsAreTheirOwners
  <2>3. i # 0
    BY <1>a, <1>b, <2>1, Zenon
  <2>4. QED BY <2>2, <2>3
<1>5. \A s \in DOMAIN service2nodeId :
         s \in DOMAIN service2nodeId' /\ service2nodeId'[s] = service2nodeId[s]
  <2>1. CASE name = ""
    BY <2>1
  <2>2. CASE name # ""
    BY <2>2
  <2>3. QED BY <2>1, <2>2
<1>6. \A s \in DOMAIN service2nodeId' :
         \/ s \in DOMAIN service2nodeId
         \/ s = name /\ service2nodeId'[s] = id
  <2>1. CASE name = ""
    BY <2>1
  <2>2. CASE name # ""
    BY <2>2
  <2>3. QED BY <2>1, <2>2
<1>7. name # "" =>
         name \in DOMAIN service2nodeId' /\ service2nodeId'[name] = id
  OBVIOUS
<1>8. RegistryTypeOK'
  <2>1. \A i \in DOMAIN node_sockets' : i \in 1..(m_for_allocID')
    BY <1>a, <1>b, <1>3, Zenon
  <2>2. \A i \in DOMAIN node_sockets' : node_sockets'[i] \in Conn
    BY <1>3, <1>4
  <2>3. \A d \in Conn : session'[d].nodeId \in 0..(m_for_allocID')
    BY <1>1, <1>a, <1>b, Zenon
  <2>4. QED BY <1>1, <1>b, <2>1, <2>2, <2>3 DEF IInv, RegistryTypeOK
<1>9. SocketsAreTheirOwners'
  BY <1>1, <1>3, <1>4 DEF IInv, SocketsAreTheirOwners
<1>10. ServicesAreRoutable'
  <2>1. SUFFICES ASSUME NEW s \in DOMAIN service2nodeId'
                 PROVE  /\ service2nodeId'[s] \in DOMAIN node_sockets'
                        /\ session'[node_sockets'[service2nodeId'[s]]].strServiceName = s
    BY DEF ServicesAreRoutable
  <2>2. CASE s \in DOMAIN service2nodeId
    <3>1. /\ service2nodeId[s] \in DOMAIN node_sockets
          /\ session[node_sockets[service2nodeId[s]]].strServiceName = s
      BY <2>2 DEF IInv, ServicesAreRoutable
    <3>2. /\ service2nodeId'[s] = service2nodeId[s]
          /\ node_sockets'[service2nodeId[s]] = node_sockets[service2nodeId[s]]
          /\ node_sockets[service2nodeId[s]] \in Conn \ {c}
      BY <1>3, <1>4, <1>5, <2>2, <3>1, Zenon
    <3>3. QED BY <1>1, <1>3, <3>1, <3>2, Zenon
  <2>3. CASE s = name /\ service2nodeId'[s] = id
    BY <1>1, <1>3, <2>3, Zenon
  <2>4. QED BY <1>6, <2>2, <2>3
<1>11. NodesKeepTheirNames'
  BY <1>1, <1>5, <1>7 DEF IInv, NodesKeepTheirNames
<1>12. GoneAreForgotten'
  BY <1>3 DEF IInv, GoneAreForgotten
<1>13. OwnersAreFound'
  BY <1>1, <1>3 DEF IInv, OwnersAreFound
<1>14. SessionsConsistent'
  BY <1>1, <1>2 DEF IInv, SessionsConsistent
<1>15. QED
  BY <1>8, <1>9, <1>10, <1>11, <1>12, <1>13, <1>14 DEF IInv

\* The broker learns that a connection with an id is gone.
LEMMA NodeIsGone ==
    ASSUME IInv, NEW c \in Conn, HandleBroken(c),
           NEW id, session[c].nodeId = id, id # 0,
           NEW name, session[c].strServiceName = name
    PROVE  IInv'
<1>1. /\ brokerEnd[c] = "broken" /\ toBroker[c] = <<>>
      /\ brokerEnd' = [brokerEnd EXCEPT ![c] = "none"]
      /\ node_sockets' = Erase(node_sockets, id)
      /\ service2nodeId' = Erase(service2nodeId, name)
      /\ UNCHANGED <<nodeEnd, toBroker, session, m_for_allocID, m_node_info>>
  BY DEF HandleBroken, SocketsWithout, ServicesWithout
<1>2. brokerEnd'[c] = "none" /\ \A d \in Conn \ {c} : brokerEnd'[d] = brokerEnd[d]
  BY <1>1 DEF IInv, RegistryTypeOK
<1>3. /\ DOMAIN node_sockets' = DOMAIN node_sockets \ {id}
      /\ \A i \in DOMAIN node_sockets' : node_sockets'[i] = node_sockets[i]
  BY <1>1 DEF Erase
<1>4. /\ DOMAIN service2nodeId' = DOMAIN service2nodeId \ {name}
      /\ \A s \in DOMAIN service2nodeId' : service2nodeId'[s] = service2nodeId[s]
  BY <1>1 DEF Erase
<1>5. node_sockets[id] = c
  BY <1>1 DEF IInv, OwnersAreFound
<1>6. \A d \in Conn \ {c} : brokerEnd[d] # "none" /\ session[d].nodeId # 0
                              => session[d].nodeId # id
  BY <1>5 DEF IInv, OwnersAreFound
<1>7. RegistryTypeOK'
  BY <1>1, <1>3 DEF IInv, RegistryTypeOK, Ends
<1>8. SocketsAreTheirOwners'
  BY <1>1, <1>3 DEF IInv, SocketsAreTheirOwners
<1>9. ServicesAreRoutable'
  BY <1>1, <1>3, <1>4, <1>5 DEF IInv, ServicesAreRoutable
<1>10. NodesKeepTheirNames'
  <2>1. SUFFICES ASSUME NEW d \in Conn, session[d].strServiceName # "", brokerEnd'[d] # "none"
                 PROVE  /\ session[d].strServiceName \in DOMAIN service2nodeId'
                        /\ service2nodeId'[session[d].strServiceName] = session[d].nodeId
    BY <1>1 DEF NodesKeepTheirNames
  <2>2. d # c /\ brokerEnd[d] # "none"
    BY <1>2, <2>1
  <2>3. /\ session[d].strServiceName \in DOMAIN service2nodeId
        /\ service2nodeId[session[d].strServiceName] = session[d].nodeId
    BY <2>1, <2>2 DEF IInv, NodesKeepTheirNames
  <2>4. session[d].nodeId # id
    BY <1>6, <2>1, <2>2 DEF IInv, SessionsConsistent
  <2>5. session[d].strServiceName # name
    BY <1>1, <2>1, <2>3, <2>4 DEF IInv, NodesKeepTheirNames
  <2>6. QED BY <1>4, <2>3, <2>5
<1>11. GoneAreForgotten'
  BY <1>1, <1>2, <1>3 DEF IInv, GoneAreForgotten, SocketsAreTheirOwners, RegistryTypeOK
<1>12. OwnersAreFound'
  BY <1>1, <1>2, <1>3, <1>6 DEF IInv, OwnersAreFound
<1>13. SessionsConsistent'
  BY <1>1 DEF IInv, SessionsConsistent
<1>14. QuietWhenGone'
  BY <1>1, <1>2 DEF IInv, QuietWhenGone
<1>15. QED
  BY <1>7, <1>8, <1>9, <1>10, <1>11, <1>12, <1>13, <1>14 DEF IInv
\* The broker learns that a connection without an id is gone.
LEMMA StrangerIsGone ==
    ASSUME IInv, NEW c \in Conn, HandleBroken(c), session[c].nodeId = 0
    PROVE  IInv'
<1>1. /\ toBroker[c] = <<>>
      /\ brokerEnd' = [brokerEnd EXCEPT ![c] = "none"]
      /\ UNCHANGED <<node_sockets, service2nodeId, nodeEnd, toBroker, session, m_for_allocID>>
  BY DEF HandleBroken
<1>2. brokerEnd'[c] = "none" /\ \A d \in Conn \ {c} : brokerEnd'[d] = brokerEnd[d]
  BY <1>1 DEF IInv, RegistryTypeOK
<1>3. \A i \in DOMAIN node_sockets : node_sockets[i] # c
  <2>1. SUFFICES ASSUME NEW i \in DOMAIN node_sockets, node_sockets[i] = c PROVE FALSE
    OBVIOUS
  <2>2. i = 0
    BY <2>1 DEF IInv, SocketsAreTheirOwners
  <2>3. m_for_allocID \in Nat /\ i \in 1..m_for_allocID
    BY DEF IInv, RegistryTypeOK
  <2>4. QED BY <2>2, <2>3
<1>4. RegistryTypeOK'
  BY <1>1 DEF IInv, RegistryTypeOK, Ends
<1>5. SocketsAreTheirOwners' /\ ServicesAreRoutable' /\ SessionsConsistent'
  BY <1>1 DEF IInv, SocketsAreTheirOwners, ServicesAreRoutable, SessionsConsistent
<1>6. NodesKeepTheirNames' /\ OwnersAreFound'
  BY <1>1, <1>2 DEF IInv, NodesKeepTheirNames, OwnersAreFound
<1>7. GoneAreForgotten'
  BY <1>1, <1>2, <1>3 DEF IInv, GoneAreForgotten, RegistryTypeOK
<1>8. QuietWhenGone'
  BY <1>1, <1>2 DEF IInv, QuietWhenGone
<1>9. QED
  BY <1>4, <1>5, <1>6, <1>7, <1>8 DEF IInv

-----------------------------------------------------------------------------
(* The invariant, and the theorems. *)

LEMMA BrokerKeeps == IInv /\ BrokerNext => IInv'
<1> SUFFICES ASSUME IInv, BrokerNext PROVE IInv'
  OBVIOUS
<1>t. \A c \in Conn : c \in Link
  BY DEF Link
<1>1. ASSUME NEW c \in Conn, RegisterTwice(c) PROVE IInv'
  <2>1. Receives(c, "REGISTER_TO_BROKER_REQ")
    BY <1>1 DEF RegisterTwice
  <2>2. CASE Up(c)
    <3>1. /\ Break(c, Taken(toBroker, c), toNode)
          /\ UNCHANGED <<session, brokerVars>>
      BY <1>1, <2>2 DEF RegisterTwice
    <3>2. toBroker' \in Truncated(Taken(toBroker, c), c)
      BY <3>1 DEF Break
    <3>3. /\ DOMAIN toBroker' = Link
          /\ \A d \in Link \ {c} : toBroker'[d] = toBroker[d]
      BY <1>t, <2>1, <3>2, TakenIs, TruncatedIs
    <3>4. brokerEnd[c] # "none"
      BY <1>t, <2>1, TakenIs
    <3>5. EnvStep
      BY <3>1, <3>3, <3>4
         DEF Break, EnvStep, brokerVars, IInv, RegistryTypeOK, QuietWhenGone, Ends, Link
    <3>6. QED BY <3>5, EnvKeeps
  <2>3. CASE ~Up(c)
    <3>1. EnvStep
      BY <1>t, <1>1, <2>1, <2>3, PassedOn DEF RegisterTwice, brokerVars
    <3>2. QED BY <3>1, EnvKeeps
  <2>4. QED BY <2>2, <2>3
<1>2. ASSUME NEW c \in Conn, RegisterRefused(c) PROVE IInv'
  <2>1. EnvStep
    BY <1>t, <1>2, PassedOn DEF RegisterRefused, brokerVars
  <2>2. QED BY <2>1, EnvKeeps
<1>3. ASSUME NEW c \in Conn, RegisterAccepted(c) PROVE IInv'
  <2>1. PICK name : name = Head(toBroker[c]).strServiceName
    OBVIOUS
  <2>2. PICK id \in Nat : id = m_for_allocID + 1
    BY DEF IInv, RegistryTypeOK
  <2>3. /\ Receives(c, "REGISTER_TO_BROKER_REQ")
        /\ session[c].nodeId = 0
        /\ name \notin DOMAIN service2nodeId
        /\ m_for_allocID' = id
        /\ session' = [session EXCEPT ![c] = [nodeType |-> "RPC_NODE", nodeId |-> id,
                                             strServiceName |-> name]]
        /\ toBroker' = Taken(toBroker, c)
        /\ UNCHANGED <<brokerEnd, nodeEnd>>
    BY <1>3, <2>1, <2>2 DEF RegisterAccepted, MayRegister, allocNodeId
  <2>4. /\ node_sockets' = Insert(node_sockets, id, c)
        /\ service2nodeId' = IF name = "" THEN service2nodeId
                             ELSE Insert(service2nodeId, name, id)
    BY <1>3, <2>1, <2>2 DEF RegisterAccepted
  <2>5. brokerEnd[c] # "none"
    BY <1>t, <2>3, TakenIs
  <2>6. QuietWhenGone'
    BY <1>t, <2>3, TakenIs DEF QuietWhenGone
  <2>7. PICK r : r = [nodeType |-> "RPC_NODE", nodeId |-> id, strServiceName |-> name]
    OBVIOUS
  <2>8. /\ r.nodeId = id /\ r.nodeType # "UNKNOWN_NODE" /\ r.strServiceName = name
        /\ session' = [session EXCEPT ![c] = r]
    BY <2>3, <2>7
  <2>9. /\ DOMAIN node_sockets' = DOMAIN node_sockets \cup {id}
        /\ node_sockets'[id] = c
        /\ \A i \in DOMAIN node_sockets \ {id} : node_sockets'[i] = node_sockets[i]
    BY <2>4 DEF Insert
  <2>10. /\ name = "" => service2nodeId' = service2nodeId
         /\ name # "" => /\ DOMAIN service2nodeId' = DOMAIN service2nodeId \cup {name}
                         /\ service2nodeId'[name] = id
                         /\ \A s \in DOMAIN service2nodeId \ {name} :
                               service2nodeId'[s] = service2nodeId[s]
    BY <2>4 DEF Insert
  <2>11. QED
    BY <2>2, <2>3, <2>5, <2>6, <2>8, <2>9, <2>10, NewNode
<1>4. ASSUME NEW c \in Conn, handleBrokerRouteMsg(c) PROVE IInv'
  <2>1. EnvStep
    BY <1>t, <1>4, PassedOn DEF handleBrokerRouteMsg, brokerVars
  <2>2. QED BY <2>1, EnvKeeps
<1>5. ASSUME NEW c \in Conn, SyncClientReq(c) PROVE IInv'
  <2>1. Receives(c, "SYNC_CLIENT_REQ") /\ toBroker' = Taken(toBroker, c)
        /\ UNCHANGED <<brokerEnd, nodeEnd, service2nodeId>>
    BY <1>5 DEF SyncClientReq
  <2>2. CASE session[c].nodeType = "UNKNOWN_NODE"
    <3>1. PICK id \in Nat : id = m_for_allocID + 1
      BY DEF IInv, RegistryTypeOK
    <3>2. session[c].nodeId = 0 /\ session[c].strServiceName = ""
      BY <2>2 DEF IInv, SessionsConsistent
    <3>3. PICK r : r = [nodeType |-> "SYNC_CLIENT_NODE", nodeId |-> id, strServiceName |-> ""]
      OBVIOUS
    <3>4. /\ m_for_allocID' = id
          /\ session' = [session EXCEPT ![c] = r]
          /\ node_sockets' = Insert(node_sockets, id, c)
      BY <1>5, <2>2, <3>1, <3>2, <3>3 DEF SyncClientReq, allocNodeId
    <3>5. r.nodeId = id /\ r.nodeType # "UNKNOWN_NODE" /\ r.strServiceName = ""
      BY <3>3
    <3>6. /\ DOMAIN node_sockets' = DOMAIN node_sockets \cup {id}
          /\ node_sockets'[id] = c
          /\ \A i \in DOMAIN node_sockets \ {id} : node_sockets'[i] = node_sockets[i]
      BY <3>4 DEF Insert
    <3>7. brokerEnd[c] # "none" /\ QuietWhenGone'
      BY <1>t, <2>1, TakenIs DEF QuietWhenGone
    <3>8. QED
      BY <2>1, <3>1, <3>2, <3>4, <3>5, <3>6, <3>7, NewNode
  <2>3. CASE session[c].nodeType # "UNKNOWN_NODE"
    <3>1. UNCHANGED <<m_for_allocID, session, node_sockets>>
      BY <1>5, <2>3 DEF SyncClientReq
    <3>2. EnvStep
      BY <1>t, <2>1, <3>1, PassedOn
    <3>3. QED BY <3>2, EnvKeeps
  <2>4. QED BY <2>2, <2>3
<1>6. ASSUME NEW c \in Conn, HandleBroken(c) PROVE IInv'
  <2>1. CASE session[c].nodeId = 0
    BY <1>6, <2>1, StrangerIsGone
  <2>2. CASE session[c].nodeId # 0
    <3>1. PICK id : id = session[c].nodeId
      OBVIOUS
    <3>2. PICK name : name = session[c].strServiceName
      OBVIOUS
    <3>3. QED BY <1>6, <2>2, <3>1, <3>2, NodeIsGone
  <2>3. QED BY <2>1, <2>2
<1>7. ASSUME NEW n \in InProc, PostedRoute(n) PROVE IInv'
  <2>1. n \in Link
    BY DEF Link
  <2>2. EnvStep
    BY <2>1, <1>7, PassedOn DEF PostedRoute, brokerVars
  <2>3. QED BY <2>2, EnvKeeps
<1>8. QED
  BY <1>1, <1>2, <1>3, <1>4, <1>5, <1>6, <1>7 DEF BrokerNext, BrokerHandles

LEMMA UnchangedKeeps == IInv /\ UNCHANGED <<netVars, brokerVars>> => IInv'
<1> SUFFICES ASSUME IInv, UNCHANGED <<netVars, brokerVars>> PROVE IInv'
  OBVIOUS
<1>1. UNCHANGED <<brokerEnd, nodeEnd, toBroker, session, node_sockets, service2nodeId, m_for_allocID>>
  BY DEF netVars, brokerVars
<1>2. EnvStep
  BY <1>1 DEF EnvStep, IInv, RegistryTypeOK, QuietWhenGone
<1>3. QED BY <1>2, EnvKeeps

\* IInv is an invariant of the broker whatever its peers do.
THEOREM RegistryInvariance == AnyPeersSpec => []IInv
<1>1. RegistryInit => IInv
  BY InitHolds DEF RegistryInit
<1>2. IInv /\ [BrokerNext \/ EnvStep]_<<netVars, brokerVars>> => IInv'
  BY BrokerKeeps, EnvKeeps, UnchangedKeeps
<1>3. QED BY <1>1, <1>2, PTL DEF AnyPeersSpec

\* The peers that send anything are such peers.
THEOREM AnyPeers == BrokerSpec => AnyPeersSpec
<1>1. RegistryInit => IInv
  BY InitHolds DEF RegistryInit
<1>2. IInv /\ [BrokerNext \/ PeerNext]_<<netVars, brokerVars>> => IInv'
  BY BrokerKeeps, PeersAreEnv, EnvKeeps, UnchangedKeeps
<1>3. IInv /\ [BrokerNext \/ PeerNext]_<<netVars, brokerVars>>
        => [BrokerNext \/ EnvStep]_<<netVars, brokerVars>>
  BY PeersAreEnv
<1>4. QED BY <1>1, <1>2, <1>3, PTL DEF BrokerSpec, AnyPeersSpec

\* The types: node ids in use were allocated, and the table holds sockets.
THEOREM RegistryTyped == AnyPeersSpec => []RegistryTypeOK
BY RegistryInvariance, PTL DEF IInv

\* A message routed by node id goes to the connection that was given the id.
THEOREM SocketsOwned == AnyPeersSpec => []SocketsAreTheirOwners
BY RegistryInvariance, PTL DEF IInv

\* A registered name always leads to a socket of the node that registered it.
THEOREM ServicesRoutable == AnyPeersSpec => []ServicesAreRoutable
BY RegistryInvariance, PTL DEF IInv

\* No BROKEN event unregisters the service of a connection that lives.
THEOREM NamesKept == AnyPeersSpec => []NodesKeepTheirNames
BY RegistryInvariance, PTL DEF IInv

\* No socket stays in the table after its BROKEN event.
THEOREM SocketsForgotten == AnyPeersSpec => []GoneAreForgotten
BY RegistryInvariance, PTL DEF IInv

\* A node id is given out once.
LEMMA StepReusesNoId ==
    IInv /\ [BrokerNext \/ EnvStep]_<<netVars, brokerVars>> =>
        \A id \in DOMAIN node_sockets' :
            \/ id \in DOMAIN node_sockets /\ node_sockets'[id] = node_sockets[id]
            \/ id > m_for_allocID
<1> SUFFICES ASSUME IInv, [BrokerNext \/ EnvStep]_<<netVars, brokerVars>>
             PROVE  \A id \in DOMAIN node_sockets' :
                        \/ id \in DOMAIN node_sockets /\ node_sockets'[id] = node_sockets[id]
                        \/ id > m_for_allocID
  OBVIOUS
<1>1. m_for_allocID \in Nat
  BY DEF IInv, RegistryTypeOK
<1>2. CASE UNCHANGED node_sockets
  BY <1>2
<1>3. CASE \E c \in Conn : node_sockets' = Insert(node_sockets, m_for_allocID + 1, c)
  BY <1>1, <1>3 DEF Insert
<1>4. CASE \E c \in Conn : node_sockets' = Erase(node_sockets, session[c].nodeId)
  <2>1. PICK c \in Conn : node_sockets' = Erase(node_sockets, session[c].nodeId)
    BY <1>4
  <2>2. QED BY <2>1 DEF Erase
<1>5. ASSUME NEW c \in Conn, BrokerHandles(c)
      PROVE  \/ UNCHANGED node_sockets
             \/ \E d \in Conn : node_sockets' = Insert(node_sockets, m_for_allocID + 1, d)
             \/ \E d \in Conn : node_sockets' = Erase(node_sockets, session[d].nodeId)
  BY <1>5, Zenon
     DEF BrokerHandles, RegisterTwice, RegisterRefused, RegisterAccepted, handleBrokerRouteMsg,
         SyncClientReq, HandleBroken, SocketsWithout, brokerVars
<1>6. ASSUME NEW n \in InProc, PostedRoute(n) PROVE UNCHANGED node_sockets
  BY <1>6 DEF PostedRoute, brokerVars
<1>7. ASSUME EnvStep PROVE UNCHANGED node_sockets
  BY <1>7 DEF EnvStep
<1>8. ASSUME UNCHANGED <<netVars, brokerVars>> PROVE UNCHANGED node_sockets
  BY <1>8 DEF brokerVars
<1>9. QED
  BY <1>2, <1>3, <1>4, <1>5, <1>6, <1>7, <1>8, Zenon DEF BrokerNext

\* The counter of node ids never goes back.
LEMMA StepCounts ==
    IInv /\ [BrokerNext \/ EnvStep]_<<netVars, brokerVars>> => m_for_allocID' >= m_for_allocID
<1> SUFFICES ASSUME IInv, [BrokerNext \/ EnvStep]_<<netVars, brokerVars>>
             PROVE  m_for_allocID' >= m_for_allocID
  OBVIOUS
<1>1. m_for_allocID \in Nat
  BY DEF IInv, RegistryTypeOK
<1>2. ASSUME NEW c \in Conn, BrokerHandles(c)
      PROVE  UNCHANGED m_for_allocID \/ m_for_allocID' = m_for_allocID + 1
  BY <1>2, Zenon
     DEF BrokerHandles, RegisterTwice, RegisterRefused, RegisterAccepted, handleBrokerRouteMsg,
         SyncClientReq, HandleBroken, allocNodeId, brokerVars
<1>3. ASSUME NEW n \in InProc, PostedRoute(n) PROVE UNCHANGED m_for_allocID
  BY <1>3 DEF PostedRoute, brokerVars
<1>4. ASSUME EnvStep \/ UNCHANGED <<netVars, brokerVars>> PROVE UNCHANGED m_for_allocID
  BY <1>4 DEF EnvStep, brokerVars
<1>5. UNCHANGED m_for_allocID \/ m_for_allocID' = m_for_allocID + 1
  BY <1>2, <1>3, <1>4, Zenon DEF BrokerNext
<1>6. QED BY <1>1, <1>5

\* No step gives an id that is in use, or was, to another connection.
THEOREM IdsOnce == AnyPeersSpec => IdsAreNeverReused
<1>1. IInv /\ [BrokerNext \/ EnvStep]_<<netVars, brokerVars>> =>
        [/\ m_for_allocID' >= m_for_allocID
         /\ \A id \in DOMAIN node_sockets' :
              \/ id \in DOMAIN node_sockets /\ node_sockets'[id] = node_sockets[id]
              \/ id > m_for_allocID]_<<netVars, brokerVars>>
  BY StepReusesNoId, StepCounts
<1>2. QED BY <1>1, RegistryInvariance, PTL DEF AnyPeersSpec, IdsAreNeverReused
=============================================================================
