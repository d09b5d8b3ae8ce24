------------------------------ MODULE ChatRoom ------------------------------
(***************************************************************************)
(* The chat module of src/chat/chat.cpp on one worker, with the entities   *)
(* of fflib/server/entity.cpp it files and the table it keeps.  The        *)
(* handlers run on the worker's thread; what a login does with the row it  *)
(* has asked for, ChatLoginDbFunctor, runs on the thread of the database   *)
(* connection, between and beside them.                                    *)
(*                                                                         *)
(* A session makes one entity and is its name here.  A single operation on *)
(* a map is one step.  DbMgr shows what is assumed of the connections:     *)
(* each runs its queries in the order in which they were asked.            *)
(***************************************************************************)
EXTENDS Integers, Sequences, Functions, FiniteSets

CONSTANTS Session,      \* the sessions of the clients
          Uid,          \* what they log in as
          NConn,        \* connections in the pool of DbMgr
          Share,        \* whether two of them may use one uid at the same time
          MaxLogins,    \* bound: login messages a client sends before it has an answer
          MaxChats      \* bound: messages said with one uid

None == "none"

ASSUME ChatAssumption == /\ Uid \subseteq Nat \ {0} /\ NConn \in Nat \ {0} /\ None \notin Session
                         /\ {MaxLogins, MaxChats} \subseteq Nat /\ Share \in BOOLEAN

VARIABLES client,            \* m_worker_client and m_sessionID of its entity
          m_uid,             \* m_uid of the entity
          nChatTimes,        \* its ChatCtrl
          m_allEntity,       \* per uid the entity filed, or None
          m_session2entity,  \* the entities filed under their session
          closing,           \* sessions the gate has been told to close
          chattest,          \* the table: per uid the CHAT_TIMES of its rows
          queries,             \* per connection the queries that wait
          functor,           \* per connection the ChatLoginDbFunctor that runs
          asked,             \* history: the uids a client has sent to log in
          said               \* history: messages said with a uid

chatVars == <<client, m_uid, nChatTimes, m_allEntity, m_session2entity, closing,
              chattest, queries, functor, asked, said>>
entityVars == <<client, m_uid, nChatTimes, m_allEntity, m_session2entity, closing>>
connVars     == <<chattest, queries, functor>>

Conn == 0 .. NConn - 1
Idle == [at |-> "idle"]

\* A client is out until its first message; known; offline while its going is handled,
\* with m_sessionID 0 from then on; and gone.
Online(s) == client[s] = "known"
Free      == \A s \in Session : client[s] # "offline"      \* the worker's thread

ChatInit == /\ client = [s \in Session |-> "out"] /\ m_uid = [s \in Session |-> 0]
            /\ nChatTimes = [s \in Session |-> 0]
            /\ m_allEntity = [u \in Uid |-> None] /\ m_session2entity = {} /\ closing = {}
            /\ chattest = [u \in Uid |-> <<>>]
            /\ queries = [c \in Conn |-> <<>>] /\ functor = [c \in Conn |-> Idle]
            /\ asked = [s \in Session |-> <<>>] /\ said = [u \in Uid \cup {0} |-> 0]

-----------------------------------------------------------------------------
\* Mutant: a query goes to the connection that has least to do.
Post_LeastLoaded(uid, op) ==
    LET load(c) == Len(queries[c]) + Cardinality({functor[c]} \ {Idle})
        c == CHOOSE c \in Conn : \A d \in Conn : load(c) <= load(d)
    IN  queries' = [queries EXCEPT ![c] = Append(@, op)]
\* DbMgr::asyncQuery with the uid for modid.
Post(uid, op) == queries' = [queries EXCEPT ![uid % NConn] = Append(@, op)]

\* A client logs in first, and does nothing else before.
cmdValidCheckFunctor(s, login) == login = (m_uid[s] = 0)

-----------------------------------------------------------------------------
(* The worker's thread. *)

\* Whether a client may use this uid now: nobody else does, or does not mind.
MayUse(s, uid) == \/ Share
                  \/ \A t \in Session \ {s} : uid \in Range(asked[t]) => client[t] = "gone"

\* The first message of a session makes its entity (FFWorker::processSessionReq).
handleLogin(s, uid) ==
    /\ Free /\ client[s] \in {"out", "known"}
    /\ Len(asked[s]) < MaxLogins /\ MayUse(s, uid)
    /\ cmdValidCheckFunctor(s, TRUE)
    /\ client' = [client EXCEPT ![s] = "known"]
    /\ Post(uid, [op |-> "select", uid |-> uid, entity |-> s, n |-> 0])
    /\ asked' = [asked EXCEPT ![s] = Append(@, uid)]
    /\ UNCHANGED <<m_uid, nChatTimes, m_allEntity, m_session2entity, closing, chattest, functor, said>>

handleChat(s) ==
    /\ Free /\ Online(s) /\ said[m_uid[s]] < MaxChats
    /\ cmdValidCheckFunctor(s, FALSE)
    /\ nChatTimes' = [nChatTimes EXCEPT ![s] = @ + 1]
    /\ said' = [said EXCEPT ![m_uid[s]] = @ + 1]
    /\ UNCHANGED <<client, m_uid, m_allEntity, m_session2entity, closing, asked>> /\ UNCHANGED connVars

\* FFWorker::processSessionOffline: the entity loses its session, then LOGOUT_CMD is
\* handled, then the client is erased.
processSessionOffline(s) ==
    /\ Free /\ Online(s)
    /\ client' = [client EXCEPT ![s] = "offline"]
    /\ UNCHANGED <<m_uid, nChatTimes, m_allEntity, m_session2entity, closing, asked, said>>
    /\ UNCHANGED connVars

\* EntityMgr::del: the entity that is filed under the uid, whoever that is.
Del(uid) == /\ m_allEntity' = [m_allEntity EXCEPT ![uid] = None]
            /\ m_session2entity' = m_session2entity \ {e \in {m_allEntity[uid]} \ {None} : Online(e)}

handleLogout(s) ==
    /\ client[s] = "offline"
    /\ client' = [client EXCEPT ![s] = "gone"]
    /\ IF m_uid[s] = 0
       THEN UNCHANGED <<queries, m_allEntity, m_session2entity>>
       ELSE /\ Post(m_uid[s], [op |-> "update", uid |-> m_uid[s], entity |-> s, n |-> nChatTimes[s]])
            /\ Del(m_uid[s])
    /\ UNCHANGED <<m_uid, nChatTimes, closing, chattest, functor, asked, said>>

-----------------------------------------------------------------------------
(* The thread of a connection. *)

\* An insert and an update have no callback; a select runs its functor.
runQuery(c) ==
    /\ functor[c] = Idle /\ queries[c] # <<>>
    /\ LET q == Head(queries[c]) IN
       \/ /\ q.op = "insert"
          /\ chattest' = [chattest EXCEPT ![q.uid] = Append(@, 0)] /\ UNCHANGED functor
       \/ /\ q.op = "update"
          /\ chattest' = [chattest EXCEPT ![q.uid] = [i \in DOMAIN @ |-> q.n]] /\ UNCHANGED functor
       \/ /\ q.op = "select"
          /\ functor' = [functor EXCEPT ![c] = [at |-> "loaded", uid |-> q.uid, entity |-> q.entity,
                                                result |-> chattest[q.uid]]]
          /\ UNCHANGED chattest
    /\ queries' = [queries EXCEPT ![c] = Tail(@)]
    /\ UNCHANGED entityVars /\ UNCHANGED <<asked, said>>

Goes(c, from, to) == /\ functor[c].at = from
                     /\ functor' = [functor EXCEPT ![c].at = to]

checkSession(c) ==
    /\ \/ /\ functor[c].at = "loaded" /\ ~Online(functor[c].entity)
          /\ functor' = [functor EXCEPT ![c] = Idle]
       \/ functor[c].at = "loaded" /\ Online(functor[c].entity) /\ Goes(c, "loaded", "online")
    /\ UNCHANGED entityVars /\ UNCHANGED <<chattest, queries, asked, said>>

loadRow(c) ==
    /\ Goes(c, "online", "kick")
    /\ LET f == functor[c] IN
       \/ /\ f.result = <<>>
          /\ Post(f.uid, [op |-> "insert", uid |-> f.uid, entity |-> f.entity, n |-> 0])
          /\ UNCHANGED nChatTimes
       \/ /\ f.result # <<>>
          /\ nChatTimes' = [nChatTimes EXCEPT ![f.entity] = f.result[1]] /\ UNCHANGED queries
    /\ UNCHANGED <<client, m_uid, m_allEntity, m_session2entity, closing, chattest, asked, said>>

kickOld(c) ==
    /\ Goes(c, "kick", "set")
    /\ LET old == m_allEntity[functor[c].uid] IN
       \/ old = None /\ UNCHANGED <<m_allEntity, m_session2entity, closing>>
       \/ /\ old # None /\ Del(functor[c].uid)
          /\ closing' = closing \cup {e \in {old} : Online(e)}
    /\ UNCHANGED <<client, m_uid, nChatTimes, chattest, queries, asked, said>>

setUid(c) ==
    /\ Goes(c, "set", "add")
    /\ m_uid' = [m_uid EXCEPT ![functor[c].entity] = functor[c].uid]
    /\ UNCHANGED <<client, nChatTimes, m_allEntity, m_session2entity, closing, chattest, queries, asked, said>>

\* EntityMgr::add: under the uid the entity has now, and its session if it has one.
add(c) ==
    /\ functor[c].at = "add" /\ functor' = [functor EXCEPT ![c] = Idle]
    /\ LET e == functor[c].entity IN
       /\ m_allEntity' = [m_allEntity EXCEPT ![m_uid[e]] = e]
       /\ m_session2entity' = m_session2entity \cup {t \in {e} : Online(t)}
    /\ UNCHANGED <<client, m_uid, nChatTimes, closing, chattest, queries, asked, said>>

-----------------------------------------------------------------------------
DbThread(c) == runQuery(c) \/ checkSession(c) \/ loadRow(c) \/ kickOld(c) \/ setUid(c) \/ add(c)

ChatNext == \/ \E s \in Session : \/ \E uid \in Uid : handleLogin(s, uid)
                                  \/ handleChat(s) \/ processSessionOffline(s) \/ handleLogout(s)
            \/ \E c \in Conn : DbThread(c)

ChatSpec == ChatInit /\ [][ChatNext]_chatVars
\* The threads of the connections go on, and the worker's ends what it has begun.
ChatFair == /\ ChatSpec
            /\ \A c \in Conn : WF_chatVars(DbThread(c))
            /\ \A s \in Session : WF_chatVars(handleLogout(s))

-----------------------------------------------------------------------------
\* A functor runs for an entity.
Running(s) == \E c \in Conn : functor[c] # Idle /\ functor[c].entity = s
\* The login of an entity is complete, and nobody has asked for its end.
LoggedIn(s) == Online(s) /\ m_uid[s] # 0 /\ s \notin closing /\ ~Running(s)
Quiet == Free /\ \A c \in Conn : functor[c] = Idle /\ queries[c] = <<>>

\* Type invariant; nothing is said by a client that has not logged in (the check of
\* cmdValidCheckFunctor before every message).
ChatTypeOK ==
    /\ client \in [Session -> {"out", "known", "offline", "gone"}]
    /\ m_uid \in [Session -> Uid \cup {0}]
    /\ \A s \in Session : m_uid[s] # 0 => m_uid[s] \in Range(asked[s])
    /\ m_allEntity \in [Uid -> Session \cup {None}]
    /\ m_session2entity \cup closing \subseteq Session
    /\ \A u \in Uid : Range(chattest[u]) \subseteq 0..MaxChats
    /\ \A c \in Conn : functor[c] = Idle \/ functor[c].at \in {"loaded", "online", "kick", "set", "add"}
    /\ said \in [Uid \cup {0} -> 0..MaxChats] /\ said[0] = 0

\* The count of a player is the number of all messages ever said with his uid, also those
\* of earlier sessions that the database was still being told of when he came back
\* (handleLogout's update and the select of the next login).
CountsAreKept == \A s \in Session : LoggedIn(s) => nChatTimes[s] = said[m_uid[s]]

\* Whoever is logged in is filed under his uid and under his session, whatever logins and
\* goings of earlier sessions are still being worked off.
PlayersAreFiled ==
    \A s \in Session : LoggedIn(s) => m_allEntity[m_uid[s]] = s /\ s \in m_session2entity

\* Whoever is logged in is known as who he is, with his count.
PlayersAreKnown == ChatTypeOK /\ CountsAreKept /\ PlayersAreFiled

\* A login takes effect, or its session ends first (ChatLoginDbFunctor).
LoginsTakeEffect == \A s \in Session : Online(s) ~> m_uid[s] # 0 \/ ~Online(s)

\* "A login message can be sent only once": who has logged in stays who he is
\* (the comment of cmdValidCheckFunctor).
LoginOnlyOnce == [][\A s \in Session : m_uid[s] # 0 => m_uid'[s] = m_uid[s]]_chatVars

\* "every entity, that is all users on this worker" are told of a message (handleChat's
\* foreach over m_allEntity).
EveryoneIsListed == \A s \in Session : LoggedIn(s) => s \in Range(m_allEntity)

\* A user who goes while his data is loaded is not added (the check of the functor).
NoGhosts == Quiet => \A s \in Range(m_allEntity) \ {None} : Online(s)
=============================================================================
