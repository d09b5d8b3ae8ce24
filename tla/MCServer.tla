------------------------------ MODULE MCServer ------------------------------
(***************************************************************************)
(* Instances of DbMgr and ChatRoom for TLC: the database connections of a  *)
(* worker, and a game module that uses them.  The modules share no         *)
(* variable, so their behaviours are explored side by side and not         *)
(* interleaved: a behaviour is one of the part chosen at its start, the    *)
(* variables of the other stay as they are.                                *)
(***************************************************************************)
EXTENDS DbMgr, ChatRoom, TLC

VARIABLE part

serverVars == <<part, dbVars, chatVars>>

Pool(step) == part = "pool" /\ step /\ UNCHANGED <<part, chatVars>>
Chat(step) == part = "chat" /\ step /\ UNCHANGED <<part, dbVars>>

ServerInit == part \in {"pool", "chat"} /\ DbInit /\ ChatInit
ServerNext == Pool(DbNext) \/ Chat(ChatNext)

\* The fairness of DbFair and ChatFair.
ServerFair ==
    /\ ServerInit /\ [][ServerNext]_serverVars
    /\ WF_serverVars(Pool(WorkerSteps)) /\ SF_serverVars(Pool(threadSafeCall))
    /\ \A q \in 1 .. MaxConn * MaxInits :
           WF_serverVars(Pool(q \in DOMAIN taskQueue /\ PoolThreads(q)))
    /\ \A c \in Conn : WF_serverVars(Chat(DbThread(c)))
    /\ \A s \in Session : WF_serverVars(Chat(handleLogout(s)))

\* What the connections have begun comes to its end: queries are answered or dropped,
\* logins take effect.
RequestsAreSettled == QueriesAreSettled /\ LoginsTakeEffect
=============================================================================
