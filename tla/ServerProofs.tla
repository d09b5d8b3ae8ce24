---------------------------- MODULE ServerProofs ---------------------------
(***************************************************************************)
(* A worker's database and the game module that uses it.                   *)
(*                                                                         *)
(* PoolIsSound and OrderIsKept of DbMgr for all modids and any bounds.     *)
(* The invariant DbInv says where a query is (in one queue, or nowhere),   *)
(* that a queue holds its queries in the order in which they were asked,   *)
(* that a queue which has left the pool is closed and joined, and how far  *)
(* the worker's thread is with setting up or cleaning the pool.  OrderInv  *)
(* says what holds of a whole pool: a query is in the queue its modid      *)
(* selects, and answers wait in the order of the queries.                  *)
(*                                                                         *)
(* PlayersAreKnown of ChatRoom for all sessions, uids, connections and     *)
(* messages, where a client sends one login and a uid is that of one       *)
(* client at a time.  The invariant ChatInv follows the count of a player  *)
(* through the table, the queries under way and the logins under way: an   *)
(* update is asked for when nobody is logged in with its uid, it comes     *)
(* before the next login with it, and the logins of clients that are gone  *)
(* come before the login of the one that is there.                         *)
(***************************************************************************)
EXTENDS DbMgr, ChatRoom, LogLemmas

Queue == [list : Seq(Nat), batch : Seq(Nat), running : Nat, open : BOOLEAN]
Query == [modid : Modid, cb : Callback, at : Place]

\* What a queue still has to run, in order; and all that it holds.
Line(t) == t.batch \o t.list
Held(t) == Range(Line(t)) \cup ({t.running} \ {NoQuery})

PoolTypeInv == /\ m_dbPool \in Seq(Nat) /\ \A i \in DOMAIN m_dbPool : m_dbPool[i] \in {NULL} \cup DOMAIN taskQueue
               /\ taskQueue \in Seq(Queue)
               /\ query \in Seq(Query)
               /\ results \in Seq(Nat)
               /\ worker \in [at : {"free", "init", "replace", "cleanup", "ended"}, i : Nat, n : Nat]
               /\ inits \in 0..MaxInits /\ thrown \in BOOLEAN

\* A queue holds its queries in the order in which they were asked, and none twice.
QueueInv(t, all) ==
    /\ \A i, j \in DOMAIN Line(t) : i < j => Line(t)[i] < Line(t)[j]
    /\ \A n \in Range(Line(t)) : n \in DOMAIN all /\ all[n].at = "queued"
    /\ t.running # NoQuery => /\ t.running \in DOMAIN all /\ all[t.running].at = "executed"
                              /\ \A n \in Range(Line(t)) : t.running < n
    /\ ~t.open => t.list = <<>>

\* A query is in one queue while it is neither answered nor dropped.
PlaceInv ==
    /\ \A q \in DOMAIN taskQueue : QueueInv(taskQueue[q], query)
    /\ \A p, q \in DOMAIN taskQueue : p # q => Held(taskQueue[p]) \cap Held(taskQueue[q]) = {}
    /\ \A n \in DOMAIN query : query[n].at \in {"queued", "executed"} =>
           \E q \in DOMAIN taskQueue : n \in Held(taskQueue[q])

\* The answers posted to the worker.
ResultInv ==
    /\ \A i \in DOMAIN results : results[i] \in DOMAIN query /\ query[results[i]].at = "posted"
    /\ \A n \in DOMAIN query : query[n].at = "posted" => \E i \in DOMAIN results : results[i] = n
    /\ \A i, j \in DOMAIN results : i # j => results[i] # results[j]
    /\ \A n \in DOMAIN query : query[n].at = "posted" => query[n].cb = "worker"

\* What left the pool is closed and joined.
LeftInv == \A q \in DOMAIN taskQueue : q \notin Range(m_dbPool) => Joined(q)

\* The worker's thread: the first set-up appends the entry it configures, to queues that hold
\* nothing; a later one appends entries that it does not come to; a clean-up has closed
\* and joined the entries it has gone through.
LastEntry == m_dbPool[Len(m_dbPool)]
FirstSetUp == Len(m_dbPool) = worker.i - 1
WorkerInv ==
    /\ worker.at = "init" =>
           /\ worker.i >= 1
           /\ \/ FirstSetUp /\ PoolIsWhole /\ \A q \in DOMAIN taskQueue : Held(taskQueue[q]) = {}
              \/ Len(m_dbPool) >= worker.i /\ (worker.i # 1 => LastEntry = NULL)
    /\ worker.at = "replace" =>
           /\ worker.i \in 1..Len(m_dbPool) - 1 /\ LastEntry = NULL
           /\ m_dbPool[worker.i] # NULL /\ ~taskQueue[m_dbPool[worker.i]].open
    /\ worker.at = "cleanup" =>
           /\ worker.n = Len(m_dbPool) /\ worker.i \in 1..worker.n + 1
           /\ \A j \in 1..worker.i - 1 : m_dbPool[j] # NULL /\ Joined(m_dbPool[j])
    /\ worker.at = "ended" => m_dbPool = <<>> /\ taskQueue = <<>> /\ results = <<>>

DbInv == PoolTypeInv /\ PlaceInv /\ ResultInv /\ LeftInv /\ WorkerInv

\* In a whole pool a query is in the queue its modid selects, an answer waits only when
\* all earlier queries of its modid are done, and behind their answers.
RouteInv == \A q \in DOMAIN taskQueue : \A n \in Held(taskQueue[q]) :
                m_dbPool # <<>> /\ q = Entry(query[n].modid)
AnswerInv == /\ \A i, j \in DOMAIN results :
                    i < j /\ query[results[i]].modid = query[results[j]].modid => results[i] < results[j]
             /\ \A i \in DOMAIN results : \A k \in 1..results[i] - 1 :
                    query[k].modid = query[results[i]].modid /\ query[k].cb = "worker" =>
                        query[k].at \notin {"queued", "executed"}
OrderInv == PoolIsWhole => RouteInv /\ AnswerInv

-----------------------------------------------------------------------------
(* Facts about the line of one queue. *)

\* The parts of a line and the line.
LEMMA LineType ==
    ASSUME NEW t \in Queue
    PROVE  /\ Line(t) \in Seq(Nat) /\ Range(Line(t)) \subseteq Nat
           /\ Len(Line(t)) = Len(t.batch) + Len(t.list)
           /\ t.batch \in Seq(Nat) /\ t.list \in Seq(Nat) /\ t.running \in Nat
<1>1. t.batch \in Seq(Nat) /\ t.list \in Seq(Nat) /\ t.running \in Nat
  BY DEF Queue
<1>2. Line(t) \in Seq(Nat) /\ Len(Line(t)) = Len(t.batch) + Len(t.list)
  BY <1>1, ConcatProperties DEF Line
<1>3. Range(Line(t)) \subseteq Nat
  <2> DEFINE s == Line(t)
  <2>1. s \in Seq(Nat)
    BY <1>2
  <2> HIDE DEF s
  <2>2. Range(s) \subseteq Nat
    BY <2>1 DEF Range
  <2> QED BY <2>2 DEF s
<1> QED BY <1>1, <1>2, <1>3

\* A queue with some fields changed.
Fields(u, l, b, r, open) == u \in Queue /\ u.list = l /\ u.batch = b /\ u.running = r /\ u.open = open

\* What such a queue looks like.
LEMMA QueueFields ==
    ASSUME NEW t \in Queue, NEW l \in Seq(Nat), NEW b \in Seq(Nat), NEW r \in Nat
    PROVE  /\ Fields([t EXCEPT !.batch = b, !.list = l], l, b, t.running, t.open)
           /\ Fields([t EXCEPT !.running = r, !.batch = b], t.list, b, r, t.open)
           /\ Fields([t EXCEPT !.running = r], t.list, t.batch, r, t.open)
           /\ Fields([t EXCEPT !.open = FALSE, !.list = l], l, t.batch, t.running, FALSE)
           /\ Fields([t EXCEPT !.open = FALSE, !.batch = b, !.list = l], l, b, t.running, FALSE)
<1>1. Fields([t EXCEPT !.batch = b, !.list = l], l, b, t.running, t.open)
  BY DEF Fields, Queue
<1>2. Fields([t EXCEPT !.running = r, !.batch = b], t.list, b, r, t.open)
  BY DEF Fields, Queue
<1>3. Fields([t EXCEPT !.running = r], t.list, t.batch, r, t.open)
  BY DEF Fields, Queue
<1>4. Fields([t EXCEPT !.open = FALSE, !.list = l], l, t.batch, t.running, FALSE)
  BY DEF Fields, Queue
<1>5. Fields([t EXCEPT !.open = FALSE, !.batch = b, !.list = l], l, b, t.running, FALSE)
  BY DEF Fields, Queue
<1> QED BY <1>1, <1>2, <1>3, <1>4, <1>5

\* What a list holds after an append.
LEMMA RangeGrows ==
    ASSUME NEW s \in Seq(Nat), NEW n \in Nat
    PROVE  Range(Append(s, n)) = Range(s) \cup {n}
<1>1. /\ DOMAIN s = 1..Len(s) /\ Len(s) \in Nat
      /\ DOMAIN Append(s, n) = 1..Len(s) + 1
      /\ \A i \in 1..Len(s) : Append(s, n)[i] = s[i]
      /\ Append(s, n)[Len(s) + 1] = n
  OBVIOUS
<1> DEFINE t == Append(s, n)
<1>2. /\ DOMAIN t = 1..Len(s) + 1 /\ \A i \in 1..Len(s) : t[i] = s[i]
      /\ t[Len(s) + 1] = n
  BY <1>1
<1> HIDE DEF t
<1>3. \A i \in DOMAIN t : i \in DOMAIN s \/ i = Len(s) + 1
  BY <1>1, <1>2
<1>4. \A i \in DOMAIN s : i \in DOMAIN t /\ t[i] = s[i]
  BY <1>1, <1>2
<1>5. Len(s) + 1 \in DOMAIN t
  BY <1>1, <1>2
<1>6. Range(t) \subseteq Range(s) \cup {n}
  BY <1>1, <1>2, <1>3 DEF Range
<1>7. Range(s) \cup {n} \subseteq Range(t)
  BY <1>2, <1>4, <1>5 DEF Range
<1>8. Range(t) = Range(s) \cup {n}
  BY <1>6, <1>7
<1> QED BY <1>8 DEF t

\* A query that is asked comes last.
LEMMA LineGrows ==
    ASSUME NEW t \in Queue, NEW n \in Nat
    PROVE  LET u == [t EXCEPT !.list = Append(@, n)] IN
           /\ u \in Queue /\ u.running = t.running /\ u.open = t.open
           /\ Line(u) = Append(Line(t), n)
<1> DEFINE u == [t EXCEPT !.list = Append(@, n)]
<1>1. Append(t.list, n) \in Seq(Nat)
  BY DEF Queue
<1>2. u \in Queue /\ u.running = t.running /\ u.open = t.open
  BY <1>1 DEF Queue
<1>3. Line(u) = Append(Line(t), n)
  BY LineType, AppendToConcat DEF Line, Queue
<1> QED BY <1>2, <1>3

\* Taking the list as the next batch changes nothing,
LEMMA LineIsTaken ==
    ASSUME NEW t \in Queue, t.batch = <<>>
    PROVE  Line(t) = t.list
BY LineType, ConcatEmptySeq DEF Line

\* taking a query from the batch takes the first one,
LEMMA FirstOfTwo ==
    ASSUME NEW b \in Seq(Nat), NEW l \in Seq(Nat), b # <<>>
    PROVE  /\ b \o l # <<>> /\ Head(b) = (b \o l)[1] /\ Head(b) \in Nat
           /\ Tail(b) \o l = Tail(b \o l) /\ Tail(b) \in Seq(Nat)
<1>1. Head(b) \in Nat /\ Tail(b) \in Seq(Nat) /\ b = <<Head(b)>> \o Tail(b)
  BY HeadThenTail
<1> DEFINE h == Head(b)
           r == Tail(b)
           s == r \o l
<1>2. h \in Nat /\ r \in Seq(Nat) /\ b = <<h>> \o r
  BY <1>1
<1> HIDE DEF h, r
<1>3. s \in Seq(Nat)
  BY <1>2, ConcatProperties
<1>4. b \o l = <<h>> \o s
  <2>1. <<h>> \in Seq(Nat)
    BY <1>2
  <2> QED BY <1>2, <2>1, ConcatAssociative
<1> HIDE DEF s
<1>5. <<h>> \o s # <<>> /\ (<<h>> \o s)[1] = h /\ Tail(<<h>> \o s) = s
  BY <1>2, <1>3
<1>6. b \o l # <<>> /\ h = (b \o l)[1] /\ s = Tail(b \o l)
  BY <1>4, <1>5
<1> QED BY <1>2, <1>6 DEF h, r, s

\* So it is with the line of a queue.
LEMMA LineIsServed ==
    ASSUME NEW t \in Queue, t.batch # <<>>,
           NEW u \in Queue, u.batch = Tail(t.batch), u.list = t.list
    PROVE  /\ Line(t) # <<>> /\ Head(t.batch) = Line(t)[1] /\ Head(t.batch) \in Nat
           /\ Line(u) = Tail(Line(t))
<1>1. t.batch \in Seq(Nat) /\ t.list \in Seq(Nat)
  BY LineType
<1>2. /\ t.batch \o t.list # <<>> /\ Head(t.batch) = (t.batch \o t.list)[1] /\ Head(t.batch) \in Nat
      /\ Tail(t.batch) \o t.list = Tail(t.batch \o t.list)
  BY <1>1, FirstOfTwo
<1>3. Line(t) = t.batch \o t.list /\ Line(u) = Tail(t.batch) \o t.list
  BY DEF Line
<1> QED BY <1>2, <1>3, Zenon

\* and dropping the list leaves the first ones.
LEMMA CutOfTwo ==
    ASSUME NEW b \in Seq(Nat), NEW l \in Seq(Nat)
    PROVE  /\ Len(b) <= Len(b \o l)
           /\ \A i \in DOMAIN b : i \in DOMAIN (b \o l) /\ b[i] = (b \o l)[i]
           /\ \A i \in DOMAIN (b \o l) : i \notin DOMAIN b => (b \o l)[i] \in Range(l)
           /\ \A i \in DOMAIN l : \E j \in DOMAIN (b \o l) : j \notin DOMAIN b /\ (b \o l)[j] = l[i]
<1> DEFINE s == b \o l
<1>1. /\ s \in Seq(Nat) /\ Len(s) = Len(b) + Len(l)
      /\ \A i \in 1..Len(b) + Len(l) : s[i] = IF i <= Len(b) THEN b[i] ELSE l[i - Len(b)]
  BY ConcatProperties
<1> HIDE DEF s
<1>2. Len(b) \in Nat /\ Len(l) \in Nat /\ DOMAIN b = 1..Len(b) /\ DOMAIN l = 1..Len(l) /\ DOMAIN s = 1..Len(s)
  BY <1>1
<1>3. ASSUME NEW i \in DOMAIN s, i \notin DOMAIN b
      PROVE  s[i] \in Range(l)
  <2>1. i \in 1..Len(b) + Len(l) /\ ~(i <= Len(b)) /\ i - Len(b) \in DOMAIN l
    BY <1>1, <1>2, <1>3
  <2> QED BY <1>1, <2>1 DEF Range
<1>4. Len(b) <= Len(s) /\ \A i \in DOMAIN b : i \in DOMAIN s /\ b[i] = s[i]
  BY <1>1, <1>2
<1>5. ASSUME NEW i \in DOMAIN l
      PROVE  \E j \in DOMAIN s : j \notin DOMAIN b /\ s[j] = l[i]
  <2>1. Len(b) + i \in 1..Len(b) + Len(l) /\ ~(Len(b) + i <= Len(b)) /\ (Len(b) + i) - Len(b) = i
    BY <1>2
  <2>2. Len(b) + i \in DOMAIN s /\ Len(b) + i \notin DOMAIN b /\ s[Len(b) + i] = l[i]
    BY <1>1, <1>2, <2>1
  <2> QED BY <2>2
<1> QED BY <1>3, <1>4, <1>5 DEF s

\* Dropping the list leaves the batch of a line, and nothing of the list.
LEMMA LineIsCut ==
    ASSUME NEW t \in Queue, NEW u \in Queue, u.batch = t.batch, u.list = <<>>
    PROVE  /\ Line(u) = t.batch /\ Len(Line(u)) <= Len(Line(t))
           /\ \A i \in DOMAIN Line(u) : i \in DOMAIN Line(t) /\ Line(u)[i] = Line(t)[i]
           /\ \A i \in DOMAIN Line(t) : i \notin DOMAIN Line(u) => Line(t)[i] \in Range(t.list)
           /\ \A i \in DOMAIN t.list : \E j \in DOMAIN Line(t) : j \notin DOMAIN Line(u) /\ Line(t)[j] = t.list[i]
<1>1. Line(u) = t.batch
  BY LineType, ConcatEmptySeq DEF Line
<1>2. t.batch \in Seq(Nat) /\ t.list \in Seq(Nat)
  BY LineType
<1>3. /\ Len(t.batch) <= Len(t.batch \o t.list)
      /\ \A i \in DOMAIN t.batch : i \in DOMAIN (t.batch \o t.list) /\ t.batch[i] = (t.batch \o t.list)[i]
      /\ \A i \in DOMAIN (t.batch \o t.list) :
             i \notin DOMAIN t.batch => (t.batch \o t.list)[i] \in Range(t.list)
      /\ \A i \in DOMAIN t.list : \E j \in DOMAIN (t.batch \o t.list) :
             j \notin DOMAIN t.batch /\ (t.batch \o t.list)[j] = t.list[i]
  BY <1>2, CutOfTwo
<1>4. Line(t) = t.batch \o t.list
  BY DEF Line
<1> QED BY <1>1, <1>3, <1>4, Zenon

-----------------------------------------------------------------------------
(* What steps do to the queues and the queries. *)

\* One queue is changed to u.
Becomes(q, u) == /\ q \in DOMAIN taskQueue /\ u \in Queue
                 /\ taskQueue' \in Seq(Queue) /\ DOMAIN taskQueue' = DOMAIN taskQueue
                 /\ taskQueue'[q] = u
                 /\ \A r \in DOMAIN taskQueue : r # q => taskQueue'[r] = taskQueue[r]

\* No query is forgotten, moved to another modid, or moved back; none is answered.
QueriesKept ==
    /\ query' \in Seq(Query) /\ DOMAIN query \subseteq DOMAIN query'
    /\ \A n \in DOMAIN query : /\ query'[n].modid = query[n].modid /\ query'[n].cb = query[n].cb
                               /\ query'[n].at # query[n].at =>
                                      /\ query[n].at # "posted" /\ query'[n].at \notin {"queued", "posted"}
                                      /\ query'[n].at = "executed" => query[n].at = "queued"
    /\ \A n \in DOMAIN query' : n \notin DOMAIN query => query'[n].at \notin {"executed", "posted"}

\* An EXCEPT changes one queue.
LEMMA Becoming ==
    ASSUME taskQueue \in Seq(Queue), NEW q \in DOMAIN taskQueue, NEW u \in Queue,
           taskQueue' = [taskQueue EXCEPT ![q] = u]
    PROVE  Becomes(q, u)
<1>1. taskQueue' \in Seq(Queue) /\ DOMAIN taskQueue' = DOMAIN taskQueue /\ taskQueue'[q] = u
  OBVIOUS
<1>2. \A r \in DOMAIN taskQueue : r # q => taskQueue'[r] = taskQueue[r]
  OBVIOUS
<1> QED BY <1>1, <1>2 DEF Becomes

\* Some queries change their place.
LEMMA MovedQueries ==
    ASSUME query \in Seq(Query), NEW ns, NEW place \in Place, Moved(ns, place)
    PROVE  /\ query' \in Seq(Query) /\ DOMAIN query' = DOMAIN query
           /\ \A n \in DOMAIN query : /\ query'[n].modid = query[n].modid /\ query'[n].cb = query[n].cb
                                      /\ n \in ns => query'[n].at = place
                                      /\ n \notin ns => query'[n] = query[n]
<1>1. DOMAIN query = 1..Len(query) /\ Len(query) \in Nat
  OBVIOUS
<1>2. \A n \in DOMAIN query : query[n] \in Query
  OBVIOUS
<1>3. \A n \in DOMAIN query : query'[n] = IF n \in ns THEN [query[n] EXCEPT !.at = place] ELSE query[n]
  BY DEF Moved
<1>4. \A n \in DOMAIN query : query'[n] \in Query
  BY <1>2, <1>3 DEF Query
<1>5. query' \in [1..Len(query) -> Query]
  BY <1>1, <1>4 DEF Moved
<1>6. query' \in Seq(Query) /\ DOMAIN query' = DOMAIN query
  BY <1>1, <1>5
<1>7. \A n \in DOMAIN query : /\ query'[n].modid = query[n].modid /\ query'[n].cb = query[n].cb
                              /\ n \in ns => query'[n].at = place
                              /\ n \notin ns => query'[n] = query[n]
  BY <1>2, <1>3 DEF Query
<1> QED BY <1>6, <1>7

\* One more query is asked.
LEMMA AskedQueries ==
    ASSUME query \in Seq(Query), NEW e \in Query, query' = Append(query, e)
    PROVE  /\ query' \in Seq(Query) /\ Len(query) + 1 \in Nat \ {0} /\ Len(query) + 1 \notin DOMAIN query
           /\ DOMAIN query' = DOMAIN query \cup {Len(query) + 1}
           /\ \A n \in DOMAIN query : query'[n] = query[n] /\ n < Len(query) + 1
           /\ query'[Len(query) + 1] = e
OBVIOUS

\* What a queue holds are queries.
LEMMA HeldQueries ==
    ASSUME PoolTypeInv, PlaceInv, NEW q \in DOMAIN taskQueue
    PROVE  /\ taskQueue[q] \in Queue /\ QueueInv(taskQueue[q], query)
           /\ \A n \in Held(taskQueue[q]) : n \in DOMAIN query /\ query[n].at \in {"queued", "executed"}
<1>1. taskQueue[q] \in Queue /\ QueueInv(taskQueue[q], query)
  BY DEF PoolTypeInv, PlaceInv
<1> QED BY <1>1 DEF QueueInv, Held

\* PlaceInv, when one queue and queries it holds, or new ones, change.
LEMMA PlaceStep ==
    ASSUME PoolTypeInv, PlaceInv, NEW q, NEW u, Becomes(q, u), DOMAIN query \subseteq DOMAIN query',
           QueueInv(u, query'),
           \A n \in Held(u) : n \in Held(taskQueue[q]) \/ n \notin DOMAIN query,
           \A n \in DOMAIN query : n \notin Held(taskQueue[q]) => query'[n] = query[n],
           \A n \in DOMAIN query' : query'[n].at \in {"queued", "executed"} =>
               n \in Held(u) \/ n \in DOMAIN query \ Held(taskQueue[q])
    PROVE  PlaceInv'
<1> USE DEF Becomes
<1>1. \A r \in DOMAIN taskQueue : \A n \in Held(taskQueue[r]) :
          /\ n \in DOMAIN query
          /\ r # q => n \notin Held(taskQueue[q])
  BY HeldQueries DEF PlaceInv
<1>2. ASSUME NEW r \in DOMAIN taskQueue, r # q
      PROVE  QueueInv(taskQueue[r], query')
  <2>1. QueueInv(taskQueue[r], query)
    BY DEF PlaceInv
  <2>2. \A n \in Held(taskQueue[r]) : n \in DOMAIN query' /\ query'[n] = query[n]
    BY <1>1, <1>2
  <2> QED BY <2>1, <2>2 DEF QueueInv, Held
<1>3. \A r \in DOMAIN taskQueue' : QueueInv(taskQueue'[r], query')
  BY <1>2
<1>4. \A p, r \in DOMAIN taskQueue' : p # r => Held(taskQueue'[p]) \cap Held(taskQueue'[r]) = {}
  <2>1. \A r \in DOMAIN taskQueue : r # q => Held(u) \cap Held(taskQueue[r]) = {}
    BY <1>1
  <2>2. \A p, r \in DOMAIN taskQueue : p # r => Held(taskQueue[p]) \cap Held(taskQueue[r]) = {}
    BY DEF PlaceInv
  <2> QED BY <2>1, <2>2
<1>5. ASSUME NEW n \in DOMAIN query', query'[n].at \in {"queued", "executed"}
      PROVE  \E r \in DOMAIN taskQueue' : n \in Held(taskQueue'[r])
  <2>1. CASE n \in Held(u)
    BY <2>1
  <2>2. CASE n \in DOMAIN query \ Held(taskQueue[q])
    <3>1. query'[n] = query[n]
      BY <2>2
    <3>2. PICK r \in DOMAIN taskQueue : n \in Held(taskQueue[r])
      BY <1>5, <2>2, <3>1 DEF PlaceInv
    <3> QED BY <2>2, <3>2
  <2> QED BY <1>5, <2>1, <2>2
<1> QED BY <1>3, <1>4, <1>5 DEF PlaceInv

\* ResultInv, when nothing is answered.
LEMMA ResultStep ==
    ASSUME PoolTypeInv, ResultInv, QueriesKept, UNCHANGED results
    PROVE  ResultInv'
<1>1. \A n \in DOMAIN query' : query'[n].at = "posted" <=> n \in DOMAIN query /\ query[n].at = "posted"
  BY DEF QueriesKept
<1>2. \A n \in DOMAIN query : query'[n].cb = query[n].cb /\ n \in DOMAIN query'
  BY DEF QueriesKept
<1> QED BY <1>1, <1>2 DEF ResultInv

\* RouteInv, when the pool stays.
LEMMA RouteStep ==
    ASSUME DbInv, RouteInv, UNCHANGED m_dbPool,
           \A n \in DOMAIN query : query'[n].modid = query[n].modid,
           \A r \in DOMAIN taskQueue' : \A n \in Held(taskQueue'[r]) :
               \/ r \in DOMAIN taskQueue /\ n \in Held(taskQueue[r])
               \/ m_dbPool # <<>> /\ r = Entry(query'[n].modid)
    PROVE  RouteInv'
<1>1. ASSUME NEW r \in DOMAIN taskQueue', NEW n \in Held(taskQueue'[r])
      PROVE  m_dbPool # <<>> /\ r = Entry(query'[n].modid)
  <2>1. CASE r \in DOMAIN taskQueue /\ n \in Held(taskQueue[r])
    <3>1. n \in DOMAIN query
      BY <2>1, HeldQueries DEF DbInv
    <3> QED BY <2>1, <3>1 DEF RouteInv
  <2>2. CASE ~(r \in DOMAIN taskQueue /\ n \in Held(taskQueue[r]))
    BY <1>1, <2>2
  <2> QED BY <2>1, <2>2
<1> QED BY <1>1 DEF RouteInv, Entry

\* OrderInv, when nothing is answered and the pool stays.
LEMMA OrderStep ==
    ASSUME DbInv, OrderInv, QueriesKept, UNCHANGED <<m_dbPool, results>>,
           \A r \in DOMAIN taskQueue' : \A n \in Held(taskQueue'[r]) :
               \/ r \in DOMAIN taskQueue /\ n \in Held(taskQueue[r])
               \/ m_dbPool # <<>> /\ r = Entry(query'[n].modid)
    PROVE  OrderInv'
<1> SUFFICES ASSUME PoolIsWhole PROVE RouteInv' /\ AnswerInv'
  BY DEF OrderInv, PoolIsWhole
<1>1. RouteInv /\ AnswerInv
  BY DEF OrderInv
<1>2. RouteInv'
  BY <1>1, RouteStep DEF QueriesKept
<1>3. AnswerInv'
  <2>1. \A i \in DOMAIN results : results[i] \in DOMAIN query /\ results[i] \in Nat
    BY DEF DbInv, ResultInv, PoolTypeInv
  <2>2. \A i \in DOMAIN results : query'[results[i]].modid = query[results[i]].modid
    BY <2>1 DEF QueriesKept
  <2>3. \A i \in DOMAIN results : \A k \in 1..results[i] - 1 : k \in DOMAIN query
    BY <2>1 DEF DbInv, PoolTypeInv
  <2>4. \A k \in DOMAIN query : /\ query'[k].modid = query[k].modid /\ query'[k].cb = query[k].cb
                                /\ query'[k].at \in {"queued", "executed"} => query[k].at \in {"queued", "executed"}
    BY DEF QueriesKept
  <2> QED BY <1>1, <2>2, <2>3, <2>4 DEF AnswerInv
<1> QED BY <1>2, <1>3

\* The order of queries and answers, when no query is executed and no answer is told.
LEMMA NoneServed ==
    ASSUME \A n \in DOMAIN query : query'[n].at # query[n].at =>
               query'[n].at # "executed" /\ query[n].at # "posted"
    PROVE  ExecutedInOrder /\ AnsweredInOrder
BY DEF ExecutedInOrder, AnsweredInOrder

\* LeftInv and WorkerInv, when a queue of the pool goes on.
LEMMA WorkerStep ==
    ASSUME DbInv, UNCHANGED <<m_dbPool, worker>>, NEW q, NEW u, Becomes(q, u),
           ~Joined(q), u.open = taskQueue[q].open,
           worker = FreeWorker \/ \E p \in DOMAIN taskQueue : Held(taskQueue[p]) # {}
    PROVE  LeftInv' /\ WorkerInv'
<1> USE DEF Becomes
<1>1. \A r \in DOMAIN taskQueue : Joined(r) => r # q /\ Joined(r)'
  BY DEF Joined
<1>2. LeftInv'
  BY <1>1 DEF DbInv, LeftInv
<1>3. \A j \in DOMAIN m_dbPool : m_dbPool[j] # NULL => m_dbPool[j] \in DOMAIN taskQueue
  BY DEF DbInv, PoolTypeInv
<1>4. DOMAIN m_dbPool = 1..Len(m_dbPool) /\ Len(m_dbPool) \in Nat
  BY DEF DbInv, PoolTypeInv
<1>5. ASSUME worker.at = "free" PROVE WorkerInv'
  BY <1>5 DEF WorkerInv
<1>6. ASSUME worker.at = "init" PROVE WorkerInv'
  <2>1. \E p \in DOMAIN taskQueue : Held(taskQueue[p]) # {}
    BY <1>6 DEF FreeWorker
  <2> QED BY <1>6, <2>1 DEF DbInv, WorkerInv, LastEntry
<1>7. ASSUME worker.at = "replace" PROVE WorkerInv'
  <2>1. taskQueue'[m_dbPool[worker.i]].open = taskQueue[m_dbPool[worker.i]].open
    <3>1. worker.i \in DOMAIN m_dbPool /\ m_dbPool[worker.i] # NULL
      BY <1>4, <1>7 DEF DbInv, WorkerInv
    <3> QED BY <1>3, <3>1
  <2> QED BY <1>7, <2>1 DEF DbInv, WorkerInv, LastEntry
<1>8. ASSUME worker.at = "cleanup" PROVE WorkerInv'
  <2>1. worker.n = Len(m_dbPool) /\ worker.i \in 1..worker.n + 1
    BY <1>8 DEF DbInv, WorkerInv
  <2>2. ASSUME NEW j \in 1..worker.i - 1
        PROVE  m_dbPool[j] # NULL /\ Joined(m_dbPool[j])'
    <3>1. j \in DOMAIN m_dbPool
      BY <1>4, <2>1
    <3>2. m_dbPool[j] # NULL /\ Joined(m_dbPool[j])
      BY <1>8 DEF DbInv, WorkerInv
    <3> QED BY <1>1, <1>3, <3>1, <3>2
  <2> QED BY <1>8, <2>1, <2>2 DEF WorkerInv
<1>9. ASSUME worker.at = "ended" PROVE WorkerInv'
  BY <1>9 DEF DbInv, WorkerInv
<1>10. worker.at \in {"free", "init", "replace", "cleanup", "ended"}
  BY DEF DbInv, PoolTypeInv
<1> QED BY <1>2, <1>5, <1>6, <1>7, <1>8, <1>9, <1>10

-----------------------------------------------------------------------------
(* Asking. *)

DbSteady == DbInv /\ OrderInv

\* A modid selects an entry of the pool.
LEMMA EntryType ==
    ASSUME PoolTypeInv, m_dbPool # <<>>, NEW modid \in Modid
    PROVE  Entry(modid) \in Range(m_dbPool) /\ Entry(modid) \in {NULL} \cup DOMAIN taskQueue
<1>1. modid \in Nat /\ Len(m_dbPool) \in Nat \ {0} /\ DOMAIN m_dbPool = 1..Len(m_dbPool)
  BY DbMgrAssumption DEF PoolTypeInv
<1>2. modid % Len(m_dbPool) \in 0..Len(m_dbPool) - 1
  BY <1>1
<1>3. (modid % Len(m_dbPool)) + 1 \in DOMAIN m_dbPool
  BY <1>1, <1>2
<1> QED BY <1>3 DEF Entry, PoolTypeInv, Range

\* Nothing but the list of queries changes: a query is refused, dropped or thrown.
LEMMA Unheard ==
    ASSUME DbSteady, NEW e \in Query, e.at \notin {"queued", "executed", "posted"},
           query' = Append(query, e),
           UNCHANGED <<m_dbPool, taskQueue, results, worker, inits>>, thrown' \in BOOLEAN
    PROVE  DbSteady'
<1> USE DEF DbSteady
<1>1. /\ query' \in Seq(Query) /\ Len(query) + 1 \in Nat \ {0} /\ Len(query) + 1 \notin DOMAIN query
      /\ DOMAIN query' = DOMAIN query \cup {Len(query) + 1}
      /\ \A n \in DOMAIN query : query'[n] = query[n] /\ n < Len(query) + 1
      /\ query'[Len(query) + 1] = e
  BY AskedQueries DEF DbInv, PoolTypeInv
<1>2. PoolTypeInv'
  BY <1>1 DEF DbInv, PoolTypeInv
<1>3. QueriesKept
  BY <1>1 DEF QueriesKept
<1>4. PlaceInv'
  <2>1. \A q \in DOMAIN taskQueue : QueueInv(taskQueue[q], query')
    BY <1>1 DEF DbInv, PlaceInv, QueueInv
  <2>2. \A n \in DOMAIN query' : query'[n].at \in {"queued", "executed"} =>
            \E q \in DOMAIN taskQueue : n \in Held(taskQueue[q])
    BY <1>1 DEF DbInv, PlaceInv
  <2> QED BY <2>1, <2>2 DEF DbInv, PlaceInv
<1>5. ResultInv'
  BY <1>3, ResultStep DEF DbInv
<1>6. OrderInv'
  BY <1>3, OrderStep
<1>7. LeftInv' /\ WorkerInv'
  BY DEF DbInv, LeftInv, WorkerInv, Joined, FirstSetUp, LastEntry, PoolIsWhole
<1> QED BY <1>2, <1>4, <1>5, <1>6, <1>7 DEF DbInv

\* Ask() keeps the invariant.
LEMMA AskStep ==
    ASSUME DbSteady, NEW modid \in Modid, NEW cb \in Callback, Ask(modid, cb),
           UNCHANGED <<m_dbPool, results, worker, inits>>,
           worker = FreeWorker \/ \E p \in DOMAIN taskQueue : Held(taskQueue[p]) # {}
    PROVE  DbSteady'
<1> DEFINE n == Len(query) + 1
           Asked(place) == [modid |-> modid, cb |-> cb, at |-> place]
<1>1. \A place \in Place : Asked(place) \in Query
  BY DEF Query
<1>2. PoolTypeInv
  BY DEF DbSteady, DbInv
<1>3. CASE m_dbPool = <<>> /\ query' = Append(query, Asked("refused")) /\ UNCHANGED <<taskQueue, thrown>>
  <2>1. Asked("refused") \in Query /\ Asked("refused").at = "refused" /\ thrown' \in BOOLEAN
    BY <1>1, <1>2, <1>3 DEF Place, PoolTypeInv
  <2> QED BY <1>3, <2>1, Unheard
<1>4. CASE query' = Append(query, Asked("thrown")) /\ thrown' = TRUE /\ UNCHANGED taskQueue
  <2>1. Asked("thrown") \in Query /\ Asked("thrown").at = "thrown" /\ thrown' \in BOOLEAN
    BY <1>1, <1>4 DEF Place
  <2> QED BY <1>4, <2>1, Unheard
<1>5. CASE query' = Append(query, Asked("dropped")) /\ UNCHANGED <<taskQueue, thrown>>
  <2>1. Asked("dropped") \in Query /\ Asked("dropped").at = "dropped" /\ thrown' \in BOOLEAN
    BY <1>1, <1>2, <1>5 DEF Place, PoolTypeInv
  <2> QED BY <1>5, <2>1, Unheard
<1>6. ASSUME m_dbPool # <<>>, NEW q, q = Entry(modid), q # NULL, taskQueue[q].open,
             query' = Append(query, Asked("queued")),
             taskQueue' = [taskQueue EXCEPT ![q].list = Append(@, n)], UNCHANGED thrown
      PROVE  DbSteady'
  <2> DEFINE t == taskQueue[q]
             u == [t EXCEPT !.list = Append(@, n)]
  <2>1. q \in DOMAIN taskQueue /\ q \in Range(m_dbPool)
    BY <1>2, <1>6, EntryType
  <2>2. t \in Queue /\ QueueInv(t, query) /\ \A k \in Held(t) : k \in DOMAIN query
    BY <1>2, <2>1, HeldQueries DEF DbSteady, DbInv
  <2>3. /\ query' \in Seq(Query) /\ n \in Nat \ {0} /\ n \notin DOMAIN query
        /\ DOMAIN query' = DOMAIN query \cup {n}
        /\ \A k \in DOMAIN query : query'[k] = query[k] /\ k < n
        /\ query'[n] = Asked("queued")
    BY <1>1, <1>2, <1>6, AskedQueries DEF PoolTypeInv, Place
  <2>4. Asked("queued").at = "queued" /\ Asked("queued").modid = modid
    OBVIOUS
  <2> HIDE DEF n, Asked
  <2>5. u \in Queue /\ u.running = t.running /\ u.open = t.open /\ u.open
    BY <1>6, <2>2, <2>3, LineGrows
  <2>6. Line(u) = Append(Line(t), n) /\ Line(t) \in Seq(Nat)
    BY <2>2, <2>3, LineGrows, LineType
  <2>7. Becomes(q, u)
    <3>1. taskQueue \in Seq(Queue)
      BY <1>2 DEF PoolTypeInv
    <3>2. taskQueue' = [taskQueue EXCEPT ![q] = u]
      BY <1>6
    <3> HIDE DEF u
    <3> QED BY <2>1, <2>5, <3>1, <3>2, Becoming
  <2>8. Range(Line(u)) = Range(Line(t)) \cup {n}
    <3> DEFINE s == Line(t)
    <3>1. s \in Seq(Nat) /\ Line(u) = Append(s, n)
      BY <2>6
    <3> HIDE DEF s, u
    <3>2. Range(Append(s, n)) = Range(s) \cup {n}
      BY <2>3, <3>1, RangeGrows
    <3> QED BY <3>1, <3>2 DEF s
  <2>9. Held(u) = Held(t) \cup {n}
    BY <2>5, <2>8 DEF Held
  <2> HIDE DEF u
  <2>10. QueueInv(u, query')
    <3>1. \A k \in Range(Line(t)) : k \in DOMAIN query /\ query[k].at = "queued"
      BY <2>2 DEF QueueInv
    <3>2. \A i, j \in DOMAIN Line(u) : i < j => Line(u)[i] < Line(u)[j]
      <4> DEFINE s == Line(t)
      <4>1. s \in Seq(Nat) /\ Line(u) = Append(s, n) /\ n \in Nat
        BY <2>3, <2>6
      <4>2. /\ \A i, j \in DOMAIN s : i < j => s[i] < s[j]
            /\ \A i \in DOMAIN s : s[i] < n
        BY <2>2, <2>3, <3>1 DEF QueueInv, Range
      <4> HIDE DEF s
      <4>3. \A i, j \in DOMAIN Append(s, n) : i < j => Append(s, n)[i] < Append(s, n)[j]
        BY <4>1, <4>2
      <4> QED BY <4>1, <4>3
    <3>3. \A k \in Range(Line(u)) : k \in DOMAIN query' /\ query'[k].at = "queued"
      BY <2>3, <2>4, <2>8, <3>1
    <3>4. u.running # NoQuery => /\ u.running \in DOMAIN query' /\ query'[u.running].at = "executed"
                                 /\ \A k \in Range(Line(u)) : u.running < k
      BY <2>2, <2>3, <2>5, <2>8 DEF QueueInv
    <3> QED BY <2>5, <3>2, <3>3, <3>4 DEF QueueInv
  <2>11. QueriesKept
    BY <2>3, <2>4 DEF QueriesKept
  <2>12. PlaceInv'
    <3>1. DOMAIN query \subseteq DOMAIN query' /\ \A k \in DOMAIN query : query'[k] = query[k]
      BY <2>3
    <3>2. \A k \in Held(u) : k \in Held(t) \/ k \notin DOMAIN query
      BY <2>3, <2>9
    <3>3. \A k \in DOMAIN query' : query'[k].at \in {"queued", "executed"} =>
              k \in Held(u) \/ k \in DOMAIN query \ Held(t)
      BY <2>3, <2>9
    <3> QED BY <1>2, <2>7, <2>10, <3>1, <3>2, <3>3, PlaceStep DEF DbSteady, DbInv
  <2>13. ResultInv'
    BY <2>11, ResultStep DEF DbSteady, DbInv
  <2>14. OrderInv'
    <3>1. \A r \in DOMAIN taskQueue' : \A k \in Held(taskQueue'[r]) :
               \/ r \in DOMAIN taskQueue /\ k \in Held(taskQueue[r])
               \/ m_dbPool # <<>> /\ r = Entry(query'[k].modid)
      <4>1. q = Entry(query'[n].modid)
        BY <1>6, <2>3, <2>4
      <4> QED BY <1>6, <2>7, <2>9, <4>1 DEF Becomes
    <3> QED BY <2>11, <3>1, OrderStep DEF DbSteady
  <2>15. LeftInv' /\ WorkerInv'
    <3>1. ~Joined(q)
      BY <1>6 DEF Joined
    <3> QED BY <2>5, <2>7, <3>1, WorkerStep DEF DbSteady
  <2>16. PoolTypeInv'
    BY <1>2, <1>6, <2>3, <2>7 DEF PoolTypeInv, Becomes
  <2> QED BY <2>12, <2>13, <2>14, <2>15, <2>16 DEF DbSteady, DbInv
<1> QED BY <1>3, <1>4, <1>5, <1>6 DEF Ask

-----------------------------------------------------------------------------
(* The thread of a connection. *)

\* The thread takes the list as its batch.
LEMMA ConsumeStep ==
    ASSUME DbSteady, NEW q \in DOMAIN taskQueue, consume(q)
    PROVE  DbSteady'
<1> DEFINE t == taskQueue[q]
           u == [t EXCEPT !.batch = t.list, !.list = <<>>]
<1>1. PoolTypeInv /\ PlaceInv
  BY DEF DbSteady, DbInv
<1>2. t \in Queue /\ QueueInv(t, query) /\ \A k \in Held(t) : k \in DOMAIN query
  BY <1>1, HeldQueries
<1>3. t.batch = <<>> /\ t.list # <<>> /\ t.running = NoQuery /\ t.open
  BY DEF consume
<1>4. t.list \in Seq(Nat) /\ t.batch \o t.list = t.list
  BY <1>2, <1>3 DEF Queue
<1>5. u \in Queue /\ u.list = <<>> /\ u.batch = t.list /\ u.running = t.running /\ u.open = t.open
  <2>1. <<>> \in Seq(Nat) /\ 0 \in Nat
    OBVIOUS
  <2>2. Fields(u, <<>>, t.list, t.running, t.open)
    BY <1>2, <1>4, <2>1, QueueFields
  <2> QED BY <2>2 DEF Fields
<1>6. Becomes(q, u)
  <2>1. taskQueue \in Seq(Queue)
    BY <1>1 DEF PoolTypeInv
  <2>2. taskQueue' = [taskQueue EXCEPT ![q] = [t EXCEPT !.batch = t.batch \o t.list, !.list = <<>>]]
    BY DEF consume
  <2>3. taskQueue' = [taskQueue EXCEPT ![q] = u]
    BY <1>4, <2>2
  <2> HIDE DEF u
  <2> QED BY <1>5, <2>1, <2>3, Becoming
<1>7. Line(u) = Line(t) /\ Held(u) = Held(t)
  <2>1. Line(t) = t.list
    BY <1>2, <1>3, LineIsTaken
  <2>2. Line(u) = t.list
    BY <1>4, <1>5, ConcatEmptySeq DEF Line
  <2> QED BY <1>5, <2>1, <2>2 DEF Held
<1>8. Held(t) # {}
  <2>1. Line(t) = t.list
    BY <1>2, <1>3, LineIsTaken
  <2>2. t.list[1] \in Range(t.list)
    BY <1>3, <1>4 DEF Range
  <2> QED BY <2>1, <2>2 DEF Held
<1>9. UNCHANGED <<m_dbPool, query, results, worker, inits, thrown>>
  BY DEF consume
<1>10. ~Joined(q)
  BY <1>3 DEF Joined
<1> HIDE DEF u
<1>11. QueueInv(u, query')
  BY <1>2, <1>5, <1>7, <1>9 DEF QueueInv
<1>12. QueriesKept
  BY <1>1, <1>9 DEF QueriesKept, PoolTypeInv
<1>13. PlaceInv'
  <2>1. \A k \in DOMAIN query' : query'[k].at \in {"queued", "executed"} =>
            k \in Held(u) \/ k \in DOMAIN query \ Held(t)
    BY <1>7, <1>9
  <2> QED BY <1>1, <1>6, <1>7, <1>9, <1>11, <2>1, PlaceStep
<1>14. ResultInv'
  BY <1>9, <1>12, ResultStep DEF DbSteady, DbInv
<1>15. OrderInv'
  <2>1. \A r \in DOMAIN taskQueue' : \A k \in Held(taskQueue'[r]) :
            r \in DOMAIN taskQueue /\ k \in Held(taskQueue[r])
    BY <1>6, <1>7 DEF Becomes
  <2> QED BY <1>9, <1>12, <2>1, OrderStep DEF DbSteady
<1>16. LeftInv' /\ WorkerInv'
  BY <1>5, <1>6, <1>8, <1>9, <1>10, WorkerStep DEF DbSteady
<1>17. PoolTypeInv'
  BY <1>1, <1>6, <1>9 DEF PoolTypeInv, Becomes
<1> QED BY <1>13, <1>14, <1>15, <1>16, <1>17 DEF DbSteady, DbInv

\* The first query of the batch is taken.
LEMMA ExeSqlStep ==
    ASSUME DbSteady, NEW q \in DOMAIN taskQueue, exeSql(q)
    PROVE  DbSteady' /\ (PoolIsWhole => ExecutedInOrder)
<1> DEFINE t == taskQueue[q]
           n == Head(t.batch)
           u == [t EXCEPT !.running = n, !.batch = Tail(t.batch)]
<1>1. PoolTypeInv /\ PlaceInv
  BY DEF DbSteady, DbInv
<1>2. t \in Queue /\ QueueInv(t, query) /\ \A k \in Held(t) : k \in DOMAIN query
  BY <1>1, HeldQueries
<1>3. t.batch # <<>> /\ t.running = NoQuery /\ Moved({n}, "executed")
  BY DEF exeSql
<1>4. t.batch \in Seq(Nat) /\ t.list \in Seq(Nat) /\ n \in Nat /\ Tail(t.batch) \in Seq(Nat)
  BY <1>2, <1>3 DEF Queue
<1>5. u \in Queue /\ u.list = t.list /\ u.batch = Tail(t.batch) /\ u.running = n /\ u.open = t.open
  <2>1. Fields(u, t.list, Tail(t.batch), n, t.open)
    BY <1>2, <1>4, QueueFields
  <2> QED BY <2>1 DEF Fields
<1>6. Becomes(q, u)
  <2>1. taskQueue \in Seq(Queue)
    BY <1>1 DEF PoolTypeInv
  <2>3. taskQueue' = [taskQueue EXCEPT ![q] = u]
    BY DEF exeSql
  <2> HIDE DEF u
  <2> QED BY <1>5, <2>1, <2>3, Becoming
<1>7. Line(t) # <<>> /\ n = Line(t)[1] /\ Line(u) = Tail(Line(t)) /\ Line(t) \in Seq(Nat)
  BY <1>2, <1>3, <1>5, LineIsServed, LineType
<1>8. UNCHANGED <<m_dbPool, results, worker, inits, thrown>>
  BY DEF exeSql
<1>9. ~Joined(q)
  BY <1>3 DEF Joined
<1>10. /\ query' \in Seq(Query) /\ DOMAIN query' = DOMAIN query
       /\ \A k \in DOMAIN query : /\ query'[k].modid = query[k].modid /\ query'[k].cb = query[k].cb
                                  /\ k = n => query'[k].at = "executed"
                                  /\ k # n => query'[k] = query[k]
  <2>1. "executed" \in Place
    BY DEF Place
  <2>2. \A k : k \in {n} <=> k = n
    OBVIOUS
  <2> QED BY <1>1, <1>3, <2>1, <2>2, MovedQueries DEF PoolTypeInv
<1> HIDE DEF u, n
\* The first of a line is the oldest, and the others stay in order.
<1>11. /\ Range(Line(t)) = Range(Line(u)) \cup {n}
       /\ \A k \in Range(Line(u)) : n < k
       /\ \A i, j \in DOMAIN Line(u) : i < j => Line(u)[i] < Line(u)[j]
  <2> DEFINE s == Line(t)
             r == Line(u)
  <2>1. s \in Seq(Nat) /\ s # <<>> /\ n = s[1] /\ r = Tail(s)
    BY <1>7
  <2>2. \A i, j \in DOMAIN s : i < j => s[i] < s[j]
    BY <1>2 DEF QueueInv
  <2> HIDE DEF s, r
  <2>3. /\ DOMAIN s = 1..Len(s) /\ Len(s) \in Nat \ {0}
        /\ DOMAIN r = 1..Len(s) - 1 /\ \A i \in 1..Len(s) - 1 : r[i] = s[i + 1]
    BY <2>1
  <2>4. \A i \in DOMAIN r : i + 1 \in DOMAIN s /\ r[i] = s[i + 1]
    BY <2>3
  <2>5. \A i \in DOMAIN s : i = 1 \/ (i - 1 \in DOMAIN r /\ r[i - 1] = s[i])
    BY <2>3
  <2>6. 1 \in DOMAIN s
    BY <2>3
  <2>7. Range(s) \subseteq Range(r) \cup {n}
    BY <2>1, <2>5 DEF Range
  <2>8. Range(r) \cup {n} \subseteq Range(s)
    BY <2>1, <2>4, <2>6 DEF Range
  <2>9. \A k \in Range(r) : n < k
    BY <2>1, <2>2, <2>3, <2>4, <2>6 DEF Range
  <2>10. \A i, j \in DOMAIN r : i < j => r[i] < r[j]
    BY <2>2, <2>3, <2>4
  <2> QED BY <2>7, <2>8, <2>9, <2>10 DEF s, r
<1>12. n \in DOMAIN query /\ query[n].at = "queued" /\ n # NoQuery
  <2>1. n \in DOMAIN query /\ query[n].at = "queued"
    BY <1>2, <1>11 DEF QueueInv
  <2> QED BY <1>1, <2>1 DEF PoolTypeInv, NoQuery
<1>13. Held(u) = Held(t) /\ n \in Held(t)
  BY <1>3, <1>5, <1>11, <1>12 DEF Held
<1>14. QueueInv(u, query')
  <2>1. \A k \in Range(Line(u)) : k \in DOMAIN query /\ query[k].at = "queued" /\ k # n
    BY <1>2, <1>4, <1>11, <1>12 DEF QueueInv
  <2>2. \A k \in Range(Line(u)) : k \in DOMAIN query' /\ query'[k].at = "queued"
    BY <1>10, <2>1
  <2>3. u.running \in DOMAIN query' /\ query'[u.running].at = "executed"
    BY <1>5, <1>10, <1>12
  <2>4. ~u.open => u.list = <<>>
    BY <1>2, <1>5 DEF QueueInv
  <2> QED BY <1>5, <1>11, <2>2, <2>3, <2>4 DEF QueueInv
<1>15. QueriesKept
  BY <1>10, <1>12 DEF QueriesKept
<1>16. PlaceInv'
  <2>1. \A k \in DOMAIN query : k \notin Held(t) => query'[k] = query[k]
    BY <1>10, <1>13
  <2>2. \A k \in DOMAIN query' : query'[k].at \in {"queued", "executed"} =>
            k \in Held(u) \/ k \in DOMAIN query \ Held(t)
    BY <1>10, <1>13
  <2> QED BY <1>1, <1>6, <1>10, <1>13, <1>14, <2>1, <2>2, PlaceStep
<1>17. ResultInv'
  BY <1>8, <1>15, ResultStep DEF DbSteady, DbInv
<1>18. OrderInv'
  <2>1. \A r \in DOMAIN taskQueue' : \A k \in Held(taskQueue'[r]) :
            r \in DOMAIN taskQueue /\ k \in Held(taskQueue[r])
    BY <1>6, <1>13 DEF Becomes
  <2> QED BY <1>8, <1>15, <2>1, OrderStep DEF DbSteady
<1>19. LeftInv' /\ WorkerInv'
  BY <1>5, <1>6, <1>8, <1>9, <1>13, WorkerStep DEF DbSteady
<1>20. PoolTypeInv'
  BY <1>1, <1>6, <1>8, <1>10 DEF PoolTypeInv, Becomes
<1>21. PoolIsWhole => ExecutedInOrder
  <2> SUFFICES ASSUME PoolIsWhole, NEW k \in 1..n - 1, query[k].modid = query[n].modid
               PROVE  query[k].at # "queued"
    <3>1. \A m \in DOMAIN query : query[m].at # "executed" /\ query'[m].at = "executed" => m = n
      BY <1>10
    <3> QED BY <3>1 DEF ExecutedInOrder
  <2>1. k \in DOMAIN query /\ k < n
    BY <1>1, <1>4, <1>12 DEF PoolTypeInv
  <2>2. SUFFICES ASSUME query[k].at = "queued" PROVE FALSE
    OBVIOUS
  <2>3. PICK p \in DOMAIN taskQueue : k \in Held(taskQueue[p])
    BY <1>1, <2>1, <2>2 DEF PlaceInv
  <2>4. p = q
    BY <1>13, <2>3 DEF DbSteady, OrderInv, RouteInv, Entry
  <2>5. k \in Range(Line(u)) \/ k = n
    BY <1>3, <1>11, <2>3, <2>4 DEF Held
  <2> QED BY <1>4, <1>11, <2>1, <2>5
<1> QED BY <1>16, <1>17, <1>18, <1>19, <1>20, <1>21 DEF DbSteady, DbInv

\* The query that runs is done: its answer is posted, or there is nobody to answer on the worker.
LEMMA AnswerStep ==
    ASSUME DbSteady, NEW q \in DOMAIN taskQueue, answer(q)
    PROVE  DbSteady' /\ ExecutedInOrder /\ AnsweredInOrder
<1> DEFINE t == taskQueue[q]
           n == t.running
           u == [t EXCEPT !.running = NoQuery]
<1>1. PoolTypeInv /\ PlaceInv /\ ResultInv
  BY DEF DbSteady, DbInv
<1>2. t \in Queue /\ QueueInv(t, query) /\ \A k \in Held(t) : k \in DOMAIN query
  BY <1>1, HeldQueries
<1>3. n # NoQuery /\ n \in Nat /\ n \in DOMAIN query /\ query[n].at = "executed"
      /\ \A k \in Range(Line(t)) : n < k
  BY <1>2, LineType DEF answer, QueueInv
<1>4. u \in Queue /\ u.list = t.list /\ u.batch = t.batch /\ u.running = NoQuery /\ u.open = t.open
  <2>1. NoQuery \in Nat /\ t.list \in Seq(Nat) /\ t.batch \in Seq(Nat)
    BY <1>2 DEF NoQuery, Queue
  <2>2. Fields(u, t.list, t.batch, NoQuery, t.open)
    BY <1>2, <2>1, QueueFields
  <2> QED BY <2>2 DEF Fields
<1>5. Becomes(q, u)
  <2>1. taskQueue \in Seq(Queue) /\ taskQueue' = [taskQueue EXCEPT ![q] = u]
    BY <1>1 DEF PoolTypeInv, answer
  <2> HIDE DEF u
  <2> QED BY <1>4, <2>1, Becoming
<1>6. Line(u) = Line(t)
  BY <1>4 DEF Line
<1>7. UNCHANGED <<m_dbPool, worker, inits, thrown>>
  BY DEF answer
<1>8. PICK place \in {"posted", "told"} :
          /\ Moved({n}, place)
          /\ place = "posted" => query[n].cb = "worker" /\ results' = Append(results, n)
          /\ place = "told" => UNCHANGED results
  BY DEF answer
<1>9. ~Joined(q)
  BY <1>3 DEF Joined
<1> HIDE DEF u, n
<1>10. /\ query' \in Seq(Query) /\ DOMAIN query' = DOMAIN query
       /\ \A k \in DOMAIN query : /\ query'[k].modid = query[k].modid /\ query'[k].cb = query[k].cb
                                  /\ k = n => query'[k].at = place
                                  /\ k # n => query'[k] = query[k]
  <2>1. place \in Place
    BY DEF Place
  <2>2. \A k : k \in {n} <=> k = n
    OBVIOUS
  <2> QED BY <1>1, <1>8, <2>1, <2>2, MovedQueries DEF PoolTypeInv
<1>11. Held(t) = Held(u) \cup {n} /\ n \notin Held(u)
  <2>1. n \notin Range(Line(t))
    BY <1>3
  <2>2. t.running = n
    BY DEF n
  <2> QED BY <1>3, <1>4, <1>6, <2>1, <2>2 DEF Held
<1>12. QueueInv(u, query')
  <2>1. \A k \in Range(Line(t)) : k \in DOMAIN query /\ query[k].at = "queued" /\ k # n
    BY <1>2, <1>3 DEF QueueInv
  <2>2. \A k \in Range(Line(u)) : k \in DOMAIN query' /\ query'[k].at = "queued"
    BY <1>6, <1>10, <2>1
  <2> QED BY <1>2, <1>4, <1>6, <2>2 DEF QueueInv
<1>13. PlaceInv'
  <2>1. \A k \in DOMAIN query : k \notin Held(t) => query'[k] = query[k]
    BY <1>10, <1>11
  <2>2. \A k \in DOMAIN query' : query'[k].at \in {"queued", "executed"} =>
            k \in Held(u) \/ k \in DOMAIN query \ Held(t)
    BY <1>10, <1>11
  <2> QED BY <1>1, <1>5, <1>10, <1>11, <1>12, <2>1, <2>2, PlaceStep
<1>14. PoolTypeInv'
  <2>1. results' \in Seq(Nat)
    <3>1. results \in Seq(Nat) /\ n \in Nat
      BY <1>1, <1>3 DEF PoolTypeInv
    <3>2. Append(results, n) \in Seq(Nat)
      BY <3>1
    <3> QED BY <1>8, <3>1, <3>2, Zenon
  <2> QED BY <1>1, <1>5, <1>7, <1>10, <2>1 DEF PoolTypeInv, Becomes
<1>15. ExecutedInOrder /\ AnsweredInOrder
  <2>1. \A k \in DOMAIN query : query'[k].at # query[k].at =>
            query'[k].at # "executed" /\ query[k].at # "posted"
    BY <1>3, <1>10
  <2> QED BY <2>1, NoneServed
<1>16. PoolIsWhole => RouteInv'
  <2> SUFFICES ASSUME PoolIsWhole PROVE RouteInv'
    OBVIOUS
  <2>1. \A r \in DOMAIN taskQueue' : \A k \in Held(taskQueue'[r]) :
            r \in DOMAIN taskQueue /\ k \in Held(taskQueue[r])
    BY <1>5, <1>11 DEF Becomes
  <2> QED BY <1>7, <1>10, <2>1, RouteStep DEF DbSteady, OrderInv
<1>17. CASE place = "told"
  <2>1. QueriesKept
    BY <1>3, <1>10, <1>17 DEF QueriesKept
  <2>2. ResultInv'
    BY <1>1, <1>8, <1>17, <2>1, ResultStep
  <2>3. OrderInv'
    <3>1. \A r \in DOMAIN taskQueue' : \A k \in Held(taskQueue'[r]) :
              r \in DOMAIN taskQueue /\ k \in Held(taskQueue[r])
      BY <1>5, <1>11 DEF Becomes
    <3> QED BY <1>7, <1>8, <1>17, <2>1, <3>1, OrderStep DEF DbSteady
  <2>4. Held(t) # {}
    BY <1>11
  <2>5. LeftInv' /\ WorkerInv'
    BY <1>4, <1>5, <1>7, <1>8, <1>9, <1>17, <2>4, WorkerStep DEF DbSteady
  <2> QED BY <1>13, <1>14, <1>15, <2>2, <2>3, <2>5 DEF DbSteady, DbInv
<1>18. CASE place = "posted"
  <2>1. /\ DOMAIN results' = DOMAIN results \cup {Len(results) + 1} /\ results'[Len(results) + 1] = n
        /\ \A i \in DOMAIN results : results'[i] = results[i] /\ i < Len(results) + 1
        /\ Len(results) + 1 \notin DOMAIN results /\ Len(results) + 1 \in Nat
    <3>1. results \in Seq(Nat) /\ n \in Nat
      BY <1>1, <1>3 DEF PoolTypeInv
    <3>2. results' = Append(results, n)
      BY <1>8, <1>18
    <3> QED BY <3>1, <3>2
  <2>2. \A i \in DOMAIN results : /\ results[i] \in DOMAIN query /\ query[results[i]].at = "posted"
                                  /\ results[i] # n /\ results[i] \in Nat
    BY <1>1, <1>3 DEF ResultInv, PoolTypeInv
  <2>3. ResultInv'
    <3>1. \A i \in DOMAIN results' : results'[i] \in DOMAIN query' /\ query'[results'[i]].at = "posted"
      BY <1>3, <1>10, <1>18, <2>1, <2>2
    <3>2. ASSUME NEW k \in DOMAIN query', query'[k].at = "posted"
          PROVE  (\E i \in DOMAIN results' : results'[i] = k) /\ query'[k].cb = "worker"
      <4>1. CASE k = n
        BY <1>3, <1>8, <1>10, <1>18, <2>1, <4>1
      <4>2. CASE k # n
        <5>1. k \in DOMAIN query /\ query[k].at = "posted" /\ query'[k] = query[k]
          BY <1>10, <3>2, <4>2
        <5>2. PICK i \in DOMAIN results : results[i] = k
          BY <1>1, <5>1 DEF ResultInv
        <5> QED BY <1>1, <2>1, <5>1, <5>2 DEF ResultInv
      <4> QED BY <4>1, <4>2
    <3>3. \A i, j \in DOMAIN results' : i # j => results'[i] # results'[j]
      BY <1>1, <2>1, <2>2 DEF ResultInv
    <3> QED BY <3>1, <3>2, <3>3 DEF ResultInv
  <2>4. ASSUME PoolIsWhole PROVE AnswerInv'
    <3>1. RouteInv /\ AnswerInv
      BY <2>4 DEF DbSteady, OrderInv
    <3>2. n \in DOMAIN query /\ query[n].cb = "worker" /\ DOMAIN query = 1..Len(query) /\ Len(query) \in Nat
      BY <1>1, <1>3, <1>8, <1>18 DEF PoolTypeInv
    <3>3. \A i \in DOMAIN results : query[results[i]].modid = query[n].modid => results[i] < n
      BY <1>3, <2>2, <3>1, <3>2 DEF AnswerInv
    <3>4. ASSUME NEW k \in 1..n - 1, query[k].modid = query[n].modid,
                 query[k].at \in {"queued", "executed"}
          PROVE  FALSE
      <4>1. k \in DOMAIN query /\ k < n
        BY <1>3, <3>2
      <4>2. PICK p \in DOMAIN taskQueue : k \in Held(taskQueue[p])
        BY <1>1, <3>4, <4>1 DEF PlaceInv
      <4>3. p = q
        <5>1. n \in Held(taskQueue[q])
          BY <1>11
        <5>2. q = Entry(query[n].modid) /\ p = Entry(query[k].modid)
          BY <3>1, <4>2, <5>1 DEF RouteInv
        <5> QED BY <3>4, <5>2
      <4>4. k \in Range(Line(t)) \/ k = n
        BY <1>6, <1>4, <1>11, <4>2, <4>3 DEF Held
      <4>5. k \in Nat
        OBVIOUS
      <4> QED BY <1>3, <4>1, <4>4, <4>5
    <3>5. \A k \in DOMAIN query : query'[k].modid = query[k].modid /\ query'[k].cb = query[k].cb
      BY <1>10
    <3>6. \A k \in DOMAIN query : query'[k].at \in {"queued", "executed"} => query[k].at \in {"queued", "executed"}
      BY <1>10, <1>18
    <3>7. \A i, j \in DOMAIN results' :
              i < j /\ query'[results'[i]].modid = query'[results'[j]].modid => results'[i] < results'[j]
      <4>1. \A i, j \in DOMAIN results :
                i < j /\ query'[results[i]].modid = query'[results[j]].modid => results[i] < results[j]
        BY <2>2, <3>1, <3>5 DEF AnswerInv
      <4>2. \A i \in DOMAIN results : query'[results[i]].modid = query'[n].modid => results[i] < n
        BY <2>2, <3>2, <3>3, <3>5
      <4>3. \A i \in DOMAIN results : ~(Len(results) + 1 < i)
        BY <2>1, <1>1 DEF PoolTypeInv
      <4>4. ~(Len(results) + 1 < Len(results) + 1)
        BY <2>1
      <4> QED BY <2>1, <4>1, <4>2, <4>3, <4>4
    <3>8. \A i \in DOMAIN results' : \A k \in 1..results'[i] - 1 :
              query'[k].modid = query'[results'[i]].modid /\ query'[k].cb = "worker" =>
                  query'[k].at \notin {"queued", "executed"}
      <4> SUFFICES ASSUME NEW i \in DOMAIN results', NEW k \in 1..results'[i] - 1,
                          query'[k].modid = query'[results'[i]].modid, query'[k].cb = "worker",
                          query'[k].at \in {"queued", "executed"}
                   PROVE  FALSE
        OBVIOUS
      <4>1. results'[i] \in DOMAIN query /\ results'[i] \in Nat
        BY <1>3, <2>1, <2>2
      <4>2. k \in DOMAIN query
        BY <3>2, <4>1
      <4>3. query[k].modid = query[results'[i]].modid /\ query[k].cb = "worker"
            /\ query[k].at \in {"queued", "executed"}
        BY <3>5, <3>6, <4>1, <4>2
      <4>4. CASE i \in DOMAIN results
        BY <2>1, <3>1, <4>3, <4>4 DEF AnswerInv
      <4>5. CASE i = Len(results) + 1
        BY <2>1, <3>4, <4>3, <4>5
      <4> QED BY <2>1, <4>4, <4>5
    <3> QED BY <3>7, <3>8 DEF AnswerInv
  <2>5. OrderInv'
    BY <1>7, <1>16, <2>4 DEF OrderInv, PoolIsWhole
  <2>6. Held(t) # {}
    BY <1>11
  <2>7. LeftInv' /\ WorkerInv'
    BY <1>4, <1>5, <1>7, <1>9, <2>6, WorkerStep DEF DbSteady
  <2> QED BY <1>13, <1>14, <1>15, <2>3, <2>5, <2>7 DEF DbSteady, DbInv
<1> QED BY <1>17, <1>18

\* The process ends.
LEMMA CallbackThrowsStep ==
    ASSUME DbSteady, NEW q \in DOMAIN taskQueue, NEW modid \in Modid, callbackThrows(q, modid)
    PROVE  DbSteady' /\ ExecutedInOrder /\ AnsweredInOrder
<1> DEFINE ns == {n \in DOMAIN query : query[n].at \in {"queued", "executed", "posted"}}
<1>1. PoolTypeInv /\ Moved(ns, "dropped") /\ m_dbPool' = <<>> /\ taskQueue' = <<>> /\ results' = <<>>
      /\ worker' = [FreeWorker EXCEPT !.at = "ended"] /\ UNCHANGED inits /\ thrown' = TRUE
  BY DEF callbackThrows, DbSteady, DbInv
<1>2. "dropped" \in Place
  BY DEF Place
<1>3. /\ query' \in Seq(Query) /\ DOMAIN query' = DOMAIN query
      /\ \A n \in DOMAIN query : /\ n \in ns => query'[n].at = "dropped"
                                 /\ n \notin ns => query'[n] = query[n]
  <2> HIDE DEF ns
  <2> QED BY <1>1, <1>2, MovedQueries DEF PoolTypeInv
<1>4. \A n \in DOMAIN query' : query'[n].at \notin {"queued", "executed", "posted"}
  BY <1>3
<1>5. ExecutedInOrder /\ AnsweredInOrder
  <2>1. \A n \in DOMAIN query : query'[n].at \notin {"executed", "told"} \/ query'[n] = query[n]
    BY <1>3
  <2> QED BY <2>1 DEF ExecutedInOrder, AnsweredInOrder
<1>6. DOMAIN taskQueue' = {} /\ DOMAIN results' = {} /\ DOMAIN m_dbPool' = {}
  BY <1>1
<1>7. PoolTypeInv'
  <2>1. worker' = [at |-> "ended", i |-> 0, n |-> 0]
    BY <1>1 DEF FreeWorker
  <2>2. m_dbPool' \in Seq(Nat) /\ taskQueue' \in Seq(Queue) /\ results' \in Seq(Nat)
    <3>1. <<>> \in Seq(Nat) /\ <<>> \in Seq(Queue)
      OBVIOUS
    <3> QED BY <1>1, <3>1, Zenon
  <2>3. worker' \in [at : {"free", "init", "replace", "cleanup", "ended"}, i : Nat, n : Nat]
    BY <2>1
  <2>4. inits' \in 0..MaxInits /\ thrown' \in BOOLEAN
    BY <1>1 DEF PoolTypeInv
  <2> QED BY <1>3, <1>6, <2>2, <2>3, <2>4 DEF PoolTypeInv
<1>8. PlaceInv' /\ ResultInv' /\ LeftInv'
  BY <1>4, <1>6 DEF PlaceInv, ResultInv, LeftInv
<1>9. WorkerInv'
  BY <1>1 DEF WorkerInv, FreeWorker
<1>10. OrderInv'
  BY <1>6 DEF OrderInv, RouteInv, AnswerInv
<1> QED BY <1>5, <1>7, <1>8, <1>9, <1>10 DEF DbSteady, DbInv

\* The worker's thread runs the first callback posted to it.
LEMMA ThreadSafeCallStep ==
    ASSUME DbSteady, threadSafeCall
    PROVE  DbSteady' /\ (PoolIsWhole => ExecutedInOrder /\ AnsweredInOrder)
<1> DEFINE n == Head(results)
<1>1. PoolTypeInv /\ PlaceInv /\ ResultInv /\ OrderInv /\ LeftInv
  BY DEF DbSteady, DbInv
<1>2. /\ worker = FreeWorker /\ results # <<>> /\ Moved({n}, "told") /\ results' = Tail(results)
      /\ UNCHANGED <<m_dbPool, taskQueue, worker, inits, thrown>>
  BY DEF threadSafeCall
<1>3. /\ results \in Seq(Nat) /\ results' \in Seq(Nat) /\ DOMAIN results = 1..Len(results) /\ Len(results) \in Nat \ {0}
      /\ DOMAIN results' = 1..Len(results) - 1 /\ n = results[1]
      /\ \A i \in 1..Len(results) - 1 : results'[i] = results[i + 1]
  BY <1>1, <1>2 DEF PoolTypeInv
<1> HIDE DEF n
<1>4. 1 \in DOMAIN results /\ n \in DOMAIN query /\ query[n].at = "posted" /\ n \in Nat
  <2>1. 1 \in DOMAIN results
    BY <1>3
  <2>2. results[1] \in DOMAIN query /\ query[results[1]].at = "posted"
    BY <1>1, <2>1 DEF ResultInv
  <2>3. results[1] \in Nat
    BY <1>3, <2>1
  <2> QED BY <1>3, <2>1, <2>2, <2>3
<1>5. /\ query' \in Seq(Query) /\ DOMAIN query' = DOMAIN query
      /\ \A k \in DOMAIN query : /\ query'[k].modid = query[k].modid /\ query'[k].cb = query[k].cb
                                 /\ k = n => query'[k].at = "told"
                                 /\ k # n => query'[k] = query[k]
  <2>1. "told" \in Place
    BY DEF Place
  <2>2. \A k : k \in {n} <=> k = n
    OBVIOUS
  <2> QED BY <1>1, <1>2, <2>1, <2>2, MovedQueries DEF PoolTypeInv
<1>6. \A i \in DOMAIN results' : /\ i + 1 \in DOMAIN results /\ results'[i] = results[i + 1]
                                 /\ results'[i] # n /\ results'[i] \in DOMAIN query
                                 /\ query'[results'[i]] = query[results'[i]]
  <2>1. \A i \in DOMAIN results' : i + 1 \in DOMAIN results /\ results'[i] = results[i + 1] /\ i + 1 # 1
    BY <1>3
  <2>2. \A i \in DOMAIN results : i # 1 => results[i] # n /\ results[i] \in DOMAIN query
    BY <1>1, <1>3, <1>4 DEF ResultInv
  <2>3. \A i \in DOMAIN results' : results'[i] # n /\ results'[i] \in DOMAIN query
    BY <2>1, <2>2
  <2> QED BY <1>5, <2>1, <2>3
<1>7. PoolTypeInv'
  BY <1>1, <1>2, <1>3, <1>5 DEF PoolTypeInv
<1>8. PlaceInv'
  <2>1. \A r \in DOMAIN taskQueue : \A k \in Held(taskQueue[r]) :
            k \in DOMAIN query' /\ query'[k] = query[k]
    BY <1>1, <1>4, <1>5, HeldQueries
  <2>2. \A r \in DOMAIN taskQueue : QueueInv(taskQueue[r], query')
    <3> SUFFICES ASSUME NEW r \in DOMAIN taskQueue PROVE QueueInv(taskQueue[r], query')
      OBVIOUS
    <3>1. QueueInv(taskQueue[r], query)
      BY <1>1 DEF PlaceInv
    <3> QED BY <2>1, <3>1 DEF QueueInv, Held
  <2>3. \A k \in DOMAIN query' : query'[k].at \in {"queued", "executed"} =>
            \E r \in DOMAIN taskQueue : k \in Held(taskQueue[r])
    BY <1>1, <1>5 DEF PlaceInv
  <2> QED BY <1>1, <1>2, <2>2, <2>3 DEF PlaceInv
<1>9. ResultInv'
  <2>1. ASSUME NEW k \in DOMAIN query', query'[k].at = "posted"
        PROVE  (\E i \in DOMAIN results' : results'[i] = k) /\ query'[k].cb = "worker"
    <3>1. k \in DOMAIN query /\ k # n /\ query[k].at = "posted" /\ query'[k].cb = query[k].cb
      BY <1>5, <2>1
    <3>2. PICK i \in DOMAIN results : results[i] = k
      BY <1>1, <3>1 DEF ResultInv
    <3>3. i - 1 \in DOMAIN results' /\ results'[i - 1] = k
      <4>1. i # 1
        BY <1>3, <3>1, <3>2
      <4>2. i - 1 \in 1..Len(results) - 1 /\ (i - 1) + 1 = i
        BY <1>3, <4>1
      <4> QED BY <1>3, <3>2, <4>2
    <3> QED BY <1>1, <3>1, <3>3 DEF ResultInv
  <2>2. \A i, j \in DOMAIN results' : i # j => results'[i] # results'[j]
    <3>1. \A i, j \in DOMAIN results' : i # j => i + 1 # j + 1
      BY <1>3
    <3> QED BY <1>1, <1>6, <3>1 DEF ResultInv
  <2>3. \A i \in DOMAIN results' : results'[i] \in DOMAIN query' /\ query'[results'[i]].at = "posted"
    BY <1>1, <1>5, <1>6 DEF ResultInv
  <2> QED BY <2>1, <2>2, <2>3 DEF ResultInv
<1>10. LeftInv' /\ WorkerInv'
  BY <1>1, <1>2 DEF LeftInv, WorkerInv, Joined, FreeWorker
<1>11. ASSUME PoolIsWhole PROVE RouteInv' /\ AnswerInv'
  <2>1. RouteInv /\ AnswerInv
    BY <1>1, <1>11 DEF OrderInv
  <2>2. RouteInv'
    BY <1>2, <1>5, <2>1, RouteStep DEF DbSteady
  <2>3. \A i \in DOMAIN results' : \A k \in 1..results'[i] - 1 : k \in DOMAIN query
    <3>1. DOMAIN query = 1..Len(query) /\ Len(query) \in Nat
      BY <1>1 DEF PoolTypeInv
    <3> QED BY <1>6, <3>1
  <2>4. \A i, j \in DOMAIN results' : i < j => i + 1 < j + 1
    BY <1>3
  <2>5. \A i, j \in DOMAIN results' :
            i < j /\ query'[results'[i]].modid = query'[results'[j]].modid => results'[i] < results'[j]
    BY <1>6, <2>1, <2>4 DEF AnswerInv
  <2>6. \A i \in DOMAIN results' : \A k \in 1..results'[i] - 1 :
            query'[k].modid = query'[results'[i]].modid /\ query'[k].cb = "worker" =>
                query'[k].at \notin {"queued", "executed"}
    <3>1. \A k \in DOMAIN query : query'[k].at \in {"queued", "executed"} => query[k].at \in {"queued", "executed"}
      BY <1>5
    <3> QED BY <1>5, <1>6, <2>1, <2>3, <3>1 DEF AnswerInv
  <2> QED BY <2>2, <2>5, <2>6 DEF AnswerInv
<1>12. ASSUME PoolIsWhole PROVE ExecutedInOrder /\ AnsweredInOrder
  <2>1. ExecutedInOrder
    BY <1>5 DEF ExecutedInOrder
  <2>2. \A k \in DOMAIN query : query[k].at = "posted" /\ query'[k].at = "told" => k = n
    BY <1>5
  <2>3. ASSUME NEW k \in 1..n - 1, query[k].modid = query[n].modid, query[k].cb = "worker"
        PROVE  query[k].at \notin {"queued", "executed", "posted"}
    <3>1. AnswerInv
      BY <1>1, <1>12 DEF OrderInv
    <3>2. query[k].at \notin {"queued", "executed"}
      BY <1>3, <1>4, <2>3, <3>1 DEF AnswerInv
    <3>3. ASSUME query[k].at = "posted" PROVE FALSE
      <4>1. k \in DOMAIN query /\ k < n
        BY <1>1, <1>4 DEF PoolTypeInv
      <4>2. PICK i \in DOMAIN results : results[i] = k
        BY <1>1, <3>3, <4>1 DEF ResultInv
      <4>3. 1 < i
        BY <1>3, <4>1, <4>2
      <4>4. n < k
        BY <1>3, <1>4, <2>3, <3>1, <4>2, <4>3 DEF AnswerInv
      <4> QED BY <1>4, <4>1, <4>4
    <3> QED BY <3>2, <3>3
  <2> QED BY <2>1, <2>2, <2>3 DEF AnsweredInOrder
<1>13. OrderInv'
  BY <1>2, <1>11 DEF OrderInv, PoolIsWhole
<1> QED BY <1>7, <1>8, <1>9, <1>10, <1>12, <1>13 DEF DbSteady, DbInv

-----------------------------------------------------------------------------
(* Setting up and cleaning, on the worker's thread. *)

\* What close() leaves of a queue, and what it keeps true.
LEMMA CloseStep ==
    ASSUME DbInv, NEW q \in DOMAIN taskQueue, Close(q), UNCHANGED results
    PROVE  \E u : /\ Becomes(q, u) /\ ~u.open /\ Held(u) \subseteq Held(taskQueue[q])
                  /\ Joined(q) => Joined(q)'
                  /\ QueriesKept /\ PlaceInv' /\ ResultInv'
                  /\ ExecutedInOrder /\ AnsweredInOrder
<1> DEFINE t == taskQueue[q]
<1>1. PoolTypeInv /\ PlaceInv /\ ResultInv
  BY DEF DbInv
<1>2. t \in Queue /\ QueueInv(t, query) /\ \A k \in Held(t) : k \in DOMAIN query
  BY <1>1, HeldQueries
<1>3. taskQueue \in Seq(Queue) /\ t.list \in Seq(Nat) /\ t.batch \in Seq(Nat) /\ <<>> \in Seq(Nat) /\ 0 \in Nat
  BY <1>1, <1>2 DEF PoolTypeInv, Queue
<1>4. CASE /\ taskQueue' = [taskQueue EXCEPT ![q].open = FALSE, ![q].list = <<>>]
           /\ Moved(Range(t.list), "dropped")
  <2> DEFINE u == [t EXCEPT !.open = FALSE, !.list = <<>>]
             ns == Range(t.list)
  <2>1. u \in Queue /\ u.list = <<>> /\ u.batch = t.batch /\ u.running = t.running /\ ~u.open
    <3>1. Fields(u, <<>>, t.batch, t.running, FALSE)
      BY <1>2, <1>3, QueueFields
    <3> QED BY <3>1 DEF Fields
  <2>2. taskQueue' = [taskQueue EXCEPT ![q] = u]
    BY <1>4
  <2> HIDE DEF u
  <2>3. Becomes(q, u)
    BY <1>3, <2>1, <2>2, Becoming
  <2> HIDE DEF ns
  <2>4. /\ query' \in Seq(Query) /\ DOMAIN query' = DOMAIN query
        /\ \A k \in DOMAIN query : /\ query'[k].modid = query[k].modid /\ query'[k].cb = query[k].cb
                                   /\ k \in ns => query'[k].at = "dropped"
                                   /\ k \notin ns => query'[k] = query[k]
    <3>1. "dropped" \in Place
      BY DEF Place
    <3> QED BY <1>1, <1>4, <3>1, MovedQueries DEF PoolTypeInv, ns
  <2>5. /\ Len(Line(u)) <= Len(Line(t))
        /\ \A i \in DOMAIN Line(u) : i \in DOMAIN Line(t) /\ Line(u)[i] = Line(t)[i]
        /\ \A i \in DOMAIN Line(t) : i \notin DOMAIN Line(u) => Line(t)[i] \in ns
    BY <1>2, <2>1, LineIsCut DEF ns
  <2>6. Line(t) \in Seq(Nat) /\ Line(u) \in Seq(Nat)
    BY <1>2, <2>1, LineType
  <2>7. Range(Line(u)) \subseteq Range(Line(t)) /\ Range(Line(t)) \subseteq Range(Line(u)) \cup ns
    BY <2>5 DEF Range
  \* What is dropped is not in the batch.
  <2>8. ns \subseteq Range(Line(t)) /\ \A k \in Range(Line(u)) : k \notin ns
    <3>1. \A i \in DOMAIN t.list : \E j \in DOMAIN Line(t) : j \notin DOMAIN Line(u) /\ Line(t)[j] = t.list[i]
      BY <1>2, <2>1, LineIsCut
    <3>2. \A i, j \in DOMAIN Line(t) : i # j => Line(t)[i] # Line(t)[j]
      <4> DEFINE s == Line(t)
      <4>1. s \in Seq(Nat) /\ \A i, j \in DOMAIN s : i < j => s[i] < s[j]
        BY <1>2, <2>6 DEF QueueInv
      <4> HIDE DEF s
      <4>2. \A i, j \in DOMAIN s : i # j => s[i] # s[j]
        BY <4>1
      <4> QED BY <4>2 DEF s
    <3>4. ASSUME NEW i \in DOMAIN Line(u), NEW j \in DOMAIN t.list, Line(u)[i] = t.list[j]
          PROVE  FALSE
      <4>1. PICK k \in DOMAIN Line(t) : k \notin DOMAIN Line(u) /\ Line(t)[k] = t.list[j]
        BY <3>1
      <4>2. i \in DOMAIN Line(t) /\ Line(t)[i] = Line(t)[k] /\ i # k
        BY <2>5, <3>4, <4>1
      <4> QED BY <3>2, <4>2
    <3> QED BY <3>1, <3>4 DEF Range, ns
  <2>9. t.running # NoQuery => t.running \notin ns
    <3>1. \A k \in ns : k \in DOMAIN query /\ query[k].at = "queued"
      BY <1>2, <2>8 DEF QueueInv
    <3> QED BY <1>2, <3>1 DEF QueueInv
  <2>10. Held(u) \subseteq Held(t) /\ Held(t) \subseteq Held(u) \cup ns /\ ns \subseteq Held(t)
         /\ \A k \in Held(u) : k \notin ns
    BY <2>1, <2>7, <2>8, <2>9 DEF Held
  <2>11. QueueInv(u, query')
    <3>1. \A i, j \in DOMAIN Line(u) : i < j => Line(u)[i] < Line(u)[j]
      BY <1>2, <2>5 DEF QueueInv
    <3>2. \A k \in Range(Line(u)) : k \in DOMAIN query' /\ query'[k].at = "queued"
      BY <1>2, <2>4, <2>7, <2>8 DEF QueueInv
    <3>3. u.running # NoQuery => /\ u.running \in DOMAIN query' /\ query'[u.running].at = "executed"
                                 /\ \A k \in Range(Line(u)) : u.running < k
      BY <1>2, <2>1, <2>4, <2>7, <2>9 DEF QueueInv
    <3> QED BY <2>1, <3>1, <3>2, <3>3 DEF QueueInv
  <2>12. \A k \in DOMAIN query : k \in ns => query[k].at = "queued"
    BY <1>2, <2>8 DEF QueueInv
  <2>13. QueriesKept
    BY <2>4, <2>12 DEF QueriesKept
  <2>14. PlaceInv'
    <3>1. \A k \in DOMAIN query : k \notin Held(t) => query'[k] = query[k]
      BY <2>4, <2>10
    <3>2. \A k \in DOMAIN query' : query'[k].at \in {"queued", "executed"} =>
              k \in Held(u) \/ k \in DOMAIN query \ Held(t)
      BY <2>4, <2>10
    <3> QED BY <1>1, <2>3, <2>4, <2>10, <2>11, <3>1, <3>2, PlaceStep
  <2>15. ResultInv'
    BY <1>1, <2>13, ResultStep
  <2>16. Joined(q) => Joined(q)'
    BY <2>1, <2>3 DEF Joined, Becomes
  <2>17. ExecutedInOrder /\ AnsweredInOrder
    <3>1. \A k \in DOMAIN query : query'[k].at # query[k].at =>
              query'[k].at # "executed" /\ query[k].at # "posted"
      BY <2>4, <2>12
    <3> QED BY <3>1, NoneServed
  <2> QED BY <2>1, <2>3, <2>10, <2>13, <2>14, <2>15, <2>16, <2>17
<1>5. CASE /\ t.batch = <<>> /\ t.running = NoQuery /\ t.list # <<>>
           /\ taskQueue' = [taskQueue EXCEPT ![q].open = FALSE, ![q].batch = t.list, ![q].list = <<>>]
           /\ UNCHANGED query
  <2> DEFINE u == [t EXCEPT !.open = FALSE, !.batch = t.list, !.list = <<>>]
  <2>1. u \in Queue /\ u.list = <<>> /\ u.batch = t.list /\ u.running = t.running /\ ~u.open
    <3>1. Fields(u, <<>>, t.list, t.running, FALSE)
      BY <1>2, <1>3, QueueFields
    <3> QED BY <3>1 DEF Fields
  <2>2. taskQueue' = [taskQueue EXCEPT ![q] = u]
    BY <1>5
  <2> HIDE DEF u
  <2>3. Becomes(q, u)
    BY <1>3, <2>1, <2>2, Becoming
  <2>4. Line(u) = Line(t) /\ Held(u) = Held(t)
    <3>1. Line(t) = t.list
      BY <1>2, <1>5, LineIsTaken
    <3>2. Line(u) = t.list
      BY <1>3, <2>1, ConcatEmptySeq DEF Line
    <3> QED BY <2>1, <3>1, <3>2 DEF Held
  <2>5. QueueInv(u, query')
    BY <1>2, <1>5, <2>1, <2>4 DEF QueueInv
  <2>6. QueriesKept
    BY <1>1, <1>5 DEF QueriesKept, PoolTypeInv
  <2>7. PlaceInv'
    <3>1. \A k \in DOMAIN query' : query'[k].at \in {"queued", "executed"} =>
              k \in Held(u) \/ k \in DOMAIN query \ Held(t)
      BY <1>5, <2>4
    <3> QED BY <1>1, <1>5, <2>3, <2>4, <2>5, <3>1, PlaceStep
  <2>8. ResultInv'
    BY <1>1, <2>6, ResultStep
  <2>9. ~Joined(q)
    <3>1. t.open
      BY <1>2, <1>5 DEF QueueInv
    <3> QED BY <3>1 DEF Joined
  <2>10. ExecutedInOrder /\ AnsweredInOrder
    BY <1>5, NoneServed
  <2> QED BY <2>1, <2>3, <2>4, <2>6, <2>7, <2>8, <2>9, <2>10
<1> QED BY <1>4, <1>5 DEF Close

\* A queue that is closed and joined holds nothing.
LEMMA JoinedIsEmpty ==
    ASSUME PoolTypeInv, PlaceInv, NEW q \in DOMAIN taskQueue, Joined(q)
    PROVE  Held(taskQueue[q]) = {}
<1>1. taskQueue[q] \in Queue /\ QueueInv(taskQueue[q], query)
  BY HeldQueries
<1>2. /\ taskQueue[q].batch = <<>> /\ taskQueue[q].running = NoQuery /\ taskQueue[q].list = <<>>
  BY <1>1 DEF QueueInv, Joined
<1>3. Line(taskQueue[q]) = <<>>
  BY <1>1, <1>2, LineIsTaken
<1>4. Range(Line(taskQueue[q])) = {}
  BY <1>3 DEF Range
<1> QED BY <1>2, <1>4 DEF Held

\* A new queue holds nothing.
NewQueue == [list |-> <<>>, batch |-> <<>>, running |-> NoQuery, open |-> TRUE]

\* Appending it disturbs nothing.
LEMMA QueueIsMade ==
    ASSUME PoolTypeInv, PlaceInv, ResultInv, taskQueue' = Append(taskQueue, NewQueue), UNCHANGED <<query, results>>
    PROVE  /\ taskQueue' \in Seq(Queue) /\ Len(taskQueue') = Len(taskQueue) + 1 /\ Len(taskQueue') \in Nat \ {0}
           /\ DOMAIN taskQueue' = DOMAIN taskQueue \cup {Len(taskQueue')} /\ Len(taskQueue') \notin DOMAIN taskQueue
           /\ \A q \in DOMAIN taskQueue : taskQueue'[q] = taskQueue[q]
           /\ Held(taskQueue'[Len(taskQueue')]) = {}
           /\ PlaceInv' /\ ResultInv' /\ ExecutedInOrder /\ AnsweredInOrder
<1>1. NewQueue \in Queue
  <2>1. <<>> \in Seq(Nat)
    OBVIOUS
  <2> QED BY <2>1 DEF NewQueue, Queue, NoQuery
<1>2. taskQueue \in Seq(Queue)
  BY DEF PoolTypeInv
<1> DEFINE new == Len(taskQueue')
<1>3. /\ taskQueue' \in Seq(Queue) /\ new = Len(taskQueue) + 1 /\ new \in Nat \ {0}
      /\ DOMAIN taskQueue' = DOMAIN taskQueue \cup {new} /\ new \notin DOMAIN taskQueue
      /\ \A q \in DOMAIN taskQueue : taskQueue'[q] = taskQueue[q]
      /\ taskQueue'[new] = NewQueue
  <2> HIDE DEF NewQueue
  <2> QED BY <1>1, <1>2
<1> HIDE DEF new
<1>4. Line(NewQueue) = <<>>
  <2>1. NewQueue.batch = <<>> /\ NewQueue.list = <<>>
    BY DEF NewQueue
  <2> QED BY <1>1, <2>1, LineIsTaken
<1>5. Range(Line(NewQueue)) = {} /\ Held(NewQueue) = {}
  <2>1. Range(Line(NewQueue)) = {}
    BY <1>4 DEF Range
  <2>2. NewQueue.running = NoQuery
    BY DEF NewQueue
  <2> QED BY <2>1, <2>2 DEF Held
<1>6. QueueInv(NewQueue, query)
  <2>1. DOMAIN Line(NewQueue) = {}
    BY <1>4
  <2>2. NewQueue.running = NoQuery /\ NewQueue.open
    BY DEF NewQueue
  <2> HIDE DEF NewQueue
  <2> QED BY <1>5, <2>1, <2>2 DEF QueueInv
<1> HIDE DEF NewQueue
<1>7. PlaceInv'
  <2>1. \A q \in DOMAIN taskQueue' : QueueInv(taskQueue'[q], query')
    BY <1>3, <1>6 DEF PlaceInv
  <2>2. \A p, q \in DOMAIN taskQueue' : p # q => Held(taskQueue'[p]) \cap Held(taskQueue'[q]) = {}
    BY <1>3, <1>5 DEF PlaceInv
  <2>3. \A n \in DOMAIN query' : query'[n].at \in {"queued", "executed"} =>
            \E q \in DOMAIN taskQueue' : n \in Held(taskQueue'[q])
    BY <1>3 DEF PlaceInv
  <2> QED BY <2>1, <2>2, <2>3 DEF PlaceInv
<1>8. ResultInv'
  BY DEF ResultInv
<1>9. ExecutedInOrder /\ AnsweredInOrder
  BY NoneServed
<1> QED BY <1>3, <1>5, <1>7, <1>8, <1>9 DEF new

\* Steps that only move the worker's thread.
LEMMA WorkerMoves ==
    ASSUME DbSteady, UNCHANGED <<m_dbPool, taskQueue, query, results>>,
           worker' \in [at : {"free", "init", "replace", "cleanup", "ended"}, i : Nat, n : Nat],
           inits' \in 0..MaxInits, thrown' \in BOOLEAN, WorkerInv'
    PROVE  DbSteady' /\ ExecutedInOrder /\ AnsweredInOrder
<1>1. PoolTypeInv' /\ PlaceInv' /\ ResultInv'
  BY DEF DbSteady, DbInv, PoolTypeInv, PlaceInv, ResultInv
<1>2. LeftInv'
  BY DEF DbSteady, DbInv, LeftInv, Joined
<1>3. OrderInv'
  BY DEF DbSteady, OrderInv, PoolIsWhole, RouteInv, AnswerInv, Entry
<1>4. ExecutedInOrder /\ AnsweredInOrder
  BY NoneServed
<1> QED BY <1>1, <1>2, <1>3, <1>4 DEF DbSteady, DbInv

\* initDBPool() starts with an empty pool, or on top of one.
LEMMA InitDBPoolStep ==
    ASSUME DbSteady, NEW n \in 1..MaxConn, initDBPool(n)
    PROVE  DbSteady' /\ ExecutedInOrder /\ AnsweredInOrder
<1>1. /\ PoolTypeInv /\ PlaceInv /\ LeftInv
      /\ worker' = [at |-> "init", i |-> 1, n |-> n]
      /\ inits < MaxInits /\ inits' = inits + 1
      /\ UNCHANGED <<m_dbPool, taskQueue, query, results, thrown>>
  BY DEF DbSteady, DbInv, initDBPool
<1>2. n \in Nat /\ inits' \in 0..MaxInits /\ thrown' \in BOOLEAN
  BY <1>1, DbMgrAssumption DEF PoolTypeInv
<1>3. worker' \in [at : {"free", "init", "replace", "cleanup", "ended"}, i : Nat, n : Nat]
  BY <1>1, <1>2
<1>4. worker'.at = "init" /\ worker'.i = 1
  BY <1>1
<1>5. CASE m_dbPool = <<>>
  <2>1. \A q \in DOMAIN taskQueue : Held(taskQueue[q]) = {}
    <3>1. Range(m_dbPool) = {}
      BY <1>5 DEF Range
    <3> QED BY <1>1, <3>1, JoinedIsEmpty DEF LeftInv
  <2>2. PoolIsWhole'
    BY <1>1, <1>5 DEF PoolIsWhole, Range
  <2>3. Len(m_dbPool') = 1 - 1
    BY <1>1, <1>5
  <2>4. WorkerInv'
    BY <1>1, <1>4, <2>1, <2>2, <2>3 DEF WorkerInv, FirstSetUp
  <2> QED BY <1>1, <1>2, <1>3, <2>4, WorkerMoves
<1>6. CASE m_dbPool # <<>>
  <2>1. Len(m_dbPool') >= 1
    BY <1>1, <1>6 DEF PoolTypeInv
  <2>2. WorkerInv'
    BY <1>4, <2>1 DEF WorkerInv
  <2> QED BY <1>1, <1>2, <1>3, <2>2, WorkerMoves
<1> QED BY <1>5, <1>6

\* The loop of initDBPool(): it fails, fills the entry it appended, or comes to one that is in use.
LEMMA InitEntryStep ==
    ASSUME DbSteady, initEntry
    PROVE  DbSteady' /\ ExecutedInOrder /\ AnsweredInOrder
<1> DEFINE pool == Append(m_dbPool, NULL)
           old == pool[worker.i]
<1>1. PoolTypeInv /\ PlaceInv /\ ResultInv /\ LeftInv /\ WorkerInv
  BY DEF DbSteady, DbInv
<1>2. worker.at = "init" /\ UNCHANGED <<results, inits, thrown>>
  BY DEF initEntry
<1>3. /\ m_dbPool \in Seq(Nat) /\ DOMAIN m_dbPool = 1..Len(m_dbPool) /\ Len(m_dbPool) \in Nat
      /\ pool \in Seq(Nat) /\ Len(pool) = Len(m_dbPool) + 1 /\ DOMAIN pool = 1..Len(m_dbPool) + 1
      /\ \A j \in DOMAIN m_dbPool : pool[j] = m_dbPool[j]
      /\ pool[Len(m_dbPool) + 1] = NULL
  BY <1>1 DEF PoolTypeInv, NULL
<1> HIDE DEF pool
<1>4. /\ worker \in [at : {"free", "init", "replace", "cleanup", "ended"}, i : Nat, n : Nat]
      /\ worker.i \in Nat /\ worker.n \in Nat /\ worker.i >= 1
      /\ \/ FirstSetUp /\ PoolIsWhole /\ \A q \in DOMAIN taskQueue : Held(taskQueue[q]) = {}
         \/ Len(m_dbPool) >= worker.i
  BY <1>1, <1>2 DEF PoolTypeInv, WorkerInv
<1>5. worker.i \in DOMAIN pool
  BY <1>3, <1>4 DEF FirstSetUp
<1>6. \A j \in DOMAIN m_dbPool : m_dbPool[j] \in {NULL} \cup DOMAIN taskQueue
  BY <1>1 DEF PoolTypeInv
<1>7. NULL \notin DOMAIN taskQueue
  BY <1>1 DEF PoolTypeInv, NULL
<1>8. CASE worker' = FreeWorker /\ UNCHANGED <<m_dbPool, taskQueue, query>>
  <2>1. worker' \in [at : {"free", "init", "replace", "cleanup", "ended"}, i : Nat, n : Nat] /\ WorkerInv'
    BY <1>8 DEF FreeWorker, WorkerInv
  <2>2. inits' \in 0..MaxInits /\ thrown' \in BOOLEAN
    BY <1>1, <1>2 DEF PoolTypeInv
  <2> QED BY <1>2, <1>8, <2>1, <2>2, WorkerMoves
<1>9. CASE /\ old = NULL
           /\ taskQueue' = Append(taskQueue, NewQueue)
           /\ m_dbPool' = [pool EXCEPT ![worker.i] = Len(taskQueue')]
           /\ worker' = [worker EXCEPT !.i = @ + 1]
           /\ UNCHANGED query
  <2> DEFINE new == Len(taskQueue')
  <2>1. /\ taskQueue' \in Seq(Queue) /\ new \in Nat \ {0}
        /\ DOMAIN taskQueue' = DOMAIN taskQueue \cup {new} /\ new \notin DOMAIN taskQueue
        /\ \A q \in DOMAIN taskQueue : taskQueue'[q] = taskQueue[q]
        /\ Held(taskQueue'[new]) = {}
        /\ PlaceInv' /\ ResultInv' /\ ExecutedInOrder /\ AnsweredInOrder
    BY <1>1, <1>2, <1>9, QueueIsMade
  <2> HIDE DEF new
  <2>2. /\ m_dbPool' \in Seq(Nat) /\ DOMAIN m_dbPool' = DOMAIN pool /\ Len(m_dbPool') = Len(m_dbPool) + 1
        /\ m_dbPool'[worker.i] = new
        /\ \A j \in DOMAIN pool : j # worker.i => m_dbPool'[j] = pool[j]
    BY <1>3, <1>5, <1>9, <2>1 DEF new
  <2>3. /\ worker' \in [at : {"free", "init", "replace", "cleanup", "ended"}, i : Nat, n : Nat]
        /\ worker'.at = "init" /\ worker'.i = worker.i + 1
    BY <1>2, <1>4, <1>9
  <2>4. \A j \in DOMAIN m_dbPool' : m_dbPool'[j] \in {NULL} \cup DOMAIN taskQueue'
    <3>1. \A j \in DOMAIN pool : j \in DOMAIN m_dbPool \/ j = Len(m_dbPool) + 1
      BY <1>3
    <3>2. \A j \in DOMAIN pool : pool[j] \in {NULL} \cup DOMAIN taskQueue
      BY <1>3, <1>6, <3>1
    <3>3. new \in DOMAIN taskQueue' /\ DOMAIN taskQueue \subseteq DOMAIN taskQueue'
      BY <2>1
    <3> QED BY <2>2, <3>2, <3>3
  <2>5. PoolTypeInv'
    BY <1>1, <1>2, <1>9, <2>1, <2>2, <2>3, <2>4 DEF PoolTypeInv
  <2>6. LeftInv'
    <3> SUFFICES ASSUME NEW q \in DOMAIN taskQueue', q \notin Range(m_dbPool')
                 PROVE  Joined(q)'
      BY DEF LeftInv
    <3>1. q # new /\ q \in DOMAIN taskQueue
      BY <1>5, <2>1, <2>2 DEF Range
    <3>2. ASSUME NEW j \in DOMAIN m_dbPool, m_dbPool[j] = q PROVE FALSE
      <4>1. j \in DOMAIN pool /\ pool[j] = q /\ j # worker.i
        BY <1>3, <1>7, <1>9, <3>1, <3>2
      <4>2. m_dbPool'[j] = q
        BY <2>2, <4>1
      <4> QED BY <2>2, <4>1, <4>2 DEF Range
    <3>3. Joined(q)
      BY <1>1, <3>1, <3>2 DEF LeftInv, Range
    <3> QED BY <2>1, <3>1, <3>3 DEF Joined
  <2>7. CASE FirstSetUp /\ PoolIsWhole /\ \A q \in DOMAIN taskQueue : Held(taskQueue[q]) = {}
    <3>1. \A q \in DOMAIN taskQueue' : Held(taskQueue'[q]) = {}
      BY <2>1, <2>7
    <3>2. PoolIsWhole'
      <4>1. \A j \in DOMAIN m_dbPool' : j \in DOMAIN m_dbPool \/ j = worker.i
        BY <1>3, <1>4, <2>2, <2>7 DEF FirstSetUp
      <4>2. \A j \in DOMAIN m_dbPool : m_dbPool[j] # NULL /\ j # worker.i
        BY <1>3, <1>4, <2>7 DEF FirstSetUp, PoolIsWhole, Range
      <4>3. \A j \in DOMAIN m_dbPool' : m_dbPool'[j] # NULL
        BY <1>3, <2>1, <2>2, <4>1, <4>2 DEF NULL
      <4> QED BY <4>3 DEF PoolIsWhole, Range
    <3>3. FirstSetUp'
      BY <1>3, <1>4, <2>2, <2>3, <2>7 DEF FirstSetUp
    <3>4. WorkerInv'
      BY <1>4, <2>3, <3>1, <3>2, <3>3 DEF WorkerInv
    <3>5. OrderInv'
      <4>1. AnswerInv
        BY <2>7 DEF DbSteady, OrderInv
      <4> QED BY <1>2, <1>9, <3>1, <4>1 DEF OrderInv, RouteInv, AnswerInv
    <3> QED BY <2>1, <2>5, <2>6, <3>4, <3>5 DEF DbSteady, DbInv
  <2>8. CASE Len(m_dbPool) >= worker.i
    <3>1. LastEntry' = NULL /\ Len(m_dbPool') >= worker'.i
      <4>1. Len(m_dbPool) + 1 \in DOMAIN pool /\ Len(m_dbPool) + 1 # worker.i
        BY <1>3, <1>4, <2>8
      <4>2. m_dbPool'[Len(m_dbPool) + 1] = NULL
        BY <1>3, <2>2, <4>1
      <4>3. Len(m_dbPool') >= worker'.i
        BY <1>3, <1>4, <2>2, <2>3, <2>8
      <4> QED BY <2>2, <4>2, <4>3 DEF LastEntry
    <3>2. WorkerInv'
      BY <1>4, <2>3, <3>1 DEF WorkerInv
    <3>3. ~PoolIsWhole'
      BY <1>3, <2>2, <3>1 DEF PoolIsWhole, LastEntry, Range
    <3> QED BY <2>1, <2>5, <2>6, <3>2, <3>3 DEF DbSteady, DbInv, OrderInv
  <2> QED BY <1>4, <2>7, <2>8
<1>10. CASE /\ old # NULL /\ Close(old)
            /\ m_dbPool' = pool
            /\ worker' = [worker EXCEPT !.at = "replace"]
  <2>1. worker.i \in DOMAIN m_dbPool /\ old = m_dbPool[worker.i] /\ old \in DOMAIN taskQueue
    BY <1>3, <1>5, <1>6, <1>10
  <2> HIDE DEF old
  <2>2. PICK u : /\ Becomes(old, u) /\ ~u.open
                 /\ QueriesKept /\ PlaceInv' /\ ResultInv' /\ ExecutedInOrder /\ AnsweredInOrder
    BY <1>2, <1>10, <2>1, CloseStep DEF DbSteady
  <2>3. /\ worker' \in [at : {"free", "init", "replace", "cleanup", "ended"}, i : Nat, n : Nat]
        /\ worker'.at = "replace" /\ worker'.i = worker.i
    BY <1>4, <1>10
  <2>4. \A j \in DOMAIN m_dbPool' : m_dbPool'[j] \in {NULL} \cup DOMAIN taskQueue'
    BY <1>3, <1>6, <1>10, <2>2 DEF Becomes
  <2>5. PoolTypeInv'
    BY <1>1, <1>2, <1>3, <1>10, <2>2, <2>3, <2>4 DEF PoolTypeInv, Becomes, QueriesKept
  <2>6. Range(m_dbPool) \subseteq Range(m_dbPool')
    BY <1>3, <1>10 DEF Range
  <2>7. LeftInv'
    <3>1. old \in Range(m_dbPool)
      BY <2>1 DEF Range
    <3> QED BY <1>1, <2>2, <2>6, <3>1 DEF LeftInv, Becomes, Joined
  <2>8. LastEntry' = NULL
    BY <1>3, <1>10 DEF LastEntry
  <2>9. WorkerInv'
    <3>1. worker'.i \in 1..Len(m_dbPool') - 1 /\ m_dbPool'[worker'.i] = old
      BY <1>3, <1>10, <2>1, <2>3
    <3>2. ~taskQueue'[old].open
      BY <2>2 DEF Becomes
    <3> QED BY <1>10, <2>3, <2>8, <3>1, <3>2 DEF WorkerInv
  <2>10. ~PoolIsWhole'
    BY <1>3, <1>10, <2>8 DEF PoolIsWhole, LastEntry, Range
  <2> QED BY <2>2, <2>5, <2>7, <2>9, <2>10 DEF DbSteady, DbInv, OrderInv
<1> QED BY <1>8, <1>9, <1>10 DEF initEntry, NewQueue, pool

\* The worker's thread goes on to the next entry.
LEMMA NextEntryToSetUp ==
    ASSUME NEW P, "init" \in P, NEW w \in [at : P, i : Nat, n : Nat]
    PROVE  LET v == [w EXCEPT !.at = "init", !.i = @ + 1] IN
           v \in [at : P, i : Nat, n : Nat] /\ v.at = "init" /\ v.i = w.i + 1
<1> DEFINE v == [w EXCEPT !.at = "init", !.i = w.i + 1]
<1>1. w.i + 1 \in Nat
  OBVIOUS
<1>2. v \in [at : P, i : Nat, n : Nat]
  BY <1>1
<1>3. v.at = "init" /\ v.i = w.i + 1
  OBVIOUS
<1> QED BY <1>2, <1>3

\* The queue that is replaced has been joined; the entry that was appended stays without one.
LEMMA ReplaceEntryStep ==
    ASSUME DbSteady, replaceEntry
    PROVE  DbSteady' /\ ExecutedInOrder /\ AnsweredInOrder
<1> DEFINE new == Len(taskQueue')
<1>1. PoolTypeInv /\ PlaceInv /\ ResultInv /\ LeftInv /\ WorkerInv
  BY DEF DbSteady, DbInv
<1>2. /\ worker.at = "replace" /\ Joined(m_dbPool[worker.i])
      /\ taskQueue' = Append(taskQueue, NewQueue)
      /\ m_dbPool' = [m_dbPool EXCEPT ![worker.i] = new]
      /\ worker' = [worker EXCEPT !.at = "init", !.i = @ + 1]
      /\ UNCHANGED <<query, results, inits, thrown>>
  BY DEF replaceEntry, NewQueue
<1>3. /\ m_dbPool \in Seq(Nat) /\ DOMAIN m_dbPool = 1..Len(m_dbPool) /\ Len(m_dbPool) \in Nat
      /\ worker \in [at : {"free", "init", "replace", "cleanup", "ended"}, i : Nat, n : Nat] /\ worker.i \in Nat
      /\ worker.i \in 1..Len(m_dbPool) - 1 /\ LastEntry = NULL
  BY <1>1, <1>2 DEF PoolTypeInv, WorkerInv
<1>4. /\ taskQueue' \in Seq(Queue) /\ new \in Nat \ {0}
      /\ DOMAIN taskQueue' = DOMAIN taskQueue \cup {new} /\ new \notin DOMAIN taskQueue
      /\ \A q \in DOMAIN taskQueue : taskQueue'[q] = taskQueue[q]
      /\ PlaceInv' /\ ResultInv' /\ ExecutedInOrder /\ AnsweredInOrder
  BY <1>1, <1>2, QueueIsMade
<1> HIDE DEF new
<1>5. /\ m_dbPool' \in Seq(Nat) /\ DOMAIN m_dbPool' = DOMAIN m_dbPool /\ Len(m_dbPool') = Len(m_dbPool)
      /\ m_dbPool'[worker.i] = new
      /\ \A j \in DOMAIN m_dbPool : j # worker.i => m_dbPool'[j] = m_dbPool[j]
  BY <1>2, <1>3, <1>4
<1>6. /\ worker' \in [at : {"free", "init", "replace", "cleanup", "ended"}, i : Nat, n : Nat]
      /\ worker'.at = "init" /\ worker'.i = worker.i + 1
  <2> DEFINE P == {"free", "init", "replace", "cleanup", "ended"}
  <2>1. "init" \in P /\ worker \in [at : P, i : Nat, n : Nat]
    BY <1>3
  <2> HIDE DEF P
  <2>2. worker' \in [at : P, i : Nat, n : Nat] /\ worker'.at = "init" /\ worker'.i = worker.i + 1
    BY <1>2, <2>1, NextEntryToSetUp
  <2> QED BY <2>2 DEF P
<1>7. \A j \in DOMAIN m_dbPool' : m_dbPool'[j] \in {NULL} \cup DOMAIN taskQueue'
  <2>1. \A j \in DOMAIN m_dbPool : m_dbPool[j] \in {NULL} \cup DOMAIN taskQueue
    BY <1>1 DEF PoolTypeInv
  <2>2. new \in DOMAIN taskQueue' /\ DOMAIN taskQueue \subseteq DOMAIN taskQueue'
    BY <1>4
  <2> QED BY <1>5, <2>1, <2>2
<1>8. PoolTypeInv'
  BY <1>1, <1>2, <1>4, <1>5, <1>6, <1>7 DEF PoolTypeInv
<1>9. LeftInv'
  <2> SUFFICES ASSUME NEW q \in DOMAIN taskQueue', q \notin Range(m_dbPool')
               PROVE  Joined(q)'
    BY DEF LeftInv
  <2>1. q # new /\ q \in DOMAIN taskQueue
    BY <1>3, <1>4, <1>5 DEF Range
  <2>2. \A j \in DOMAIN m_dbPool : m_dbPool[j] = q => j = worker.i
    BY <1>5 DEF Range
  <2>3. Joined(q)
    BY <1>1, <1>2, <2>1, <2>2 DEF LeftInv, Range
  <2> QED BY <1>4, <2>1, <2>3 DEF Joined
<1>10. LastEntry' = NULL /\ Len(m_dbPool') >= worker'.i
  <2>1. Len(m_dbPool) \in DOMAIN m_dbPool /\ Len(m_dbPool) # worker.i /\ Len(m_dbPool) >= worker.i + 1
    BY <1>3
  <2>2. m_dbPool'[Len(m_dbPool)] = NULL
    BY <1>3, <1>5, <2>1 DEF LastEntry
  <2> QED BY <1>5, <1>6, <2>1, <2>2 DEF LastEntry
<1>11. WorkerInv'
  BY <1>3, <1>6, <1>10 DEF WorkerInv
<1>12. ~PoolIsWhole'
  <2>1. Len(m_dbPool') \in DOMAIN m_dbPool'
    BY <1>3, <1>5
  <2> QED BY <1>10, <2>1 DEF PoolIsWhole, LastEntry, Range
<1> QED BY <1>4, <1>8, <1>9, <1>11, <1>12 DEF DbSteady, DbInv, OrderInv

\* cleanup() goes through the entries.
LEMMA CloseEntryStep ==
    ASSUME DbSteady, closeEntry
    PROVE  DbSteady' /\ ExecutedInOrder /\ AnsweredInOrder
<1>0. PICK q : q = m_dbPool[worker.i]
  OBVIOUS
<1>1. PoolTypeInv /\ PlaceInv /\ ResultInv /\ LeftInv /\ WorkerInv /\ DbInv
  BY DEF DbSteady, DbInv
<1>2. worker.at = "cleanup" /\ worker.i <= worker.n /\ UNCHANGED <<m_dbPool, results, inits>>
  BY DEF closeEntry
<1>3. /\ DOMAIN m_dbPool = 1..Len(m_dbPool) /\ Len(m_dbPool) \in Nat
      /\ worker \in [at : {"free", "init", "replace", "cleanup", "ended"}, i : Nat, n : Nat]
      /\ worker.i \in Nat /\ worker.n \in Nat
      /\ worker.n = Len(m_dbPool) /\ worker.i \in 1..worker.n + 1
      /\ \A j \in 1..worker.i - 1 : m_dbPool[j] # NULL /\ Joined(m_dbPool[j])
      /\ inits \in 0..MaxInits /\ thrown \in BOOLEAN
  BY <1>1, <1>2 DEF PoolTypeInv, WorkerInv
<1>4. worker.i \in DOMAIN m_dbPool
  BY <1>2, <1>3
<1>5. \A j \in DOMAIN m_dbPool : m_dbPool[j] \in {NULL} \cup DOMAIN taskQueue
  BY <1>1 DEF PoolTypeInv
<1>6. q \in Range(m_dbPool) /\ q \in {NULL} \cup DOMAIN taskQueue
  BY <1>0, <1>4, <1>5 DEF Range
<1>7. CASE thrown' = TRUE /\ worker' = FreeWorker /\ UNCHANGED <<taskQueue, query>>
  <2>1. worker' \in [at : {"free", "init", "replace", "cleanup", "ended"}, i : Nat, n : Nat] /\ WorkerInv'
    BY <1>7 DEF FreeWorker, WorkerInv
  <2> QED BY <1>2, <1>3, <1>7, <2>1, WorkerMoves
<1>8. CASE q # NULL /\ Close(q) /\ UNCHANGED <<worker, thrown>>
  <2>1. PICK u : /\ Becomes(q, u) /\ ~u.open /\ Held(u) \subseteq Held(taskQueue[q]) /\ (Joined(q) => Joined(q)')
                 /\ QueriesKept /\ PlaceInv' /\ ResultInv' /\ ExecutedInOrder /\ AnsweredInOrder
    BY <1>1, <1>2, <1>6, <1>8, CloseStep
  <2>2. PoolTypeInv'
    BY <1>1, <1>2, <1>8, <2>1 DEF PoolTypeInv, Becomes, QueriesKept
  <2>3. \A r \in DOMAIN taskQueue : Joined(r) => Joined(r)'
    BY <2>1 DEF Becomes, Joined
  <2>4. LeftInv'
    BY <1>1, <1>2, <2>1, <2>3 DEF LeftInv, Becomes
  <2>5. WorkerInv'
    <3>1. \A j \in 1..worker.i - 1 : m_dbPool[j] # NULL /\ Joined(m_dbPool[j])'
      <4>1. \A j \in 1..worker.i - 1 : j \in DOMAIN m_dbPool
        BY <1>3
      <4> QED BY <1>2, <1>3, <1>5, <2>3, <4>1 DEF Joined
    <3> QED BY <1>2, <1>3, <1>8, <3>1 DEF WorkerInv
  <2>6. OrderInv'
    <3>1. \A r \in DOMAIN taskQueue' : \A k \in Held(taskQueue'[r]) :
              r \in DOMAIN taskQueue /\ k \in Held(taskQueue[r])
      BY <2>1 DEF Becomes
    <3> QED BY <1>1, <1>2, <2>1, <3>1, OrderStep DEF DbSteady
  <2> QED BY <2>1, <2>2, <2>4, <2>5, <2>6 DEF DbSteady, DbInv
<1>9. CASE q # NULL /\ Joined(q) /\ worker' = [worker EXCEPT !.i = @ + 1] /\ UNCHANGED <<taskQueue, query, thrown>>
  <2>1. /\ worker' \in [at : {"free", "init", "replace", "cleanup", "ended"}, i : Nat, n : Nat]
        /\ worker'.at = "cleanup" /\ worker'.i = worker.i + 1 /\ worker'.n = worker.n
    BY <1>2, <1>3, <1>9
  <2>2. worker'.i \in 1..worker'.n + 1
    BY <1>2, <1>3, <2>1
  <2>3. ASSUME NEW j \in 1..worker'.i - 1
        PROVE  m_dbPool[j] # NULL /\ Joined(m_dbPool[j])
    <3>1. j \in 1..worker.i - 1 \/ j = worker.i
      BY <1>3, <2>1
    <3> QED BY <1>0, <1>3, <1>9, <3>1
  <2>4. WorkerInv'
    BY <1>2, <1>3, <1>9, <2>1, <2>2, <2>3 DEF WorkerInv, Joined
  <2> QED BY <1>2, <1>3, <1>9, <2>1, <2>4, WorkerMoves
<1> QED BY <1>0, <1>7, <1>8, <1>9 DEF closeEntry

\* When it clears the pool it has joined all queues.
LEMMA ClearPoolStep ==
    ASSUME DbSteady, clearPool
    PROVE  DbSteady' /\ ExecutedInOrder /\ AnsweredInOrder
<1>1. PoolTypeInv /\ PlaceInv /\ ResultInv /\ LeftInv /\ WorkerInv /\ OrderInv
  BY DEF DbSteady, DbInv
<1>2. /\ worker.at = "cleanup" /\ worker.i > worker.n /\ m_dbPool' = <<>> /\ worker' = FreeWorker
      /\ UNCHANGED <<taskQueue, query, results, inits, thrown>>
  BY DEF clearPool
<1>3. \A j \in DOMAIN m_dbPool : m_dbPool[j] # NULL /\ Joined(m_dbPool[j])
  <2>1. /\ DOMAIN m_dbPool = 1..Len(m_dbPool) /\ worker.n = Len(m_dbPool) /\ worker.i \in 1..worker.n + 1
        /\ worker.n \in Nat /\ \A j \in 1..worker.i - 1 : m_dbPool[j] # NULL /\ Joined(m_dbPool[j])
    BY <1>1, <1>2 DEF PoolTypeInv, WorkerInv
  <2>2. worker.i = worker.n + 1
    BY <1>2, <2>1
  <2> QED BY <2>1, <2>2
<1>4. \A q \in DOMAIN taskQueue : Joined(q) /\ Held(taskQueue[q]) = {}
  <2>1. \A q \in DOMAIN taskQueue : Joined(q)
    BY <1>1, <1>3 DEF LeftInv, Range
  <2> QED BY <1>1, <2>1, JoinedIsEmpty
<1>5. PoolTypeInv'
  <2>1. m_dbPool' \in Seq(Nat) /\ DOMAIN m_dbPool' = {}
    BY <1>2
  <2>2. worker' \in [at : {"free", "init", "replace", "cleanup", "ended"}, i : Nat, n : Nat]
    BY <1>2 DEF FreeWorker
  <2> QED BY <1>1, <1>2, <2>1, <2>2 DEF PoolTypeInv
<1>6. PlaceInv' /\ ResultInv'
  BY <1>1, <1>2 DEF PlaceInv, ResultInv
<1>7. LeftInv' /\ WorkerInv'
  BY <1>2, <1>4 DEF LeftInv, WorkerInv, FreeWorker, Joined
<1>8. OrderInv'
  <2>1. PoolIsWhole
    BY <1>3 DEF PoolIsWhole, Range
  <2> QED BY <1>1, <1>2, <1>4, <2>1 DEF OrderInv, RouteInv, AnswerInv
<1>9. ExecutedInOrder /\ AnsweredInOrder
  BY <1>2, NoneServed
<1> QED BY <1>5, <1>6, <1>7, <1>8, <1>9 DEF DbSteady, DbInv

\* initDone and cleanup.
LEMMA DoneStep ==
    ASSUME DbSteady, initDone \/ cleanup
    PROVE  DbSteady' /\ ExecutedInOrder /\ AnsweredInOrder
<1>1. PoolTypeInv /\ UNCHANGED <<m_dbPool, taskQueue, query, results, inits, thrown>>
  BY DEF DbSteady, DbInv, initDone, cleanup
<1>2. inits' \in 0..MaxInits /\ thrown' \in BOOLEAN /\ Len(m_dbPool) \in Nat
  BY <1>1 DEF PoolTypeInv
<1>3. CASE initDone
  <2>1. worker' \in [at : {"free", "init", "replace", "cleanup", "ended"}, i : Nat, n : Nat] /\ WorkerInv'
    BY <1>3 DEF initDone, FreeWorker, WorkerInv
  <2> QED BY <1>1, <1>2, <2>1, WorkerMoves
<1>4. CASE cleanup
  <2>1. /\ worker' \in [at : {"free", "init", "replace", "cleanup", "ended"}, i : Nat, n : Nat]
        /\ worker'.at = "cleanup" /\ worker'.i = 1 /\ worker'.n = Len(m_dbPool)
    BY <1>2, <1>4 DEF cleanup
  <2>2. WorkerInv'
    BY <1>1, <1>2, <2>1 DEF WorkerInv
  <2> QED BY <1>1, <1>2, <2>1, <2>2, WorkerMoves
<1> QED BY <1>3, <1>4

-----------------------------------------------------------------------------
(* All steps. *)

\* Asking moves no query.
LEMMA AskKeeps ==
    ASSUME PoolTypeInv, NEW modid \in Modid, NEW cb \in Callback,
           Ask(modid, cb) \/ query' = Append(query, [modid |-> modid, cb |-> cb, at |-> "dropped"])
    PROVE  ExecutedInOrder /\ AnsweredInOrder
<1>1. PICK place \in Place : query' = Append(query, [modid |-> modid, cb |-> cb, at |-> place])
  BY DEF Ask, Place
<1>2. [modid |-> modid, cb |-> cb, at |-> place] \in Query
  BY DEF Query
<1>3. \A n \in DOMAIN query : query'[n] = query[n]
  BY <1>1, <1>2, AskedQueries DEF PoolTypeInv
<1> QED BY <1>3, NoneServed

StepInOrder == PoolIsWhole => ExecutedInOrder /\ AnsweredInOrder

\* All ways of asking.
LEMMA AskingSteps ==
    ASSUME DbSteady, NEW modid \in Modid, NEW cb \in Callback,
           \/ asyncQuery(modid, cb) \/ asyncQueryByCfg(modid, cb)
           \/ \E q \in DOMAIN taskQueue : callbackAsks(q, modid, cb)
    PROVE  DbSteady' /\ StepInOrder
<1>1. PoolTypeInv /\ UNCHANGED <<m_dbPool, results, worker, inits>>
  BY DEF DbSteady, DbInv, asyncQuery, asyncQueryByCfg, callbackAsks
<1>2. CASE Ask(modid, cb)
  <2>1. worker = FreeWorker \/ \E q \in DOMAIN taskQueue : Held(taskQueue[q]) # {}
    BY DEF asyncQuery, asyncQueryByCfg, callbackAsks, Held
  <2> QED BY <1>1, <1>2, <2>1, AskStep, AskKeeps DEF StepInOrder
<1>3. CASE query' = Append(query, [modid |-> modid, cb |-> cb, at |-> "dropped"]) /\ UNCHANGED <<taskQueue, thrown>>
  <2> DEFINE e == [modid |-> modid, cb |-> cb, at |-> "dropped"]
  <2>1. e \in Query /\ e.at \notin {"queued", "executed", "posted"} /\ thrown' \in BOOLEAN
    BY <1>1, <1>3 DEF Query, Place, PoolTypeInv
  <2>2. DbSteady'
    BY <1>1, <1>3, <2>1, Unheard
  <2> QED BY <1>1, <1>3, <2>2, AskKeeps DEF StepInOrder
<1> QED BY <1>2, <1>3 DEF asyncQuery, asyncQueryByCfg, callbackAsks

\* DbSteady is inductive.
LEMMA DbInitially == DbInit => DbSteady
<1> SUFFICES ASSUME DbInit PROVE DbSteady
  OBVIOUS
<1>1. /\ m_dbPool = <<>> /\ taskQueue = <<>> /\ query = <<>> /\ results = <<>>
      /\ worker = [at |-> "free", i |-> 0, n |-> 0] /\ inits = 0 /\ thrown = FALSE
  BY DEF DbInit, FreeWorker
<1>2. PoolTypeInv
  <2>1. MaxInits \in Nat /\ \A S : <<>> \in Seq(S)
    BY DbMgrAssumption
  <2>2. m_dbPool \in Seq(Nat) /\ taskQueue \in Seq(Queue) /\ query \in Seq(Query) /\ results \in Seq(Nat)
    BY <1>1, <2>1, Zenon
  <2>3. DOMAIN m_dbPool = {}
    BY <1>1
  <2>4. /\ worker \in [at : {"free", "init", "replace", "cleanup", "ended"}, i : Nat, n : Nat]
        /\ inits \in 0..MaxInits /\ thrown \in BOOLEAN
    <3>1. worker \in [at : {"free", "init", "replace", "cleanup", "ended"}, i : Nat, n : Nat]
      BY <1>1
    <3>2. inits \in 0..MaxInits /\ thrown \in BOOLEAN
      <4>1. 0 \in 0..MaxInits
        BY <2>1
      <4> QED BY <1>1, <4>1
    <3> QED BY <3>1, <3>2
  <2> QED BY <2>2, <2>3, <2>4 DEF PoolTypeInv
<1>3. PlaceInv /\ ResultInv /\ LeftInv /\ WorkerInv /\ RouteInv /\ AnswerInv
  BY <1>1 DEF PlaceInv, ResultInv, LeftInv, WorkerInv, RouteInv, AnswerInv
<1> QED BY <1>2, <1>3 DEF DbSteady, DbInv, OrderInv

\* and every step keeps the order.
LEMMA DbStep == DbSteady /\ [DbNext]_dbVars => DbSteady' /\ (DbNext => StepInOrder)
<1> SUFFICES ASSUME DbSteady, [DbNext]_dbVars PROVE DbSteady' /\ (DbNext => StepInOrder)
  OBVIOUS
<1>1. ASSUME NEW m \in Modid, NEW cb \in Callback, asyncQuery(m, cb) \/ asyncQueryByCfg(m, cb)
      PROVE  DbSteady' /\ StepInOrder
  BY <1>1, AskingSteps
<1>2. ASSUME NEW q \in DOMAIN taskQueue, PoolThreads(q)
      PROVE  DbSteady' /\ StepInOrder
  <2>1. CASE consume(q)
    <3>1. UNCHANGED query
      BY <2>1 DEF consume
    <3> QED BY <2>1, <3>1, ConsumeStep, NoneServed DEF StepInOrder
  <2>2. CASE exeSql(q)
    <3>1. UNCHANGED results /\ DbSteady' /\ (PoolIsWhole => ExecutedInOrder)
      BY <2>2, ExeSqlStep DEF exeSql
    <3>2. AnsweredInOrder
      <4>1. "executed" \in Place /\ PoolTypeInv /\ Moved({Head(taskQueue[q].batch)}, "executed")
        BY <2>2 DEF Place, exeSql, DbSteady, DbInv
      <4>2. \A n \in DOMAIN query : query'[n].at = "executed" \/ query'[n] = query[n]
        BY <4>1, MovedQueries DEF PoolTypeInv
      <4> QED BY <4>2 DEF AnsweredInOrder
    <3> QED BY <3>1, <3>2 DEF StepInOrder
  <2>3. CASE answer(q)
    BY <2>3, AnswerStep DEF StepInOrder
  <2> QED BY <1>2, <2>1, <2>2, <2>3 DEF PoolThreads
<1>3. ASSUME NEW q \in DOMAIN taskQueue, NEW m \in Modid, NEW cb \in Callback, callbackAsks(q, m, cb)
      PROVE  DbSteady' /\ StepInOrder
  BY <1>3, AskingSteps
<1>4. ASSUME NEW q \in DOMAIN taskQueue, NEW m \in Modid, callbackThrows(q, m)
      PROVE  DbSteady' /\ StepInOrder
  BY <1>4, CallbackThrowsStep DEF StepInOrder
<1>5. ASSUME NEW n \in 1..MaxConn, initDBPool(n)
      PROVE  DbSteady' /\ StepInOrder
  BY <1>5, InitDBPoolStep DEF StepInOrder
<1>6. CASE cleanup
  BY <1>6, DoneStep DEF StepInOrder
<1>7. CASE WorkerSteps
  BY <1>7, ThreadSafeCallStep, InitEntryStep, ReplaceEntryStep, DoneStep, CloseEntryStep, ClearPoolStep
     DEF WorkerSteps, StepInOrder
<1>8. ASSUME UNCHANGED dbVars PROVE DbSteady'
  <2>1. UNCHANGED <<m_dbPool, taskQueue, query, results, worker, inits, thrown>>
    BY <1>8 DEF dbVars
  <2> QED BY <2>1 DEF DbSteady, DbInv, OrderInv, PoolTypeInv, PlaceInv, ResultInv, LeftInv, WorkerInv, Joined,
                  FirstSetUp, LastEntry, PoolIsWhole, RouteInv, AnswerInv, Entry
<1> QED BY <1>1, <1>2, <1>3, <1>4, <1>5, <1>6, <1>7, <1>8 DEF DbNext

\* It implies the invariant that TLC checks.
LEMMA SteadyIsSound == DbSteady => PoolIsSound
<1> SUFFICES ASSUME DbSteady PROVE PoolIsSound
  OBVIOUS
<1>1. PoolTypeInv /\ PlaceInv /\ ResultInv /\ LeftInv
  BY DEF DbSteady, DbInv
<1>2. ASSUME NEW q \in DOMAIN taskQueue
      PROVE  /\ Range(taskQueue[q].list) \cup Range(taskQueue[q].batch) \subseteq DOMAIN query
             /\ taskQueue[q].running \in {NoQuery} \cup DOMAIN query
             /\ taskQueue[q].open \in BOOLEAN
  <2> DEFINE t == taskQueue[q]
             none == [t EXCEPT !.open = FALSE, !.list = <<>>]
  <2>1. t \in Queue /\ QueueInv(t, query) /\ \A n \in Held(t) : n \in DOMAIN query
    BY <1>1, HeldQueries
  <2>2. none \in Queue /\ none.batch = t.batch /\ none.list = <<>>
    <3>1. t.batch \in Seq(Nat) /\ <<>> \in Seq(Nat) /\ 0 \in Nat
      BY <2>1 DEF Queue
    <3>2. Fields(none, <<>>, t.batch, t.running, FALSE)
      BY <2>1, <3>1, QueueFields
    <3> QED BY <3>2 DEF Fields
  <2> HIDE DEF none
  \* The batch and the list are the two parts of the line.
  <2>3. Range(t.batch) \subseteq Range(Line(t)) /\ Range(t.list) \subseteq Range(Line(t))
    <3>1. /\ Line(none) = t.batch
          /\ \A i \in DOMAIN Line(none) : i \in DOMAIN Line(t) /\ Line(none)[i] = Line(t)[i]
          /\ \A i \in DOMAIN t.list : \E j \in DOMAIN Line(t) : j \notin DOMAIN Line(none) /\ Line(t)[j] = t.list[i]
      BY <2>1, <2>2, LineIsCut
    <3>2. \A i \in DOMAIN t.batch : i \in DOMAIN Line(t) /\ t.batch[i] = Line(t)[i]
      BY <3>1, Zenon
    <3> QED BY <3>1, <3>2 DEF Range
  <2>4. t.running \in {NoQuery} \cup DOMAIN query /\ t.open \in BOOLEAN
    BY <2>1 DEF QueueInv, Queue
  <2> QED BY <2>1, <2>3, <2>4 DEF Held
<1>3. query \in Seq([modid : Modid, cb : Callback, at : Place])
  BY <1>1 DEF PoolTypeInv, Query
<1>4. Range(results) = {n \in DOMAIN query : query[n].at = "posted"} /\ IsInjective(results)
  BY <1>1 DEF ResultInv, Range, IsInjective
<1>5. DbTypeOK
  BY <1>1, <1>2, <1>3, <1>4 DEF DbTypeOK, PoolTypeInv
<1>6. CleanMeansQuiet
  BY <1>1 DEF LeftInv, CleanMeansQuiet, Range
<1> QED BY <1>5, <1>6 DEF PoolIsSound

\* The pool keeps its types, every answer is posted once, and when the pool has been cleaned
\* no thread of it runs a query: TaskQueue::close() is awaited for each entry before m_dbPool is
\* cleared, and a queue that initDBPool() replaces is closed and joined before it is dropped.
THEOREM PoolSafety == DbSpec => []PoolIsSound
<1>1. DbSteady /\ [DbNext]_dbVars => DbSteady'
  BY DbStep
<1> QED BY <1>1, DbInitially, SteadyIsSound, PTL DEF DbSpec

\* Queries of one modid are executed, and their answers come back, in the order in which they
\* were asked while every entry of the pool has a queue (asyncQuery() sends a modid always
\* to the same entry, and an entry only gets another queue when the one it had is joined).
THEOREM OrderSafety == DbSpec => OrderIsKept
<1>1. DbSteady /\ [DbNext]_dbVars => DbSteady' /\ [PoolIsWhole => ExecutedInOrder /\ AnsweredInOrder]_dbVars
  BY DbStep DEF StepInOrder
<1> QED BY <1>1, DbInitially, PTL DEF DbSpec, OrderIsKept

-----------------------------------------------------------------------------
(* ChatRoom: the invariant. *)

\* A query, and a login that a connection has taken up.
RowQuery == [op : {"select", "insert", "update"}, uid : Uid, entity : Session, n : 0..MaxChats]
Stage == {"loaded", "online", "kick", "set", "add"}
Login == [at : Stage, uid : Uid, entity : Session, result : Seq(0..MaxChats)]

\* The variables in their ranges; a client has sent one login at most.
ChatTypeInv ==
    /\ client \in [Session -> {"out", "known", "offline", "gone"}]
    /\ m_uid \in [Session -> Uid \cup {0}] /\ nChatTimes \in [Session -> 0..MaxChats]
    /\ m_allEntity \in [Uid -> Session \cup {None}]
    /\ m_session2entity \subseteq Session /\ closing \subseteq Session
    /\ chattest \in [Uid -> Seq(0..MaxChats)]
    /\ queries \in [Conn -> Seq(RowQuery)] /\ functor \in [Conn -> {Idle} \cup Login]
    /\ asked \in [Session -> {<<>>} \cup {<<u>> : u \in Uid}]
    /\ said \in [Uid \cup {0} -> 0..MaxChats] /\ said[0] = 0

\* Query x waits at place i of the queue q.
Pos == Nat \ {0}
Waits(q, i, x) == i \in 1..Len(q) /\ q[i] = x

\* What a client has asked to log in as, 0 before.
Wish(s) == IF asked[s] = <<>> THEN 0 ELSE asked[s][1]

\* A connection has taken up the login of a session; a session is logged in with a uid and
\* not gone; there is a row for a uid, or one is on its way.
Runs(c, s) == functor[c] # Idle /\ functor[c].entity = s
Holds(s, u) == client[s] # "gone" /\ m_uid[s] = u
Rows(u) == \/ chattest[u] # <<>>
           \/ \E i \in Pos, x \in RowQuery : Waits(queries[u % NConn], i, x) /\ x.op = "insert" /\ x.uid = u

\* A uid is that of one session at a time.
WishInv ==
    /\ \A s \in Session : client[s] = "out" <=> Wish(s) = 0
    /\ \A s \in Session : m_uid[s] # 0 => Wish(s) = m_uid[s]
    /\ \A s, t \in Session : s # t /\ Wish(s) = Wish(t) /\ Wish(s) # 0 => client[s] = "gone" \/ client[t] = "gone"

\* A login waits once, at its connection, before it is taken up.
SelectInv ==
    /\ \A c \in Conn, i \in Pos, x \in RowQuery : Waits(queries[c], i, x) => x.uid % NConn = c
    /\ \A c \in Conn, i \in Pos, x \in RowQuery : Waits(queries[c], i, x) /\ x.op = "select" =>
           Wish(x.entity) = x.uid /\ m_uid[x.entity] = 0 /\ ~Runs(c, x.entity)
    /\ \A c \in Conn, i, j \in Pos, x, y \in RowQuery :
           (/\ Waits(queries[c], i, x) /\ x.op = "select"
            /\ Waits(queries[c], j, y) /\ y.op = "select" /\ x.entity = y.entity) => i = j

\* An update waits for a row, before the logins with its uid, and nobody is logged in with
\* it meanwhile.
UpdateInv ==
    /\ \A c \in Conn, i \in Pos, x \in RowQuery : Waits(queries[c], i, x) /\ x.op = "update" =>
           /\ x.n = said[x.uid]
           /\ \A s \in Session : ~Holds(s, x.uid)
           /\ functor[c] # Idle /\ functor[c].uid = x.uid => functor[c].at = "add"
           /\ \/ chattest[x.uid] # <<>>
              \/ \E j \in Pos, y \in RowQuery : j < i /\ Waits(queries[c], j, y) /\ y.op = "insert" /\ y.uid = x.uid
    /\ \A c \in Conn, i, j \in Pos, x, y \in RowQuery :
           (/\ Waits(queries[c], i, x) /\ x.op = "select"
            /\ Waits(queries[c], j, y) /\ y.op = "update" /\ x.uid = y.uid) => j < i

\* The logins of those who are gone are done, or before that of the one who is there.
LastInv ==
    \A s, t \in Session : s # t /\ Wish(s) = Wish(t) /\ Wish(s) # 0 /\ client[s] # "gone" =>
        \A c \in Conn :
            /\ \A i \in Pos, x \in RowQuery : Waits(queries[c], i, x) /\ x.op = "select" /\ x.entity = t =>
                   \E j \in Pos, y \in RowQuery : i < j /\ Waits(queries[c], j, y) /\ y.op = "select" /\ y.entity = s
            /\ Runs(c, t) =>
                   \E j \in Pos, y \in RowQuery : Waits(queries[c], j, y) /\ y.op = "select" /\ y.entity = s

\* What a login that is being worked on has come to.
FunctorInv ==
    \A c \in Conn : functor[c] # Idle =>
        /\ functor[c].uid % NConn = c /\ Wish(functor[c].entity) = functor[c].uid
        /\ functor[c].at = "add" <=> m_uid[functor[c].entity] # 0
        /\ functor[c].at \in {"loaded", "online"} =>
               /\ functor[c].result = <<>> => said[functor[c].uid] = 0
               /\ functor[c].result # <<>> => /\ functor[c].result[1] = said[functor[c].uid]
                                              /\ chattest[functor[c].uid] # <<>>
        /\ functor[c].at \in {"kick", "set"} =>
               nChatTimes[functor[c].entity] = said[functor[c].uid] /\ Rows(functor[c].uid)

\* The count is kept by the entity, on its way to the table, or there.
CountInv ==
    /\ \A s \in Session : m_uid[s] # 0 => /\ Rows(m_uid[s])
                                          /\ client[s] # "gone" => nChatTimes[s] = said[m_uid[s]]
    /\ \A s \in Session : m_uid[s] = 0 =>
           \/ nChatTimes[s] = 0
           \/ \E c \in Conn : Runs(c, s) /\ functor[c].at \in {"kick", "set"}
    /\ \A u \in Uid : \/ \E s \in Session : Holds(s, u)
                      \/ \E i \in Pos, x \in RowQuery : Waits(queries[u % NConn], i, x) /\ x.op = "update" /\ x.uid = u
                      \/ IF chattest[u] = <<>> THEN said[u] = 0 ELSE chattest[u][1] = said[u]

\* Who is filed has asked for it.
FiledInv == /\ \A u \in Uid : m_allEntity[u] # None => Wish(m_allEntity[u]) = u
            /\ PlayersAreFiled

\* The inductive invariant.
ChatInv == ChatTypeInv /\ WishInv /\ SelectInv /\ UpdateInv /\ LastInv /\ FunctorInv /\ CountInv /\ FiledInv

-----------------------------------------------------------------------------
(* Queues. *)

\* A uid has a connection.
LEMMA ConnOfUid == \A u \in Uid : u % NConn \in Conn
<1>1. NConn \in Nat \ {0} /\ Uid \subseteq Nat
  BY ChatAssumption
<1>2. \A u \in Nat : u % NConn \in 0..NConn - 1
  BY <1>1
<1> QED BY <1>1, <1>2 DEF Conn

\* What waits is a query, within the queue.
LEMMA WaitsInQueue ==
    ASSUME NEW q \in Seq(RowQuery), NEW i, NEW x, Waits(q, i, x)
    PROVE  i \in Pos /\ i <= Len(q) /\ x \in RowQuery /\ Len(q) \in Nat
BY DEF Waits, Pos

\* A query goes to the end of the queue of its uid's connection.
LEMMA Posted ==
    ASSUME ChatTypeInv, NEW u \in Uid, NEW e \in RowQuery, Post(u, e)
    PROVE  /\ queries' \in [Conn -> Seq(RowQuery)] /\ u % NConn \in Conn
           /\ \E l \in Pos :
                  /\ \A i \in Pos, x \in RowQuery : Waits(queries[u % NConn], i, x) => i < l
                  /\ \A c \in Conn, i \in Pos, x \in RowQuery :
                         Waits(queries'[c], i, x) <=> \/ Waits(queries[c], i, x)
                                                      \/ c = u % NConn /\ i = l /\ x = e
<1> DEFINE d == u % NConn
<1>1. d \in Conn
  BY ConnOfUid
<1>2. queries \in [Conn -> Seq(RowQuery)]
  BY DEF ChatTypeInv
<1>3. queries' = [queries EXCEPT ![d] = Append(@, e)]
  BY DEF Post
<1> HIDE DEF d
<1> DEFINE q == queries[d]
           l == Len(q) + 1
<1>4. q \in Seq(RowQuery) /\ Len(q) \in Nat /\ queries'[d] = Append(q, e)
      /\ \A c \in Conn : c # d => queries'[c] = queries[c]
  BY <1>1, <1>2, <1>3
<1> HIDE DEF q
<1>5. /\ Append(q, e) \in Seq(RowQuery) /\ Len(Append(q, e)) = Len(q) + 1
      /\ \A i \in 1..Len(q) : Append(q, e)[i] = q[i]
      /\ Append(q, e)[Len(q) + 1] = e
  BY <1>4, AppendProperties
<1>6. queries' \in [Conn -> Seq(RowQuery)]
  BY <1>1, <1>2, <1>3, <1>4, <1>5 DEF q
<1>7. \A i \in Pos, x \in RowQuery : Waits(q, i, x) => i < l
  BY <1>4 DEF Waits, Pos
<1>8. ASSUME NEW i \in Pos, NEW x \in RowQuery
      PROVE  Waits(Append(q, e), i, x) <=> Waits(q, i, x) \/ (i = l /\ x = e)
  <2>1. CASE i = l
    BY <1>4, <1>5, <2>1 DEF Waits, Pos
  <2>2. CASE i # l
    BY <1>4, <1>5, <2>2 DEF Waits, Pos
  <2> QED BY <2>1, <2>2
<1>9. l \in Pos
  BY <1>4 DEF Pos
<1>10. \A c \in Conn, i \in Pos, x \in RowQuery :
           Waits(queries'[c], i, x) <=> Waits(queries[c], i, x) \/ (c = d /\ i = l /\ x = e)
  <2> SUFFICES ASSUME NEW c \in Conn, NEW i \in Pos, NEW x \in RowQuery
               PROVE  Waits(queries'[c], i, x) <=> Waits(queries[c], i, x) \/ (c = d /\ i = l /\ x = e)
    OBVIOUS
  <2> HIDE DEF l
  <2>1. CASE c = d
    BY <1>4, <1>8, <2>1 DEF q
  <2>2. CASE c # d
    BY <1>4, <2>2
  <2> QED BY <2>1, <2>2
<1> HIDE DEF l
<1> QED BY <1>1, <1>6, <1>7, <1>9, <1>10 DEF d, q

\* The first query leaves the queue.
LEMMA Popped ==
    ASSUME ChatTypeInv, NEW c \in Conn, queries[c] # <<>>,
           queries' = [queries EXCEPT ![c] = Tail(@)]
    PROVE  /\ Head(queries[c]) \in RowQuery /\ Waits(queries[c], 1, Head(queries[c]))
           /\ \A x : Waits(queries[c], 1, x) => x = Head(queries[c])
           /\ queries' \in [Conn -> Seq(RowQuery)]
           /\ \A i \in Pos, x \in RowQuery : Waits(queries'[c], i, x) <=> Waits(queries[c], i + 1, x)
           /\ \A d \in Conn : d # c => queries'[d] = queries[d]
<1> DEFINE q == queries[c]
<1>1. queries \in [Conn -> Seq(RowQuery)]
  BY DEF ChatTypeInv
<1>2. q \in Seq(RowQuery) /\ q # <<>> /\ queries'[c] = Tail(q)
      /\ \A d \in Conn : d # c => queries'[d] = queries[d]
  BY <1>1
<1>3. queries' \in [Conn -> Seq(RowQuery)]
  BY <1>1, <1>2, HeadTailProperties
<1> HIDE DEF q
<1>4. Len(q) \in Nat \ {0}
  BY <1>2, EmptySeq
<1>5. /\ Head(q) = q[1] /\ q[1] \in RowQuery
      /\ Tail(q) \in Seq(RowQuery) /\ Len(Tail(q)) = Len(q) - 1
      /\ \A i \in 1..Len(q) - 1 : Tail(q)[i] = q[i + 1]
  BY <1>2, <1>4, HeadTailProperties
<1>6. Waits(q, 1, Head(q)) /\ \A x : Waits(q, 1, x) => x = Head(q)
  BY <1>4, <1>5 DEF Waits
<1>7. ASSUME NEW i \in Pos, NEW x \in RowQuery
      PROVE  Waits(Tail(q), i, x) <=> Waits(q, i + 1, x)
  <2>1. i \in 1..Len(q) - 1 <=> i + 1 \in 1..Len(q)
    BY <1>4 DEF Pos
  <2> QED BY <1>4, <1>5, <2>1 DEF Waits
<1> QED BY <1>2, <1>3, <1>5, <1>6, <1>7 DEF q

\* A connection that is not idle runs a login.
LEMMA Busy ==
    ASSUME ChatTypeInv, NEW c \in Conn
    PROVE  /\ functor[c] = Idle <=> functor[c].at = "idle"
           /\ functor[c] # Idle => /\ functor[c] \in Login /\ functor[c].at \in Stage
                                   /\ functor[c].uid \in Uid /\ functor[c].entity \in Session
                                   /\ functor[c].result \in Seq(0..MaxChats)
<1>1. functor[c] \in {Idle} \cup Login
  BY DEF ChatTypeInv
<1>2. CASE functor[c] = Idle
  <2>1. functor[c].at = "idle"
    BY <1>2 DEF Idle
  <2> QED BY <1>2, <2>1
<1>3. CASE functor[c] \in Login
  BY <1>3 DEF Login, Stage, Idle
<1> QED BY <1>1, <1>2, <1>3

\* What a client wishes is a uid.
LEMMA Wishes ==
    ASSUME ChatTypeInv, NEW s \in Session
    PROVE  /\ Wish(s) \in Uid \cup {0} /\ 0 \notin Uid
           /\ Wish(s) = 0 <=> asked[s] = <<>>
           /\ \A u \in Uid : Wish(s) = u <=> asked[s] = <<u>>
           /\ \A u \in Uid : u \in Range(asked[s]) <=> Wish(s) = u
<1>1. asked[s] \in {<<>>} \cup {<<u>> : u \in Uid}
  BY DEF ChatTypeInv
<1>2. 0 \notin Uid
  BY ChatAssumption
<1>3. CASE asked[s] = <<>>
  <2>1. Wish(s) = 0
    BY <1>3 DEF Wish
  <2>2. \A u \in Uid : asked[s] # <<u>> /\ u \notin Range(asked[s])
    BY <1>3 DEF Range
  <2> QED BY <1>2, <1>3, <2>1, <2>2
<1>4. ASSUME NEW v \in Uid, asked[s] = <<v>>
      PROVE  /\ Wish(s) = v /\ asked[s] # <<>> /\ Range(asked[s]) = {v}
             /\ \A u \in Uid : asked[s] = <<u>> <=> u = v
  <2>1. asked[s] # <<>> /\ asked[s][1] = v /\ DOMAIN asked[s] = {1}
    BY <1>4
  <2> QED BY <1>4, <2>1 DEF Wish, Range
<1> QED BY <1>1, <1>2, <1>3, <1>4

\* While the login of a session waits or runs, nobody else is logged in with its uid.
LEMMA NobodyElse ==
    ASSUME ChatTypeInv, SelectInv, LastInv, FunctorInv
    PROVE  /\ \A c \in Conn, s \in Session :
                  functor[c] # Idle /\ s # functor[c].entity /\ Wish(s) = functor[c].uid /\ client[s] # "gone" =>
                      m_uid[s] = 0
           /\ \A c \in Conn, i \in Pos, x \in RowQuery, s \in Session :
                  Waits(queries[c], i, x) /\ x.op = "select" /\ Wish(s) = x.uid /\ client[s] # "gone" =>
                      m_uid[s] = 0
<1>1. ASSUME NEW c \in Conn, NEW s \in Session, functor[c] # Idle, s # functor[c].entity,
             Wish(s) = functor[c].uid, client[s] # "gone"
      PROVE  m_uid[s] = 0
  <2>1. functor[c].entity \in Session /\ functor[c].uid \in Uid /\ 0 \notin Uid
    BY <1>1, Busy, ChatAssumption
  <2>2. Wish(functor[c].entity) = functor[c].uid /\ Runs(c, functor[c].entity)
    BY <1>1 DEF FunctorInv, Runs
  <2>3. \E j \in Pos, y \in RowQuery : Waits(queries[c], j, y) /\ y.op = "select" /\ y.entity = s
    BY <1>1, <2>1, <2>2 DEF LastInv
  <2> QED BY <2>3 DEF SelectInv
<1>2. ASSUME NEW c \in Conn, NEW i \in Pos, NEW x \in RowQuery, NEW s \in Session,
             Waits(queries[c], i, x), x.op = "select", Wish(s) = x.uid, client[s] # "gone"
      PROVE  m_uid[s] = 0
  <2>1. Wish(x.entity) = x.uid /\ m_uid[x.entity] = 0 /\ x.entity \in Session /\ x.uid # 0
    BY <1>2, ChatAssumption DEF SelectInv, RowQuery
  <2>2. CASE s = x.entity
    BY <2>1, <2>2
  <2>3. CASE s # x.entity
    <3>1. \E j \in Pos, y \in RowQuery : i < j /\ Waits(queries[c], j, y) /\ y.op = "select" /\ y.entity = s
      BY <1>2, <2>1, <2>3 DEF LastInv
    <3> QED BY <3>1 DEF SelectInv
  <2> QED BY <2>2, <2>3
<1> QED BY <1>1, <1>2

-----------------------------------------------------------------------------
(* ChatRoom: the worker's thread. *)

\* A login is asked for.
LEMMA LoginKeeps ==
    ASSUME ~Share, MaxLogins = 1, ChatInv, NEW s \in Session, NEW uid \in Uid, handleLogin(s, uid)
    PROVE  ChatInv'
<1> DEFINE e == [op |-> "select", uid |-> uid, entity |-> s, n |-> 0]
           d == uid % NConn
<1>a. ChatTypeInv /\ WishInv /\ SelectInv /\ UpdateInv /\ LastInv /\ FunctorInv /\ CountInv /\ FiledInv
  BY DEF ChatInv
<1>b. /\ client' = [client EXCEPT ![s] = "known"] /\ asked' = [asked EXCEPT ![s] = Append(@, uid)]
      /\ UNCHANGED <<m_uid, nChatTimes, m_allEntity, m_session2entity, closing, chattest, functor, said>>
      /\ Post(uid, e)
  BY DEF handleLogin
<1>c. e \in RowQuery /\ e.uid = uid /\ e.op = "select" /\ e.entity = s
  <2>1. 0 \in 0..MaxChats
    BY ChatAssumption
  <2> QED BY <2>1 DEF RowQuery
<1>d. m_uid[s] = 0 /\ asked[s] = <<>> /\ Wish(s) = 0 /\ client[s] = "out"
  <2>1. m_uid[s] = 0 /\ Len(asked[s]) < 1
    BY DEF handleLogin, cmdValidCheckFunctor
  <2>2. asked[s] = <<>>
    <3>1. asked[s] \in {<<>>} \cup {<<u>> : u \in Uid}
      BY <1>a DEF ChatTypeInv
    <3> QED BY <2>1, <3>1
  <2>3. Wish(s) = 0
    BY <1>a, <2>2, Wishes
  <2> QED BY <1>a, <2>1, <2>2, <2>3 DEF WishInv
<1>e. asked' = [asked EXCEPT ![s] = <<uid>>] /\ asked \in [Session -> {<<>>} \cup {<<u>> : u \in Uid}]
      /\ client \in [Session -> {"out", "known", "offline", "gone"}]
  BY <1>a, <1>b, <1>d DEF ChatTypeInv
<1>f. Wish(s)' = uid /\ \A t \in Session \ {s} : Wish(t)' = Wish(t)
  BY <1>e DEF Wish
<1>g. client'[s] = "known" /\ \A t \in Session \ {s} : client'[t] = client[t]
  BY <1>b, <1>e
<1>h. \A t \in Session \ {s} : Wish(t) = uid => client[t] = "gone"
  <2>1. \A t \in Session \ {s} : uid \in Range(asked[t]) => client[t] = "gone"
    BY DEF handleLogin, MayUse
  <2> QED BY <1>a, <2>1, Wishes
<1> HIDE DEF e
<1>i. queries' \in [Conn -> Seq(RowQuery)] /\ d \in Conn
  BY <1>a, <1>b, <1>c, Posted
<1>j. PICK l \in Pos :
          /\ \A i \in Pos, x \in RowQuery : Waits(queries[d], i, x) => i < l
          /\ \A c \in Conn, i \in Pos, x \in RowQuery :
                 Waits(queries'[c], i, x) <=> Waits(queries[c], i, x) \/ (c = d /\ i = l /\ x = e)
  BY <1>a, <1>b, <1>c, Posted
<1>k. uid # 0 /\ \A u \in Uid : u # 0
  BY ChatAssumption
<1>l. \A c \in Conn : functor[c] # Idle =>
          /\ functor[c].entity \in Session \ {s} /\ functor[c].uid \in Uid /\ Wish(functor[c].entity) = functor[c].uid
  <2> TAKE c \in Conn
  <2> HAVE functor[c] # Idle
  <2>1. functor[c].entity \in Session /\ functor[c].uid \in Uid /\ Wish(functor[c].entity) = functor[c].uid
    BY <1>a, Busy DEF FunctorInv
  <2> QED BY <1>d, <1>k, <2>1
<1>m. \A c \in Conn, i \in Pos, x \in RowQuery : Waits(queries[c], i, x) /\ x.op = "select" => x.entity \in Session \ {s}
  BY <1>a, <1>d, <1>k DEF SelectInv, RowQuery
<1>n. \A c \in Conn, t \in Session : Runs(c, t)' <=> Runs(c, t)
  BY <1>b DEF Runs
<1>o. \A t \in Session : Holds(t, m_uid[t])' <=> Holds(t, m_uid[t])
  BY <1>b, <1>d, <1>g DEF Holds
<1>p. \A u \in Uid : Rows(u) => Rows(u)'
  <2> SUFFICES ASSUME NEW u \in Uid, Rows(u) PROVE Rows(u)'
    OBVIOUS
  <2>1. u % NConn \in Conn
    BY ConnOfUid
  <2> QED BY <1>b, <1>j, <2>1 DEF Rows
<1>1. ChatTypeInv'
  <2>1. client' \in [Session -> {"out", "known", "offline", "gone"}] /\ asked' \in [Session -> {<<>>} \cup {<<u>> : u \in Uid}]
    BY <1>b, <1>e
  <2> QED BY <1>a, <1>b, <1>i, <2>1 DEF ChatTypeInv
<1>2. WishInv'
  <2>1. \A t \in Session : client'[t] = "out" <=> Wish(t)' = 0
    BY <1>a, <1>f, <1>g, <1>k DEF WishInv
  <2>2. \A t \in Session : m_uid'[t] # 0 => Wish(t)' = m_uid'[t]
    BY <1>a, <1>b, <1>d, <1>f DEF WishInv
  <2>3. \A t, r \in Session : t # r /\ Wish(t)' = Wish(r)' /\ Wish(t)' # 0 => client'[t] = "gone" \/ client'[r] = "gone"
    BY <1>a, <1>f, <1>g, <1>h DEF WishInv
  <2> QED BY <2>1, <2>2, <2>3 DEF WishInv
<1>3. SelectInv'
  <2>1. \A c \in Conn, i \in Pos, x \in RowQuery : Waits(queries'[c], i, x) => x.uid % NConn = c
    BY <1>a, <1>c, <1>j DEF SelectInv
  <2>2. \A c \in Conn, i \in Pos, x \in RowQuery : Waits(queries'[c], i, x) /\ x.op = "select" =>
            Wish(x.entity)' = x.uid /\ m_uid'[x.entity] = 0 /\ ~Runs(c, x.entity)'
    <3> SUFFICES ASSUME NEW c \in Conn, NEW i \in Pos, NEW x \in RowQuery, Waits(queries'[c], i, x), x.op = "select"
                 PROVE  Wish(x.entity)' = x.uid /\ m_uid'[x.entity] = 0 /\ ~Runs(c, x.entity)'
      OBVIOUS
    <3>1. CASE Waits(queries[c], i, x)
      BY <1>a, <1>b, <1>f, <1>m, <1>n, <3>1 DEF SelectInv
    <3>2. CASE x = e
      <4>1. ~Runs(c, s)
        BY <1>l DEF Runs
      <4> QED BY <1>b, <1>c, <1>d, <1>f, <1>n, <3>2, <4>1
    <3> QED BY <1>j, <3>1, <3>2
  <2>3. \A c \in Conn, i, j \in Pos, x, y \in RowQuery :
            (/\ Waits(queries'[c], i, x) /\ x.op = "select"
             /\ Waits(queries'[c], j, y) /\ y.op = "select" /\ x.entity = y.entity) => i = j
    BY <1>a, <1>c, <1>j, <1>m DEF SelectInv
  <2> QED BY <2>1, <2>2, <2>3 DEF SelectInv
<1>4. UpdateInv'
  <2>1. \A c \in Conn, i \in Pos, x \in RowQuery : Waits(queries'[c], i, x) /\ x.op = "update" =>
            /\ x.n = said'[x.uid]
            /\ \A t \in Session : ~Holds(t, x.uid)'
            /\ functor'[c] # Idle /\ functor'[c].uid = x.uid => functor'[c].at = "add"
            /\ \/ chattest'[x.uid] # <<>>
               \/ \E j \in Pos, y \in RowQuery : j < i /\ Waits(queries'[c], j, y) /\ y.op = "insert" /\ y.uid = x.uid
    <3> SUFFICES ASSUME NEW c \in Conn, NEW i \in Pos, NEW x \in RowQuery, Waits(queries[c], i, x), x.op = "update"
                 PROVE  /\ x.n = said'[x.uid]
                        /\ \A t \in Session : ~Holds(t, x.uid)'
                        /\ functor'[c] # Idle /\ functor'[c].uid = x.uid => functor'[c].at = "add"
                        /\ \/ chattest'[x.uid] # <<>>
                           \/ \E j \in Pos, y \in RowQuery : j < i /\ Waits(queries'[c], j, y) /\ y.op = "insert" /\ y.uid = x.uid
      BY <1>c, <1>j
    <3>1. \A t \in Session : ~Holds(t, x.uid)'
      <4>1. x.uid \in Uid
        BY DEF RowQuery
      <4> QED BY <1>a, <1>b, <1>d, <1>g, <1>k, <4>1 DEF UpdateInv, Holds
    <3>2. \/ chattest[x.uid] # <<>>
          \/ \E j \in Pos, y \in RowQuery : j < i /\ Waits(queries[c], j, y) /\ y.op = "insert" /\ y.uid = x.uid
      BY <1>a DEF UpdateInv
    <3> QED BY <1>a, <1>b, <1>j, <3>1, <3>2 DEF UpdateInv
  <2>2. \A c \in Conn, i, j \in Pos, x, y \in RowQuery :
            (/\ Waits(queries'[c], i, x) /\ x.op = "select"
             /\ Waits(queries'[c], j, y) /\ y.op = "update" /\ x.uid = y.uid) => j < i
    BY <1>a, <1>c, <1>j DEF UpdateInv
  <2> QED BY <2>1, <2>2 DEF UpdateInv
<1>5. LastInv'
  <2> SUFFICES ASSUME NEW r \in Session, NEW t \in Session, r # t, Wish(r)' = Wish(t)', Wish(r)' # 0,
                      client'[r] # "gone", NEW c \in Conn
               PROVE  /\ \A i \in Pos, x \in RowQuery : Waits(queries'[c], i, x) /\ x.op = "select" /\ x.entity = t =>
                             \E j \in Pos, y \in RowQuery : i < j /\ Waits(queries'[c], j, y) /\ y.op = "select" /\ y.entity = r
                      /\ Runs(c, t)' =>
                             \E j \in Pos, y \in RowQuery : Waits(queries'[c], j, y) /\ y.op = "select" /\ y.entity = r
    BY DEF LastInv
  <2>1. CASE r = s
    <3>1. t # s /\ Wish(t) = uid
      BY <1>f, <2>1
    <3>2. Waits(queries'[d], l, e) /\ e.op = "select" /\ e.entity = r
      BY <1>c, <1>i, <1>j, <2>1
    <3>3. \A i \in Pos, x \in RowQuery : Waits(queries'[c], i, x) /\ x.op = "select" /\ x.entity = t => c = d /\ i < l
      BY <1>a, <1>c, <1>j, <3>1 DEF SelectInv
    <3>4. Runs(c, t)' => c = d
      BY <1>a, <1>n, <3>1 DEF FunctorInv, Runs
    <3> QED BY <1>c, <3>2, <3>3, <3>4
  <2>2. CASE t = s
    BY <1>f, <1>g, <1>h, <2>2
  <2>3. CASE r # s /\ t # s
    <3>1. Wish(r) = Wish(t) /\ Wish(r) # 0 /\ client[r] # "gone"
      BY <1>f, <1>g, <2>3
    <3>2. /\ \A i \in Pos, x \in RowQuery : Waits(queries[c], i, x) /\ x.op = "select" /\ x.entity = t =>
                 \E j \in Pos, y \in RowQuery : i < j /\ Waits(queries[c], j, y) /\ y.op = "select" /\ y.entity = r
          /\ Runs(c, t) => \E j \in Pos, y \in RowQuery : Waits(queries[c], j, y) /\ y.op = "select" /\ y.entity = r
      BY <1>a, <3>1 DEF LastInv
    <3> QED BY <1>c, <1>j, <1>n, <2>3, <3>2
  <2> QED BY <2>1, <2>2, <2>3
<1>6. FunctorInv'
  <2> SUFFICES ASSUME NEW c \in Conn, functor[c] # Idle
               PROVE  /\ functor'[c].uid % NConn = c /\ Wish(functor[c].entity)' = functor'[c].uid
                      /\ functor'[c].at = "add" <=> m_uid'[functor'[c].entity] # 0
                      /\ functor'[c].at \in {"loaded", "online"} =>
                             /\ functor'[c].result = <<>> => said'[functor'[c].uid] = 0
                             /\ functor'[c].result # <<>> => /\ functor'[c].result[1] = said'[functor'[c].uid]
                                                             /\ chattest'[functor'[c].uid] # <<>>
                      /\ functor'[c].at \in {"kick", "set"} =>
                             nChatTimes'[functor'[c].entity] = said'[functor'[c].uid] /\ Rows(functor[c].uid)'
    BY <1>b DEF FunctorInv
  <2>1. Wish(functor[c].entity)' = functor[c].uid /\ functor[c].uid \in Uid
    BY <1>b, <1>f, <1>l
  <2> QED BY <1>a, <1>b, <1>p, <2>1 DEF FunctorInv
<1>7. CountInv'
  <2>1. \A t \in Session : m_uid'[t] # 0 => Rows(m_uid[t])' /\ (client'[t] # "gone" => nChatTimes'[t] = said'[m_uid'[t]])
    <3>1. \A t \in Session : m_uid[t] # 0 => m_uid[t] \in Uid
      BY <1>a DEF ChatTypeInv
    <3> QED BY <1>a, <1>b, <1>d, <1>g, <1>p, <3>1 DEF CountInv
  <2>2. \A t \in Session : m_uid'[t] = 0 =>
            nChatTimes'[t] = 0 \/ \E c \in Conn : Runs(c, t)' /\ functor'[c].at \in {"kick", "set"}
    BY <1>a, <1>b, <1>n DEF CountInv
  <2>3. \A u \in Uid : \/ \E t \in Session : Holds(t, u)'
                       \/ \E i \in Pos, x \in RowQuery : Waits(queries'[u % NConn], i, x) /\ x.op = "update" /\ x.uid = u
                       \/ IF chattest'[u] = <<>> THEN said'[u] = 0 ELSE chattest'[u][1] = said'[u]
    <3> TAKE u \in Uid
    <3>1. u % NConn \in Conn
      BY ConnOfUid
    <3>2. \A t \in Session : Holds(t, u) => Holds(t, u)'
      BY <1>b, <1>g DEF Holds
    <3> QED BY <1>a, <1>b, <1>j, <3>1, <3>2 DEF CountInv
  <2>4. \A t \in Session : m_uid'[t] # 0 => Rows(m_uid[t])'
    BY <2>1
  <2> QED BY <1>b, <2>1, <2>2, <2>3 DEF CountInv
<1>8. FiledInv'
  <2>1. \A u \in Uid : m_allEntity'[u] # None => Wish(m_allEntity[u])' = u
    <3> SUFFICES ASSUME NEW u \in Uid, m_allEntity[u] # None PROVE Wish(m_allEntity[u])' = u
      BY <1>b
    <3>1. m_allEntity[u] \in Session /\ Wish(m_allEntity[u]) = u
      BY <1>a DEF ChatTypeInv, FiledInv
    <3> QED BY <1>b, <1>d, <1>f, <1>k, <3>1
  <2>2. PlayersAreFiled'
    <3> SUFFICES ASSUME NEW t \in Session, LoggedIn(t)' PROVE (m_allEntity[m_uid[t]] = t /\ t \in m_session2entity)'
      BY DEF PlayersAreFiled
    <3>1. t # s /\ LoggedIn(t)
      BY <1>b, <1>d, <1>g DEF LoggedIn, Online, Running
    <3> QED BY <1>a, <1>b, <3>1 DEF FiledInv, PlayersAreFiled
  <2> QED BY <1>b, <2>1, <2>2 DEF FiledInv
<1> QED BY <1>1, <1>2, <1>3, <1>4, <1>5, <1>6, <1>7, <1>8 DEF ChatInv

\* Something is said.
LEMMA ChatKeeps ==
    ASSUME ChatInv, NEW s \in Session, handleChat(s)
    PROVE  ChatInv'
<1> DEFINE u == m_uid[s]
<1>a. ChatTypeInv /\ WishInv /\ SelectInv /\ UpdateInv /\ LastInv /\ FunctorInv /\ CountInv /\ FiledInv
  BY DEF ChatInv
<1>b. /\ client[s] = "known" /\ u # 0 /\ said[u] < MaxChats
      /\ nChatTimes' = [nChatTimes EXCEPT ![s] = @ + 1] /\ said' = [said EXCEPT ![u] = @ + 1]
      /\ UNCHANGED <<client, m_uid, m_allEntity, m_session2entity, closing, asked, chattest, queries, functor>>
  BY DEF handleChat, Online, cmdValidCheckFunctor, connVars
<1>c. u \in Uid /\ Wish(s) = u /\ Holds(s, u) /\ nChatTimes[s] = said[u] /\ said[u] \in 0..MaxChats /\ MaxChats \in Nat
  BY <1>a, <1>b, ChatAssumption DEF ChatTypeInv, WishInv, CountInv, Holds
<1> HIDE DEF u
<1>d. /\ nChatTimes'[s] = said[u] + 1 /\ said'[u] = said[u] + 1
      /\ \A t \in Session \ {s} : nChatTimes'[t] = nChatTimes[t]
      /\ \A v \in (Uid \cup {0}) \ {u} : said'[v] = said[v]
  BY <1>a, <1>b, <1>c DEF ChatTypeInv
<1>e. \A t \in Session : Wish(t)' = Wish(t)
  BY <1>b DEF Wish
<1>f. \A t \in Session, v \in Uid : Holds(t, v)' <=> Holds(t, v)
  BY <1>b DEF Holds
<1>g. \A c \in Conn, t \in Session : Runs(c, t)' <=> Runs(c, t)
  BY <1>b DEF Runs
<1>h. \A v \in Uid : Rows(v)' <=> Rows(v)
  BY <1>b DEF Rows
\* A login that has not come as far as setUid() is with another uid.
<1>i. \A c \in Conn : functor[c] # Idle /\ functor[c].at # "add" =>
          functor[c].uid \in Uid \ {u} /\ functor[c].entity \in Session \ {s}
  <2> TAKE c \in Conn
  <2> HAVE functor[c] # Idle /\ functor[c].at # "add"
  <2>1. functor[c].entity \in Session /\ functor[c].uid \in Uid /\ m_uid[functor[c].entity] = 0
    BY <1>a, Busy DEF FunctorInv
  <2>2. functor[c].entity # s
    BY <1>b, <2>1 DEF u
  <2>3. functor[c].uid # u
    BY <1>a, <1>b, <1>c, <2>2, NobodyElse DEF u
  <2> QED BY <2>1, <2>2, <2>3
<1>1. ChatTypeInv'
  <2>1. said' \in [Uid \cup {0} -> 0..MaxChats] /\ said'[0] = 0
    BY <1>a, <1>b, <1>c, <1>d DEF ChatTypeInv
  <2>2. nChatTimes' \in [Session -> 0..MaxChats]
    BY <1>a, <1>b, <1>c, <1>d DEF ChatTypeInv
  <2> QED BY <1>a, <1>b, <2>1, <2>2 DEF ChatTypeInv
<1>2. WishInv'
  BY <1>a, <1>b, <1>e DEF WishInv
<1>3. SelectInv'
  <2>1. \A x \in RowQuery : x.entity \in Session
    BY DEF RowQuery
  <2> QED BY <1>a, <1>b, <1>e, <1>g, <2>1 DEF SelectInv
<1>4. UpdateInv'
  <2>1. \A c \in Conn, i \in Pos, x \in RowQuery : Waits(queries'[c], i, x) /\ x.op = "update" =>
            /\ x.n = said'[x.uid]
            /\ \A t \in Session : ~Holds(t, x.uid)'
            /\ functor'[c] # Idle /\ functor'[c].uid = x.uid => functor'[c].at = "add"
            /\ \/ chattest'[x.uid] # <<>>
               \/ \E j \in Pos, y \in RowQuery : j < i /\ Waits(queries'[c], j, y) /\ y.op = "insert" /\ y.uid = x.uid
    <3> SUFFICES ASSUME NEW c \in Conn, NEW i \in Pos, NEW x \in RowQuery, Waits(queries[c], i, x), x.op = "update"
                 PROVE  /\ x.n = said'[x.uid]
                        /\ \A t \in Session : ~Holds(t, x.uid)'
                        /\ functor[c] # Idle /\ functor[c].uid = x.uid => functor[c].at = "add"
                        /\ \/ chattest[x.uid] # <<>>
                           \/ \E j \in Pos, y \in RowQuery : j < i /\ Waits(queries[c], j, y) /\ y.op = "insert" /\ y.uid = x.uid
      BY <1>b
    <3>1. x.uid \in Uid /\ x.uid # u
      BY <1>a, <1>c DEF UpdateInv, RowQuery
    <3> QED BY <1>a, <1>d, <1>f, <3>1 DEF UpdateInv
  <2> QED BY <1>a, <1>b, <2>1 DEF UpdateInv
<1>5. LastInv'
  BY <1>a, <1>b, <1>e, <1>g DEF LastInv
<1>6. FunctorInv'
  <2> SUFFICES ASSUME NEW c \in Conn, functor[c] # Idle
               PROVE  /\ functor'[c].uid % NConn = c /\ Wish(functor[c].entity)' = functor'[c].uid
                      /\ functor'[c].at = "add" <=> m_uid'[functor'[c].entity] # 0
                      /\ functor'[c].at \in {"loaded", "online"} =>
                             /\ functor'[c].result = <<>> => said'[functor'[c].uid] = 0
                             /\ functor'[c].result # <<>> => /\ functor'[c].result[1] = said'[functor'[c].uid]
                                                             /\ chattest'[functor'[c].uid] # <<>>
                      /\ functor'[c].at \in {"kick", "set"} =>
                             nChatTimes'[functor'[c].entity] = said'[functor'[c].uid] /\ Rows(functor[c].uid)'
    BY <1>b DEF FunctorInv
  <2>1. functor[c].entity \in Session /\ functor[c].uid \in Uid /\ Wish(functor[c].entity)' = Wish(functor[c].entity)
    BY <1>a, <1>b, <1>e, Busy
  <2> QED BY <1>a, <1>b, <1>d, <1>h, <1>i, <2>1 DEF FunctorInv
<1>7. CountInv'
  <2>1. \A t \in Session : m_uid'[t] # 0 => Rows(m_uid[t])' /\ (client'[t] # "gone" => nChatTimes'[t] = said'[m_uid'[t]])
    <3> SUFFICES ASSUME NEW t \in Session, m_uid[t] # 0
                 PROVE  Rows(m_uid[t])' /\ (client[t] # "gone" => nChatTimes'[t] = said'[m_uid[t]])
      BY <1>b
    <3>1. m_uid[t] \in Uid /\ Wish(t) = m_uid[t]
      BY <1>a DEF ChatTypeInv, WishInv
    <3>2. Rows(m_uid[t])'
      BY <1>a, <1>b, <1>h, <3>1 DEF CountInv
    <3>3. CASE t = s
      BY <1>c, <1>d, <3>2, <3>3 DEF u
    <3>4. CASE t # s
      <4>1. client[t] # "gone" => m_uid[t] # u
        BY <1>a, <1>b, <1>c, <3>1, <3>4 DEF WishInv, Holds
      <4> QED BY <1>a, <1>d, <3>1, <3>2, <3>4, <4>1 DEF CountInv
    <3> QED BY <3>3, <3>4
  <2>2. \A t \in Session : m_uid'[t] = 0 =>
            nChatTimes'[t] = 0 \/ \E c \in Conn : Runs(c, t)' /\ functor'[c].at \in {"kick", "set"}
    <3>1. \A t \in Session : m_uid[t] = 0 => t # s
      BY <1>b DEF u
    <3> QED BY <1>a, <1>b, <1>d, <1>g, <3>1 DEF CountInv
  <2>3. \A v \in Uid : \/ \E t \in Session : Holds(t, v)'
                       \/ \E i \in Pos, x \in RowQuery : Waits(queries'[v % NConn], i, x) /\ x.op = "update" /\ x.uid = v
                       \/ IF chattest'[v] = <<>> THEN said'[v] = 0 ELSE chattest'[v][1] = said'[v]
    <3> TAKE v \in Uid
    <3>1. CASE v = u
      BY <1>c, <1>f, <3>1
    <3>2. CASE v # u
      BY <1>a, <1>b, <1>d, <1>f, <3>2 DEF CountInv
    <3> QED BY <3>1, <3>2
  <2> QED BY <1>b, <2>1, <2>2, <2>3 DEF CountInv
<1>8. FiledInv'
  <2>1. \A v \in Uid : m_allEntity'[v] # None => Wish(m_allEntity[v])' = v
    BY <1>a, <1>b, <1>e DEF FiledInv, ChatTypeInv
  <2>2. PlayersAreFiled'
    BY <1>a, <1>b DEF FiledInv, PlayersAreFiled, LoggedIn, Online, Running
  <2> QED BY <1>b, <2>1, <2>2 DEF FiledInv
<1> QED BY <1>1, <1>2, <1>3, <1>4, <1>5, <1>6, <1>7, <1>8 DEF ChatInv

\* A client goes.
LEMMA OfflineKeeps ==
    ASSUME ChatInv, NEW s \in Session, processSessionOffline(s)
    PROVE  ChatInv'
<1>a. ChatTypeInv /\ WishInv /\ SelectInv /\ UpdateInv /\ LastInv /\ FunctorInv /\ CountInv /\ FiledInv
  BY DEF ChatInv
<1>b. /\ client[s] = "known" /\ client' = [client EXCEPT ![s] = "offline"]
      /\ UNCHANGED <<m_uid, nChatTimes, m_allEntity, m_session2entity, closing, asked, said, chattest, queries, functor>>
  BY DEF processSessionOffline, Online, connVars
<1>c. /\ client' \in [Session -> {"out", "known", "offline", "gone"}]
      /\ \A t \in Session : /\ client'[t] = "gone" <=> client[t] = "gone"
                            /\ client'[t] = "out" <=> client[t] = "out"
                            /\ client'[t] = "known" => client[t] = "known"
  BY <1>a, <1>b DEF ChatTypeInv
<1>e. \A t \in Session : Wish(t)' = Wish(t)
  BY <1>b DEF Wish
<1>f. \A t \in Session, v \in Uid : Holds(t, v)' <=> Holds(t, v)
  BY <1>b, <1>c DEF Holds
<1>g. \A c \in Conn, t \in Session : Runs(c, t)' <=> Runs(c, t)
  BY <1>b DEF Runs
<1>h. \A v \in Uid : Rows(v)' <=> Rows(v)
  BY <1>b DEF Rows
<1>j. \A x \in RowQuery : x.entity \in Session /\ x.uid \in Uid
  BY DEF RowQuery
<1>1. ChatTypeInv'
  BY <1>a, <1>b, <1>c DEF ChatTypeInv
<1>2. WishInv'
  BY <1>a, <1>b, <1>c, <1>e DEF WishInv
<1>3. SelectInv'
  BY <1>a, <1>b, <1>e, <1>g, <1>j DEF SelectInv
<1>4. UpdateInv'
  BY <1>a, <1>b, <1>f, <1>j DEF UpdateInv
<1>5. LastInv'
  BY <1>a, <1>b, <1>c, <1>e, <1>g DEF LastInv
<1>6. FunctorInv'
  <2>1. \A c \in Conn : functor[c] # Idle => functor[c].entity \in Session /\ functor[c].uid \in Uid
    BY <1>a, Busy
  <2>2. \A c \in Conn : functor[c] # Idle => Wish(functor[c].entity)' = Wish(functor[c].entity) /\ (Rows(functor[c].uid)' <=> Rows(functor[c].uid))
    BY <1>b, <1>e, <1>h, <2>1
  <2> QED BY <1>a, <1>b, <2>1, <2>2 DEF FunctorInv
<1>7. CountInv'
  <2>1. \A t \in Session : m_uid[t] # 0 => (Rows(m_uid[t])' <=> Rows(m_uid[t]))
    BY <1>a, <1>b, <1>h DEF ChatTypeInv
  <2> QED BY <1>a, <1>b, <1>c, <1>f, <1>g, <2>1 DEF CountInv
<1>8. FiledInv'
  <2>1. \A v \in Uid : m_allEntity'[v] # None => Wish(m_allEntity[v])' = v
    BY <1>a, <1>b, <1>e DEF FiledInv, ChatTypeInv
  <2>2. PlayersAreFiled'
    BY <1>a, <1>b, <1>c DEF FiledInv, PlayersAreFiled, LoggedIn, Online, Running
  <2> QED BY <1>b, <2>1, <2>2 DEF FiledInv
<1> QED BY <1>1, <1>2, <1>3, <1>4, <1>5, <1>6, <1>7, <1>8 DEF ChatInv

\* LOGOUT_CMD: the client is gone.
LEMMA LogoutKeeps ==
    ASSUME ChatInv, NEW s \in Session, handleLogout(s)
    PROVE  ChatInv'
<1> DEFINE u == m_uid[s]
           e == [op |-> "update", uid |-> u, entity |-> s, n |-> nChatTimes[s]]
           d == u % NConn
<1>a. ChatTypeInv /\ WishInv /\ SelectInv /\ UpdateInv /\ LastInv /\ FunctorInv /\ CountInv /\ FiledInv
  BY DEF ChatInv
<1>b. /\ client[s] = "offline" /\ client' = [client EXCEPT ![s] = "gone"]
      /\ UNCHANGED <<m_uid, nChatTimes, closing, chattest, functor, asked, said>>
      /\ u = 0 => UNCHANGED <<queries, m_allEntity, m_session2entity>>
      /\ u # 0 => Post(u, e) /\ Del(u)
  BY DEF handleLogout
<1>c. /\ u \in Uid \cup {0} /\ (u # 0 => u \in Uid /\ Wish(s) = u /\ Holds(s, u) /\ nChatTimes[s] = said[u])
      /\ nChatTimes[s] \in 0..MaxChats
  BY <1>a, <1>b DEF ChatTypeInv, WishInv, CountInv, Holds
<1>d. u # 0 => e \in RowQuery /\ e.uid = u /\ e.op = "update" /\ e.n = said[u]
  BY <1>c DEF RowQuery
<1>e. /\ client' \in [Session -> {"out", "known", "offline", "gone"}] /\ client'[s] = "gone"
      /\ \A t \in Session \ {s} : client'[t] = client[t]
  BY <1>a, <1>b DEF ChatTypeInv
<1>f. \A t \in Session : Wish(t)' = Wish(t)
  BY <1>b DEF Wish
<1>g. \A c \in Conn, t \in Session : Runs(c, t)' <=> Runs(c, t)
  BY <1>b DEF Runs
<1>h. \A t \in Session, v \in Uid : Holds(t, v)' <=> Holds(t, v) /\ t # s
  BY <1>b, <1>e DEF Holds
<1> HIDE DEF e
\* What is in the queues afterwards.
<1>i. /\ queries' \in [Conn -> Seq(RowQuery)]
      /\ \E l \in Pos :
            /\ u # 0 => \A i \in Pos, x \in RowQuery : Waits(queries[d], i, x) => i < l
            /\ \A c \in Conn, i \in Pos, x \in RowQuery :
                   Waits(queries'[c], i, x) <=> Waits(queries[c], i, x) \/ (u # 0 /\ c = d /\ i = l /\ x = e)
  <2>1. CASE u = 0
    <3>1. 1 \in Pos /\ queries' = queries
      BY <1>b, <2>1 DEF Pos
    <3> QED BY <1>a, <2>1, <3>1 DEF ChatTypeInv
  <2>2. CASE u # 0
    <3>1. /\ queries' \in [Conn -> Seq(RowQuery)] /\ d \in Conn
          /\ \E l \in Pos :
                /\ \A i \in Pos, x \in RowQuery : Waits(queries[d], i, x) => i < l
                /\ \A c \in Conn, i \in Pos, x \in RowQuery :
                       Waits(queries'[c], i, x) <=> Waits(queries[c], i, x) \/ (c = d /\ i = l /\ x = e)
      BY <1>a, <1>b, <1>c, <1>d, <2>2, Posted
    <3> QED BY <2>2, <3>1
  <2> QED BY <2>1, <2>2
<1>j. PICK l \in Pos :
          /\ u # 0 => \A i \in Pos, x \in RowQuery : Waits(queries[d], i, x) => i < l
          /\ \A c \in Conn, i \in Pos, x \in RowQuery :
                 Waits(queries'[c], i, x) <=> Waits(queries[c], i, x) \/ (u # 0 /\ c = d /\ i = l /\ x = e)
  BY <1>i
<1>k. u # 0 => d \in Conn
  BY <1>c, ConnOfUid
<1>l. \A v \in Uid : Rows(v) => Rows(v)'
  <2> SUFFICES ASSUME NEW v \in Uid, Rows(v) PROVE Rows(v)'
    OBVIOUS
  <2>1. v % NConn \in Conn
    BY ConnOfUid
  <2> QED BY <1>b, <1>j, <2>1 DEF Rows
\* No login with this uid waits or is before setUid().
<1>m. u # 0 => /\ \A c \in Conn, i \in Pos, x \in RowQuery : Waits(queries[c], i, x) /\ x.op = "select" => x.uid # u
               /\ \A c \in Conn : functor[c] # Idle /\ functor[c].uid = u => functor[c].at = "add"
  <2> SUFFICES ASSUME u # 0
               PROVE  /\ \A c \in Conn, i \in Pos, x \in RowQuery : Waits(queries[c], i, x) /\ x.op = "select" => x.uid # u
                      /\ \A c \in Conn : functor[c] # Idle /\ functor[c].uid = u => functor[c].at = "add"
    OBVIOUS
  <2>1. client[s] # "gone" /\ Wish(s) = u
    BY <1>b, <1>c
  <2>2. \A c \in Conn, i \in Pos, x \in RowQuery : Waits(queries[c], i, x) /\ x.op = "select" => x.uid # u
    BY <1>a, <2>1, NobodyElse
  <2>3. \A c \in Conn : functor[c] # Idle /\ functor[c].uid = u => s = functor[c].entity
    BY <1>a, <2>1, NobodyElse
  <2> QED BY <1>a, <2>2, <2>3 DEF FunctorInv
<1> HIDE DEF u, d
<1>1. ChatTypeInv'
  <2>1. m_allEntity' \in [Uid -> Session \cup {None}] /\ m_session2entity' \subseteq Session
    <3>1. CASE u = 0
      BY <1>a, <1>b, <3>1 DEF ChatTypeInv
    <3>2. CASE u # 0
      BY <1>a, <1>b, <3>2 DEF ChatTypeInv, Del
    <3> QED BY <3>1, <3>2
  <2> QED BY <1>a, <1>b, <1>e, <1>i, <2>1 DEF ChatTypeInv
<1>2. WishInv'
  <2>1. \A t \in Session : client'[t] = "out" <=> client[t] = "out"
    BY <1>b, <1>e
  <2> QED BY <1>a, <1>b, <1>e, <1>f, <2>1 DEF WishInv
<1>3. SelectInv'
  <2>1. \A x \in RowQuery : x.entity \in Session
    BY DEF RowQuery
  <2>2. \A c \in Conn, i \in Pos, x \in RowQuery : Waits(queries'[c], i, x) => x.uid % NConn = c
    BY <1>a, <1>d, <1>j DEF SelectInv, d
  <2>3. \A c \in Conn, i \in Pos, x \in RowQuery :
            Waits(queries'[c], i, x) /\ x.op = "select" => Waits(queries[c], i, x)
    BY <1>d, <1>j
  <2> QED BY <1>a, <1>b, <1>f, <1>g, <2>1, <2>2, <2>3 DEF SelectInv
<1>4. UpdateInv'
  <2>1. \A c \in Conn, i \in Pos, x \in RowQuery : Waits(queries'[c], i, x) /\ x.op = "update" =>
            /\ x.n = said'[x.uid]
            /\ \A t \in Session : ~Holds(t, x.uid)'
            /\ functor'[c] # Idle /\ functor'[c].uid = x.uid => functor'[c].at = "add"
            /\ \/ chattest'[x.uid] # <<>>
               \/ \E j \in Pos, y \in RowQuery : j < i /\ Waits(queries'[c], j, y) /\ y.op = "insert" /\ y.uid = x.uid
    <3> SUFFICES ASSUME NEW c \in Conn, NEW i \in Pos, NEW x \in RowQuery, Waits(queries'[c], i, x), x.op = "update"
                 PROVE  /\ x.n = said[x.uid]
                        /\ \A t \in Session : ~Holds(t, x.uid)'
                        /\ functor[c] # Idle /\ functor[c].uid = x.uid => functor[c].at = "add"
                        /\ \/ chattest[x.uid] # <<>>
                           \/ \E j \in Pos, y \in RowQuery : j < i /\ Waits(queries'[c], j, y) /\ y.op = "insert" /\ y.uid = x.uid
      BY <1>b
    <3>1. x.uid \in Uid
      BY DEF RowQuery
    <3>2. CASE Waits(queries[c], i, x)
      <4>1. /\ x.n = said[x.uid] /\ \A t \in Session : ~Holds(t, x.uid)
            /\ functor[c] # Idle /\ functor[c].uid = x.uid => functor[c].at = "add"
            /\ \/ chattest[x.uid] # <<>>
               \/ \E j \in Pos, y \in RowQuery : j < i /\ Waits(queries[c], j, y) /\ y.op = "insert" /\ y.uid = x.uid
        BY <1>a, <3>2 DEF UpdateInv
      <4> QED BY <1>h, <1>j, <3>1, <4>1
    <3>3. CASE u # 0 /\ c = d /\ i = l /\ x = e
      <4>1. x.uid = u /\ x.n = said[u]
        BY <1>d, <3>3
      <4>2. \A t \in Session : ~Holds(t, x.uid)'
        <5> SUFFICES ASSUME NEW t \in Session, Holds(t, x.uid), t # s PROVE FALSE
          BY <1>h, <3>1
        <5>1. Wish(t) = u /\ client[t] # "gone"
          BY <1>a, <3>3, <4>1 DEF Holds, WishInv
        <5> QED BY <1>a, <1>b, <1>c, <3>3, <5>1 DEF WishInv
      <4>3. \/ chattest[u] # <<>>
            \/ \E j \in Pos, y \in RowQuery : Waits(queries[d], j, y) /\ y.op = "insert" /\ y.uid = u
        BY <1>a, <3>3 DEF CountInv, Rows, u, d
      <4>4. \/ chattest[u] # <<>>
            \/ \E j \in Pos, y \in RowQuery : j < l /\ Waits(queries'[d], j, y) /\ y.op = "insert" /\ y.uid = u
        BY <1>j, <1>k, <3>3, <4>3
      <4>5. functor[c] # Idle /\ functor[c].uid = x.uid => functor[c].at = "add"
        BY <1>m, <3>3, <4>1
      <4>6. \/ chattest[x.uid] # <<>>
            \/ \E j \in Pos, y \in RowQuery : j < i /\ Waits(queries'[c], j, y) /\ y.op = "insert" /\ y.uid = x.uid
        BY <3>3, <4>1, <4>4
      <4> QED BY <4>1, <4>2, <4>5, <4>6
    <3> QED BY <1>j, <3>2, <3>3
  <2>2. \A c \in Conn, i, j \in Pos, x, y \in RowQuery :
            (/\ Waits(queries'[c], i, x) /\ x.op = "select"
             /\ Waits(queries'[c], j, y) /\ y.op = "update" /\ x.uid = y.uid) => j < i
    <3> SUFFICES ASSUME NEW c \in Conn, NEW i \in Pos, NEW j \in Pos, NEW x \in RowQuery, NEW y \in RowQuery,
                        Waits(queries'[c], i, x), x.op = "select",
                        Waits(queries'[c], j, y), y.op = "update", x.uid = y.uid
                 PROVE  j < i
      OBVIOUS
    <3>1. Waits(queries[c], i, x)
      BY <1>d, <1>j
    <3>2. CASE Waits(queries[c], j, y)
      BY <1>a, <3>1, <3>2 DEF UpdateInv
    <3>3. CASE u # 0 /\ y = e
      BY <1>d, <1>m, <3>1, <3>3
    <3> QED BY <1>j, <3>2, <3>3
  <2> QED BY <2>1, <2>2 DEF UpdateInv
<1>5. LastInv'
  <2> SUFFICES ASSUME NEW r \in Session, NEW t \in Session, r # t, Wish(r)' = Wish(t)', Wish(r)' # 0,
                      client'[r] # "gone", NEW c \in Conn
               PROVE  /\ \A i \in Pos, x \in RowQuery : Waits(queries'[c], i, x) /\ x.op = "select" /\ x.entity = t =>
                             \E j \in Pos, y \in RowQuery : i < j /\ Waits(queries'[c], j, y) /\ y.op = "select" /\ y.entity = r
                      /\ Runs(c, t)' =>
                             \E j \in Pos, y \in RowQuery : Waits(queries'[c], j, y) /\ y.op = "select" /\ y.entity = r
    BY DEF LastInv
  <2>1. Wish(r) = Wish(t) /\ Wish(r) # 0 /\ client[r] # "gone"
    BY <1>e, <1>f
  <2>2. /\ \A i \in Pos, x \in RowQuery : Waits(queries[c], i, x) /\ x.op = "select" /\ x.entity = t =>
               \E j \in Pos, y \in RowQuery : i < j /\ Waits(queries[c], j, y) /\ y.op = "select" /\ y.entity = r
        /\ Runs(c, t) => \E j \in Pos, y \in RowQuery : Waits(queries[c], j, y) /\ y.op = "select" /\ y.entity = r
    BY <1>a, <2>1 DEF LastInv
  <2>3. \A i \in Pos, x \in RowQuery : Waits(queries'[c], i, x) /\ x.op = "select" <=> Waits(queries[c], i, x) /\ x.op = "select"
    BY <1>d, <1>j
  <2> QED BY <1>g, <2>2, <2>3
<1>6. FunctorInv'
  <2>1. \A c \in Conn : functor[c] # Idle => functor[c].entity \in Session /\ functor[c].uid \in Uid
    BY <1>a, Busy
  <2>2. \A c \in Conn : functor[c] # Idle =>
            Wish(functor[c].entity)' = Wish(functor[c].entity) /\ (Rows(functor[c].uid) => Rows(functor[c].uid)')
    BY <1>b, <1>f, <1>l, <2>1
  <2> QED BY <1>a, <1>b, <2>1, <2>2 DEF FunctorInv
<1>7. CountInv'
  <2>1. \A t \in Session : m_uid[t] # 0 => (Rows(m_uid[t]) => Rows(m_uid[t])')
    BY <1>a, <1>b, <1>l DEF ChatTypeInv
  <2>2. \A t \in Session : client'[t] # "gone" => client[t] # "gone"
    BY <1>b, <1>e
  <2>3. \A v \in Uid : \/ \E t \in Session : Holds(t, v)'
                       \/ \E i \in Pos, x \in RowQuery : Waits(queries'[v % NConn], i, x) /\ x.op = "update" /\ x.uid = v
                       \/ IF chattest'[v] = <<>> THEN said'[v] = 0 ELSE chattest'[v][1] = said'[v]
    <3> TAKE v \in Uid
    <3>1. v % NConn \in Conn
      BY ConnOfUid
    <3>2. CASE v = u
      <4>1. u # 0
        BY <3>2, ChatAssumption
      <4>2. Waits(queries'[d], l, e) /\ v % NConn = d
        BY <1>d, <1>j, <1>k, <3>2, <4>1 DEF d
      <4> QED BY <1>d, <3>2, <4>1, <4>2
    <3>3. CASE v # u
      <4>1. \A t \in Session : Holds(t, v) => Holds(t, v)'
        BY <1>h, <3>3 DEF Holds, u
      <4> QED BY <1>a, <1>b, <1>j, <3>1, <4>1 DEF CountInv
    <3> QED BY <3>2, <3>3
  <2>4. \A t \in Session : m_uid'[t] = 0 =>
            nChatTimes'[t] = 0 \/ \E c \in Conn : Runs(c, t)' /\ functor'[c].at \in {"kick", "set"}
    BY <1>a, <1>b, <1>g DEF CountInv
  <2>5. \A t \in Session : m_uid'[t] # 0 => Rows(m_uid[t])' /\ (client'[t] # "gone" => nChatTimes'[t] = said'[m_uid'[t]])
    BY <1>a, <1>b, <2>1, <2>2 DEF CountInv
  <2> QED BY <1>b, <2>3, <2>4, <2>5 DEF CountInv
<1>8. FiledInv'
  <2>1. \A v \in Uid : m_allEntity'[v] # None => m_allEntity'[v] = m_allEntity[v] /\ m_allEntity[v] # None /\ m_allEntity[v] \in Session
    <3>1. CASE u = 0
      BY <1>a, <1>b, <3>1 DEF ChatTypeInv
    <3>2. CASE u # 0
      BY <1>a, <1>b, <3>2 DEF ChatTypeInv, Del
    <3> QED BY <3>1, <3>2
  <2>2. \A v \in Uid : m_allEntity'[v] # None => Wish(m_allEntity[v])' = v
    BY <1>a, <1>b, <1>f, <2>1 DEF FiledInv
  <2>3. PlayersAreFiled'
    <3> SUFFICES ASSUME NEW t \in Session, LoggedIn(t)'
                 PROVE  m_allEntity'[m_uid[t]] = t /\ t \in m_session2entity'
      BY <1>b DEF PlayersAreFiled
    <3>1. t # s /\ LoggedIn(t)
      BY <1>b, <1>e DEF LoggedIn, Online, Running
    <3>2. m_allEntity[m_uid[t]] = t /\ t \in m_session2entity
      BY <1>a, <3>1 DEF FiledInv, PlayersAreFiled
    <3>3. m_uid[t] \in Uid /\ Wish(t) = m_uid[t] /\ client[t] # "gone"
      BY <1>a, <3>1 DEF ChatTypeInv, LoggedIn, Online, WishInv
    <3>4. CASE u = 0
      BY <1>b, <3>2, <3>4
    <3>5. CASE u # 0
      <4>1. m_uid[t] # u
        BY <1>a, <1>b, <1>c, <3>1, <3>3, <3>5 DEF WishInv
      <4>2. m_allEntity[u] # t
        <5>1. m_allEntity[u] # None => Wish(m_allEntity[u]) = u
          BY <1>a, <1>c, <3>5 DEF FiledInv
        <5>2. m_allEntity[u] = t => m_allEntity[u] # None
          BY ChatAssumption DEF None
        <5> QED BY <3>3, <4>1, <5>1, <5>2
      <4> QED BY <1>a, <1>b, <1>c, <3>2, <3>3, <3>5, <4>1, <4>2 DEF Del, ChatTypeInv
    <3> QED BY <3>4, <3>5
  <2> QED BY <1>b, <2>2, <2>3 DEF FiledInv
<1> QED BY <1>1, <1>2, <1>3, <1>4, <1>5, <1>6, <1>7, <1>8 DEF ChatInv


-----------------------------------------------------------------------------
(* ChatRoom: the thread of a connection. *)

\* The rows of a uid are changed, all at once.
LEMMA RowsChanged ==
    ASSUME NEW r \in Seq(0..MaxChats), NEW n \in 0..MaxChats, NEW f, f = [i \in DOMAIN r |-> n]
    PROVE  /\ f \in Seq(0..MaxChats)
           /\ r # <<>> => f # <<>> /\ f[1] = n
           /\ r = <<>> => f = <<>>
<1>1. Len(r) \in Nat /\ DOMAIN r = 1..Len(r) /\ DOMAIN f = 1..Len(r) /\ \A i \in 1..Len(r) : f[i] = n
  BY LenProperties
<1>2. f \in [1..Len(r) -> 0..MaxChats]
  BY <1>1
<1>3. f \in Seq(0..MaxChats)
  BY <1>1, <1>2, SeqDef
<1>4. Len(f) = Len(r)
  BY <1>1, <1>3, LenProperties
<1>5. r # <<>> => Len(r) \in Nat \ {0}
  BY EmptySeq
<1>6. r # <<>> => f # <<>> /\ f[1] = n
  <2> SUFFICES ASSUME r # <<>> PROVE f # <<>> /\ f[1] = n
    OBVIOUS
  <2>1. 1 \in 1..Len(r) /\ Len(f) # 0
    BY <1>1, <1>4, <1>5
  <2>2. f # <<>>
    BY <2>1, EmptySeq
  <2> QED BY <1>1, <2>1, <2>2
<1>7. r = <<>> => f = <<>>
  <2> SUFFICES ASSUME r = <<>> PROVE f = <<>>
    OBVIOUS
  <2>1. Len(f) = 0
    BY <1>4
  <2> QED BY <1>3, <2>1, EmptySeq
<1> QED BY <1>3, <1>6, <1>7

\* A row is added to those of a uid.
LEMMA RowAdded ==
    ASSUME NEW r \in Seq(0..MaxChats)
    PROVE  /\ Append(r, 0) \in Seq(0..MaxChats) /\ Append(r, 0) # <<>>
           /\ Append(r, 0)[1] = IF r = <<>> THEN 0 ELSE r[1]
<1>1. 0 \in 0..MaxChats
  BY ChatAssumption
<1>2. /\ Append(r, 0) \in Seq(0..MaxChats) /\ Len(r) \in Nat /\ Len(Append(r, 0)) = Len(r) + 1
      /\ \A i \in 1..Len(r) : Append(r, 0)[i] = r[i]
      /\ Append(r, 0)[Len(r) + 1] = 0
  BY <1>1, AppendProperties, LenProperties
<1>3. Append(r, 0) # <<>>
  BY <1>2, EmptySeq
<1>4. CASE r = <<>>
  <2>1. Len(r) = 0
    BY <1>4, EmptySeq
  <2> QED BY <1>2, <1>3, <1>4, <2>1
<1>5. CASE r # <<>>
  <2>1. Len(r) \in Nat \ {0}
    BY <1>5, EmptySeq
  <2>2. 1 \in 1..Len(r)
    BY <2>1
  <2> QED BY <1>2, <1>3, <1>5, <2>2
<1> QED BY <1>4, <1>5

\* A query is run.
LEMMA RunQueryKeeps ==
    ASSUME ChatInv, NEW c \in Conn, runQuery(c)
    PROVE  ChatInv'
<1>a. ChatTypeInv /\ WishInv /\ SelectInv /\ UpdateInv /\ LastInv /\ FunctorInv /\ CountInv /\ FiledInv
  BY DEF ChatInv
<1>r. functor[c] = Idle /\ queries[c] # <<>> /\ queries' = [queries EXCEPT ![c] = Tail(@)]
  BY DEF runQuery
<1>s. PICK q \in RowQuery : q = Head(queries[c])
  BY <1>a, <1>r, Popped
<1> DEFINE run == [at |-> "loaded", uid |-> q.uid, entity |-> q.entity, result |-> chattest[q.uid]]
           P(d, i) == IF d = c THEN i + 1 ELSE i
<1>b. /\ functor[c] = Idle /\ queries[c] # <<>> /\ queries' = [queries EXCEPT ![c] = Tail(@)]
      /\ UNCHANGED <<client, m_uid, nChatTimes, m_allEntity, m_session2entity, closing, asked, said>>
      /\ \/ /\ q.op = "insert" /\ chattest' = [chattest EXCEPT ![q.uid] = Append(@, 0)] /\ functor' = functor
         \/ /\ q.op = "update" /\ chattest' = [chattest EXCEPT ![q.uid] = [i \in DOMAIN @ |-> q.n]] /\ functor' = functor
         \/ /\ q.op = "select" /\ functor' = [functor EXCEPT ![c] = run] /\ chattest' = chattest
  BY <1>s DEF runQuery, entityVars
<1>c. /\ q \in RowQuery /\ Waits(queries[c], 1, q) /\ \A x : Waits(queries[c], 1, x) => x = q
      /\ queries' \in [Conn -> Seq(RowQuery)]
      /\ \A i \in Pos, x \in RowQuery : Waits(queries'[c], i, x) <=> Waits(queries[c], i + 1, x)
      /\ \A d \in Conn : d # c => queries'[d] = queries[d]
  BY <1>a, <1>r, <1>s, Popped
<1>d. 1 \in Pos /\ q.uid \in Uid /\ q.entity \in Session /\ q.n \in 0..MaxChats /\ q.op \in {"select", "insert", "update"}
  BY <1>c DEF RowQuery, Pos
<1>e. q.uid % NConn = c
  BY <1>a, <1>c, <1>d DEF SelectInv
\* Every other query has moved up.
<1>f. \A d \in Conn, i \in Pos : P(d, i) \in Pos /\ (d = c => P(d, i) # 1)
  BY DEF Pos
<1>g. \A d \in Conn, i, j \in Pos : (i < j <=> P(d, i) < P(d, j)) /\ (i = j <=> P(d, i) = P(d, j))
  BY DEF Pos
<1>h. \A d \in Conn, i \in Pos, x \in RowQuery : Waits(queries'[d], i, x) <=> Waits(queries[d], P(d, i), x)
  BY <1>c
<1>i. \A d \in Conn, k \in Pos, x \in RowQuery :
          Waits(queries[d], k, x) => \/ d = c /\ k = 1 /\ x = q
                                     \/ \E i \in Pos : k = P(d, i) /\ Waits(queries'[d], i, x)
  <2> SUFFICES ASSUME NEW d \in Conn, NEW k \in Pos, NEW x \in RowQuery, Waits(queries[d], k, x),
                      ~(d = c /\ k = 1 /\ x = q)
               PROVE  \E i \in Pos : k = P(d, i) /\ Waits(queries'[d], i, x)
    OBVIOUS
  <2>1. CASE d # c
    BY <1>c, <2>1
  <2>2. CASE d = c
    <3>1. k # 1
      BY <1>c, <2>2
    <3>2. k - 1 \in Pos /\ k = P(d, k - 1)
      BY <2>2, <3>1 DEF Pos
    <3> QED BY <1>h, <3>2
  <2> QED BY <2>1, <2>2
<1> HIDE DEF P
\* What it does to the rows.
<1>j. chattest \in [Uid -> Seq(0..MaxChats)] /\ functor \in [Conn -> {Idle} \cup Login]
  BY <1>a DEF ChatTypeInv
<1>k. /\ chattest' \in [Uid -> Seq(0..MaxChats)]
      /\ \A u \in Uid : u # q.uid => chattest'[u] = chattest[u]
      /\ \A u \in Uid : chattest[u] # <<>> => chattest'[u] # <<>>
      /\ q.op = "insert" => /\ chattest'[q.uid] # <<>>
                            /\ chattest'[q.uid][1] = IF chattest[q.uid] = <<>> THEN 0 ELSE chattest[q.uid][1]
      /\ q.op = "update" => /\ chattest[q.uid] # <<>> => chattest'[q.uid][1] = q.n
                            /\ chattest[q.uid] = <<>> => chattest'[q.uid] = <<>>
      /\ q.op = "select" => chattest' = chattest
  <2> DEFINE r == chattest[q.uid]
  <2>0. r \in Seq(0..MaxChats)
    BY <1>d, <1>j
  <2>1. CASE q.op = "insert"
    <3>1. chattest' = [chattest EXCEPT ![q.uid] = Append(r, 0)]
      BY <1>b, <2>1
    <3>2. Append(r, 0) \in Seq(0..MaxChats) /\ Append(r, 0) # <<>> /\ Append(r, 0)[1] = IF r = <<>> THEN 0 ELSE r[1]
      BY <2>0, RowAdded
    <3> HIDE DEF r
    <3>3. chattest'[q.uid] = Append(r, 0) /\ \A u \in Uid : u # q.uid => chattest'[u] = chattest[u]
      BY <1>d, <1>j, <3>1
    <3>4. chattest' \in [Uid -> Seq(0..MaxChats)]
      BY <1>d, <1>j, <3>1, <3>2
    <3> QED BY <2>1, <3>2, <3>3, <3>4 DEF r
  <2>2. CASE q.op = "update"
    <3> DEFINE w == [i \in DOMAIN r |-> q.n]
    <3>1. chattest' = [chattest EXCEPT ![q.uid] = w]
      BY <1>b, <2>2
    <3> HIDE DEF r
    <3>0. q.n \in 0..MaxChats
      BY <1>d
    <3>2. w \in Seq(0..MaxChats) /\ (r # <<>> => w # <<>> /\ w[1] = q.n) /\ (r = <<>> => w = <<>>)
      BY <2>0, <3>0, RowsChanged
    <3> HIDE DEF w
    <3>3. chattest'[q.uid] = w /\ \A u \in Uid : u # q.uid => chattest'[u] = chattest[u]
      BY <1>d, <1>j, <3>1
    <3>4. chattest' \in [Uid -> Seq(0..MaxChats)]
      BY <1>d, <1>j, <3>1, <3>2
    <3> QED BY <2>2, <3>2, <3>3, <3>4 DEF r
  <2>3. CASE q.op = "select"
    BY <1>b, <1>j, <2>3
  <2> QED BY <1>d, <2>1, <2>2, <2>3
<1>l. \A u \in Uid : Rows(u) => Rows(u)'
  <2> SUFFICES ASSUME NEW u \in Uid, Rows(u) PROVE Rows(u)'
    OBVIOUS
  <2>1. u % NConn \in Conn
    BY ConnOfUid
  <2>2. CASE chattest[u] # <<>>
    BY <1>k, <2>2 DEF Rows
  <2>3. ASSUME NEW k \in Pos, NEW x \in RowQuery, Waits(queries[u % NConn], k, x), x.op = "insert", x.uid = u
        PROVE  Rows(u)'
    <3>1. CASE x = q
      BY <1>k, <2>3, <3>1 DEF Rows
    <3>2. CASE \E i \in Pos : Waits(queries'[u % NConn], i, x)
      BY <2>3, <3>2 DEF Rows
    <3> QED BY <1>i, <2>1, <2>3, <3>1, <3>2
  <2> QED BY <2>2, <2>3 DEF Rows
\* And to the logins that run.
<1>m. /\ functor' \in [Conn -> {Idle} \cup Login]
      /\ \A d \in Conn : d # c => functor'[d] = functor[d]
      /\ q.op # "select" => functor' = functor
      /\ q.op = "select" => /\ functor'[c] # Idle /\ functor'[c].at = "loaded" /\ functor'[c].uid = q.uid
                            /\ functor'[c].entity = q.entity /\ functor'[c].result = chattest[q.uid]
  <2>1. run \in Login /\ run # Idle
    BY <1>d, <1>j DEF Login, Stage, Idle
  <2>2. /\ run.at = "loaded" /\ run.uid = q.uid /\ run.entity = q.entity /\ run.result = chattest[q.uid]
    OBVIOUS
  <2> HIDE DEF run
  <2>3. CASE q.op = "select"
    BY <1>b, <1>j, <2>1, <2>2, <2>3
  <2>4. CASE q.op # "select"
    BY <1>b, <1>j, <2>4
  <2> QED BY <2>3, <2>4
<1> HIDE DEF run
<1>n. \A s \in Session : Wish(s)' = Wish(s)
  BY <1>b DEF Wish
<1>o. \A s \in Session, u \in Uid : Holds(s, u)' <=> Holds(s, u)
  BY <1>b DEF Holds
<1>p. \A d \in Conn, s \in Session : Runs(d, s)' <=> Runs(d, s) \/ (d = c /\ q.op = "select" /\ s = q.entity)
  BY <1>b, <1>m DEF Runs
<1>q. \A x \in RowQuery : x.entity \in Session /\ x.uid \in Uid
  BY DEF RowQuery
<1>1. ChatTypeInv'
  BY <1>a, <1>b, <1>c, <1>k, <1>m DEF ChatTypeInv
<1>2. WishInv'
  BY <1>a, <1>b, <1>n DEF WishInv
<1>3. SelectInv'
  <2>1. \A d \in Conn, i \in Pos, x \in RowQuery : Waits(queries'[d], i, x) => x.uid % NConn = d
    BY <1>a, <1>f, <1>h DEF SelectInv
  <2>2. \A d \in Conn, i \in Pos, x \in RowQuery : Waits(queries'[d], i, x) /\ x.op = "select" =>
            Wish(x.entity)' = x.uid /\ m_uid'[x.entity] = 0 /\ ~Runs(d, x.entity)'
    <3> SUFFICES ASSUME NEW d \in Conn, NEW i \in Pos, NEW x \in RowQuery, Waits(queries'[d], i, x), x.op = "select"
                 PROVE  Wish(x.entity)' = x.uid /\ m_uid'[x.entity] = 0 /\ ~Runs(d, x.entity)'
      OBVIOUS
    <3>1. Waits(queries[d], P(d, i), x) /\ P(d, i) \in Pos /\ (d = c => P(d, i) # 1)
      BY <1>f, <1>h
    <3>2. Wish(x.entity) = x.uid /\ m_uid[x.entity] = 0 /\ ~Runs(d, x.entity)
      BY <1>a, <3>1 DEF SelectInv
    <3>3. ~(d = c /\ q.op = "select" /\ x.entity = q.entity)
      BY <1>a, <1>c, <1>d, <3>1 DEF SelectInv
    <3>4. x.entity \in Session
      BY <1>q
    <3> QED BY <1>b, <1>n, <1>p, <3>2, <3>3, <3>4
  <2>3. \A d \in Conn, i, j \in Pos, x, y \in RowQuery :
            (/\ Waits(queries'[d], i, x) /\ x.op = "select"
             /\ Waits(queries'[d], j, y) /\ y.op = "select" /\ x.entity = y.entity) => i = j
    BY <1>a, <1>f, <1>g, <1>h DEF SelectInv
  <2> QED BY <2>1, <2>2, <2>3 DEF SelectInv
<1>4. UpdateInv'
  <2>1. \A d \in Conn, i \in Pos, x \in RowQuery : Waits(queries'[d], i, x) /\ x.op = "update" =>
            /\ x.n = said'[x.uid]
            /\ \A s \in Session : ~Holds(s, x.uid)'
            /\ functor'[d] # Idle /\ functor'[d].uid = x.uid => functor'[d].at = "add"
            /\ \/ chattest'[x.uid] # <<>>
               \/ \E j \in Pos, y \in RowQuery : j < i /\ Waits(queries'[d], j, y) /\ y.op = "insert" /\ y.uid = x.uid
    <3> SUFFICES ASSUME NEW d \in Conn, NEW i \in Pos, NEW x \in RowQuery, Waits(queries'[d], i, x), x.op = "update"
                 PROVE  /\ x.n = said[x.uid]
                        /\ \A s \in Session : ~Holds(s, x.uid)'
                        /\ functor'[d] # Idle /\ functor'[d].uid = x.uid => functor'[d].at = "add"
                        /\ \/ chattest'[x.uid] # <<>>
                           \/ \E j \in Pos, y \in RowQuery : j < i /\ Waits(queries'[d], j, y) /\ y.op = "insert" /\ y.uid = x.uid
      BY <1>b
    <3>1. Waits(queries[d], P(d, i), x) /\ P(d, i) \in Pos /\ (d = c => P(d, i) # 1) /\ x.uid \in Uid
      BY <1>f, <1>h, <1>q
    <3>2. /\ x.n = said[x.uid] /\ \A s \in Session : ~Holds(s, x.uid)
          /\ functor[d] # Idle /\ functor[d].uid = x.uid => functor[d].at = "add"
          /\ \/ chattest[x.uid] # <<>>
             \/ \E j \in Pos, y \in RowQuery : j < P(d, i) /\ Waits(queries[d], j, y) /\ y.op = "insert" /\ y.uid = x.uid
      BY <1>a, <3>1 DEF UpdateInv
    <3>3. \A s \in Session : ~Holds(s, x.uid)'
      BY <1>o, <3>1, <3>2
    <3>4. functor'[d] # Idle /\ functor'[d].uid = x.uid => functor'[d].at = "add"
      <4>1. CASE d = c /\ q.op = "select"
        <5>1. x.uid = q.uid => P(d, i) < 1
          BY <1>a, <1>c, <1>d, <3>1, <4>1 DEF UpdateInv
        <5>2. x.uid # q.uid
          BY <3>1, <5>1 DEF Pos
        <5> QED BY <1>m, <4>1, <5>2
      <4>2. CASE d # c \/ q.op # "select"
        BY <1>m, <3>2, <4>2
      <4> QED BY <4>1, <4>2
    <3>5. \/ chattest'[x.uid] # <<>>
          \/ \E j \in Pos, y \in RowQuery : j < i /\ Waits(queries'[d], j, y) /\ y.op = "insert" /\ y.uid = x.uid
      <4>1. CASE chattest[x.uid] # <<>>
        BY <1>k, <3>1, <4>1
      <4>2. ASSUME NEW k \in Pos, NEW y \in RowQuery, k < P(d, i), Waits(queries[d], k, y), y.op = "insert", y.uid = x.uid
            PROVE  \/ chattest'[x.uid] # <<>>
                   \/ \E j \in Pos, z \in RowQuery : j < i /\ Waits(queries'[d], j, z) /\ z.op = "insert" /\ z.uid = x.uid
        <5>1. CASE y = q
          BY <1>k, <4>2, <5>1
        <5>2. ASSUME NEW j \in Pos, k = P(d, j), Waits(queries'[d], j, y)
              PROVE  \E z \in RowQuery : j < i /\ Waits(queries'[d], j, z) /\ z.op = "insert" /\ z.uid = x.uid
          BY <1>g, <4>2, <5>2
        <5> QED BY <1>i, <4>2, <5>1, <5>2
      <4> QED BY <3>2, <4>1, <4>2
    <3> QED BY <3>2, <3>3, <3>4, <3>5
  <2>2. \A d \in Conn, i, j \in Pos, x, y \in RowQuery :
            (/\ Waits(queries'[d], i, x) /\ x.op = "select"
             /\ Waits(queries'[d], j, y) /\ y.op = "update" /\ x.uid = y.uid) => j < i
    BY <1>a, <1>f, <1>g, <1>h DEF UpdateInv
  <2> QED BY <2>1, <2>2 DEF UpdateInv
<1>5. LastInv'
  <2> SUFFICES ASSUME NEW r \in Session, NEW t \in Session, r # t, Wish(r)' = Wish(t)', Wish(r)' # 0,
                      client'[r] # "gone", NEW d \in Conn
               PROVE  /\ \A i \in Pos, x \in RowQuery : Waits(queries'[d], i, x) /\ x.op = "select" /\ x.entity = t =>
                             \E j \in Pos, y \in RowQuery : i < j /\ Waits(queries'[d], j, y) /\ y.op = "select" /\ y.entity = r
                      /\ Runs(d, t)' =>
                             \E j \in Pos, y \in RowQuery : Waits(queries'[d], j, y) /\ y.op = "select" /\ y.entity = r
    BY DEF LastInv
  <2>1. Wish(r) = Wish(t) /\ Wish(r) # 0 /\ client[r] # "gone"
    BY <1>b, <1>n
  <2>2. /\ \A i \in Pos, x \in RowQuery : Waits(queries[d], i, x) /\ x.op = "select" /\ x.entity = t =>
               \E j \in Pos, y \in RowQuery : i < j /\ Waits(queries[d], j, y) /\ y.op = "select" /\ y.entity = r
        /\ Runs(d, t) => \E j \in Pos, y \in RowQuery : Waits(queries[d], j, y) /\ y.op = "select" /\ y.entity = r
    BY <1>a, <2>1 DEF LastInv
  <2>3. ASSUME NEW i \in Pos, NEW x \in RowQuery, Waits(queries'[d], i, x), x.op = "select", x.entity = t
        PROVE  \E j \in Pos, y \in RowQuery : i < j /\ Waits(queries'[d], j, y) /\ y.op = "select" /\ y.entity = r
    <3>1. Waits(queries[d], P(d, i), x) /\ P(d, i) \in Pos
      BY <1>f, <1>h, <2>3
    <3>2. PICK k \in Pos, y \in RowQuery : P(d, i) < k /\ Waits(queries[d], k, y) /\ y.op = "select" /\ y.entity = r
      BY <2>2, <2>3, <3>1
    <3>3. ~(d = c /\ k = 1)
      BY <3>1, <3>2 DEF Pos
    <3>4. PICK j \in Pos : k = P(d, j) /\ Waits(queries'[d], j, y)
      BY <1>i, <3>2, <3>3
    <3> QED BY <1>g, <3>2, <3>4
  <2>4. ASSUME Runs(d, t)'
        PROVE  \E j \in Pos, y \in RowQuery : Waits(queries'[d], j, y) /\ y.op = "select" /\ y.entity = r
    <3>1. CASE Runs(d, t)
      <4>1. d # c
        BY <1>b, <3>1 DEF Runs
      <4> QED BY <1>c, <2>2, <3>1, <4>1
    <3>2. CASE d = c /\ q.op = "select" /\ t = q.entity
      <4>1. PICK k \in Pos, y \in RowQuery : 1 < k /\ Waits(queries[d], k, y) /\ y.op = "select" /\ y.entity = r
        BY <1>c, <1>d, <2>2, <3>2
      <4>2. PICK j \in Pos : k = P(d, j) /\ Waits(queries'[d], j, y)
        BY <1>i, <4>1
      <4> QED BY <4>1, <4>2
    <3> QED BY <1>p, <2>4, <3>1, <3>2
  <2> QED BY <2>3, <2>4
<1>6. FunctorInv'
  <2>1. ASSUME NEW d \in Conn, functor'[d] # Idle, functor'[d] = functor[d], d # c
        PROVE  /\ functor'[d].uid % NConn = d /\ Wish(functor[d].entity)' = functor'[d].uid
               /\ functor'[d].at = "add" <=> m_uid'[functor'[d].entity] # 0
               /\ functor'[d].at \in {"loaded", "online"} =>
                      /\ functor'[d].result = <<>> => said'[functor'[d].uid] = 0
                      /\ functor'[d].result # <<>> => /\ functor'[d].result[1] = said'[functor'[d].uid]
                                                      /\ chattest'[functor'[d].uid] # <<>>
               /\ functor'[d].at \in {"kick", "set"} =>
                      nChatTimes'[functor'[d].entity] = said'[functor'[d].uid] /\ Rows(functor[d].uid)'
    <3>1. functor[d].entity \in Session /\ functor[d].uid \in Uid
      BY <1>a, <2>1, Busy
    <3>2. (Rows(functor[d].uid) => Rows(functor[d].uid)') /\ Wish(functor[d].entity)' = Wish(functor[d].entity)
      BY <1>b, <1>l, <1>n, <2>1, <3>1
    <3> QED BY <1>a, <1>b, <1>k, <2>1, <3>1, <3>2 DEF FunctorInv
  <2>2. ASSUME q.op = "select"
        PROVE  Wish(q.entity)' = q.uid /\ m_uid'[q.entity] = 0
               /\ (chattest[q.uid] = <<>> => said'[q.uid] = 0)
               /\ (chattest[q.uid] # <<>> => chattest[q.uid][1] = said'[q.uid] /\ chattest'[q.uid] # <<>>)
    <3>1. Wish(q.entity) = q.uid /\ m_uid[q.entity] = 0 /\ q.uid # 0
      BY <1>a, <1>c, <1>d, <2>2, ChatAssumption DEF SelectInv
    <3>2. \A s \in Session : ~Holds(s, q.uid)
      <4> SUFFICES ASSUME NEW s \in Session, Holds(s, q.uid) PROVE FALSE
        OBVIOUS
      <4>1. Wish(s) = q.uid /\ client[s] # "gone" /\ m_uid[s] # 0
        BY <1>a, <3>1 DEF Holds, WishInv
      <4> QED BY <1>a, <1>c, <1>d, <2>2, <4>1, NobodyElse
    <3>3. ~\E i \in Pos, x \in RowQuery : Waits(queries[c], i, x) /\ x.op = "update" /\ x.uid = q.uid
      <4>1. \A i \in Pos : ~(i < 1)
        BY DEF Pos
      <4> QED BY <1>a, <1>c, <1>d, <2>2, <4>1 DEF UpdateInv
    <3>4. IF chattest[q.uid] = <<>> THEN said[q.uid] = 0 ELSE chattest[q.uid][1] = said[q.uid]
      BY <1>a, <1>d, <1>e, <3>2, <3>3 DEF CountInv
    <3>5. Wish(q.entity)' = q.uid
      BY <1>d, <1>n, <3>1, <1>b
    <3> QED BY <1>b, <1>e, <1>k, <1>m, <2>2, <3>1, <3>4, <3>5
  <2>3. CASE q.op = "select"
    <3> SUFFICES ASSUME NEW d \in Conn, functor'[d] # Idle
                 PROVE  /\ functor'[d].uid % NConn = d /\ Wish(functor[d].entity)' = functor'[d].uid
                        /\ functor'[d].at = "add" <=> m_uid'[functor'[d].entity] # 0
                        /\ functor'[d].at \in {"loaded", "online"} =>
                               /\ functor'[d].result = <<>> => said'[functor'[d].uid] = 0
                               /\ functor'[d].result # <<>> => /\ functor'[d].result[1] = said'[functor'[d].uid]
                                                               /\ chattest'[functor'[d].uid] # <<>>
                        /\ functor'[d].at \in {"kick", "set"} =>
                               nChatTimes'[functor'[d].entity] = said'[functor'[d].uid] /\ Rows(functor[d].uid)'
      BY DEF FunctorInv
    <3>1. CASE d # c
      BY <1>m, <2>1, <3>1
    <3>2. CASE d = c
      <4>1. Wish(functor[c].entity)' = q.uid
        <5>1. functor'[c].entity = q.entity
          BY <1>m, <2>3
        <5> QED BY <2>2, <2>3, <5>1 DEF Wish
      <4> QED BY <1>e, <1>m, <2>2, <2>3, <3>2, <4>1
    <3> QED BY <3>1, <3>2
  <2>4. CASE q.op # "select"
    <3> SUFFICES ASSUME NEW d \in Conn, functor'[d] # Idle
                 PROVE  /\ functor'[d].uid % NConn = d /\ Wish(functor[d].entity)' = functor'[d].uid
                        /\ functor'[d].at = "add" <=> m_uid'[functor'[d].entity] # 0
                        /\ functor'[d].at \in {"loaded", "online"} =>
                               /\ functor'[d].result = <<>> => said'[functor'[d].uid] = 0
                               /\ functor'[d].result # <<>> => /\ functor'[d].result[1] = said'[functor'[d].uid]
                                                               /\ chattest'[functor'[d].uid] # <<>>
                        /\ functor'[d].at \in {"kick", "set"} =>
                               nChatTimes'[functor'[d].entity] = said'[functor'[d].uid] /\ Rows(functor[d].uid)'
      BY DEF FunctorInv
    <3>1. functor' = functor /\ d # c
      BY <1>b, <1>m, <2>4
    <3> QED BY <2>1, <3>1
  <2> QED BY <2>3, <2>4
<1>7. CountInv'
  <2>1. \A s \in Session : m_uid'[s] # 0 => Rows(m_uid[s])' /\ (client'[s] # "gone" => nChatTimes'[s] = said'[m_uid'[s]])
    <3>1. \A s \in Session : m_uid[s] # 0 => (Rows(m_uid[s]) => Rows(m_uid[s])')
      BY <1>a, <1>b, <1>l DEF ChatTypeInv
    <3> QED BY <1>a, <1>b, <3>1 DEF CountInv
  <2>2. \A s \in Session : m_uid'[s] = 0 =>
            nChatTimes'[s] = 0 \/ \E d \in Conn : Runs(d, s)' /\ functor'[d].at \in {"kick", "set"}
    <3> SUFFICES ASSUME NEW s \in Session, m_uid[s] = 0, nChatTimes[s] # 0
                 PROVE  \E d \in Conn : Runs(d, s)' /\ functor'[d].at \in {"kick", "set"}
      BY <1>b
    <3>1. PICK d \in Conn : Runs(d, s) /\ functor[d].at \in {"kick", "set"}
      BY <1>a DEF CountInv
    <3>2. d # c
      BY <1>b, <3>1 DEF Runs
    <3> QED BY <1>m, <1>p, <3>1, <3>2
  <2>3. \A u \in Uid : \/ \E s \in Session : Holds(s, u)'
                       \/ \E i \in Pos, x \in RowQuery : Waits(queries'[u % NConn], i, x) /\ x.op = "update" /\ x.uid = u
                       \/ IF chattest'[u] = <<>> THEN said'[u] = 0 ELSE chattest'[u][1] = said'[u]
    <3> TAKE u \in Uid
    <3>1. u % NConn \in Conn
      BY ConnOfUid
    <3>2. CASE \E s \in Session : Holds(s, u)
      BY <1>o, <3>2
    <3>3. ASSUME NEW k \in Pos, NEW x \in RowQuery, Waits(queries[u % NConn], k, x), x.op = "update", x.uid = u
          PROVE  \/ \E i \in Pos, y \in RowQuery : Waits(queries'[u % NConn], i, y) /\ y.op = "update" /\ y.uid = u
                 \/ IF chattest'[u] = <<>> THEN said'[u] = 0 ELSE chattest'[u][1] = said'[u]
      <4>1. CASE u % NConn = c /\ k = 1 /\ x = q
        <5>1. q.n = said[u] /\ chattest[u] # <<>>
          <6>1. \A j \in Pos : ~(j < 1)
            BY DEF Pos
          <6> QED BY <1>a, <1>c, <1>d, <3>3, <4>1, <6>1 DEF UpdateInv
        <5> QED BY <1>b, <1>k, <3>3, <4>1, <5>1
      <4>2. CASE \E i \in Pos : Waits(queries'[u % NConn], i, x)
        BY <3>3, <4>2
      <4> QED BY <1>i, <3>1, <3>3, <4>1, <4>2
    <3>4. CASE IF chattest[u] = <<>> THEN said[u] = 0 ELSE chattest[u][1] = said[u]
      <4>1. CASE u # q.uid
        BY <1>b, <1>k, <3>4, <4>1
      <4>2. CASE u = q.uid /\ q.op = "insert"
        BY <1>b, <1>k, <3>4, <4>2
      <4>3. CASE u = q.uid /\ q.op = "update"
        <5>1. q.n = said[u]
          BY <1>a, <1>c, <1>d, <4>3 DEF UpdateInv
        <5> QED BY <1>b, <1>k, <3>4, <4>3, <5>1
      <4>4. CASE q.op = "select"
        BY <1>b, <1>k, <3>4, <4>4
      <4> QED BY <1>d, <4>1, <4>2, <4>3, <4>4
    <3>5. \/ \E s \in Session : Holds(s, u)
          \/ \E i \in Pos, x \in RowQuery : Waits(queries[u % NConn], i, x) /\ x.op = "update" /\ x.uid = u
          \/ IF chattest[u] = <<>> THEN said[u] = 0 ELSE chattest[u][1] = said[u]
      BY <1>a DEF CountInv
    <3> QED BY <3>2, <3>3, <3>4, <3>5
  <2> QED BY <1>b, <2>1, <2>2, <2>3 DEF CountInv
<1>8. FiledInv'
  <2>1. \A v \in Uid : m_allEntity'[v] # None => Wish(m_allEntity[v])' = v
    BY <1>a, <1>b, <1>n DEF FiledInv, ChatTypeInv
  <2>2. PlayersAreFiled'
    <3>1. \A s \in Session : LoggedIn(s)' => LoggedIn(s)
      BY <1>b, <1>m DEF LoggedIn, Online, Running
    <3> QED BY <1>a, <1>b, <3>1 DEF FiledInv, PlayersAreFiled
  <2> QED BY <1>b, <2>1, <2>2 DEF FiledInv
<1> QED BY <1>1, <1>2, <1>3, <1>4, <1>5, <1>6, <1>7, <1>8 DEF ChatInv

\* A login goes on to its next stage.
LEMMA NextStage ==
    ASSUME ChatTypeInv, FunctorInv, NEW c \in Conn, NEW from \in Stage, NEW to \in Stage, Goes(c, from, to)
    PROVE  /\ functor' \in [Conn -> {Idle} \cup Login] /\ functor[c] # Idle /\ functor'[c] # Idle
           /\ functor[c].at = from /\ functor'[c].at = to
           /\ functor'[c].uid = functor[c].uid /\ functor'[c].entity = functor[c].entity
           /\ functor'[c].result = functor[c].result
           /\ \A d \in Conn : d # c => functor'[d] = functor[d]
           /\ functor[c].entity \in Session /\ functor[c].uid \in Uid /\ functor[c].result \in Seq(0..MaxChats)
           /\ functor[c].uid % NConn = c /\ Wish(functor[c].entity) = functor[c].uid
           /\ \A d \in Conn : functor[d] # Idle /\ d # c => functor[d].entity # functor[c].entity
<1>1. functor[c].at = from /\ functor' = [functor EXCEPT ![c].at = to]
  BY DEF Goes
<1>2. functor[c] # Idle
  BY <1>1 DEF Stage, Idle
<1>3. functor[c] \in Login /\ functor \in [Conn -> {Idle} \cup Login]
  BY <1>2, Busy DEF ChatTypeInv
<1>4. functor'[c] = [functor[c] EXCEPT !.at = to] /\ \A d \in Conn : d # c => functor'[d] = functor[d]
  BY <1>1, <1>3
<1>5. /\ functor'[c] \in Login /\ functor'[c].at = to
      /\ functor'[c].uid = functor[c].uid /\ functor'[c].entity = functor[c].entity
      /\ functor'[c].result = functor[c].result
  BY <1>3, <1>4 DEF Login
<1>6. functor'[c] # Idle
  BY <1>5 DEF Stage, Idle
<1>7. functor' \in [Conn -> {Idle} \cup Login]
  <2> SUFFICES ASSUME NEW d \in Conn PROVE functor'[d] \in {Idle} \cup Login
    BY <1>1, <1>3
  <2> QED BY <1>3, <1>4, <1>5
<1>8. functor[c].entity \in Session /\ functor[c].uid \in Uid /\ functor[c].result \in Seq(0..MaxChats)
  BY <1>3 DEF Login
<1>9. \A d \in Conn : functor[d] # Idle => functor[d].uid % NConn = d /\ Wish(functor[d].entity) = functor[d].uid
  BY DEF FunctorInv
<1>10. \A d \in Conn : functor[d] # Idle /\ d # c => functor[d].entity # functor[c].entity
  BY <1>2, <1>9
<1> HIDE DEF Idle, Login, Stage, FunctorInv, ChatTypeInv
<1> QED BY <1>1, <1>2, <1>4, <1>5, <1>6, <1>7, <1>8, <1>9, <1>10

\* No update waits for the uid of a login before its setUid().
LEMMA NoUpdate ==
    ASSUME UpdateInv, NEW c \in Conn, functor[c] # Idle, functor[c].at # "add"
    PROVE  \A i \in Pos, x \in RowQuery : Waits(queries[c], i, x) /\ x.op = "update" => x.uid # functor[c].uid
BY DEF UpdateInv

\* The session of the login is looked at.
LEMMA CheckSessionKeeps ==
    ASSUME ChatInv, NEW c \in Conn, checkSession(c)
    PROVE  ChatInv'
<1>a. ChatTypeInv /\ WishInv /\ SelectInv /\ UpdateInv /\ LastInv /\ FunctorInv /\ CountInv /\ FiledInv
  BY DEF ChatInv
<1>b. /\ functor[c].at = "loaded"
      /\ UNCHANGED <<client, m_uid, nChatTimes, m_allEntity, m_session2entity, closing, asked, said, queries, chattest>>
  BY DEF checkSession, entityVars, Goes
<1>c. functor[c] # Idle
  BY <1>b DEF Idle
<1>d. /\ functor' \in [Conn -> {Idle} \cup Login]
      /\ \A d \in Conn : d # c => functor'[d] = functor[d]
      /\ \/ functor'[c] = Idle /\ ~Online(functor[c].entity)
         \/ /\ functor'[c] # Idle /\ functor'[c].at = "online" /\ functor'[c].uid = functor[c].uid
            /\ functor'[c].entity = functor[c].entity /\ functor'[c].result = functor[c].result
  <2>1. CASE functor' = [functor EXCEPT ![c] = Idle] /\ ~Online(functor[c].entity)
    BY <1>a, <2>1 DEF ChatTypeInv
  <2>2. CASE Goes(c, "loaded", "online")
    <3>1. {"loaded", "online"} \subseteq Stage
      BY DEF Stage
    <3> QED BY <1>a, <2>2, <3>1, NextStage
  <2> QED BY <2>1, <2>2 DEF checkSession
<1>e. \A d \in Conn, s \in Session : Runs(d, s)' => Runs(d, s)
  BY <1>c, <1>d DEF Runs
<1>f. \A s \in Session : Wish(s)' = Wish(s)
  BY <1>b DEF Wish
<1>g. \A s \in Session, u \in Uid : Holds(s, u)' <=> Holds(s, u)
  BY <1>b DEF Holds
<1>h. \A u \in Uid : Rows(u)' <=> Rows(u)
  BY <1>b DEF Rows
<1>i. \A x \in RowQuery : x.entity \in Session /\ x.uid \in Uid
  BY DEF RowQuery
<1>1. ChatTypeInv'
  BY <1>a, <1>b, <1>d DEF ChatTypeInv
<1>2. WishInv'
  BY <1>a, <1>b, <1>f DEF WishInv
<1>3. SelectInv'
  BY <1>a, <1>b, <1>e, <1>f, <1>i DEF SelectInv
<1>4. UpdateInv'
  <2>1. \A d \in Conn, i \in Pos, x \in RowQuery :
            Waits(queries[d], i, x) /\ x.op = "update" /\ functor'[d] # Idle /\ functor'[d].uid = x.uid => functor'[d].at = "add"
    BY <1>a, <1>b, <1>c, <1>d DEF UpdateInv
  <2> QED BY <1>a, <1>b, <1>g, <1>i, <2>1 DEF UpdateInv
<1>5. LastInv'
  BY <1>a, <1>b, <1>e, <1>f DEF LastInv
<1>6. FunctorInv'
  <2> SUFFICES ASSUME NEW d \in Conn, functor'[d] # Idle
               PROVE  /\ functor'[d].uid % NConn = d /\ Wish(functor[d].entity)' = functor'[d].uid
                      /\ functor'[d].at = "add" <=> m_uid'[functor'[d].entity] # 0
                      /\ functor'[d].at \in {"loaded", "online"} =>
                             /\ functor'[d].result = <<>> => said'[functor'[d].uid] = 0
                             /\ functor'[d].result # <<>> => /\ functor'[d].result[1] = said'[functor'[d].uid]
                                                             /\ chattest'[functor'[d].uid] # <<>>
                      /\ functor'[d].at \in {"kick", "set"} =>
                             nChatTimes'[functor'[d].entity] = said'[functor'[d].uid] /\ Rows(functor[d].uid)'
    BY DEF FunctorInv
  <2>1. /\ functor[d] # Idle /\ functor'[d].entity = functor[d].entity /\ functor'[d].uid = functor[d].uid
        /\ functor'[d].result = functor[d].result
        /\ \/ functor'[d].at = functor[d].at
           \/ functor'[d].at = "online" /\ functor[d].at = "loaded"
    BY <1>b, <1>c, <1>d
  <2>2. functor[d].entity \in Session /\ functor[d].uid \in Uid
    BY <1>a, <2>1, Busy
  <2>3. Wish(functor[d].entity)' = Wish(functor[d].entity) /\ (Rows(functor[d].uid)' <=> Rows(functor[d].uid))
    BY <1>b, <2>1 DEF Wish, Rows
  <2>4. /\ functor[d].uid % NConn = d /\ Wish(functor[d].entity) = functor[d].uid
        /\ functor[d].at = "add" <=> m_uid[functor[d].entity] # 0
        /\ functor[d].at \in {"loaded", "online"} =>
               /\ functor[d].result = <<>> => said[functor[d].uid] = 0
               /\ functor[d].result # <<>> => /\ functor[d].result[1] = said[functor[d].uid]
                                              /\ chattest[functor[d].uid] # <<>>
        /\ functor[d].at \in {"kick", "set"} =>
               nChatTimes[functor[d].entity] = said[functor[d].uid] /\ Rows(functor[d].uid)
    BY <1>a, <2>1 DEF FunctorInv
  <2> QED BY <1>b, <2>1, <2>3, <2>4
<1>7. CountInv'
  <2>1. \A s \in Session : m_uid[s] # 0 => (Rows(m_uid[s])' <=> Rows(m_uid[s]))
    BY <1>a, <1>b, <1>h DEF ChatTypeInv
  <2>2. \A d \in Conn, s \in Session : Runs(d, s) /\ functor[d].at \in {"kick", "set"} =>
            Runs(d, s)' /\ functor'[d].at \in {"kick", "set"}
    BY <1>b, <1>d DEF Runs
  <2> QED BY <1>a, <1>b, <1>g, <2>1, <2>2 DEF CountInv
<1>8. FiledInv'
  <2>1. \A u \in Uid : m_allEntity'[u] # None => Wish(m_allEntity[u])' = u
    BY <1>a, <1>b, <1>f DEF FiledInv, ChatTypeInv
  <2>2. \A s \in Session : LoggedIn(s)' => LoggedIn(s)
    BY <1>b, <1>c, <1>d DEF LoggedIn, Online, Running
  <2>3. PlayersAreFiled'
    BY <1>a, <1>b, <2>2 DEF FiledInv, PlayersAreFiled
  <2> QED BY <1>b, <2>1, <2>3 DEF FiledInv
<1> QED BY <1>1, <1>2, <1>3, <1>4, <1>5, <1>6, <1>7, <1>8 DEF ChatInv

\* What was said before is loaded, or a row is asked for.
LEMMA LoadRowKeeps ==
    ASSUME ChatInv, NEW c \in Conn, loadRow(c)
    PROVE  ChatInv'
<1>a. ChatTypeInv /\ WishInv /\ SelectInv /\ UpdateInv /\ LastInv /\ FunctorInv /\ CountInv /\ FiledInv
  BY DEF ChatInv
<1>b. /\ functor[c].at = "online"
      /\ UNCHANGED <<client, m_uid, m_allEntity, m_session2entity, closing, asked, said, chattest>>
  BY DEF loadRow, Goes
<1>c. /\ functor' \in [Conn -> {Idle} \cup Login] /\ functor[c] # Idle /\ functor'[c] # Idle
      /\ functor'[c].at = "kick"
      /\ functor'[c].uid = functor[c].uid /\ functor'[c].entity = functor[c].entity
      /\ \A d \in Conn : d # c => functor'[d] = functor[d]
      /\ functor[c].entity \in Session /\ functor[c].uid \in Uid /\ functor[c].result \in Seq(0..MaxChats)
      /\ functor[c].uid % NConn = c /\ Wish(functor[c].entity) = functor[c].uid
      /\ \A d \in Conn : functor[d] # Idle /\ d # c => functor[d].entity # functor[c].entity
  <2>1. {"online", "kick"} \subseteq Stage /\ Goes(c, "online", "kick")
    BY DEF Stage, loadRow
  <2> QED BY <1>a, <2>1, NextStage
<1>s. PICK u \in Uid, s \in Session : u = functor[c].uid /\ s = functor[c].entity
  BY <1>c
<1> DEFINE e == [op |-> "insert", uid |-> u, entity |-> s, n |-> 0]
<1>d. \/ functor[c].result = <<>> /\ Post(u, e) /\ UNCHANGED nChatTimes
      \/ /\ functor[c].result # <<>> /\ UNCHANGED queries
         /\ nChatTimes' = [nChatTimes EXCEPT ![s] = functor[c].result[1]]
  BY <1>s DEF loadRow
<1>e. e \in RowQuery /\ e.op = "insert" /\ e.uid = u
  <2>1. 0 \in 0..MaxChats
    BY ChatAssumption
  <2> QED BY <2>1 DEF RowQuery
<1> HIDE DEF e
<1>f. /\ queries' \in [Conn -> Seq(RowQuery)]
      /\ \E l \in Pos :
            /\ \A d \in Conn, i \in Pos, x \in RowQuery : Waits(queries[d], i, x) => Waits(queries'[d], i, x)
            /\ \A d \in Conn, i \in Pos, x \in RowQuery :
                   Waits(queries'[d], i, x) => Waits(queries[d], i, x) \/ x = e
            /\ functor[c].result = <<>> => Waits(queries'[c], l, e)
  <2>1. CASE functor[c].result = <<>> /\ Post(u, e)
    <3>1. u % NConn = c
      BY <1>c, <1>s
    <3> QED BY <1>a, <1>e, <2>1, <3>1, Posted
  <2>2. CASE functor[c].result # <<>> /\ UNCHANGED queries
    <3>1. 1 \in Pos
      BY DEF Pos
    <3> QED BY <1>a, <2>2, <3>1 DEF ChatTypeInv
  <2> QED BY <1>d, <2>1, <2>2
<1>g. PICK l \in Pos :
            /\ \A d \in Conn, i \in Pos, x \in RowQuery : Waits(queries[d], i, x) => Waits(queries'[d], i, x)
            /\ \A d \in Conn, i \in Pos, x \in RowQuery :
                   Waits(queries'[d], i, x) => Waits(queries[d], i, x) \/ x = e
            /\ functor[c].result = <<>> => Waits(queries'[c], l, e)
  BY <1>f
<1>h. \A d \in Conn, i \in Pos, x \in RowQuery :
          x.op # "insert" => (Waits(queries'[d], i, x) <=> Waits(queries[d], i, x))
  BY <1>e, <1>g
<1>i. \A d \in Conn, t \in Session : Runs(d, t)' <=> Runs(d, t)
  BY <1>c DEF Runs
<1>j. \A t \in Session : Wish(t)' = Wish(t)
  BY <1>b DEF Wish
<1>k. \A t \in Session, v \in Uid : Holds(t, v)' <=> Holds(t, v)
  BY <1>b DEF Holds
<1>l. \A v \in Uid : Rows(v) => Rows(v)'
  <2> SUFFICES ASSUME NEW v \in Uid, Rows(v) PROVE Rows(v)'
    OBVIOUS
  <2>1. v % NConn \in Conn
    BY ConnOfUid
  <2> QED BY <1>b, <1>g, <2>1 DEF Rows
<1>m. \A x \in RowQuery : x.entity \in Session /\ x.uid \in Uid
  BY DEF RowQuery
\* The count is that of all that was said.
<1>n. /\ m_uid[s] = 0 /\ u % NConn = c /\ Wish(s) = u
      /\ functor[c].result = <<>> => said[u] = 0
      /\ functor[c].result # <<>> => functor[c].result[1] = said[u] /\ chattest[u] # <<>>
  BY <1>a, <1>b, <1>c, <1>s DEF FunctorInv
<1>o. Rows(u)'
  <2>1. CASE functor[c].result = <<>>
    BY <1>e, <1>g, <1>n, <2>1 DEF Rows
  <2>2. CASE functor[c].result # <<>>
    BY <1>b, <1>n, <2>2 DEF Rows
  <2> QED BY <2>1, <2>2
<1>p. said[u] \in 0..MaxChats /\ nChatTimes \in [Session -> 0..MaxChats]
  BY <1>a DEF ChatTypeInv
<1>q. /\ nChatTimes' \in [Session -> 0..MaxChats] /\ nChatTimes'[s] = said[u]
      /\ \A t \in Session : t # s => nChatTimes'[t] = nChatTimes[t]
  <2>1. CASE functor[c].result = <<>> /\ UNCHANGED nChatTimes
    <3>1. ~\E d \in Conn : Runs(d, s) /\ functor[d].at \in {"kick", "set"}
      BY <1>b, <1>c, <1>s DEF Runs
    <3>2. nChatTimes[s] = 0
      BY <1>a, <1>n, <3>1 DEF CountInv
    <3> QED BY <1>n, <1>p, <2>1, <3>2
  <2>2. CASE functor[c].result # <<>> /\ nChatTimes' = [nChatTimes EXCEPT ![s] = functor[c].result[1]]
    BY <1>n, <1>p, <2>2
  <2> QED BY <1>d, <2>1, <2>2
<1>1. ChatTypeInv'
  BY <1>a, <1>b, <1>c, <1>f, <1>q DEF ChatTypeInv
<1>2. WishInv'
  BY <1>a, <1>b, <1>j DEF WishInv
<1>3. SelectInv'
  <2>1. \A d \in Conn, i \in Pos, x \in RowQuery : Waits(queries'[d], i, x) => x.uid % NConn = d
    <3> SUFFICES ASSUME NEW d \in Conn, NEW i \in Pos, NEW x \in RowQuery, Waits(queries'[d], i, x), ~Waits(queries[d], i, x)
                 PROVE  x.uid % NConn = d
      BY <1>a DEF SelectInv
    <3> QED BY <1>a, <1>d, <1>e, <1>n, Posted
  <2> QED BY <1>a, <1>b, <1>h, <1>i, <1>j, <1>m, <2>1 DEF SelectInv
<1>4. UpdateInv'
  <2>1. \A d \in Conn, i \in Pos, x \in RowQuery : Waits(queries'[d], i, x) /\ x.op = "update" =>
            /\ x.n = said'[x.uid]
            /\ \A t \in Session : ~Holds(t, x.uid)'
            /\ functor'[d] # Idle /\ functor'[d].uid = x.uid => functor'[d].at = "add"
            /\ \/ chattest'[x.uid] # <<>>
               \/ \E j \in Pos, y \in RowQuery : j < i /\ Waits(queries'[d], j, y) /\ y.op = "insert" /\ y.uid = x.uid
    <3> SUFFICES ASSUME NEW d \in Conn, NEW i \in Pos, NEW x \in RowQuery, Waits(queries[d], i, x), x.op = "update"
                 PROVE  /\ x.n = said[x.uid]
                        /\ \A t \in Session : ~Holds(t, x.uid)'
                        /\ functor'[d] # Idle /\ functor'[d].uid = x.uid => functor'[d].at = "add"
                        /\ \/ chattest[x.uid] # <<>>
                           \/ \E j \in Pos, y \in RowQuery : j < i /\ Waits(queries'[d], j, y) /\ y.op = "insert" /\ y.uid = x.uid
      BY <1>b, <1>h
    <3>1. /\ x.n = said[x.uid] /\ \A t \in Session : ~Holds(t, x.uid)
          /\ functor[d] # Idle /\ functor[d].uid = x.uid => functor[d].at = "add"
          /\ \/ chattest[x.uid] # <<>>
             \/ \E j \in Pos, y \in RowQuery : j < i /\ Waits(queries[d], j, y) /\ y.op = "insert" /\ y.uid = x.uid
      BY <1>a DEF UpdateInv
    <3>2. functor'[d] # Idle /\ functor'[d].uid = x.uid => functor'[d].at = "add"
      BY <1>b, <1>c, <3>1
    <3> QED BY <1>g, <1>k, <1>m, <3>1, <3>2
  <2>2. \A d \in Conn, i, j \in Pos, x, y \in RowQuery :
            (/\ Waits(queries'[d], i, x) /\ x.op = "select"
             /\ Waits(queries'[d], j, y) /\ y.op = "update" /\ x.uid = y.uid) => j < i
    BY <1>a, <1>h DEF UpdateInv
  <2> QED BY <2>1, <2>2 DEF UpdateInv
<1>5. LastInv'
  BY <1>a, <1>b, <1>h, <1>i, <1>j DEF LastInv
<1>6. FunctorInv'
  <2> SUFFICES ASSUME NEW d \in Conn, functor'[d] # Idle
               PROVE  /\ functor'[d].uid % NConn = d /\ Wish(functor[d].entity)' = functor'[d].uid
                      /\ functor'[d].at = "add" <=> m_uid'[functor'[d].entity] # 0
                      /\ functor'[d].at \in {"loaded", "online"} =>
                             /\ functor'[d].result = <<>> => said'[functor'[d].uid] = 0
                             /\ functor'[d].result # <<>> => /\ functor'[d].result[1] = said'[functor'[d].uid]
                                                             /\ chattest'[functor'[d].uid] # <<>>
                      /\ functor'[d].at \in {"kick", "set"} =>
                             nChatTimes'[functor'[d].entity] = said'[functor'[d].uid] /\ Rows(functor[d].uid)'
    BY DEF FunctorInv
  <2>1. CASE d = c
    <3>1. functor'[c].uid = u /\ functor'[c].entity = s
      BY <1>c, <1>s
    <3>2. Wish(functor[c].entity)' = Wish(s)' /\ (Rows(functor[c].uid)' <=> Rows(u)')
      BY <3>1 DEF Wish, Rows
    <3> QED BY <1>b, <1>c, <1>j, <1>n, <1>o, <1>q, <2>1, <3>1, <3>2
  <2>2. CASE d # c
    <3>1. functor'[d] = functor[d] /\ functor[d].entity \in Session \ {s} /\ functor[d].uid \in Uid
      BY <1>a, <1>c, <1>s, <2>2, Busy
    <3>2. Wish(functor[d].entity)' = Wish(functor[d].entity) /\ (Rows(functor[d].uid) => Rows(functor[d].uid)')
      <4>1. \A t \in Session : functor'[d].entity = t => Wish(functor[d].entity)' = Wish(t)'
        BY DEF Wish
      <4>2. \A v \in Uid : functor'[d].uid = v => (Rows(functor[d].uid)' <=> Rows(v)')
        BY DEF Rows
      <4> QED BY <1>j, <1>l, <3>1, <4>1, <4>2
    <3> QED BY <1>a, <1>b, <1>q, <3>1, <3>2 DEF FunctorInv
  <2> QED BY <2>1, <2>2
<1>7. CountInv'
  <2>1. \A t \in Session : m_uid[t] # 0 => (Rows(m_uid[t]) => Rows(m_uid[t])')
    BY <1>a, <1>b, <1>l DEF ChatTypeInv
  <2>2. \A t \in Session : m_uid'[t] # 0 => Rows(m_uid[t])' /\ (client'[t] # "gone" => nChatTimes'[t] = said'[m_uid'[t]])
    BY <1>a, <1>b, <1>n, <1>q, <2>1 DEF CountInv
  <2>3. \A t \in Session : m_uid'[t] = 0 =>
            nChatTimes'[t] = 0 \/ \E d \in Conn : Runs(d, t)' /\ functor'[d].at \in {"kick", "set"}
    <3> SUFFICES ASSUME NEW t \in Session, m_uid[t] = 0, nChatTimes'[t] # 0
                 PROVE  \E d \in Conn : Runs(d, t)' /\ functor'[d].at \in {"kick", "set"}
      BY <1>b
    <3>1. CASE t = s
      BY <1>c, <1>s, <3>1 DEF Runs
    <3>2. CASE t # s
      <4>1. PICK d \in Conn : Runs(d, t) /\ functor[d].at \in {"kick", "set"}
        BY <1>a, <1>q, <3>2 DEF CountInv
      <4>2. d # c
        BY <1>b, <4>1
      <4> QED BY <1>c, <1>i, <4>1, <4>2
    <3> QED BY <3>1, <3>2
  <2>4. \A v \in Uid : \/ \E t \in Session : Holds(t, v)'
                       \/ \E i \in Pos, x \in RowQuery : Waits(queries'[v % NConn], i, x) /\ x.op = "update" /\ x.uid = v
                       \/ IF chattest'[v] = <<>> THEN said'[v] = 0 ELSE chattest'[v][1] = said'[v]
    <3> TAKE v \in Uid
    <3>1. v % NConn \in Conn
      BY ConnOfUid
    <3> QED BY <1>a, <1>b, <1>g, <1>k, <3>1 DEF CountInv
  <2> QED BY <1>b, <2>2, <2>3, <2>4 DEF CountInv
<1>8. FiledInv'
  <2>1. \A v \in Uid : m_allEntity'[v] # None => Wish(m_allEntity[v])' = v
    BY <1>a, <1>b, <1>j DEF FiledInv, ChatTypeInv
  <2>2. \A t \in Session : LoggedIn(t)' => LoggedIn(t)
    BY <1>b, <1>c DEF LoggedIn, Online, Running
  <2>3. PlayersAreFiled'
    BY <1>a, <1>b, <2>2 DEF FiledInv, PlayersAreFiled
  <2> QED BY <1>b, <2>1, <2>3 DEF FiledInv
<1> QED BY <1>1, <1>2, <1>3, <1>4, <1>5, <1>6, <1>7, <1>8 DEF ChatInv

\* The earlier session with the uid is sent away.
LEMMA KickOldKeeps ==
    ASSUME ChatInv, NEW c \in Conn, kickOld(c)
    PROVE  ChatInv'
<1>a. ChatTypeInv /\ WishInv /\ SelectInv /\ UpdateInv /\ LastInv /\ FunctorInv /\ CountInv /\ FiledInv
  BY DEF ChatInv
<1>b. functor[c].at = "kick" /\ UNCHANGED <<client, m_uid, nChatTimes, chattest, queries, asked, said>>
  BY DEF kickOld, Goes
<1>c. /\ functor' \in [Conn -> {Idle} \cup Login] /\ functor[c] # Idle /\ functor'[c] # Idle
      /\ functor'[c].at = "set"
      /\ functor'[c].uid = functor[c].uid /\ functor'[c].entity = functor[c].entity
      /\ \A d \in Conn : d # c => functor'[d] = functor[d]
      /\ functor[c].entity \in Session /\ functor[c].uid \in Uid
      /\ functor[c].uid % NConn = c /\ Wish(functor[c].entity) = functor[c].uid
  <2>1. {"kick", "set"} \subseteq Stage /\ Goes(c, "kick", "set")
    BY DEF Stage, kickOld
  <2> QED BY <1>a, <2>1, NextStage
<1>s. PICK u \in Uid, s \in Session : u = functor[c].uid /\ s = functor[c].entity
  BY <1>c
<1>d. \/ m_allEntity[u] = None /\ UNCHANGED <<m_allEntity, m_session2entity, closing>>
      \/ /\ m_allEntity[u] # None /\ m_allEntity' = [m_allEntity EXCEPT ![u] = None]
         /\ m_session2entity' = m_session2entity \ {t \in {m_allEntity[u]} \ {None} : Online(t)}
         /\ closing' = closing \cup {t \in {m_allEntity[u]} : Online(t)}
  BY <1>s DEF kickOld, Del
<1>e. m_allEntity \in [Uid -> Session \cup {None}] /\ m_session2entity \subseteq Session /\ closing \subseteq Session
  BY <1>a DEF ChatTypeInv
<1>f. /\ m_allEntity' \in [Uid -> Session \cup {None}] /\ m_session2entity' \subseteq Session /\ closing' \subseteq Session
      /\ closing \subseteq closing' /\ \A v \in Uid : v # u => m_allEntity'[v] = m_allEntity[v]
      /\ m_allEntity'[u] = None /\ \A t \in m_session2entity : t # m_allEntity[u] => t \in m_session2entity'
  <2>1. CASE m_allEntity[u] = None /\ UNCHANGED <<m_allEntity, m_session2entity, closing>>
    BY <1>e, <2>1
  <2>2. CASE /\ m_allEntity[u] # None /\ m_allEntity' = [m_allEntity EXCEPT ![u] = None]
             /\ m_session2entity' = m_session2entity \ {t \in {m_allEntity[u]} \ {None} : Online(t)}
             /\ closing' = closing \cup {t \in {m_allEntity[u]} : Online(t)}
    BY <1>e, <2>2
  <2> QED BY <1>d, <2>1, <2>2
<1>i. \A d \in Conn, t \in Session : Runs(d, t)' <=> Runs(d, t)
  BY <1>c DEF Runs
<1>j. \A t \in Session : Wish(t)' = Wish(t)
  BY <1>b DEF Wish
<1>k. \A t \in Session, v \in Uid : Holds(t, v)' <=> Holds(t, v)
  BY <1>b DEF Holds
<1>l. \A v \in Uid : Rows(v)' <=> Rows(v)
  BY <1>b DEF Rows
<1>m. \A x \in RowQuery : x.entity \in Session /\ x.uid \in Uid
  BY DEF RowQuery
<1>1. ChatTypeInv'
  BY <1>a, <1>b, <1>c, <1>f DEF ChatTypeInv
<1>2. WishInv'
  BY <1>a, <1>b, <1>j DEF WishInv
<1>3. SelectInv'
  BY <1>a, <1>b, <1>i, <1>j, <1>m DEF SelectInv
<1>4. UpdateInv'
  <2>1. \A d \in Conn, i \in Pos, x \in RowQuery :
            Waits(queries[d], i, x) /\ x.op = "update" /\ functor'[d] # Idle /\ functor'[d].uid = x.uid => functor'[d].at = "add"
    BY <1>a, <1>b, <1>c DEF UpdateInv
  <2> QED BY <1>a, <1>b, <1>k, <1>m, <2>1 DEF UpdateInv
<1>5. LastInv'
  BY <1>a, <1>b, <1>i, <1>j DEF LastInv
<1>6. FunctorInv'
  <2> SUFFICES ASSUME NEW d \in Conn, functor'[d] # Idle
               PROVE  /\ functor'[d].uid % NConn = d /\ Wish(functor[d].entity)' = functor'[d].uid
                      /\ functor'[d].at = "add" <=> m_uid'[functor'[d].entity] # 0
                      /\ functor'[d].at \in {"loaded", "online"} =>
                             /\ functor'[d].result = <<>> => said'[functor'[d].uid] = 0
                             /\ functor'[d].result # <<>> => /\ functor'[d].result[1] = said'[functor'[d].uid]
                                                             /\ chattest'[functor'[d].uid] # <<>>
                      /\ functor'[d].at \in {"kick", "set"} =>
                             nChatTimes'[functor'[d].entity] = said'[functor'[d].uid] /\ Rows(functor[d].uid)'
    BY DEF FunctorInv
  <2>1. /\ functor[d] # Idle /\ functor'[d].entity = functor[d].entity /\ functor'[d].uid = functor[d].uid
        /\ \/ functor'[d] = functor[d]
           \/ functor'[d].at = "set" /\ functor[d].at = "kick"
    BY <1>b, <1>c
  <2>2. functor[d].entity \in Session /\ functor[d].uid \in Uid
    BY <1>a, <2>1, Busy
  <2>3. Wish(functor[d].entity)' = Wish(functor[d].entity) /\ (Rows(functor[d].uid)' <=> Rows(functor[d].uid))
    BY <1>b, <2>1 DEF Wish, Rows
  <2>4. /\ functor[d].uid % NConn = d /\ Wish(functor[d].entity) = functor[d].uid
        /\ functor[d].at = "add" <=> m_uid[functor[d].entity] # 0
        /\ functor[d].at \in {"loaded", "online"} =>
               /\ functor[d].result = <<>> => said[functor[d].uid] = 0
               /\ functor[d].result # <<>> => /\ functor[d].result[1] = said[functor[d].uid]
                                              /\ chattest[functor[d].uid] # <<>>
        /\ functor[d].at \in {"kick", "set"} =>
               nChatTimes[functor[d].entity] = said[functor[d].uid] /\ Rows(functor[d].uid)
    BY <1>a, <2>1 DEF FunctorInv
  <2> QED BY <1>b, <2>1, <2>3, <2>4
<1>7. CountInv'
  <2>1. \A t \in Session : m_uid[t] # 0 => (Rows(m_uid[t])' <=> Rows(m_uid[t]))
    BY <1>a, <1>b, <1>l DEF ChatTypeInv
  <2>2. \A d \in Conn : functor[d].at \in {"kick", "set"} => functor'[d].at \in {"kick", "set"}
    BY <1>b, <1>c
  <2> QED BY <1>a, <1>b, <1>i, <1>k, <2>1, <2>2 DEF CountInv
<1>8. FiledInv'
  <2>1. \A v \in Uid : m_allEntity'[v] # None => Wish(m_allEntity[v])' = v
    <3> SUFFICES ASSUME NEW v \in Uid, m_allEntity'[v] # None PROVE Wish(m_allEntity[v])' = v
      OBVIOUS
    <3>1. v # u /\ m_allEntity'[v] = m_allEntity[v]
      BY <1>f
    <3> QED BY <1>a, <1>b, <3>1 DEF FiledInv, Wish
  <2>2. PlayersAreFiled'
    <3> SUFFICES ASSUME NEW t \in Session, LoggedIn(t)' PROVE m_allEntity'[m_uid[t]] = t /\ t \in m_session2entity'
      BY <1>b DEF PlayersAreFiled
    <3>1. LoggedIn(t) /\ t # s
      BY <1>b, <1>c, <1>f, <1>s DEF LoggedIn, Online, Running
    <3>2. m_allEntity[m_uid[t]] = t /\ t \in m_session2entity
      BY <1>a, <3>1 DEF FiledInv, PlayersAreFiled
    <3>3. m_uid[t] \in Uid /\ Wish(t) = m_uid[t] /\ m_uid[t] # 0 /\ client[t] # "gone"
      BY <1>a, <3>1 DEF LoggedIn, Online, ChatTypeInv, WishInv
    <3>4. m_uid[t] # u
      BY <1>a, <1>c, <1>s, <3>1, <3>3, NobodyElse
    <3>5. m_allEntity[u] # t
      <4>1. t # None
        BY ChatAssumption
      <4> QED BY <1>a, <3>3, <3>4, <4>1 DEF FiledInv
    <3> QED BY <1>f, <3>2, <3>3, <3>4, <3>5
  <2> QED BY <1>b, <2>1, <2>2 DEF FiledInv
<1> QED BY <1>1, <1>2, <1>3, <1>4, <1>5, <1>6, <1>7, <1>8 DEF ChatInv

\* The entity takes its uid.
LEMMA SetUidKeeps ==
    ASSUME ChatInv, NEW c \in Conn, setUid(c)
    PROVE  ChatInv'
<1>a. ChatTypeInv /\ WishInv /\ SelectInv /\ UpdateInv /\ LastInv /\ FunctorInv /\ CountInv /\ FiledInv
  BY DEF ChatInv
<1>b. /\ functor[c].at = "set"
      /\ UNCHANGED <<client, nChatTimes, m_allEntity, m_session2entity, closing, chattest, queries, asked, said>>
  BY DEF setUid, Goes
<1>c. /\ functor' \in [Conn -> {Idle} \cup Login] /\ functor[c] # Idle /\ functor'[c] # Idle
      /\ functor'[c].at = "add"
      /\ functor'[c].uid = functor[c].uid /\ functor'[c].entity = functor[c].entity
      /\ \A d \in Conn : d # c => functor'[d] = functor[d]
      /\ functor[c].entity \in Session /\ functor[c].uid \in Uid
      /\ functor[c].uid % NConn = c /\ Wish(functor[c].entity) = functor[c].uid
      /\ \A d \in Conn : functor[d] # Idle /\ d # c => functor[d].entity # functor[c].entity
  <2>1. {"set", "add"} \subseteq Stage /\ Goes(c, "set", "add")
    BY DEF Stage, setUid
  <2> QED BY <1>a, <2>1, NextStage
<1>s. PICK u \in Uid, s \in Session : u = functor[c].uid /\ s = functor[c].entity
  BY <1>c
<1>d. m_uid' = [m_uid EXCEPT ![s] = u] /\ m_uid \in [Session -> Uid \cup {0}] /\ u # 0
  BY <1>a, <1>s, ChatAssumption DEF setUid, ChatTypeInv
<1>e. m_uid'[s] = u /\ \A t \in Session : t # s => m_uid'[t] = m_uid[t]
  BY <1>d
<1>f. m_uid[s] = 0 /\ Wish(s) = u /\ nChatTimes[s] = said[u] /\ Rows(u)
  BY <1>a, <1>b, <1>c, <1>s DEF FunctorInv
<1>i. \A d \in Conn, t \in Session : Runs(d, t)' <=> Runs(d, t)
  BY <1>c DEF Runs
<1>j. \A t \in Session : Wish(t)' = Wish(t)
  BY <1>b DEF Wish
<1>k. \A t \in Session, v \in Uid : Holds(t, v)' <=> Holds(t, v) \/ (t = s /\ v = u /\ client[s] # "gone")
  <2>1. \A v \in Uid : v # 0
    BY ChatAssumption
  <2> QED BY <1>b, <1>e, <1>f, <2>1 DEF Holds
<1>l. \A v \in Uid : Rows(v)' <=> Rows(v)
  BY <1>b DEF Rows
<1>m. \A x \in RowQuery : x.entity \in Session /\ x.uid \in Uid
  BY DEF RowQuery
<1>1. ChatTypeInv'
  <2>1. m_uid' \in [Session -> Uid \cup {0}]
    BY <1>d
  <2> QED BY <1>a, <1>b, <1>c, <2>1 DEF ChatTypeInv
<1>2. WishInv'
  BY <1>a, <1>b, <1>e, <1>f, <1>j DEF WishInv
<1>3. SelectInv'
  <2>1. \A d \in Conn, i \in Pos, x \in RowQuery : Waits(queries[d], i, x) /\ x.op = "select" => x.entity # s
    <3> SUFFICES ASSUME NEW d \in Conn, NEW i \in Pos, NEW x \in RowQuery, Waits(queries[d], i, x), x.op = "select", x.entity = s
                 PROVE  FALSE
      OBVIOUS
    <3>1. x.uid = u /\ x.uid % NConn = d /\ ~Runs(d, s)
      BY <1>a, <1>f DEF SelectInv
    <3> QED BY <1>c, <1>s, <3>1 DEF Runs
  <2> QED BY <1>a, <1>b, <1>e, <1>i, <1>j, <1>m, <2>1 DEF SelectInv
<1>4. UpdateInv'
  <2>1. \A d \in Conn, i \in Pos, x \in RowQuery :
            Waits(queries[d], i, x) /\ x.op = "update" /\ functor'[d] # Idle /\ functor'[d].uid = x.uid => functor'[d].at = "add"
    BY <1>a, <1>b, <1>c DEF UpdateInv
  <2>2. \A d \in Conn, i \in Pos, x \in RowQuery : Waits(queries[d], i, x) /\ x.op = "update" => x.uid # u
    <3>1. \A i \in Pos, x \in RowQuery : Waits(queries[c], i, x) /\ x.op = "update" => x.uid # u
      BY <1>a, <1>b, <1>c, <1>s, NoUpdate
    <3> QED BY <1>a, <1>c, <1>s, <3>1 DEF SelectInv
  <2> QED BY <1>a, <1>b, <1>k, <1>m, <2>1, <2>2 DEF UpdateInv
<1>5. LastInv'
  BY <1>a, <1>b, <1>i, <1>j DEF LastInv
<1>6. FunctorInv'
  <2> SUFFICES ASSUME NEW d \in Conn, functor'[d] # Idle
               PROVE  /\ functor'[d].uid % NConn = d /\ Wish(functor[d].entity)' = functor'[d].uid
                      /\ functor'[d].at = "add" <=> m_uid'[functor'[d].entity] # 0
                      /\ functor'[d].at \in {"loaded", "online"} =>
                             /\ functor'[d].result = <<>> => said'[functor'[d].uid] = 0
                             /\ functor'[d].result # <<>> => /\ functor'[d].result[1] = said'[functor'[d].uid]
                                                             /\ chattest'[functor'[d].uid] # <<>>
                      /\ functor'[d].at \in {"kick", "set"} =>
                             nChatTimes'[functor'[d].entity] = said'[functor'[d].uid] /\ Rows(functor[d].uid)'
    BY DEF FunctorInv
  <2>1. CASE d = c
    <3>1. functor'[c].uid = u /\ functor'[c].entity = s
      BY <1>c, <1>s
    <3>2. Wish(functor[c].entity)' = Wish(s)'
      BY <3>1 DEF Wish
    <3> QED BY <1>b, <1>c, <1>d, <1>e, <1>f, <1>j, <1>s, <2>1, <3>1, <3>2
  <2>2. CASE d # c
    <3>1. functor'[d] = functor[d] /\ functor[d].entity \in Session \ {s} /\ functor[d].uid \in Uid
      BY <1>a, <1>c, <1>s, <2>2, Busy
    <3>2. Wish(functor[d].entity)' = Wish(functor[d].entity) /\ (Rows(functor[d].uid)' <=> Rows(functor[d].uid))
      BY <1>b, <3>1 DEF Wish, Rows
    <3> QED BY <1>a, <1>b, <1>e, <3>1, <3>2 DEF FunctorInv
  <2> QED BY <2>1, <2>2
<1>7. CountInv'
  <2>1. \A t \in Session : m_uid'[t] # 0 => Rows(m_uid[t])' /\ (client'[t] # "gone" => nChatTimes'[t] = said'[m_uid'[t]])
    <3> SUFFICES ASSUME NEW t \in Session, m_uid'[t] # 0
                 PROVE  Rows(m_uid[t])' /\ (client[t] # "gone" => nChatTimes[t] = said[m_uid'[t]])
      BY <1>b
    <3>1. CASE t = s
      <4>1. Rows(m_uid[t])' <=> Rows(u)'
        BY <1>e, <3>1 DEF Rows
      <4> QED BY <1>e, <1>f, <1>l, <3>1, <4>1
    <3>2. CASE t # s
      <4>1. m_uid'[t] = m_uid[t] /\ m_uid[t] \in Uid
        BY <1>d, <1>e, <3>2
      <4>2. Rows(m_uid[t])' <=> Rows(m_uid[t])
        BY <1>b, <4>1 DEF Rows
      <4> QED BY <1>a, <4>1, <4>2 DEF CountInv
    <3> QED BY <3>1, <3>2
  <2>2. \A t \in Session : m_uid'[t] = 0 =>
            nChatTimes'[t] = 0 \/ \E d \in Conn : Runs(d, t)' /\ functor'[d].at \in {"kick", "set"}
    <3> SUFFICES ASSUME NEW t \in Session, m_uid'[t] = 0, nChatTimes[t] # 0
                 PROVE  \E d \in Conn : Runs(d, t)' /\ functor'[d].at \in {"kick", "set"}
      BY <1>b
    <3>1. t # s /\ m_uid[t] = 0
      BY <1>d, <1>e
    <3>2. PICK d \in Conn : Runs(d, t) /\ functor[d].at \in {"kick", "set"}
      BY <1>a, <3>1 DEF CountInv
    <3>3. d # c
      BY <1>s, <3>1, <3>2 DEF Runs
    <3> QED BY <1>c, <1>i, <3>2, <3>3
  <2>3. \A v \in Uid : \/ \E t \in Session : Holds(t, v)'
                       \/ \E i \in Pos, x \in RowQuery : Waits(queries'[v % NConn], i, x) /\ x.op = "update" /\ x.uid = v
                       \/ IF chattest'[v] = <<>> THEN said'[v] = 0 ELSE chattest'[v][1] = said'[v]
    BY <1>a, <1>b, <1>k DEF CountInv
  <2> QED BY <1>b, <2>1, <2>2, <2>3 DEF CountInv
<1>8. FiledInv'
  <2>1. \A v \in Uid : m_allEntity'[v] # None => Wish(m_allEntity[v])' = v
    BY <1>a, <1>b, <1>j DEF FiledInv, ChatTypeInv
  <2>2. PlayersAreFiled'
    <3> SUFFICES ASSUME NEW t \in Session, LoggedIn(t)' PROVE m_allEntity[m_uid'[t]] = t /\ t \in m_session2entity
      BY <1>b DEF PlayersAreFiled
    <3>1. t # s
      BY <1>c, <1>s DEF LoggedIn, Running
    <3>2. LoggedIn(t)
      BY <1>b, <1>c, <1>e, <3>1 DEF LoggedIn, Online, Running
    <3> QED BY <1>a, <1>e, <3>1, <3>2 DEF FiledInv, PlayersAreFiled
  <2> QED BY <1>b, <2>1, <2>2 DEF FiledInv
<1> QED BY <1>1, <1>2, <1>3, <1>4, <1>5, <1>6, <1>7, <1>8 DEF ChatInv

\* The entity is filed.
LEMMA AddKeeps ==
    ASSUME ChatInv, NEW c \in Conn, add(c)
    PROVE  ChatInv'
<1>a. ChatTypeInv /\ WishInv /\ SelectInv /\ UpdateInv /\ LastInv /\ FunctorInv /\ CountInv /\ FiledInv
  BY DEF ChatInv
<1>b. /\ functor[c].at = "add" /\ functor' = [functor EXCEPT ![c] = Idle]
      /\ UNCHANGED <<client, m_uid, nChatTimes, closing, chattest, queries, asked, said>>
  BY DEF add
<1>c. functor[c] # Idle
  BY <1>b DEF Idle
<1>d. /\ functor' \in [Conn -> {Idle} \cup Login] /\ functor'[c] = Idle
      /\ \A d \in Conn : d # c => functor'[d] = functor[d]
  BY <1>a, <1>b DEF ChatTypeInv
<1>s. PICK u \in Uid, s \in Session : u = functor[c].uid /\ s = functor[c].entity
  BY <1>a, <1>c, Busy
<1>e. m_uid[s] = u /\ Wish(s) = u
  BY <1>a, <1>b, <1>c, <1>s DEF FunctorInv, WishInv
<1>f. /\ m_allEntity' = [m_allEntity EXCEPT ![u] = s]
      /\ m_session2entity' = m_session2entity \cup {t \in {s} : Online(t)}
      /\ m_allEntity \in [Uid -> Session \cup {None}] /\ m_session2entity \subseteq Session
  BY <1>a, <1>e, <1>s DEF add, ChatTypeInv
<1>g. /\ m_allEntity' \in [Uid -> Session \cup {None}] /\ m_session2entity' \subseteq Session
      /\ m_allEntity'[u] = s /\ \A v \in Uid : v # u => m_allEntity'[v] = m_allEntity[v]
      /\ m_session2entity \subseteq m_session2entity' /\ (Online(s) => s \in m_session2entity')
  BY <1>f
<1>i. \A d \in Conn, t \in Session : Runs(d, t)' => Runs(d, t)
  BY <1>c, <1>d DEF Runs
<1>j. \A t \in Session : Wish(t)' = Wish(t)
  BY <1>b DEF Wish
<1>k. \A t \in Session, v \in Uid : Holds(t, v)' <=> Holds(t, v)
  BY <1>b DEF Holds
<1>l. \A v \in Uid : Rows(v)' <=> Rows(v)
  BY <1>b DEF Rows
<1>m. \A x \in RowQuery : x.entity \in Session /\ x.uid \in Uid
  BY DEF RowQuery
<1>1. ChatTypeInv'
  BY <1>a, <1>b, <1>d, <1>g DEF ChatTypeInv
<1>2. WishInv'
  BY <1>a, <1>b, <1>j DEF WishInv
<1>3. SelectInv'
  BY <1>a, <1>b, <1>i, <1>j, <1>m DEF SelectInv
<1>4. UpdateInv'
  <2>1. \A d \in Conn, i \in Pos, x \in RowQuery :
            Waits(queries[d], i, x) /\ x.op = "update" /\ functor'[d] # Idle /\ functor'[d].uid = x.uid => functor'[d].at = "add"
    BY <1>a, <1>d DEF UpdateInv
  <2> QED BY <1>a, <1>b, <1>k, <1>m, <2>1 DEF UpdateInv
<1>5. LastInv'
  BY <1>a, <1>b, <1>i, <1>j DEF LastInv
<1>6. FunctorInv'
  <2> SUFFICES ASSUME NEW d \in Conn, functor'[d] # Idle
               PROVE  /\ functor'[d].uid % NConn = d /\ Wish(functor[d].entity)' = functor'[d].uid
                      /\ functor'[d].at = "add" <=> m_uid'[functor'[d].entity] # 0
                      /\ functor'[d].at \in {"loaded", "online"} =>
                             /\ functor'[d].result = <<>> => said'[functor'[d].uid] = 0
                             /\ functor'[d].result # <<>> => /\ functor'[d].result[1] = said'[functor'[d].uid]
                                                             /\ chattest'[functor'[d].uid] # <<>>
                      /\ functor'[d].at \in {"kick", "set"} =>
                             nChatTimes'[functor'[d].entity] = said'[functor'[d].uid] /\ Rows(functor[d].uid)'
    BY DEF FunctorInv
  <2>1. functor[d] # Idle /\ functor'[d] = functor[d]
    BY <1>d
  <2>2. functor[d].entity \in Session /\ functor[d].uid \in Uid
    BY <1>a, <2>1, Busy
  <2>3. Wish(functor[d].entity)' = Wish(functor[d].entity) /\ (Rows(functor[d].uid)' <=> Rows(functor[d].uid))
    BY <1>b, <2>1 DEF Wish, Rows
  <2> QED BY <1>a, <1>b, <2>1, <2>3 DEF FunctorInv
<1>7. CountInv'
  <2>1. \A t \in Session : m_uid[t] # 0 => (Rows(m_uid[t])' <=> Rows(m_uid[t]))
    BY <1>a, <1>b, <1>l DEF ChatTypeInv
  <2>2. \A d \in Conn, t \in Session : Runs(d, t) /\ functor[d].at \in {"kick", "set"} =>
            Runs(d, t)' /\ functor'[d].at \in {"kick", "set"}
    BY <1>b, <1>d DEF Runs
  <2> QED BY <1>a, <1>b, <1>k, <2>1, <2>2 DEF CountInv
<1>8. FiledInv'
  <2>1. \A v \in Uid : m_allEntity'[v] # None => Wish(m_allEntity[v])' = v
    <3> SUFFICES ASSUME NEW v \in Uid, m_allEntity'[v] # None PROVE Wish(m_allEntity[v])' = v
      OBVIOUS
    <3>1. CASE v = u
      <4>1. Wish(m_allEntity[v])' = Wish(s)'
        BY <1>g, <3>1 DEF Wish
      <4> QED BY <1>e, <1>j, <3>1, <4>1
    <3>2. CASE v # u
      BY <1>a, <1>b, <1>g, <3>2 DEF FiledInv, Wish
    <3> QED BY <3>1, <3>2
  <2>2. PlayersAreFiled'
    <3> SUFFICES ASSUME NEW t \in Session, LoggedIn(t)' PROVE m_allEntity'[m_uid[t]] = t /\ t \in m_session2entity'
      BY <1>b DEF PlayersAreFiled
    <3>1. Online(t) /\ m_uid[t] # 0
      BY <1>b DEF LoggedIn, Online
    <3>2. CASE t = s
      BY <1>e, <1>g, <3>1, <3>2
    <3>3. CASE t # s
      <4>1. LoggedIn(t)
        BY <1>b, <1>d, <1>s, <3>3 DEF LoggedIn, Online, Running
      <4>2. m_uid[t] \in Uid /\ Wish(t) = m_uid[t] /\ client[t] # "gone"
        BY <1>a, <3>1 DEF ChatTypeInv, WishInv, Online
      <4>3. m_uid[t] # u
        BY <1>a, <1>c, <1>s, <3>1, <3>3, <4>2, NobodyElse
      <4> QED BY <1>a, <1>g, <4>1, <4>2, <4>3 DEF FiledInv, PlayersAreFiled
    <3> QED BY <3>2, <3>3
  <2> QED BY <1>b, <2>1, <2>2 DEF FiledInv
<1> QED BY <1>1, <1>2, <1>3, <1>4, <1>5, <1>6, <1>7, <1>8 DEF ChatInv

-----------------------------------------------------------------------------
\* At first nobody is there.
LEMMA ChatInitInv == ChatInit => ChatInv
<1> SUFFICES ASSUME ChatInit PROVE ChatInv
  OBVIOUS
<1>1. /\ client = [s \in Session |-> "out"] /\ m_uid = [s \in Session |-> 0]
      /\ nChatTimes = [s \in Session |-> 0]
      /\ m_allEntity = [u \in Uid |-> None] /\ m_session2entity = {} /\ closing = {}
      /\ chattest = [u \in Uid |-> <<>>]
      /\ queries = [c \in Conn |-> <<>>] /\ functor = [c \in Conn |-> Idle]
      /\ asked = [s \in Session |-> <<>>] /\ said = [u \in Uid \cup {0} |-> 0]
  BY DEF ChatInit
<1>2. 0 \in 0..MaxChats
  BY ChatAssumption
<1>3. \A s \in Session : Wish(s) = 0 /\ m_uid[s] = 0 /\ nChatTimes[s] = 0
  BY <1>1 DEF Wish
<1>4. \A c \in Conn, i \in Pos, x \in RowQuery : ~Waits(queries[c], i, x)
  BY <1>1 DEF Waits
<1>5. \A c \in Conn : functor[c] = Idle
  BY <1>1
<1>6. \A x \in RowQuery : x.entity \in Session /\ x.uid \in Uid
  BY DEF RowQuery
<1>7. ChatTypeInv
  <2>1. chattest \in [Uid -> Seq(0..MaxChats)] /\ queries \in [Conn -> Seq(RowQuery)]
    BY <1>1
  <2> QED BY <1>1, <1>2, <2>1 DEF ChatTypeInv
<1>8. WishInv
  BY <1>1, <1>3 DEF WishInv
<1>9. SelectInv /\ UpdateInv
  BY <1>4 DEF SelectInv, UpdateInv
<1>10. LastInv
  BY <1>3 DEF LastInv
<1>11. FunctorInv
  BY <1>5 DEF FunctorInv
<1>12. CountInv
  BY <1>1, <1>3 DEF CountInv
<1>13. FiledInv
  <2>1. \A s \in Session : ~LoggedIn(s)
    BY <1>3 DEF LoggedIn
  <2> QED BY <1>1, <2>1 DEF FiledInv, PlayersAreFiled
<1> QED BY <1>7, <1>8, <1>9, <1>10, <1>11, <1>12, <1>13 DEF ChatInv

\* A step keeps the invariant.
LEMMA ChatStepInv ==
    ASSUME ~Share, MaxLogins = 1
    PROVE  ChatInv /\ [ChatNext]_chatVars => ChatInv'
<1> SUFFICES ASSUME ChatInv, [ChatNext]_chatVars PROVE ChatInv'
  OBVIOUS
<1>1. CASE ChatNext
  <2>1. ASSUME NEW s \in Session, NEW uid \in Uid, handleLogin(s, uid) PROVE ChatInv'
    BY <2>1, LoginKeeps
  <2>2. ASSUME NEW s \in Session, handleChat(s) PROVE ChatInv'
    BY <2>2, ChatKeeps
  <2>3. ASSUME NEW s \in Session, processSessionOffline(s) PROVE ChatInv'
    BY <2>3, OfflineKeeps
  <2>4. ASSUME NEW s \in Session, handleLogout(s) PROVE ChatInv'
    BY <2>4, LogoutKeeps
  <2>5. ASSUME NEW c \in Conn, DbThread(c) PROVE ChatInv'
    BY <2>5, RunQueryKeeps, CheckSessionKeeps, LoadRowKeeps, KickOldKeeps, SetUidKeeps, AddKeeps DEF DbThread
  <2> QED BY <1>1, <2>1, <2>2, <2>3, <2>4, <2>5 DEF ChatNext
<1>2. CASE UNCHANGED chatVars
  <2>1. UNCHANGED <<client, m_uid, nChatTimes, m_allEntity, m_session2entity, closing,
                    chattest, queries, functor, asked, said>>
    BY <1>2 DEF chatVars
  <2> QED BY <2>1 DEF ChatInv, ChatTypeInv, WishInv, SelectInv, UpdateInv, LastInv, FunctorInv, CountInv, FiledInv,
                      PlayersAreFiled, LoggedIn, Online, Running, Wish, Runs, Holds, Rows
<1> QED BY <1>1, <1>2

\* What the invariant says of those who are logged in.
LEMMA ChatInvKnown == ChatInv => PlayersAreKnown
<1> SUFFICES ASSUME ChatInv PROVE PlayersAreKnown
  OBVIOUS
<1>1. ChatTypeInv /\ WishInv /\ CountInv /\ FiledInv
  BY DEF ChatInv
<1>2. \A s \in Session : m_uid[s] # 0 => m_uid[s] \in Range(asked[s])
  <2> SUFFICES ASSUME NEW s \in Session, m_uid[s] # 0 PROVE m_uid[s] \in Range(asked[s])
    OBVIOUS
  <2>1. m_uid[s] \in Uid /\ Wish(s) = m_uid[s]
    BY <1>1 DEF ChatTypeInv, WishInv
  <2> QED BY <1>1, <2>1, Wishes
<1>3. \A u \in Uid : Range(chattest[u]) \subseteq 0..MaxChats
  <2> SUFFICES ASSUME NEW u \in Uid PROVE Range(chattest[u]) \subseteq 0..MaxChats
    OBVIOUS
  <2>1. chattest[u] \in Seq(0..MaxChats)
    BY <1>1 DEF ChatTypeInv
  <2>2. DOMAIN chattest[u] = 1..Len(chattest[u]) /\ \A i \in 1..Len(chattest[u]) : chattest[u][i] \in 0..MaxChats
    BY <2>1, LenProperties, ElementOfSeq
  <2> QED BY <2>2 DEF Range
<1>4. \A c \in Conn : functor[c] = Idle \/ functor[c].at \in {"loaded", "online", "kick", "set", "add"}
  BY <1>1, Busy DEF Stage
<1>5. ChatTypeOK
  BY <1>1, <1>2, <1>3, <1>4 DEF ChatTypeOK, ChatTypeInv
<1>6. CountsAreKept
  <2>1. \A s \in Session : LoggedIn(s) => client[s] # "gone" /\ m_uid[s] # 0
    BY DEF LoggedIn, Online
  <2> QED BY <1>1, <2>1 DEF CountsAreKept, CountInv
<1> QED BY <1>1, <1>5, <1>6 DEF PlayersAreKnown, FiledInv

\* Whoever is logged in is filed and has his count, for any number of players, connections
\* and messages, as long as a client sends one login and no uid is used by two at a time.
THEOREM PlayersKnown ==
    ASSUME ~Share, MaxLogins = 1
    PROVE  ChatSpec => []PlayersAreKnown
<1>1. ChatInit => ChatInv
  BY ChatInitInv
<1>2. ChatInv /\ [ChatNext]_chatVars => ChatInv'
  BY ChatStepInv
<1>3. ChatInv => PlayersAreKnown
  BY ChatInvKnown
<1> QED BY <1>1, <1>2, <1>3, PTL DEF ChatSpec
=============================================================================
