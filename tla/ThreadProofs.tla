---------------------------- MODULE ThreadProofs ----------------------------
(***************************************************************************)
(* What is proved of the parts that threads share.                         *)
(*                                                                         *)
(* TimersAreServed of TimerService, and what CallbacksComeDue says of each *)
(* step, for any sets of timers and times.  The inductive invariant        *)
(* TimerInv says where the thread can be (RoundInv), that the map is in    *)
(* the order of its keys (Ordered), that a timer waits at one place, with  *)
(* entries of one time (OnceInv, EntryInv), until it is called (CallInv),  *)
(* and that, while nobody sets the clock, one that waits was not due when  *)
(* the round before began (DueInv).                                        *)
(*                                                                         *)
(* SharedOwnership of SmartPtr for any finite sets of SharedPtr and        *)
(* WeakPtr variables.  The inductive invariant PtrInv says what the two    *)
(* counts count (Strong, WeakHolders), what a copy or a lock() in progress *)
(* may rely on (CopyInv, LockInv, WeakMutexInv), and that at any time      *)
(* exactly one of three holds of the object (ObjectInv), and of RefData    *)
(* (RefDataInv): it has users, one variable is about to delete it, or it   *)
(* is deleted.                                                             *)
(*                                                                         *)
(* The invariants of TaskQueue for any number of producers, closers and    *)
(* posts, and that it runs its tasks in the order of posting.  The         *)
(* inductive invariant IInv adds to those that TLC checks which thread is  *)
(* in a critical section (MutexGuards), what the queue's thread may hold at *)
(* each label (BatchInv) and who waits for it once the flag is cleared     *)
(* (CloserInv).                                                            *)
(***************************************************************************)
EXTENDS TaskQueue, SmartPtr, TimerService, FiniteSetTheorems, SequenceTheorems, LogLemmas

\* TimerService: what is registered, and what the map keeps of it.
Entry == [timer : Timer, ms : Nat \ {0}, tmStart : Int, tmEnd : Int]
Item == [entry : Entry, key : Int]
ItemOf(e) == [entry |-> e, key |-> e.tmEnd]
Entries == Range(m_tmpRegisterfdList) \cup {x.entry : x \in Range(m_mapRegisterfdedStore)}

\* The thread goes through the map; a place of it has not been called in this round.
InRound == thread.at \in {"process", "again"}
Left(i) == i \in DOMAIN m_mapRegisterfdedStore /\ (InRound => i >= thread.it)

TimerTypeInv ==
    /\ m_runing \in BOOLEAN /\ stopper \in {"out", "join", "stopped"}
    /\ m_tmpRegisterfdList \in Seq(Entry) /\ m_mapRegisterfdedStore \in Seq(Item)
    /\ thread \in [at : {"wait", "add", "process", "again", "ended"}, curms : Int, it : Nat]
    /\ shift \in Int /\ sets \in Nat /\ real \in 0..MaxReal /\ slow \in 0..MaxSlow
    /\ since \in [Timer -> {None} \cup 0..MaxReal] /\ calls \in [Timer -> Nat]
    /\ \A t \in Timer : since[t] <= real

\* Where the thread can be.
RoundInv ==
    /\ thread.at = "add" => thread.it = 1
    /\ InRound => thread.it >= 1
    /\ InRound => thread.it <= Len(m_mapRegisterfdedStore) + 1
    /\ thread.at = "again" => /\ thread.it <= Len(m_mapRegisterfdedStore)
                              /\ m_mapRegisterfdedStore[thread.it].entry.timer \in Loop
    /\ thread.at = "ended" => ~m_runing
    /\ stopper = "stopped" => thread.at = "ended"

\* The map is in the order of its keys.
Ordered(map) == \A i, j \in DOMAIN map : i < j => map[i].key <= map[j].key

\* The entries of a timer are of its time.
EntryInv ==
    /\ \A e \in Entries : e.ms = e.tmEnd - e.tmStart /\ since[e.timer] # None
    /\ \A e, f \in Entries : e.timer = f.timer => e.ms = f.ms

\* A timer waits once.
Single(list) == \A i, j \in DOMAIN list : i # j => list[i].timer # list[j].timer
Apart(map) == \A i, j \in DOMAIN map : i # j => map[i].entry.timer # map[j].entry.timer
OnceInv ==
    /\ Single(m_tmpRegisterfdList)
    /\ \A i, j \in Nat : Left(i) /\ Left(j) /\ i # j =>
           m_mapRegisterfdedStore[i].entry.timer # m_mapRegisterfdedStore[j].entry.timer
    /\ \A e \in Range(m_tmpRegisterfdList), i \in Nat : Left(i) => e.timer # m_mapRegisterfdedStore[i].entry.timer

\* A timer waits until it is called, and is called again if it is a loop timer only.
CallInv ==
    /\ \A t \in Timer : since[t] = None => calls[t] = 0
    /\ \A t \in Once : calls[t] <= 1 /\ (calls[t] = 1 => ~Waiting(t))
    /\ m_runing => \A t \in Timer : since[t] # None => Waiting(t) \/ (t \in Once /\ calls[t] = 1)

\* The key is the time at which a timer should end; checkTimeout() may bring its end and its
\* start forward, to the time of a round in which it was registered.
Timely(e, key) == key = since[e.timer] + e.ms /\ e.tmEnd <= key /\ e.tmStart >= since[e.timer] - MaxSlow

\* While nobody sets the clock a timer that waits was not due when the round before began.
ListFrom == IF thread.at = "add" THEN real - slow - MaxSlow ELSE real - slow
MapFrom == IF thread.at = "wait" THEN real - slow ELSE real - slow - MaxSlow
DueInv == sets = 0 =>
    /\ shift = 0
    /\ thread.at \in {"add", "process", "again"} => thread.curms = real - slow
    /\ \A e \in Range(m_tmpRegisterfdList) : Timely(e, e.tmEnd) /\ (thread.at # "ended" => e.tmEnd > ListFrom)
    /\ \A i \in Nat : Left(i) =>
           /\ Timely(m_mapRegisterfdedStore[i].entry, m_mapRegisterfdedStore[i].key)
           /\ (thread.at # "ended" => m_mapRegisterfdedStore[i].key > MapFrom)

\* The inductive invariant.
TimerInv == TimerTypeInv /\ RoundInv /\ Ordered(m_mapRegisterfdedStore) /\ EntryInv /\ OnceInv /\ CallInv /\ DueInv

-----------------------------------------------------------------------------
(* TimerService: what insert() makes of the map. *)

\* The entries whose key is not greater are the first of the map.
LEMMA KeysBefore ==
    ASSUME NEW map \in Seq(Item), Ordered(map), NEW k \in Int
    PROVE  LET n == Cardinality({i \in DOMAIN map : map[i].key <= k})
           IN  /\ n \in 0..Len(map)
               /\ \A i \in 1..Len(map) : map[i].key <= k <=> i <= n
<1> DEFINE S == {i \in DOMAIN map : map[i].key <= k}
           T == {m \in Nat : m <= Len(map) => \A i \in 1..m : i \in S}
<1>1. Len(map) \in Nat /\ DOMAIN map = 1..Len(map) /\ \A i \in 1..Len(map) : map[i].key \in Int
  <2>1. Len(map) \in Nat /\ DOMAIN map = 1..Len(map) /\ \A i \in 1..Len(map) : map[i] \in Item
    OBVIOUS
  <2>2. \A x \in Item : x.key \in Int
    BY DEF Item
  <2> QED BY <2>1, <2>2
<1>2. \A i, j \in 1..Len(map) : i < j /\ j \in S => i \in S
  BY <1>1 DEF Ordered
<1>3. \E m \in 0..Len(map) : S = 1..m
  <2>1. CASE \A i \in 1..Len(map) : i \in S
    <3>1. S = 1..Len(map)
      BY <1>1, <2>1
    <3> QED BY <1>1, <3>1
  <2>2. CASE \E i \in 1..Len(map) : i \notin S
    <3> HIDE DEF S
    <3>1. 0 \in T
      BY <1>1
    <3>2. ~\A m \in Nat : m \in T => m + 1 \in T
      <4> SUFFICES ASSUME \A m \in Nat : m \in T => m + 1 \in T PROVE FALSE
        OBVIOUS
      <4>1. \A m \in Nat : m \in T
        <5> HIDE DEF T
        <5> QED BY <3>1, SetInduction
      <4> QED BY <1>1, <2>2, <4>1
    <3>3. PICK m \in Nat : m \in T /\ m + 1 \notin T
      BY <3>2
    <3>4. m + 1 <= Len(map) /\ m + 1 \notin S /\ \A i \in 1..m : i \in S
      BY <1>1, <3>3
    <3>5. \A i \in 1..Len(map) : i \in S <=> i \in 1..m
      BY <1>1, <1>2, <3>4
    <3>6. S = 1..m
      BY <1>1, <3>4, <3>5 DEF S
    <3> QED BY <1>1, <3>4, <3>6
  <2> QED BY <2>1, <2>2
<1>4. PICK m \in 0..Len(map) : S = 1..m
  BY <1>3
<1>5. Cardinality(1..m) = m
  <2>1. m \in Nat
    BY <1>1
  <2> QED BY <2>1, FS_Interval
<1>6. \A i \in 1..Len(map) : i \in S <=> i <= m
  <2> HIDE DEF S
  <2> QED BY <1>1, <1>4
<1>7. \A i \in 1..Len(map) : i \in S <=> map[i].key <= k
  BY <1>1
<1> QED BY <1>1, <1>4, <1>5, <1>6, <1>7

\* What is left of a sequence from a place on.
LEMMA FromPlace ==
    ASSUME NEW S, NEW s \in Seq(S), NEW k \in 1..Len(s) + 1
    PROVE  LET r == SubSeq(s, k, Len(s)) IN
           /\ r \in Seq(S) /\ Len(r) = Len(s) - k + 1
           /\ \A i \in 1..Len(s) - k + 1 : r[i] = s[k + i - 1]
<1> DEFINE n == Len(s)
           r == SubSeq(s, k, n)
<1>1. n \in Nat /\ k \in Int /\ k >= 1 /\ k <= n + 1 /\ \A i \in k..n : s[i] \in S
  OBVIOUS
<1>2. r \in Seq(S) /\ Len(r) = (IF k <= n THEN n - k + 1 ELSE 0) /\ \A i \in 1..n - k + 1 : r[i] = s[k + i - 1]
  <2> HIDE DEF n
  <2>1. n \in Int /\ k \in Int
    BY <1>1
  <2> QED BY <1>1, <2>1, SubSeqProperties
<1>3. (IF k <= n THEN n - k + 1 ELSE 0) = n - k + 1
  <2> HIDE DEF n
  <2> QED BY <1>1
<1> QED BY <1>2, <1>3

\* One entry comes in, the others keep their order.
LEMMA InsertOne ==
    ASSUME NEW map \in Seq(Item), Ordered(map), NEW e \in Entry
    PROVE  /\ insert(map, e) \in Seq(Item) /\ Ordered(insert(map, e))
           /\ Range(insert(map, e)) = Range(map) \cup {ItemOf(e)}
           /\ Apart(map) /\ (\A x \in Range(map) : x.entry.timer # e.timer) => Apart(insert(map, e))
<1> DEFINE n == Cardinality({i \in DOMAIN map : map[i].key <= e.tmEnd})
           x == ItemOf(e)
           r == insert(map, e)
<1>1. Len(map) \in Nat /\ DOMAIN map = 1..Len(map) /\ e.tmEnd \in Int /\ x \in Item /\ x.key = e.tmEnd /\ x.entry = e
  BY DEF Item, ItemOf, Entry
<1>2. n \in 0..Len(map) /\ \A i \in 1..Len(map) : map[i].key <= e.tmEnd <=> i <= n
  BY <1>1, KeysBefore
<1>3. r = SubSeq(map, 1, n) \o <<x>> \o SubSeq(map, n + 1, Len(map))
  <2>1. r = InsertAt(map, n + 1, x)
    BY DEF insert, ItemOf
  <2>2. (n + 1) - 1 = n
    BY <1>1, <1>2
  <2> HIDE DEF n, x, r
  <2> QED BY <2>1, <2>2 DEF InsertAt
<1> HIDE DEF n, x, r
<1>4. /\ SubSeq(map, 1, n) \in Seq(Item) /\ Len(SubSeq(map, 1, n)) = n
      /\ \A i \in 1..n : SubSeq(map, 1, n)[i] = map[i]
  BY <1>1, <1>2, SubSeqProperties
<1>5. /\ SubSeq(map, n + 1, Len(map)) \in Seq(Item) /\ Len(SubSeq(map, n + 1, Len(map))) = Len(map) - n
      /\ \A i \in 1..Len(map) - n : SubSeq(map, n + 1, Len(map))[i] = map[n + i]
  <2>1. n + 1 \in 1..Len(map) + 1 /\ Len(map) - (n + 1) + 1 = Len(map) - n
    BY <1>1, <1>2
  <2>2. \A i \in 1..Len(map) - n : (n + 1) + i - 1 = n + i
    BY <1>1, <1>2
  <2> QED BY <2>1, <2>2, FromPlace
<1>6. <<x>> \in Seq(Item) /\ Len(<<x>>) = 1 /\ <<x>>[1] = x
  BY <1>1
<1>7. /\ r \in Seq(Item) /\ Len(r) = Len(map) + 1
      /\ \A i \in 1..Len(map) + 1 : r[i] = IF i <= n THEN map[i] ELSE IF i = n + 1 THEN x ELSE map[i - 1]
  <2> DEFINE a == SubSeq(map, 1, n)
             c == SubSeq(map, n + 1, Len(map))
             b == <<x>>
  <2> HIDE DEF a, b, c
  <2>1. r = (a \o b) \o c
    BY <1>3 DEF a, b, c
  <2>2. /\ a \o b \in Seq(Item) /\ Len(a \o b) = n + 1
        /\ \A i \in 1..n + 1 : (a \o b)[i] = IF i <= n THEN a[i] ELSE b[i - n]
    BY <1>2, <1>4, <1>6, ConcatProperties DEF a, b
  <2>3. /\ r \in Seq(Item) /\ Len(r) = Len(map) + 1
        /\ \A i \in 1..Len(map) + 1 : r[i] = IF i <= n + 1 THEN (a \o b)[i] ELSE c[i - (n + 1)]
    <3>1. (a \o b) \o c \in Seq(Item) /\ Len((a \o b) \o c) = (n + 1) + (Len(map) - n)
      BY <1>1, <1>2, <1>5, <2>2, ConcatProperties DEF c
    <3>2. \A i \in 1..(n + 1) + (Len(map) - n) :
              ((a \o b) \o c)[i] = IF i <= n + 1 THEN (a \o b)[i] ELSE c[i - (n + 1)]
      <4> DEFINE d == a \o b
      <4>1. d \in Seq(Item) /\ c \in Seq(Item) /\ Len(d) = n + 1 /\ Len(c) = Len(map) - n
        BY <1>5, <2>2 DEF c
      <4> HIDE DEF d
      <4>2. \A i \in 1..Len(d) + Len(c) : (d \o c)[i] = IF i <= Len(d) THEN d[i] ELSE c[i - Len(d)]
        BY <4>1, ConcatProperties
      <4> QED BY <4>1, <4>2 DEF d
    <3>3. (n + 1) + (Len(map) - n) = Len(map) + 1
      BY <1>1, <1>2
    <3> QED BY <2>1, <3>1, <3>2, <3>3
  <2> SUFFICES ASSUME NEW i \in 1..Len(map) + 1
               PROVE  r[i] = IF i <= n THEN map[i] ELSE IF i = n + 1 THEN x ELSE map[i - 1]
    BY <2>3
  <2>4. CASE i <= n
    <3>1. i \in 1..n /\ i \in 1..n + 1 /\ i <= n + 1
      BY <1>1, <1>2, <2>4
    <3> QED BY <1>4, <2>2, <2>3, <2>4, <3>1 DEF a
  <2>5. CASE i = n + 1
    <3>1. i \in 1..n + 1 /\ i <= n + 1 /\ ~(i <= n) /\ i - n = 1
      BY <1>1, <1>2, <2>5
    <3> QED BY <1>6, <2>2, <2>3, <2>5, <3>1 DEF b
  <2>6. CASE i > n + 1
    <3>1. i - (n + 1) \in 1..Len(map) - n /\ n + (i - (n + 1)) = i - 1 /\ ~(i <= n) /\ ~(i <= n + 1) /\ i # n + 1
      BY <1>1, <1>2, <2>6
    <3> QED BY <1>5, <2>3, <3>1 DEF c
  <2> QED BY <1>1, <1>2, <2>4, <2>5, <2>6
\* Every place is that of the new entry or of one that was there.
<1> DEFINE P(i) == IF i <= n THEN i ELSE i - 1
<1>8. \A i \in 1..Len(map) + 1 : i # n + 1 => P(i) \in 1..Len(map) /\ r[i] = map[P(i)]
  BY <1>1, <1>2, <1>7
<1>9. \A i, j \in 1..Len(map) + 1 : i # n + 1 /\ j # n + 1 => (i = j <=> P(i) = P(j)) /\ (i < j <=> P(i) < P(j))
  BY <1>1, <1>2
<1>10. \A j \in 1..Len(map) : \E i \in 1..Len(map) + 1 : i # n + 1 /\ P(i) = j
  <2> TAKE j \in 1..Len(map)
  <2>1. CASE j <= n
    <3>1. j \in 1..Len(map) + 1 /\ j # n + 1 /\ P(j) = j
      BY <1>1, <1>2, <2>1
    <3> QED BY <3>1
  <2>2. CASE ~(j <= n)
    <3>1. j + 1 \in 1..Len(map) + 1 /\ j + 1 # n + 1 /\ P(j + 1) = j
      BY <1>1, <1>2, <2>2
    <3> QED BY <3>1
  <2> QED BY <2>1, <2>2
<1>11. n + 1 \in 1..Len(map) + 1 /\ r[n + 1] = x /\ DOMAIN r = 1..Len(map) + 1
  <2>1. n + 1 \in 1..Len(map) + 1 /\ ~(n + 1 <= n)
    BY <1>1, <1>2
  <2>2. DOMAIN r = 1..Len(r)
    BY <1>7
  <2> QED BY <1>7, <2>1, <2>2
<1>12. Range(r) = Range(map) \cup {x}
  <2>1. \A y \in Range(r) : y \in Range(map) \cup {x}
    BY <1>1, <1>8, <1>11 DEF Range
  <2>2. \A y \in Range(map) : y \in Range(r)
    <3> SUFFICES ASSUME NEW j \in 1..Len(map) PROVE map[j] \in Range(r)
      BY <1>1 DEF Range
    <3>1. PICK i \in 1..Len(map) + 1 : i # n + 1 /\ P(i) = j
      BY <1>10
    <3>2. r[i] = map[j]
      BY <1>8, <3>1
    <3> HIDE DEF P
    <3> QED BY <1>11, <3>1, <3>2 DEF Range
  <2>3. x \in Range(r)
    BY <1>11 DEF Range
  <2> QED BY <2>1, <2>2, <2>3
<1>13. \A i \in 1..Len(map) + 1 : i # n + 1 => (r[i].key <= x.key <=> i < n + 1) /\ r[i].key \in Int
  <2> SUFFICES ASSUME NEW i \in 1..Len(map) + 1, i # n + 1
               PROVE  (r[i].key <= x.key <=> i < n + 1) /\ r[i].key \in Int
    OBVIOUS
  <2>1. P(i) \in 1..Len(map) /\ r[i] = map[P(i)] /\ map[P(i)] \in Item
    BY <1>1, <1>8
  <2>2. map[P(i)].key <= x.key <=> P(i) <= n
    BY <1>1, <1>2, <2>1
  <2>3. P(i) <= n <=> i < n + 1
    BY <1>1, <1>2
  <2> HIDE DEF P
  <2> QED BY <2>1, <2>2, <2>3 DEF Item
<1>14. Ordered(r)
  <2> SUFFICES ASSUME NEW i \in 1..Len(map) + 1, NEW j \in 1..Len(map) + 1, i < j PROVE r[i].key <= r[j].key
    BY <1>11 DEF Ordered
  <2>1. CASE i # n + 1 /\ j # n + 1
    <3>1. P(i) \in DOMAIN map /\ P(j) \in DOMAIN map /\ P(i) < P(j) /\ r[i] = map[P(i)] /\ r[j] = map[P(j)]
      BY <1>1, <1>8, <1>9, <2>1
    <3> HIDE DEF P
    <3> QED BY <3>1 DEF Ordered
  <2>2. CASE i = n + 1
    <3>1. j # n + 1 /\ ~(j < n + 1)
      BY <1>2, <2>2
    <3> QED BY <1>1, <1>11, <1>13, <2>2, <3>1
  <2>3. CASE j = n + 1
    BY <1>11, <1>13, <2>3
  <2> QED BY <2>1, <2>2, <2>3
<1>15. Apart(map) /\ (\A y \in Range(map) : y.entry.timer # e.timer) => Apart(r)
  <2> SUFFICES ASSUME Apart(map), \A y \in Range(map) : y.entry.timer # e.timer,
                      NEW i \in 1..Len(map) + 1, NEW j \in 1..Len(map) + 1, i # j
               PROVE  r[i].entry.timer # r[j].entry.timer
    BY <1>11 DEF Apart
  <2>1. \A k \in 1..Len(map) + 1 : k # n + 1 => r[k].entry.timer # e.timer
    <3> SUFFICES ASSUME NEW k \in 1..Len(map) + 1, k # n + 1 PROVE r[k].entry.timer # e.timer
      OBVIOUS
    <3>1. P(k) \in 1..Len(map) /\ r[k] = map[P(k)]
      BY <1>8
    <3> HIDE DEF P
    <3>2. map[P(k)] \in Range(map)
      BY <1>1, <3>1 DEF Range
    <3> QED BY <3>1, <3>2
  <2>2. CASE i # n + 1 /\ j # n + 1
    <3>1. P(i) \in DOMAIN map /\ P(j) \in DOMAIN map /\ P(i) # P(j) /\ r[i] = map[P(i)] /\ r[j] = map[P(j)]
      BY <1>1, <1>8, <1>9, <2>2
    <3> HIDE DEF P
    <3> QED BY <3>1 DEF Apart
  <2>3. CASE i = n + 1
    BY <1>1, <1>11, <2>1, <2>3
  <2>4. CASE j = n + 1
    BY <1>1, <1>11, <2>1, <2>4
  <2> QED BY <2>2, <2>3, <2>4
<1> QED BY <1>7, <1>12, <1>14, <1>15 DEF r, x

\* addNewTimer() leaves the map in order, with an item more for each entry of the list.
LEMMA InsertAll ==
    ASSUME NEW map \in Seq(Item), Ordered(map), Apart(map), NEW list \in Seq(Entry), Single(list),
           \A e \in Range(list), y \in Range(map) : e.timer # y.entry.timer
    PROVE  /\ insertAll(map, list) \in Seq(Item) /\ Ordered(insertAll(map, list)) /\ Apart(insertAll(map, list))
           /\ Range(insertAll(map, list)) = Range(map) \cup {ItemOf(e) : e \in Range(list)}
<1> DEFINE n == Len(list)
           Fun(f) == f = [k \in 0..n |-> IF k = 0 THEN map ELSE insert(f[k - 1], list[k])]
           after == CHOOSE f : Fun(f)
           Good(k, m) == /\ m \in Seq(Item) /\ Ordered(m) /\ Apart(m)
                         /\ Range(m) = Range(map) \cup {ItemOf(list[i]) : i \in 1..k}
<1>1. n \in Nat /\ DOMAIN list = 1..n /\ \A i \in 1..n : list[i] \in Entry /\ list[i] \in Range(list)
  BY DEF Range
<1>2. Good(0, map)
  <2>1. {ItemOf(list[i]) : i \in 1..0} = {}
    OBVIOUS
  <2> QED BY <2>1
<1>3. ASSUME NEW k \in Nat, k + 1 <= n, NEW m, Good(k, m) PROVE Good(k + 1, insert(m, list[k + 1]))
  <2> DEFINE e == list[k + 1]
  <2>1. k + 1 \in 1..n /\ e \in Entry /\ e \in Range(list)
    <3>1. k + 1 \in 1..n
      BY <1>1, <1>3
    <3> QED BY <1>1, <3>1
  <2>2. \A y \in Range(m) : y.entry.timer # e.timer
    <3> SUFFICES ASSUME NEW y \in Range(m) PROVE y.entry.timer # e.timer
      OBVIOUS
    <3>1. CASE y \in Range(map)
      BY <2>1, <3>1
    <3>2. CASE \E i \in 1..k : y = ItemOf(list[i])
      <4>1. PICK i \in 1..k : y = ItemOf(list[i])
        BY <3>2
      <4>2. y.entry = list[i]
        BY <4>1 DEF ItemOf
      <4>3. i \in DOMAIN list /\ k + 1 \in DOMAIN list /\ i # k + 1
        BY <1>1, <2>1
      <4> QED BY <4>2, <4>3 DEF Single
    <3> QED BY <1>3, <3>1, <3>2
  <2> DEFINE r == insert(m, e)
  <2>3. r \in Seq(Item) /\ Ordered(r) /\ Apart(r) /\ Range(r) = Range(m) \cup {ItemOf(e)}
    <3> HIDE DEF e
    <3> QED BY <1>3, <2>1, <2>2, InsertOne
  <2>4. {ItemOf(list[i]) : i \in 1..k} \cup {ItemOf(e)} = {ItemOf(list[i]) : i \in 1..k + 1}
    <3>1. 1..k + 1 = (1..k) \cup {k + 1}
      OBVIOUS
    <3> QED BY <3>1
  <2> HIDE DEF r, e
  <2>5. Range(r) = Range(map) \cup {ItemOf(list[i]) : i \in 1..k + 1}
    BY <1>3, <2>3, <2>4
  <2> QED BY <2>3, <2>5 DEF r, e
<1>4. Fun(after)
  <2> DEFINE V == {m \in Seq(Item) : Ordered(m)}
             step == [k \in 1..n |-> [m \in V |-> insert(m, list[k])]]
  <2>1. \A k \in 1..n, m \in V : step[k][m] = insert(m, list[k]) /\ step[k][m] \in V
    <3> SUFFICES ASSUME NEW k \in 1..n, NEW m \in V PROVE step[k][m] = insert(m, list[k]) /\ step[k][m] \in V
      OBVIOUS
    <3>1. m \in Seq(Item) /\ Ordered(m) /\ list[k] \in Entry
      BY <1>1
    <3>2. insert(m, list[k]) \in V
      BY <3>1, InsertOne
    <3> HIDE DEF V
    <3>3. step[k][m] = insert(m, list[k])
      OBVIOUS
    <3> QED BY <3>2, <3>3
  <2>2. map \in V
    OBVIOUS
  <2> HIDE DEF V, step
  <2>3. PICK f : f \in [0..n -> V] /\ Iterates(f, map, step, n)
    BY <1>1, <2>1, <2>2, IterationExists
  <2>4. \A k \in 0..n : f[k] = IF k = 0 THEN map ELSE insert(f[k - 1], list[k])
    <3> SUFFICES ASSUME NEW k \in 0..n, k # 0 PROVE f[k] = insert(f[k - 1], list[k])
      BY <2>3 DEF Iterates
    <3>1. k \in 1..n /\ k - 1 \in 0..n
      BY <1>1
    <3> QED BY <2>1, <2>3, <3>1 DEF Iterates
  <2>5. Fun(f)
    <3>1. f = [k \in 0..n |-> f[k]]
      BY <2>3
    <3> QED BY <2>4, <3>1
  <2> HIDE DEF Fun
  <2> QED BY <2>5
<1>5. insertAll(map, list) = after[n]
  BY DEF insertAll
<1> DEFINE Reached == {k \in Nat : k <= n => Good(k, after[k])}
<1> HIDE DEF after, Good
<1>6. 0 \in Reached
  BY <1>1, <1>2, <1>4
<1>7. ASSUME NEW k \in Nat, k \in Reached PROVE k + 1 \in Reached
  <2> SUFFICES ASSUME k + 1 <= n PROVE Good(k + 1, after[k + 1])
    OBVIOUS
  <2>1. Good(k, after[k])
    BY <1>1, <1>7
  <2>2. after[k + 1] = insert(after[k], list[k + 1])
    <3> HIDE DEF Reached, n
    <3>1. n \in Nat
      BY <1>1
    <3>2. k + 1 \in 0..n /\ k + 1 # 0 /\ (k + 1) - 1 = k
      BY <3>1
    <3> QED BY <1>4, <3>2
  <2> QED BY <1>3, <2>1, <2>2
<1>8. \A k \in Nat : k \in Reached
  <2> HIDE DEF Reached
  <2> QED BY <1>6, <1>7, SetInduction
<1>9. Good(n, insertAll(map, list))
  BY <1>1, <1>5, <1>8
<1>10. {ItemOf(list[i]) : i \in 1..n} = {ItemOf(e) : e \in Range(list)}
  BY <1>1 DEF Range
<1> QED BY <1>9, <1>10 DEF Good

\* What is registered comes to the end of the list.
LEMMA Appended ==
    ASSUME NEW list \in Seq(Entry), NEW e \in Entry
    PROVE  /\ Append(list, e) \in Seq(Entry) /\ Range(Append(list, e)) = Range(list) \cup {e}
           /\ Single(list) /\ (\A f \in Range(list) : f.timer # e.timer) => Single(Append(list, e))
<1> DEFINE n == Len(list)
           r == Append(list, e)
<1>1. n \in Nat /\ DOMAIN list = 1..n /\ \A i \in 1..n : list[i] \in Range(list)
  BY DEF Range
<1>2. /\ r \in Seq(Entry) /\ DOMAIN r = 1..n + 1 /\ r[n + 1] = e /\ \A i \in 1..n : r[i] = list[i]
  BY <1>1
<1> HIDE DEF r
<1>3. Range(r) = Range(list) \cup {e}
  BY <1>1, <1>2 DEF Range
<1>4. \A i \in 1..n + 1 : i = n + 1 \/ i \in 1..n
  BY <1>1
<1>5. Single(list) /\ (\A f \in Range(list) : f.timer # e.timer) => Single(r)
  BY <1>1, <1>2, <1>4 DEF Single
<1> QED BY <1>2, <1>3, <1>5 DEF r

-----------------------------------------------------------------------------
(* TimerService: the types, and what waits. *)

\* The bounds are numbers.
LEMMA TimerBounds == MaxReal \in Nat /\ MaxSlow \in Nat /\ Once \cap Loop = {} /\ None = -1
BY TimerAssumption DEF None

\* The fields of an entry, and of an item of the map.
LEMMA EntryFields ==
    \A e \in Entry : e.timer \in Timer /\ e.ms \in Nat \ {0} /\ e.tmStart \in Int /\ e.tmEnd \in Int
BY DEF Entry

LEMMA ItemFields == \A y \in Item : y.entry \in Entry /\ y.key \in Int
BY DEF Item

\* What stands in the list and in the map is an entry.
LEMMA EntriesType ==
    ASSUME TimerTypeInv
    PROVE  /\ Range(m_tmpRegisterfdList) \subseteq Entries /\ Entries \subseteq Entry
           /\ \A i \in DOMAIN m_mapRegisterfdedStore : m_mapRegisterfdedStore[i] \in Item /\ m_mapRegisterfdedStore[i] \in Range(m_mapRegisterfdedStore) /\ m_mapRegisterfdedStore[i].entry \in Entries
           /\ Len(m_mapRegisterfdedStore) \in Nat /\ DOMAIN m_mapRegisterfdedStore = 1..Len(m_mapRegisterfdedStore)
<1>1. m_tmpRegisterfdList \in Seq(Entry) /\ m_mapRegisterfdedStore \in Seq(Item)
  BY DEF TimerTypeInv
<1>2. Len(m_mapRegisterfdedStore) \in Nat /\ DOMAIN m_mapRegisterfdedStore = 1..Len(m_mapRegisterfdedStore) /\ \A i \in DOMAIN m_mapRegisterfdedStore : m_mapRegisterfdedStore[i] \in Item
  BY <1>1
<1>3. Range(m_tmpRegisterfdList) \subseteq Entry
  BY <1>1 DEF Range
<1>4. Range(m_mapRegisterfdedStore) \subseteq Item /\ \A i \in DOMAIN m_mapRegisterfdedStore : m_mapRegisterfdedStore[i] \in Range(m_mapRegisterfdedStore)
  BY <1>2 DEF Range
<1>5. \A y \in Range(m_mapRegisterfdedStore) : y.entry \in Entry /\ y.entry \in Entries
  BY <1>4, ItemFields DEF Entries
<1> QED BY <1>2, <1>3, <1>4, <1>5 DEF Entries

\* A place that is left is one of the map.
LEMMA LeftPlace ==
    ASSUME TimerTypeInv, NEW i \in Nat, Left(i)
    PROVE  /\ i \in DOMAIN m_mapRegisterfdedStore /\ m_mapRegisterfdedStore[i] \in Item /\ m_mapRegisterfdedStore[i].entry \in Entries /\ m_mapRegisterfdedStore[i].entry \in Entry
           /\ m_mapRegisterfdedStore[i].entry.timer \in Timer /\ m_mapRegisterfdedStore[i].key \in Int
BY EntriesType, ItemFields, EntryFields DEF Left

\* A timer waits in the list or at a place that is left.
WaitsAt(t) == \/ \E e \in Range(m_tmpRegisterfdList) : e.timer = t
              \/ \E i \in Nat : Left(i) /\ m_mapRegisterfdedStore[i].entry.timer = t

\* So Waiting says it, now and in the next state.
LEMMA WhereItWaits == TimerTypeInv => \A t : Waiting(t) <=> WaitsAt(t)
<1> SUFFICES ASSUME TimerTypeInv, NEW t PROVE Waiting(t) <=> WaitsAt(t)
  OBVIOUS
<1>1. DOMAIN m_mapRegisterfdedStore \subseteq Nat
  BY EntriesType
<1>2. (\E i \in DOMAIN m_tmpRegisterfdList : m_tmpRegisterfdList[i].timer = t) <=> \E e \in Range(m_tmpRegisterfdList) : e.timer = t
  BY DEF Range
<1> QED BY <1>1, <1>2 DEF Waiting, WaitsAt, Left, InRound

LEMMA WhereItWaitsNext == TimerTypeInv' => \A t : Waiting(t)' <=> WaitsAt(t)'
<1>1. (TimerTypeInv => \A t : Waiting(t) <=> WaitsAt(t))'
  BY WhereItWaits, PTL
<1> QED BY <1>1

\* What does not look at the time stays as it is while nothing is moved.
LEMMA NothingMoved ==
    ASSUME TimerInv, UNCHANGED <<m_tmpRegisterfdList, m_mapRegisterfdedStore, thread, since, calls>>, m_runing' => m_runing
    PROVE  Ordered(m_mapRegisterfdedStore)' /\ EntryInv' /\ OnceInv' /\ CallInv'
<1>1. Ordered(m_mapRegisterfdedStore)'
  BY DEF TimerInv, Ordered
<1>2. Entries' = Entries
  BY DEF Entries
<1>3. EntryInv'
  BY <1>2 DEF TimerInv, EntryInv
<1>4. \A i : Left(i)' <=> Left(i)
  BY DEF Left, InRound
<1>5. OnceInv'
  BY <1>4 DEF TimerInv, OnceInv, Single
<1>6. \A t : Waiting(t)' <=> Waiting(t)
  BY DEF Waiting
<1>7. CallInv'
  BY <1>6 DEF TimerInv, CallInv
<1> QED BY <1>1, <1>3, <1>5, <1>7

-----------------------------------------------------------------------------
(* TimerService: the steps. *)

\* A step that leaves the timers alone.
LEMMA TimerStutter ==
    ASSUME TimerInv, UNCHANGED timerVars
    PROVE  TimerInv'
<1> USE DEF timerVars, serviceVars, timeVars
<1>1. Ordered(m_mapRegisterfdedStore)' /\ EntryInv' /\ OnceInv' /\ CallInv'
  BY NothingMoved
<1>2. TimerTypeInv' /\ RoundInv'
  BY DEF TimerInv, TimerTypeInv, RoundInv, InRound
<1>3. DueInv'
  <2>1. \A i : Left(i)' <=> Left(i)
    BY DEF Left, InRound
  <2>2. ListFrom' = ListFrom /\ MapFrom' = MapFrom
    BY DEF ListFrom, MapFrom
  <2>3. DueInv
    BY DEF TimerInv
  <2> QED BY <2>1, <2>2, <2>3 DEF DueInv, Timely
<1> QED BY <1>1, <1>2, <1>3 DEF TimerInv

\* Time passes: the time at which the round began stays.
LEMMA TickKeeps ==
    ASSUME TimerInv, Tick
    PROVE  TimerInv'
<1> USE DEF serviceVars
<1>t. TimerTypeInv
  BY DEF TimerInv
<1>1. Ordered(m_mapRegisterfdedStore)' /\ EntryInv' /\ OnceInv' /\ CallInv'
  BY NothingMoved DEF Tick
<1>2. real \in Int /\ slow \in Int /\ real' = real + 1 /\ slow' = slow + 1 /\ real' \in 0..MaxReal /\ slow' \in 0..MaxSlow
  BY <1>t, TimerBounds DEF Tick, TimerTypeInv
<1>3. TimerTypeInv'
  <2>1. \A t \in Timer : since[t] <= real'
    BY <1>2, <1>t, TimerBounds DEF TimerTypeInv
  <2> QED BY <1>2, <1>t, <2>1 DEF Tick, TimerTypeInv
<1>4. RoundInv'
  BY DEF TimerInv, RoundInv, InRound, Tick
<1>5. DueInv'
  <2>1. \A i : Left(i)' <=> Left(i)
    BY DEF Left, InRound, Tick
  <2>2. real' - slow' = real - slow
    BY <1>2
  <2>3. ListFrom' = ListFrom /\ MapFrom' = MapFrom
    BY <2>2 DEF ListFrom, MapFrom, Tick
  <2>4. DueInv
    BY DEF TimerInv
  <2> QED BY <2>1, <2>2, <2>3, <2>4 DEF DueInv, Timely, Tick
<1> QED BY <1>1, <1>3, <1>4, <1>5 DEF TimerInv

\* The clock is set: nothing is said of the time any more.
LEMMA setClockKeeps ==
    ASSUME TimerInv, NEW d \in Int, setClock(d)
    PROVE  TimerInv'
<1> USE DEF serviceVars
<1>1. Ordered(m_mapRegisterfdedStore)' /\ EntryInv' /\ OnceInv' /\ CallInv'
  BY NothingMoved DEF setClock
<1>2. TimerTypeInv'
  BY DEF TimerInv, setClock, TimerTypeInv
<1>3. RoundInv'
  BY DEF TimerInv, RoundInv, InRound, setClock
<1>4. DueInv'
  <2>1. sets' # 0
    BY DEF TimerInv, TimerTypeInv, setClock
  <2> QED BY <2>1 DEF DueInv
<1> QED BY <1>1, <1>2, <1>3, <1>4 DEF TimerInv

\* stop() sets the flag, which nothing but the thread looks at.
LEMMA stopKeeps ==
    ASSUME TimerInv, stop
    PROVE  TimerInv'
<1> USE DEF timeVars
<1>1. Ordered(m_mapRegisterfdedStore)' /\ EntryInv' /\ OnceInv' /\ CallInv'
  BY NothingMoved DEF stop
<1>2. TimerTypeInv'
  BY DEF TimerInv, stop, TimerTypeInv
<1>3. RoundInv'
  BY DEF TimerInv, RoundInv, InRound, stop
<1>4. DueInv'
  <2>1. \A i : Left(i)' <=> Left(i)
    BY DEF Left, InRound, stop
  <2>2. ListFrom' = ListFrom /\ MapFrom' = MapFrom
    BY DEF ListFrom, MapFrom, stop
  <2>3. DueInv
    BY DEF TimerInv
  <2> QED BY <2>1, <2>2, <2>3 DEF DueInv, Timely, stop
<1> QED BY <1>1, <1>2, <1>3, <1>4 DEF TimerInv

\* A round begins: no earlier than the one before ended.
LEMMA wakeKeeps ==
    ASSUME TimerInv, wake
    PROVE  TimerInv'
<1>t. TimerTypeInv /\ RoundInv
  BY DEF TimerInv
<1>1. /\ UNCHANGED <<m_runing, m_tmpRegisterfdList, m_mapRegisterfdedStore, stopper, shift, sets, real, since, calls>>
      /\ thread.at = "wait" /\ slow' = 0
      /\ thread' = IF m_runing THEN [at |-> "add", curms |-> Clock, it |-> 1] ELSE [Wait EXCEPT !.at = "ended"]
  BY DEF wake
<1>2. real \in Int /\ slow \in 0..MaxSlow /\ MaxSlow \in Nat /\ Clock \in Int
  BY <1>t, TimerBounds DEF TimerTypeInv, Clock
<1>3. \/ m_runing /\ thread'.at = "add" /\ thread'.curms = Clock /\ thread'.it = 1
      \/ ~m_runing /\ thread'.at = "ended"
  BY <1>1 DEF Wait
<1>4. TimerTypeInv'
  <2>1. thread' \in [at : {"wait", "add", "process", "again", "ended"}, curms : Int, it : Nat]
    BY <1>1, <1>2 DEF Wait
  <2>2. 0 \in 0..MaxSlow
    BY <1>2
  <2> QED BY <1>1, <1>t, <2>1, <2>2 DEF TimerTypeInv
<1>5. RoundInv'
  BY <1>1, <1>3, <1>t DEF RoundInv, InRound
<1>6. \A i : Left(i)' <=> Left(i)
  BY <1>1, <1>3 DEF Left, InRound
<1>7. Ordered(m_mapRegisterfdedStore)'
  BY <1>1 DEF TimerInv, Ordered
<1>8. EntryInv'
  <2>1. Entries' = Entries
    BY <1>1 DEF Entries
  <2> QED BY <1>1, <2>1 DEF TimerInv, EntryInv
<1>9. OnceInv'
  BY <1>1, <1>6 DEF TimerInv, OnceInv, Single
<1>10. CallInv'
  <2>1. \A t : Waiting(t)' <=> Waiting(t)
    BY <1>1, <1>3 DEF Waiting
  <2> QED BY <1>1, <2>1 DEF TimerInv, CallInv
<1>11. DueInv'
  <2> SUFFICES ASSUME sets = 0 PROVE DueInv'
    BY <1>1 DEF DueInv
  <2>1. /\ shift = 0
        /\ \A e \in Range(m_tmpRegisterfdList) : Timely(e, e.tmEnd) /\ e.tmEnd > real - slow
        /\ \A i \in Nat : Left(i) => Timely(m_mapRegisterfdedStore[i].entry, m_mapRegisterfdedStore[i].key) /\ m_mapRegisterfdedStore[i].key > real - slow
    BY <1>1 DEF TimerInv, DueInv, ListFrom, MapFrom
  <2>2. Range(m_tmpRegisterfdList)' = Range(m_tmpRegisterfdList) /\ \A e, k : Timely(e, k)' <=> Timely(e, k)
    BY <1>1 DEF Timely
  <2>3. CASE ~m_runing
    BY <1>1, <1>3, <1>6, <2>1, <2>2, <2>3 DEF DueInv
  <2>4. CASE m_runing
    <3>1. thread'.at = "add" /\ thread'.curms = real /\ slow' = 0 /\ real - slow' = real
      BY <1>1, <1>2, <1>3, <2>1, <2>4 DEF Clock
    <3>2. ListFrom' = real - 0 - MaxSlow /\ MapFrom' = real - 0 - MaxSlow
      BY <1>1, <3>1 DEF ListFrom, MapFrom
    <3>3. \A k \in Int : k > real - slow => k > ListFrom' /\ k > MapFrom'
      BY <1>2, <3>2
    <3>4. \A e \in Range(m_tmpRegisterfdList) : e.tmEnd \in Int
      BY <1>t, EntriesType, EntryFields
    <3>5. \A i \in Nat : Left(i) => m_mapRegisterfdedStore[i].key \in Int
      BY <1>t, LeftPlace
    <3> QED BY <1>1, <1>6, <2>1, <2>2, <3>1, <3>3, <3>4, <3>5 DEF DueInv
  <2> QED BY <2>3, <2>4
<1> QED BY <1>4, <1>5, <1>7, <1>8, <1>9, <1>10, <1>11 DEF TimerInv

\* Register() of a running service: the list grows by an entry of the time that is given.
LEMMA Registers ==
    ASSUME TimerTypeInv, NEW t \in Timer, NEW ms \in Nat \ {0}, m_runing, Register(t, ms)
    PROVE  \E e \in Entry :
               /\ e.timer = t /\ e.ms = ms /\ e.tmStart = Clock /\ e.tmEnd = Clock + ms
               /\ m_tmpRegisterfdList' \in Seq(Entry) /\ Range(m_tmpRegisterfdList') = Range(m_tmpRegisterfdList) \cup {e}
               /\ Single(m_tmpRegisterfdList) /\ (\A f \in Range(m_tmpRegisterfdList) : f.timer # t) => Single(m_tmpRegisterfdList')
               /\ since' = [since EXCEPT ![t] = real]
<1> DEFINE e == [timer |-> t, ms |-> ms, tmStart |-> Clock, tmEnd |-> Clock + ms]
<1>1. Clock \in Int /\ Clock + ms \in Int
  BY DEF TimerTypeInv, Clock
<1>2. e \in Entry /\ e.timer = t /\ e.ms = ms /\ e.tmStart = Clock /\ e.tmEnd = Clock + ms
  BY <1>1 DEF Entry
<1>3. m_tmpRegisterfdList' = Append(m_tmpRegisterfdList, e) /\ since' = [since EXCEPT ![t] = real]
  BY DEF Register
<1>4. m_tmpRegisterfdList \in Seq(Entry)
  BY DEF TimerTypeInv
<1>5. PICK f \in Entry : f = e
  BY <1>2
<1>6. m_tmpRegisterfdList' = Append(m_tmpRegisterfdList, f) /\ f.timer = t
  BY <1>2, <1>3, <1>5
<1>7. /\ m_tmpRegisterfdList' \in Seq(Entry) /\ Range(m_tmpRegisterfdList') = Range(m_tmpRegisterfdList) \cup {f}
      /\ Single(m_tmpRegisterfdList) /\ (\A g \in Range(m_tmpRegisterfdList) : g.timer # t) => Single(m_tmpRegisterfdList')
  BY <1>4, <1>6, Appended
<1> HIDE DEF e
<1> QED BY <1>2, <1>3, <1>5, <1>7

\* A timer is registered that was not: no entry is of it.
LEMMA setTimerKeeps ==
    ASSUME TimerInv, NEW t \in Timer, NEW ms \in Ms, setTimer(t, ms)
    PROVE  TimerInv'
<1>t. TimerTypeInv /\ RoundInv /\ EntryInv /\ OnceInv /\ CallInv /\ DueInv
  BY DEF TimerInv
<1>1. /\ UNCHANGED <<m_runing, m_mapRegisterfdedStore, thread, stopper, calls, shift, sets, real, slow>>
      /\ since[t] = None /\ Register(t, ms) /\ ms \in Nat \ {0}
  BY TimerAssumption DEF setTimer, timeVars
<1>2. CASE ~m_runing
  <2>1. UNCHANGED timerVars
    BY <1>1, <1>2 DEF Register, timerVars, serviceVars, timeVars
  <2> QED BY <2>1, TimerStutter
<1>3. CASE m_runing
  <2>1. PICK e \in Entry :
            /\ e.timer = t /\ e.ms = ms /\ e.tmStart = Clock /\ e.tmEnd = Clock + ms
            /\ m_tmpRegisterfdList' \in Seq(Entry) /\ Range(m_tmpRegisterfdList') = Range(m_tmpRegisterfdList) \cup {e}
            /\ Single(m_tmpRegisterfdList) /\ (\A f \in Range(m_tmpRegisterfdList) : f.timer # t) => Single(m_tmpRegisterfdList')
            /\ since' = [since EXCEPT ![t] = real]
    BY <1>1, <1>3, <1>t, Registers
  <2>2. real \in 0..MaxReal /\ real \in Nat /\ MaxReal \in Nat /\ shift \in Int /\ real # None
    BY <1>t, TimerBounds DEF TimerTypeInv
  <2>3. /\ since \in [Timer -> {None} \cup 0..MaxReal] /\ since' \in [Timer -> {None} \cup 0..MaxReal]
        /\ since'[t] = real /\ \A u \in Timer : u # t => since'[u] = since[u]
    BY <1>t, <2>1, <2>2 DEF TimerTypeInv
  <2>4. Entries' = Entries \cup {e}
    BY <1>1, <2>1 DEF Entries
  <2>5. \A f \in Entries : f.timer \in Timer /\ f.timer # t /\ since'[f.timer] = since[f.timer]
    <3>1. \A f \in Entries : f.timer \in Timer /\ since[f.timer] # None
      BY <1>t, EntriesType, EntryFields DEF EntryInv
    <3> QED BY <1>1, <2>3, <3>1
  <2>6. \A i : Left(i)' <=> Left(i)
    BY <1>1 DEF Left, InRound
  <2>7. TimerTypeInv'
    <3>1. \A u \in Timer : since'[u] <= real
      <4>1. real <= real /\ \A u \in Timer : since[u] <= real
        BY <1>t, <2>2 DEF TimerTypeInv
      <4> QED BY <2>3, <4>1
    <3> QED BY <1>1, <1>t, <2>1, <2>3, <3>1 DEF TimerTypeInv
  <2>8. RoundInv' /\ Ordered(m_mapRegisterfdedStore)'
    BY <1>1 DEF TimerInv, RoundInv, InRound, Ordered
  <2>9. EntryInv'
    <3>1. e.ms = e.tmEnd - e.tmStart
      BY <1>1, <2>1, <2>2 DEF Clock
    <3>2. \A f \in Entries : f.ms = f.tmEnd - f.tmStart /\ since'[f.timer] # None
      BY <1>t, <2>5 DEF EntryInv
    <3> QED BY <1>t, <2>1, <2>2, <2>3, <2>4, <2>5, <3>1, <3>2 DEF EntryInv
  <2>10. OnceInv'
    <3>1. Single(m_tmpRegisterfdList')
      BY <1>t, <2>1, <2>5, EntriesType DEF OnceInv
    <3>2. \A i \in Nat : Left(i) => m_mapRegisterfdedStore[i].entry.timer # t
      BY <1>t, <2>5, LeftPlace
    <3> QED BY <1>1, <1>t, <2>1, <2>6, <3>1, <3>2 DEF OnceInv
  <2>11. CallInv'
    <3>1. \A u : Waiting(u)' <=> Waiting(u) \/ u = t
      <4> TAKE u
      <4> QED BY <1>1, <1>t, <2>1, <2>6, <2>7, WhereItWaits, WhereItWaitsNext DEF WaitsAt
    <3>2. t \in Once => calls[t] # 1
      <4>1. calls[t] = 0
        BY <1>1, <1>t DEF CallInv
      <4> QED BY <4>1
    <3>3. \A u \in Timer : since'[u] = None => since[u] = None
      BY <2>2, <2>3
    <3>4. \A u \in Timer : since'[u] # None => since[u] # None \/ u = t
      BY <2>3
    <3> QED BY <1>1, <1>t, <3>1, <3>2, <3>3, <3>4 DEF CallInv, Timer
  <2>12. DueInv'
    <3> SUFFICES ASSUME sets = 0 PROVE DueInv'
      BY <1>1 DEF DueInv
    <3>1. DueInv!2
      BY <1>t DEF DueInv
    <3>2. ListFrom' = ListFrom /\ MapFrom' = MapFrom
      BY <1>1 DEF ListFrom, MapFrom
    <3>3. \A k : \A f \in Entries : Timely(f, k) => Timely(f, k)'
      BY <2>5 DEF Timely
    <3>4. Timely(e, e.tmEnd)' /\ e.tmEnd > ListFrom
      <4>1. e.tmEnd = real + ms /\ e.tmStart = real /\ since'[e.timer] = real /\ slow \in Nat /\ MaxSlow \in Nat
        BY <1>t, <2>1, <2>2, <2>3, <3>1, TimerBounds DEF Clock, TimerTypeInv
      <4>2. e.tmEnd > real - slow /\ e.tmEnd > real - slow - MaxSlow /\ real >= real - MaxSlow
            /\ e.tmEnd = real + ms /\ e.tmEnd <= e.tmEnd
        BY <1>1, <2>2, <4>1
      <4> QED BY <2>1, <4>1, <4>2 DEF Timely, ListFrom
    <3>5. \A i \in Nat : Left(i) => m_mapRegisterfdedStore[i].entry \in Entries
      BY <1>t, LeftPlace
    <3>6. Range(m_tmpRegisterfdList) \subseteq Entries
      BY <1>t, EntriesType
    <3> QED BY <1>1, <2>1, <2>6, <3>1, <3>2, <3>3, <3>4, <3>5, <3>6 DEF DueInv
  <2> QED BY <2>7, <2>8, <2>9, <2>10, <2>11, <2>12 DEF TimerInv
<1> QED BY <1>2, <1>3

\* What was in the list is in the map.
LEMMA addNewTimerKeeps ==
    ASSUME TimerInv, addNewTimer
    PROVE  TimerInv'
<1>t. TimerTypeInv /\ RoundInv /\ EntryInv /\ OnceInv /\ CallInv /\ DueInv /\ Ordered(m_mapRegisterfdedStore)
  BY DEF TimerInv
<1>1. /\ UNCHANGED <<m_runing, stopper, since, calls, shift, sets, real, slow>>
      /\ thread.at = "add" /\ m_tmpRegisterfdList' = <<>> /\ m_mapRegisterfdedStore' = insertAll(m_mapRegisterfdedStore, m_tmpRegisterfdList) /\ thread' = [thread EXCEPT !.at = "process"]
  BY DEF addNewTimer, timeVars
<1>2. thread.it = 1 /\ thread'.at = "process" /\ thread'.it = 1 /\ thread'.curms = thread.curms
  BY <1>1, <1>t DEF RoundInv, TimerTypeInv
<1>3. m_tmpRegisterfdList \in Seq(Entry) /\ m_mapRegisterfdedStore \in Seq(Item) /\ DOMAIN m_mapRegisterfdedStore = 1..Len(m_mapRegisterfdedStore) /\ Len(m_mapRegisterfdedStore) \in Nat
  BY <1>t, EntriesType DEF TimerTypeInv
<1>4. \A i \in Nat : Left(i) <=> i \in DOMAIN m_mapRegisterfdedStore
  BY <1>1 DEF Left, InRound
<1>5. Single(m_tmpRegisterfdList) /\ Apart(m_mapRegisterfdedStore) /\ \A e \in Range(m_tmpRegisterfdList), y \in Range(m_mapRegisterfdedStore) : e.timer # y.entry.timer
  <2>1. \A i \in DOMAIN m_mapRegisterfdedStore : i \in Nat
    BY <1>3
  <2> QED BY <1>4, <1>t, <2>1 DEF OnceInv, Apart, Range
<1>6. /\ m_mapRegisterfdedStore' \in Seq(Item) /\ Ordered(m_mapRegisterfdedStore') /\ Apart(m_mapRegisterfdedStore')
      /\ Range(m_mapRegisterfdedStore') = Range(m_mapRegisterfdedStore) \cup {ItemOf(e) : e \in Range(m_tmpRegisterfdList)}
  BY <1>1, <1>3, <1>5, <1>t, InsertAll
<1>7. Range(m_tmpRegisterfdList') = {} /\ m_tmpRegisterfdList' \in Seq(Entry) /\ Single(m_tmpRegisterfdList')
  BY <1>1 DEF Range, Single
<1>8. Len(m_mapRegisterfdedStore') \in Nat /\ DOMAIN m_mapRegisterfdedStore' = 1..Len(m_mapRegisterfdedStore') /\ \A i \in DOMAIN m_mapRegisterfdedStore' : m_mapRegisterfdedStore'[i] \in Range(m_mapRegisterfdedStore')
  BY <1>6 DEF Range
<1>9. \A i \in Nat : Left(i)' <=> i \in DOMAIN m_mapRegisterfdedStore'
  BY <1>1, <1>2, <1>8 DEF Left, InRound
<1>10. \A e : ItemOf(e).entry = e /\ ItemOf(e).key = e.tmEnd
  BY DEF ItemOf
<1>11. TimerTypeInv'
  <2>1. thread' \in [at : {"wait", "add", "process", "again", "ended"}, curms : Int, it : Nat]
    BY <1>1, <1>t DEF TimerTypeInv
  <2> QED BY <1>1, <1>6, <1>7, <1>t, <2>1 DEF TimerTypeInv
<1>12. RoundInv'
  BY <1>1, <1>2, <1>8, <1>t DEF RoundInv, InRound
<1>13. Entries' = Entries
  <2>1. {y.entry : y \in Range(m_mapRegisterfdedStore')} = {y.entry : y \in Range(m_mapRegisterfdedStore)} \cup Range(m_tmpRegisterfdList)
    BY <1>6, <1>10
  <2> QED BY <1>7, <2>1 DEF Entries
<1>14. EntryInv'
  BY <1>1, <1>13, <1>t DEF EntryInv
<1>15. OnceInv'
  BY <1>6, <1>7, <1>9 DEF OnceInv, Apart
<1>16. CallInv'
  <2>1. \A t : WaitsAt(t) <=> \/ \E e \in Range(m_tmpRegisterfdList) : e.timer = t
                              \/ \E y \in Range(m_mapRegisterfdedStore) : y.entry.timer = t
    BY <1>3, <1>4 DEF WaitsAt, Range
  <2>2. \A t : WaitsAt(t)' <=> \E y \in Range(m_mapRegisterfdedStore') : y.entry.timer = t
    <3> TAKE t
    <3>1. WaitsAt(t)' <=> \E i \in Nat : Left(i)' /\ m_mapRegisterfdedStore'[i].entry.timer = t
      BY <1>7 DEF WaitsAt
    <3>2. DOMAIN m_mapRegisterfdedStore' \subseteq Nat
      BY <1>8
    <3>3. (\E i \in DOMAIN m_mapRegisterfdedStore' : m_mapRegisterfdedStore'[i].entry.timer = t) <=> \E y \in Range(m_mapRegisterfdedStore') : y.entry.timer = t
      BY DEF Range
    <3> QED BY <1>9, <3>1, <3>2, <3>3
  <2>3. \A t : WaitsAt(t)' <=> WaitsAt(t)
    BY <1>6, <1>10, <2>1, <2>2
  <2> QED BY <1>1, <1>11, <1>t, <2>3, WhereItWaits, WhereItWaitsNext DEF CallInv
<1>17. DueInv'
  <2> SUFFICES ASSUME sets = 0 PROVE DueInv'
    BY <1>1 DEF DueInv
  <2>1. DueInv!2
    BY <1>t DEF DueInv
  <2>2. ListFrom = real - slow - MaxSlow /\ MapFrom = real - slow - MaxSlow /\ MapFrom' = real - slow - MaxSlow
    BY <1>1, <1>2 DEF ListFrom, MapFrom
  <2>3. \A e, k : Timely(e, k)' <=> Timely(e, k)
    BY <1>1 DEF Timely
  <2>4. \A y \in Range(m_mapRegisterfdedStore') : Timely(y.entry, y.key) /\ y.key > MapFrom'
    <3>1. \A y \in Range(m_mapRegisterfdedStore) : Timely(y.entry, y.key) /\ y.key > MapFrom'
      BY <1>1, <1>3, <1>4, <2>1, <2>2 DEF Range
    <3>2. \A e \in Range(m_tmpRegisterfdList) : Timely(e, e.tmEnd) /\ e.tmEnd > MapFrom'
      BY <1>1, <2>1, <2>2
    <3> QED BY <1>6, <1>10, <3>1, <3>2
  <2> QED BY <1>1, <1>2, <1>7, <1>8, <1>9, <2>1, <2>3, <2>4 DEF DueInv
<1> QED BY <1>6, <1>11, <1>12, <1>14, <1>15, <1>16, <1>17 DEF TimerInv

\* What stop() has left to clear waits for nobody.
LEMMA cleardataKeeps ==
    ASSUME TimerInv, cleardata
    PROVE  TimerInv'
<1>t. TimerTypeInv /\ RoundInv /\ EntryInv /\ OnceInv /\ CallInv /\ DueInv
  BY DEF TimerInv
<1>1. /\ UNCHANGED <<m_runing, thread, since, calls, shift, sets, real, slow>>
      /\ thread.at = "ended" /\ ~m_runing /\ stopper' = "stopped" /\ m_tmpRegisterfdList' = <<>> /\ m_mapRegisterfdedStore' = <<>>
  BY <1>t DEF cleardata, timeVars, RoundInv
<1>2. Range(m_tmpRegisterfdList') = {} /\ Range(m_mapRegisterfdedStore') = {} /\ DOMAIN m_mapRegisterfdedStore' = {} /\ DOMAIN m_tmpRegisterfdList' = {}
  BY <1>1 DEF Range
<1>3. \A i : ~Left(i)'
  BY <1>2 DEF Left
<1>4. TimerTypeInv'
  BY <1>1, <1>t DEF TimerTypeInv
<1>5. RoundInv'
  BY <1>1 DEF RoundInv, InRound
<1>6. Ordered(m_mapRegisterfdedStore)'
  BY <1>2 DEF Ordered
<1>7. EntryInv'
  <2>1. Entries' = {}
    BY <1>2 DEF Entries
  <2> QED BY <2>1 DEF EntryInv
<1>8. OnceInv'
  BY <1>2, <1>3 DEF OnceInv, Single
<1>9. CallInv'
  <2>1. \A t : ~Waiting(t)'
    BY <1>2 DEF Waiting
  <2> QED BY <1>1, <1>t, <2>1 DEF CallInv
<1>10. DueInv'
  BY <1>1, <1>2, <1>3, <1>t DEF DueInv
<1> QED BY <1>4, <1>5, <1>6, <1>7, <1>8, <1>9, <1>10 DEF TimerInv

\* The place at which the thread is.
LEMMA Current ==
    ASSUME TimerTypeInv, RoundInv, Processing \/ thread.at = "again"
    PROVE  /\ InRound /\ thread.it \in Nat /\ Left(thread.it) /\ thread.it \in DOMAIN m_mapRegisterfdedStore
           /\ thread.it >= 1 /\ thread.it <= Len(m_mapRegisterfdedStore)
           /\ last = m_mapRegisterfdedStore[thread.it].entry /\ last \in Entries /\ last \in Entry /\ last.timer \in Timer
<1>1. thread.it \in Nat /\ InRound /\ thread.it >= 1 /\ thread.it <= Len(m_mapRegisterfdedStore)
  BY DEF TimerTypeInv, RoundInv, InRound, Processing
<1>2. thread.it \in DOMAIN m_mapRegisterfdedStore
  BY <1>1, EntriesType
<1>3. Left(thread.it)
  BY <1>1, <1>2 DEF Left
<1> QED BY <1>1, <1>2, <1>3, EntriesType, EntryFields DEF last

\* The thread goes on by one place: that one is not left any more.
LEMMA NextPlace ==
    ASSUME TimerTypeInv, m_mapRegisterfdedStore' = m_mapRegisterfdedStore, thread.at \in {"process", "again"}, thread'.at = "process",
           thread'.it = thread.it + 1
    PROVE  \A i \in Nat : Left(i)' <=> Left(i) /\ i # thread.it
<1>1. thread.it \in Nat
  BY DEF TimerTypeInv
<1>2. \A i \in Nat : i >= thread.it + 1 <=> i >= thread.it /\ i # thread.it
  BY <1>1
<1> QED BY <1>2 DEF Left, InRound

\* A timer that is called was not called before, or is a loop timer.
LEMMA callbackKeeps ==
    ASSUME TimerInv, callback
    PROVE  TimerInv'
<1>t. TimerTypeInv /\ RoundInv /\ EntryInv /\ OnceInv /\ CallInv /\ DueInv
  BY DEF TimerInv
<1> DEFINE it == thread.it
           tm == last.timer
<1>1. /\ UNCHANGED <<m_runing, m_tmpRegisterfdList, m_mapRegisterfdedStore, stopper, since, shift, sets, real, slow>>
      /\ Processing /\ thread.at = "process"
      /\ calls' = [calls EXCEPT ![tm] = @ + 1]
      /\ thread' = IF tm \in Loop THEN [thread EXCEPT !.at = "again"] ELSE [thread EXCEPT !.it = @ + 1]
  BY DEF callback, timeVars, Processing
<1>2. /\ InRound /\ it \in Nat /\ Left(it) /\ it \in DOMAIN m_mapRegisterfdedStore /\ it >= 1 /\ it <= Len(m_mapRegisterfdedStore)
      /\ last = m_mapRegisterfdedStore[it].entry /\ last \in Entries /\ last \in Entry /\ tm \in Timer
  BY <1>1, <1>t, Current
<1>3. PICK u \in Timer : u = tm
  BY <1>2
<1>4. PICK k \in Nat : k = it
  BY <1>2
<1>5. /\ calls' = [calls EXCEPT ![u] = @ + 1] /\ calls \in [Timer -> Nat]
      /\ calls'[u] = calls[u] + 1 /\ \A t \in Timer : t # u => calls'[t] = calls[t]
  BY <1>1, <1>3, <1>t DEF TimerTypeInv
<1>6. /\ Left(k) /\ k \in DOMAIN m_mapRegisterfdedStore /\ m_mapRegisterfdedStore[k].entry.timer = u /\ k >= 1 /\ k <= Len(m_mapRegisterfdedStore) /\ since[u] # None
      /\ m_mapRegisterfdedStore[k].entry \in Entries
  BY <1>2, <1>3, <1>4, <1>t DEF EntryInv
<1>7. \/ u \in Loop /\ thread'.at = "again" /\ thread'.it = k /\ thread'.curms = thread.curms
      \/ u \in Once /\ thread'.at = "process" /\ thread'.it = k + 1 /\ thread'.curms = thread.curms
  BY <1>1, <1>3, <1>4, <1>t DEF TimerTypeInv, Timer
<1> HIDE DEF it, tm
<1>8. Len(m_mapRegisterfdedStore) \in Nat /\ DOMAIN m_mapRegisterfdedStore = 1..Len(m_mapRegisterfdedStore)
  BY <1>t, EntriesType
<1>9. \A i \in Nat : Left(i)' => Left(i)
  <2>1. CASE u \in Loop
    BY <1>1, <1>4, <1>7, <2>1, TimerBounds DEF Left, InRound, it
  <2>2. CASE u \notin Loop
    BY <1>1, <1>4, <1>7, <1>t, <2>2, NextPlace DEF it
  <2> QED BY <2>1, <2>2
<1>10. \A i \in Nat : Left(i) => Left(i)' \/ (i = k /\ u \in Once)
  <2>1. CASE u \in Loop
    BY <1>1, <1>4, <1>7, <2>1, TimerBounds DEF Left, InRound, it
  <2>2. CASE u \notin Loop
    BY <1>1, <1>4, <1>7, <1>t, <2>2, NextPlace DEF it
  <2> QED BY <2>1, <2>2
<1>11. u \in Once => ~Left(k)'
  <2> SUFFICES ASSUME u \in Once PROVE ~Left(k)'
    OBVIOUS
  <2>1. thread'.at = "process" /\ thread'.it = k + 1
    BY <1>7, TimerBounds
  <2>2. ~(k >= k + 1)
    OBVIOUS
  <2> QED BY <2>1, <2>2 DEF Left, InRound
<1>12. TimerTypeInv'
  <2>1. thread' \in [at : {"wait", "add", "process", "again", "ended"}, curms : Int, it : Nat]
    BY <1>1, <1>t DEF TimerTypeInv
  <2>2. calls' \in [Timer -> Nat]
    BY <1>5
  <2> QED BY <1>1, <1>t, <2>1, <2>2 DEF TimerTypeInv
<1>13. RoundInv'
  <2>1. thread'.it >= 1 /\ thread'.it <= Len(m_mapRegisterfdedStore) + 1
    BY <1>6, <1>7, <1>8
  <2>2. stopper # "stopped"
    BY <1>1, <1>t DEF RoundInv
  <2>3. thread'.at = "again" => thread'.it = k /\ u \in Loop
    BY <1>7
  <2> QED BY <1>1, <1>6, <1>7, <2>1, <2>2, <2>3 DEF RoundInv
<1>14. Ordered(m_mapRegisterfdedStore)' /\ EntryInv'
  <2>1. Entries' = Entries
    BY <1>1 DEF Entries
  <2>2. EntryInv'
    BY <1>1, <1>t, <2>1 DEF EntryInv
  <2> QED BY <1>1, <2>2 DEF TimerInv, Ordered
<1>15. OnceInv'
  BY <1>1, <1>9, <1>t DEF OnceInv, Single
<1>16. CallInv'
  <2>1. \A t \in Timer : Waiting(t)' => Waiting(t)
    BY <1>1, <1>9, <1>12, <1>t, WhereItWaits, WhereItWaitsNext DEF WaitsAt
  <2>2. Waiting(u)
    BY <1>6, <1>t, WhereItWaits DEF WaitsAt
  <2>3. u \in Once => calls[u] = 0
    <3>1. u \in Once => calls[u] <= 1 /\ calls[u] # 1
      BY <1>t, <2>2 DEF CallInv
    <3> QED BY <1>5, <3>1
  <2>4. u \in Once => ~Waiting(u)'
    <3> SUFFICES ASSUME u \in Once PROVE ~WaitsAt(u)'
      BY <1>12, WhereItWaitsNext
    <3>1. \A e \in Range(m_tmpRegisterfdList) : e.timer # u
      BY <1>6, <1>t DEF OnceInv
    <3>2. \A i \in Nat : Left(i) /\ i # k => m_mapRegisterfdedStore[i].entry.timer # u
      BY <1>6, <1>t DEF OnceInv
    <3> QED BY <1>1, <1>9, <1>11, <3>1, <3>2 DEF WaitsAt
  <2>5. \A t \in Timer : Waiting(t) => Waiting(t)' \/ (t = u /\ u \in Once)
    <3>1. \A t : WaitsAt(t) => WaitsAt(t)' \/ (t = u /\ u \in Once)
      BY <1>1, <1>6, <1>10 DEF WaitsAt
    <3> QED BY <1>12, <1>t, <3>1, WhereItWaits, WhereItWaitsNext
  <2>6. u \in Once => calls'[u] = 1
    BY <1>5, <2>3
  <2>7. \A t \in Timer : since'[t] = None => calls'[t] = 0
    BY <1>1, <1>5, <1>6, <1>t DEF CallInv
  <2>8. \A t \in Once : calls'[t] <= 1 /\ (calls'[t] = 1 => ~Waiting(t)')
    <3> TAKE t \in Once
    <3>1. CASE t = u
      BY <2>4, <2>6, <3>1
    <3>2. CASE t # u
      <4>1. calls'[t] = calls[t] /\ t \in Timer
        BY <1>5, <3>2 DEF Timer
      <4> QED BY <1>t, <2>1, <4>1 DEF CallInv
    <3> QED BY <3>1, <3>2
  <2>9. m_runing => \A t \in Timer : since[t] # None => Waiting(t)' \/ (t \in Once /\ calls'[t] = 1)
    BY <1>5, <1>t, <2>5, <2>6 DEF CallInv
  <2> QED BY <1>1, <2>7, <2>8, <2>9 DEF CallInv
<1>17. DueInv'
  <2>1. ListFrom' = ListFrom /\ MapFrom' = MapFrom
    BY <1>1, <1>7 DEF ListFrom, MapFrom
  <2>2. \A e, n : Timely(e, n)' <=> Timely(e, n)
    BY <1>1 DEF Timely
  <2>3. DueInv
    BY <1>t
  <2> QED BY <1>1, <1>7, <1>9, <2>1, <2>2, <2>3 DEF DueInv
<1> QED BY <1>12, <1>13, <1>14, <1>15, <1>16, <1>17 DEF TimerInv

\* A loop timer that was called waits in the list again, if the service runs.
LEMMA loopTimerKeeps ==
    ASSUME TimerInv, loopTimer
    PROVE  TimerInv'
<1>t. TimerTypeInv /\ RoundInv /\ EntryInv /\ OnceInv /\ CallInv /\ DueInv
  BY DEF TimerInv
<1>1. /\ UNCHANGED <<m_runing, m_mapRegisterfdedStore, stopper, calls, shift, sets, real, slow>>
      /\ thread.at = "again" /\ Register(last.timer, last.tmEnd - last.tmStart)
      /\ thread' = [thread EXCEPT !.at = "process", !.it = @ + 1]
  BY DEF loopTimer, timeVars
<1>2. /\ InRound /\ thread.it \in Nat /\ Left(thread.it) /\ thread.it \in DOMAIN m_mapRegisterfdedStore
      /\ thread.it >= 1 /\ thread.it <= Len(m_mapRegisterfdedStore)
      /\ last = m_mapRegisterfdedStore[thread.it].entry /\ last \in Entries /\ last \in Entry /\ last.timer \in Timer
  BY <1>1, <1>t, Current
<1>3. PICK k \in Nat : k = thread.it
  BY <1>2
<1>4. PICK old \in Entries : old = last
  BY <1>2
<1>5. PICK u \in Timer : u = old.timer
  BY <1>2, <1>4
<1>6. /\ Left(k) /\ k \in DOMAIN m_mapRegisterfdedStore /\ m_mapRegisterfdedStore[k].entry = old /\ k >= 1 /\ k <= Len(m_mapRegisterfdedStore)
      /\ u \in Loop /\ since[u] # None /\ old.ms \in Nat \ {0} /\ old.ms = old.tmEnd - old.tmStart
      /\ Register(u, old.ms)
  <2>1. m_mapRegisterfdedStore[thread.it].entry.timer \in Loop
    BY <1>1, <1>t DEF RoundInv
  <2>2. old.ms = old.tmEnd - old.tmStart /\ since[old.timer] # None
    BY <1>t DEF EntryInv
  <2> QED BY <1>1, <1>2, <1>3, <1>4, <1>5, <2>1, <2>2, EntryFields
<1>7. thread'.at = "process" /\ thread'.it = k + 1 /\ thread'.curms = thread.curms
  BY <1>1, <1>3, <1>t DEF TimerTypeInv
<1>8. Len(m_mapRegisterfdedStore) \in Nat /\ DOMAIN m_mapRegisterfdedStore = 1..Len(m_mapRegisterfdedStore)
  BY <1>t, EntriesType
<1>9. \A i \in Nat : Left(i)' <=> Left(i) /\ i # k
  BY <1>1, <1>3, <1>7, <1>t, NextPlace
<1>10. thread' \in [at : {"wait", "add", "process", "again", "ended"}, curms : Int, it : Nat]
  <2>1. thread \in [at : {"wait", "add", "process", "again", "ended"}, curms : Int, it : Nat]
    BY <1>t DEF TimerTypeInv
  <2>2. thread.it + 1 \in Nat
    BY <1>2
  <2> QED BY <1>1, <2>1, <2>2
<1>11. RoundInv'
  <2>1. thread'.it >= 1 /\ thread'.it <= Len(m_mapRegisterfdedStore) + 1
    BY <1>6, <1>7, <1>8
  <2>2. stopper # "stopped"
    BY <1>1, <1>t DEF RoundInv
  <2> QED BY <1>1, <1>7, <2>1, <2>2 DEF RoundInv
<1>12. Ordered(m_mapRegisterfdedStore)'
  BY <1>1 DEF TimerInv, Ordered
<1>13. ListFrom' = ListFrom /\ MapFrom' = MapFrom /\ ListFrom = real - slow
  BY <1>1, <1>7 DEF ListFrom, MapFrom
<1>14. \A i \in Nat : Left(i) /\ i # k => m_mapRegisterfdedStore[i].entry.timer # u
  BY <1>5, <1>6, <1>t DEF OnceInv
<1>15. \A f \in Range(m_tmpRegisterfdList) : f.timer # u
  BY <1>5, <1>6, <1>t DEF OnceInv
<1>16. u \notin Once
  BY <1>6, TimerBounds
<1>17. CASE ~m_runing
  <2>1. UNCHANGED <<m_tmpRegisterfdList, since>>
    BY <1>6, <1>17 DEF Register
  <2>2. TimerTypeInv'
    BY <1>1, <1>10, <1>t, <2>1 DEF TimerTypeInv
  <2>3. EntryInv'
    <3>1. Entries' = Entries
      BY <1>1, <2>1 DEF Entries
    <3> QED BY <1>1, <1>t, <2>1, <3>1 DEF EntryInv
  <2>4. OnceInv'
    BY <1>1, <1>9, <1>t, <2>1 DEF OnceInv, Single
  <2>5. CallInv'
    <3>1. \A t : Waiting(t)' => Waiting(t)
      BY <1>1, <1>9, <1>t, <2>1, <2>2, WhereItWaits, WhereItWaitsNext DEF WaitsAt
    <3> QED BY <1>1, <1>17, <1>t, <2>1, <3>1 DEF CallInv
  <2>6. DueInv'
    <3>1. \A e, n : Timely(e, n)' <=> Timely(e, n)
      BY <2>1 DEF Timely
    <3> QED BY <1>1, <1>7, <1>9, <1>13, <1>t, <2>1, <3>1 DEF DueInv
  <2> QED BY <1>11, <1>12, <2>2, <2>3, <2>4, <2>5, <2>6 DEF TimerInv
<1>18. CASE m_runing
  <2>1. PICK e \in Entry :
            /\ e.timer = u /\ e.ms = old.ms /\ e.tmStart = Clock /\ e.tmEnd = Clock + old.ms
            /\ m_tmpRegisterfdList' \in Seq(Entry) /\ Range(m_tmpRegisterfdList') = Range(m_tmpRegisterfdList) \cup {e}
            /\ Single(m_tmpRegisterfdList) /\ (\A f \in Range(m_tmpRegisterfdList) : f.timer # u) => Single(m_tmpRegisterfdList')
            /\ since' = [since EXCEPT ![u] = real]
    <3>1. PICK ms \in Nat \ {0} : ms = old.ms
      BY <1>6
    <3> QED BY <1>6, <1>18, <1>t, <3>1, Registers
  <2>2. real \in 0..MaxReal /\ real \in Nat /\ MaxReal \in Nat /\ shift \in Int /\ real # None
    BY <1>t, TimerBounds DEF TimerTypeInv
  <2>3. /\ since' \in [Timer -> {None} \cup 0..MaxReal]
        /\ since'[u] = real /\ \A t \in Timer : t # u => since'[t] = since[t]
    BY <1>t, <2>1, <2>2 DEF TimerTypeInv
  <2>4. Entries' = Entries \cup {e}
    BY <1>1, <2>1 DEF Entries
  <2>5. TimerTypeInv'
    <3>1. \A t \in Timer : since'[t] <= real
      <4>1. real <= real /\ \A t \in Timer : since[t] <= real
        BY <1>t, <2>2 DEF TimerTypeInv
      <4> QED BY <2>3, <4>1
    <3> QED BY <1>1, <1>10, <1>t, <2>1, <2>3, <3>1 DEF TimerTypeInv
  <2>6. EntryInv'
    <3>1. e.ms = e.tmEnd - e.tmStart
      BY <1>6, <2>1, <2>2 DEF Clock
    <3>2. \A f \in Entries : f.timer \in Timer
      BY <1>t, EntriesType, EntryFields
    <3>3. \A f \in Entries : f.ms = f.tmEnd - f.tmStart /\ since'[f.timer] # None
      BY <1>t, <2>2, <2>3, <3>2 DEF EntryInv
    <3>4. \A f \in Entries : f.timer = u => f.ms = e.ms
      BY <1>5, <1>t, <2>1 DEF EntryInv
    <3>5. \A f, g \in Entries : f.timer = g.timer => f.ms = g.ms
      BY <1>t DEF EntryInv
    <3>6. since'[e.timer] # None
      BY <2>1, <2>2, <2>3
    <3>7. \A f, g \in Entries' : f.timer = g.timer => f.ms = g.ms
      BY <2>1, <2>4, <3>4, <3>5
    <3> QED BY <2>4, <3>1, <3>3, <3>6, <3>7 DEF EntryInv
  <2>7. OnceInv'
    <3>1. Single(m_tmpRegisterfdList')
      BY <1>15, <1>t, <2>1 DEF OnceInv
    <3> QED BY <1>1, <1>9, <1>14, <1>t, <2>1, <3>1 DEF OnceInv
  <2>8. CallInv'
    <3>1. \A t : t # u => (Waiting(t)' <=> Waiting(t))
      <4>1. \A t : t # u => (WaitsAt(t)' <=> WaitsAt(t))
        BY <1>1, <1>5, <1>6, <1>9, <2>1 DEF WaitsAt
      <4> QED BY <1>t, <2>5, <4>1, WhereItWaits, WhereItWaitsNext
    <3>2. Waiting(u)'
      BY <2>1, <2>5, WhereItWaitsNext DEF WaitsAt
    <3>3. \A t \in Timer : since'[t] = None => since[t] = None
      BY <2>2, <2>3
    <3>4. \A t \in Timer : since'[t] # None => since[t] # None \/ t = u
      BY <2>3
    <3> QED BY <1>1, <1>16, <1>t, <3>1, <3>2, <3>3, <3>4 DEF CallInv
  <2>9. DueInv'
    <3> SUFFICES ASSUME sets = 0 PROVE DueInv'
      BY <1>1 DEF DueInv
    <3>1. DueInv!2
      BY <1>t DEF DueInv
    <3>2. \A n : \A f \in Entries : f.timer # u => (Timely(f, n) => Timely(f, n)')
      <4>1. \A f \in Entries : f.timer \in Timer
        BY <1>t, EntriesType, EntryFields
      <4> QED BY <2>3, <4>1 DEF Timely
    <3>3. Timely(e, e.tmEnd)' /\ e.tmEnd > ListFrom'
      <4>1. e.tmEnd = real + e.ms /\ e.tmStart = real /\ since'[e.timer] = real /\ slow \in Nat /\ MaxSlow \in Nat
        BY <1>t, <2>1, <2>2, <2>3, <3>1, TimerBounds DEF Clock, TimerTypeInv
      <4>2. e.ms \in Nat \ {0}
        BY EntryFields
      <4>3. e.tmEnd > real - slow /\ real >= real - MaxSlow /\ e.tmEnd <= e.tmEnd
        BY <2>2, <4>1, <4>2
      <4> QED BY <1>13, <4>1, <4>3 DEF Timely
    <3>4. \A i \in Nat : Left(i) => m_mapRegisterfdedStore[i].entry \in Entries
      BY <1>t, LeftPlace
    <3>5. Range(m_tmpRegisterfdList) \subseteq Entries
      BY <1>t, EntriesType
    <3>6. \A f \in Range(m_tmpRegisterfdList) : Timely(f, f.tmEnd)' /\ f.tmEnd > ListFrom'
      BY <1>1, <1>13, <1>15, <3>1, <3>2, <3>5
    <3>7. \A i \in Nat : Left(i)' => Timely(m_mapRegisterfdedStore[i].entry, m_mapRegisterfdedStore[i].key)' /\ m_mapRegisterfdedStore[i].key > MapFrom'
      BY <1>1, <1>9, <1>13, <1>14, <3>1, <3>2, <3>4
    <3> QED BY <1>1, <1>7, <2>1, <3>1, <3>3, <3>6, <3>7 DEF DueInv
  <2> QED BY <1>11, <1>12, <2>5, <2>6, <2>7, <2>8, <2>9 DEF TimerInv
<1> QED BY <1>17, <1>18

\* The map as checkTimeout() leaves it: at a place m that is left all keep their timer, time and
\* key, and, as the map is in order, all end after the round began if the first of them does.
AsChecked(m) ==
    /\ m \in Seq(Item) /\ Len(m) = Len(m_mapRegisterfdedStore) /\ m_mapRegisterfdedStore' = SubSeq(m, thread.it, Len(m))
    /\ \A i \in DOMAIN m_mapRegisterfdedStore : /\ m[i].key = m_mapRegisterfdedStore[i].key
                            /\ m[i].entry.timer = m_mapRegisterfdedStore[i].entry.timer /\ m[i].entry.ms = m_mapRegisterfdedStore[i].entry.ms
                            /\ m[i].entry.ms = m[i].entry.tmEnd - m[i].entry.tmStart
    /\ sets = 0 => \A i \in Nat : Left(i) => Timely(m[i].entry, m[i].key) /\ m[i].key > real - slow

LEMMA RoundEnds ==
    ASSUME TimerInv, endOfRound
    PROVE  \E m : AsChecked(m)
<1>t. TimerTypeInv /\ RoundInv /\ EntryInv /\ DueInv /\ Ordered(m_mapRegisterfdedStore)
  BY DEF TimerInv
<1>1. m_mapRegisterfdedStore \in Seq(Item) /\ Len(m_mapRegisterfdedStore) \in Nat /\ DOMAIN m_mapRegisterfdedStore = 1..Len(m_mapRegisterfdedStore) /\ thread.at = "process" /\ thread.it \in Nat
  BY <1>t, EntriesType DEF TimerTypeInv, endOfRound
<1>2. \A i \in DOMAIN m_mapRegisterfdedStore : m_mapRegisterfdedStore[i].entry \in Entries /\ m_mapRegisterfdedStore[i] \in Item
  BY <1>t, EntriesType
<1>3. CASE ~Processing
  <2>1. m_mapRegisterfdedStore' = SubSeq(m_mapRegisterfdedStore, thread.it, Len(m_mapRegisterfdedStore))
    BY <1>3 DEF endOfRound, erase
  <2>2. \A i \in DOMAIN m_mapRegisterfdedStore : m_mapRegisterfdedStore[i].entry.ms = m_mapRegisterfdedStore[i].entry.tmEnd - m_mapRegisterfdedStore[i].entry.tmStart
    BY <1>2, <1>t DEF EntryInv
  <2>3. \A i \in Nat : ~Left(i)
    <3>1. ~(thread.it <= Len(m_mapRegisterfdedStore))
      BY <1>1, <1>3 DEF Processing
    <3> QED BY <1>1, <3>1 DEF Left, InRound
  <2> QED BY <1>1, <2>1, <2>2, <2>3 DEF AsChecked
<1>4. CASE Processing
  <2>1. /\ thread.it \in DOMAIN m_mapRegisterfdedStore /\ Left(thread.it) /\ last = m_mapRegisterfdedStore[thread.it].entry
        /\ last \in Entries /\ last \in Entry /\ last.timer \in Timer
    BY <1>4, <1>t, Current
  <2>2. PICK k \in DOMAIN m_mapRegisterfdedStore : k = thread.it
    BY <2>1
  <2>3. PICK e \in Entry : e = m_mapRegisterfdedStore[k].entry /\ e = last
    BY <2>1, <2>2
  <2>4. PICK c \in Int : c = thread.curms
    BY <1>t DEF TimerTypeInv
  <2> DEFINE f == rebase(e, c)
             m == [m_mapRegisterfdedStore EXCEPT ![k].entry = rebase(@, c)]
  <2>5. m_mapRegisterfdedStore' = SubSeq(m, k, Len(m)) /\ ~due(e, c)
    BY <1>4, <2>2, <2>3, <2>4 DEF endOfRound, erase
  <2>6. e.timer \in Timer /\ e.ms \in Nat \ {0} /\ e.tmStart \in Int /\ e.tmEnd \in Int /\ e.ms = e.tmEnd - e.tmStart
    BY <1>t, <2>1, <2>3, EntryFields DEF EntryInv
  <2>7. \/ c < e.tmStart /\ f = [e EXCEPT !.tmEnd = e.tmEnd - e.tmStart + c, !.tmStart = c]
        \/ ~(c < e.tmStart) /\ f = e
    BY DEF rebase
  <2>8. /\ f \in Entry /\ f.timer = e.timer /\ f.ms = e.ms /\ f.ms = f.tmEnd - f.tmStart
        /\ f.tmEnd <= e.tmEnd /\ (f.tmStart = e.tmStart \/ f.tmStart = c)
    <3> HIDE DEF f
    <3>1. CASE f = e
      BY <2>6, <3>1
    <3>2. CASE c < e.tmStart /\ f = [e EXCEPT !.tmEnd = e.tmEnd - e.tmStart + c, !.tmStart = c]
      <4>1. e.tmEnd - e.tmStart + c \in Int
        BY <2>6
      <4>2. f \in Entry
        BY <3>2, <4>1 DEF Entry
      <4>3. f.timer = e.timer /\ f.ms = e.ms /\ f.tmEnd = e.tmEnd - e.tmStart + c /\ f.tmStart = c
        BY <3>2 DEF Entry
      <4>4. f.ms = f.tmEnd - f.tmStart /\ f.tmEnd <= e.tmEnd
        BY <2>6, <3>2, <4>3
      <4> QED BY <4>2, <4>3, <4>4
    <3> QED BY <2>7, <3>1, <3>2
  <2>9. /\ m \in Seq(Item) /\ Len(m) = Len(m_mapRegisterfdedStore)
        /\ m[k].entry = f /\ m[k].key = m_mapRegisterfdedStore[k].key /\ \A i \in DOMAIN m_mapRegisterfdedStore : i # k => m[i] = m_mapRegisterfdedStore[i]
    <3> DEFINE y == [m_mapRegisterfdedStore[k] EXCEPT !.entry = f]
    <3>1. m = [m_mapRegisterfdedStore EXCEPT ![k] = y]
      BY <2>3
    <3>2. y \in Item /\ y.entry = f /\ y.key = m_mapRegisterfdedStore[k].key
      <4> HIDE DEF f
      <4> QED BY <1>2, <2>8 DEF Item
    <3> HIDE DEF m, y
    <3> QED BY <1>1, <3>1, <3>2
  <2> HIDE DEF f, m
  <2>10. \A i \in DOMAIN m_mapRegisterfdedStore : /\ m[i].key = m_mapRegisterfdedStore[i].key
                              /\ m[i].entry.timer = m_mapRegisterfdedStore[i].entry.timer /\ m[i].entry.ms = m_mapRegisterfdedStore[i].entry.ms
                              /\ m[i].entry.ms = m[i].entry.tmEnd - m[i].entry.tmStart
    <3> TAKE i \in DOMAIN m_mapRegisterfdedStore
    <3>1. CASE i = k
      BY <2>3, <2>8, <2>9, <3>1
    <3>2. CASE i # k
      BY <1>2, <1>t, <2>9, <3>2 DEF EntryInv
    <3> QED BY <3>1, <3>2
  <2>11. ASSUME sets = 0, NEW i \in Nat, Left(i)
         PROVE  Timely(m[i].entry, m[i].key) /\ m[i].key > real - slow
    <3>1. c = real - slow /\ \A j \in Nat : Left(j) => Timely(m_mapRegisterfdedStore[j].entry, m_mapRegisterfdedStore[j].key)
      BY <1>1, <1>t, <2>4, <2>11 DEF DueInv
    <3>2. real \in Int /\ slow \in 0..MaxSlow /\ MaxSlow \in Nat
      BY <1>t, TimerBounds DEF TimerTypeInv
    <3>3. e.tmEnd > c
      BY <2>4, <2>5, <2>6 DEF due
    <3>4. Timely(e, m_mapRegisterfdedStore[k].key) /\ m_mapRegisterfdedStore[k].key \in Int
      <4>1. k \in Nat /\ Left(k)
        BY <1>1, <2>1, <2>2
      <4> QED BY <2>3, <3>1, <4>1, <1>2, ItemFields
    <3>5. i \in DOMAIN m_mapRegisterfdedStore /\ i >= k /\ m_mapRegisterfdedStore[i].key \in Int
      BY <1>1, <1>2, <2>2, <2>11, ItemFields DEF Left, InRound
    <3>6. m_mapRegisterfdedStore[i].key >= m_mapRegisterfdedStore[k].key
      <4>1. CASE i = k
        BY <3>4, <4>1
      <4>2. CASE i # k
        <5>1. k < i
          BY <1>1, <3>5, <4>2
        <5> QED BY <1>t, <3>5, <5>1 DEF Ordered
      <4> QED BY <4>1, <4>2
    <3>7. m_mapRegisterfdedStore[k].key > real - slow
      <4>1. e.tmEnd <= m_mapRegisterfdedStore[k].key
        BY <3>4 DEF Timely
      <4> QED BY <2>4, <2>6, <3>1, <3>3, <3>4, <4>1
    <3>8. m[i].key > real - slow
      BY <2>10, <3>2, <3>4, <3>5, <3>6, <3>7
    <3>9. Timely(m[i].entry, m[i].key)
      <4>1. CASE i # k
        BY <2>9, <2>11, <3>1, <3>5, <4>1
      <4>2. CASE i = k
        <5>1. m_mapRegisterfdedStore[k].key = since[e.timer] + e.ms /\ e.tmEnd <= m_mapRegisterfdedStore[k].key /\ e.tmStart >= since[e.timer] - MaxSlow
          BY <3>4 DEF Timely
        <5>2. since[e.timer] \in Int /\ since[e.timer] <= real
          BY <1>t, <2>6, <3>2, TimerBounds DEF TimerTypeInv
        <5>3. f.tmEnd <= m_mapRegisterfdedStore[k].key /\ f.tmEnd \in Int /\ f.tmStart \in Int
          BY <2>6, <2>8, <3>4, <5>1, EntryFields
        <5>4. f.tmStart >= since[e.timer] - MaxSlow
          <6>1. c >= since[e.timer] - MaxSlow
            BY <3>1, <3>2, <5>2
          <6> QED BY <2>8, <5>1, <6>1
        <5> QED BY <2>8, <2>9, <4>2, <5>1, <5>3, <5>4 DEF Timely
      <4> QED BY <4>1, <4>2
    <3> QED BY <3>8, <3>9
  <2>12. m_mapRegisterfdedStore' = SubSeq(m, thread.it, Len(m))
    BY <2>2, <2>5
  <2>13. AsChecked(m)
    BY <2>9, <2>10, <2>11, <2>12 DEF AsChecked
  <2> QED BY <2>13
<1> QED BY <1>3, <1>4

\* What was called is erased, what is left is what waited.
LEMMA endOfRoundKeeps ==
    ASSUME TimerInv, endOfRound
    PROVE  TimerInv'
<1>t. TimerTypeInv /\ RoundInv /\ EntryInv /\ OnceInv /\ CallInv /\ DueInv /\ Ordered(m_mapRegisterfdedStore)
  BY DEF TimerInv
<1>1. /\ UNCHANGED <<m_runing, m_tmpRegisterfdList, stopper, since, calls, shift, sets, real, slow>>
      /\ thread.at = "process" /\ thread' = Wait
  BY DEF endOfRound, timeVars
<1>2. PICK m : AsChecked(m)
  BY RoundEnds
<1>3. PICK k \in 1..Len(m_mapRegisterfdedStore) + 1 : k = thread.it
  <2>1. thread.it \in Nat /\ thread.it >= 1 /\ thread.it <= Len(m_mapRegisterfdedStore) + 1 /\ Len(m_mapRegisterfdedStore) \in Nat
    BY <1>1, <1>t, EntriesType DEF RoundInv, InRound, TimerTypeInv
  <2> QED BY <2>1
<1>4. Len(m_mapRegisterfdedStore) \in Nat /\ DOMAIN m_mapRegisterfdedStore = 1..Len(m_mapRegisterfdedStore) /\ \A i \in DOMAIN m_mapRegisterfdedStore : m_mapRegisterfdedStore[i].entry \in Entries /\ m_mapRegisterfdedStore[i] \in Item
  BY <1>t, EntriesType
<1> DEFINE n == Len(m_mapRegisterfdedStore) - k + 1
           At(i) == k + i - 1
<1>5. /\ m_mapRegisterfdedStore' \in Seq(Item) /\ n \in Nat /\ DOMAIN m_mapRegisterfdedStore' = 1..n /\ \A i \in 1..n : m_mapRegisterfdedStore'[i] = m[At(i)]
  <2>1. m \in Seq(Item) /\ k \in 1..Len(m) + 1 /\ m_mapRegisterfdedStore' = SubSeq(m, k, Len(m)) /\ Len(m) = Len(m_mapRegisterfdedStore)
    BY <1>2, <1>3 DEF AsChecked
  <2>2. m_mapRegisterfdedStore' \in Seq(Item) /\ Len(m_mapRegisterfdedStore') = Len(m) - k + 1 /\ \A i \in 1..Len(m) - k + 1 : m_mapRegisterfdedStore'[i] = m[k + i - 1]
    BY <2>1, FromPlace
  <2>3. n \in Nat
    BY <1>4
  <2>4. DOMAIN m_mapRegisterfdedStore' = 1..Len(m_mapRegisterfdedStore')
    BY <2>2
  <2> QED BY <2>1, <2>2, <2>3, <2>4
<1>6. \A i \in 1..n : i \in Nat /\ At(i) \in Nat /\ At(i) \in DOMAIN m_mapRegisterfdedStore /\ Left(At(i))
  <2>1. \A i \in 1..n : i \in Nat /\ At(i) \in Nat /\ At(i) \in 1..Len(m_mapRegisterfdedStore) /\ At(i) >= k
    BY <1>4
  <2> QED BY <1>3, <1>4, <2>1 DEF Left
<1>7. \A j \in Nat : Left(j) => \E i \in 1..n : At(i) = j
  <2> SUFFICES ASSUME NEW j \in Nat, Left(j) PROVE \E i \in 1..n : At(i) = j
    OBVIOUS
  <2>1. j \in 1..Len(m_mapRegisterfdedStore) /\ j >= k
    BY <1>1, <1>3, <1>4 DEF Left, InRound
  <2>2. j - k + 1 \in 1..n /\ At(j - k + 1) = j
    BY <1>4, <2>1
  <2> QED BY <2>2
<1>8. \A i, j \in 1..n : (i # j => At(i) # At(j)) /\ (i < j => At(i) < At(j))
  BY <1>4
<1> HIDE DEF n, At
<1>9. \A i \in 1..n : /\ m_mapRegisterfdedStore'[i].key = m_mapRegisterfdedStore[At(i)].key
                      /\ m_mapRegisterfdedStore'[i].entry.timer = m_mapRegisterfdedStore[At(i)].entry.timer /\ m_mapRegisterfdedStore'[i].entry.ms = m_mapRegisterfdedStore[At(i)].entry.ms
                      /\ m_mapRegisterfdedStore'[i].entry.ms = m_mapRegisterfdedStore'[i].entry.tmEnd - m_mapRegisterfdedStore'[i].entry.tmStart
  BY <1>2, <1>5, <1>6 DEF AsChecked
<1>10. \A i \in Nat : Left(i)' <=> i \in 1..n
  BY <1>1, <1>5 DEF Left, InRound, Wait
<1>11. TimerTypeInv'
  <2>1. thread' \in [at : {"wait", "add", "process", "again", "ended"}, curms : Int, it : Nat]
    BY <1>1 DEF Wait
  <2> QED BY <1>1, <1>5, <1>t, <2>1 DEF TimerTypeInv
<1>12. RoundInv'
  BY <1>1, <1>t DEF RoundInv, InRound, Wait
<1>13. Ordered(m_mapRegisterfdedStore)'
  <2>1. ASSUME NEW i \in 1..n, NEW j \in 1..n, i < j PROVE m_mapRegisterfdedStore'[i].key <= m_mapRegisterfdedStore'[j].key
    <3>1. At(i) \in DOMAIN m_mapRegisterfdedStore /\ At(j) \in DOMAIN m_mapRegisterfdedStore /\ At(i) < At(j)
      BY <1>6, <1>8, <2>1
    <3>2. m_mapRegisterfdedStore[At(i)].key <= m_mapRegisterfdedStore[At(j)].key
      BY <1>t, <3>1 DEF Ordered
    <3> QED BY <1>9, <3>2
  <2> QED BY <1>5, <2>1 DEF Ordered
<1>14. EntryInv'
  <2> DEFINE Known(e) == \E f \in Entries : e.timer = f.timer /\ e.ms = f.ms
  <2>1. \A e \in Range(m_tmpRegisterfdList) : e \in Entries /\ Known(e) /\ e.ms = e.tmEnd - e.tmStart
    BY <1>t, EntriesType DEF EntryInv
  <2>2. \A i \in 1..n : Known(m_mapRegisterfdedStore'[i].entry) /\ m_mapRegisterfdedStore'[i].entry.ms = m_mapRegisterfdedStore'[i].entry.tmEnd - m_mapRegisterfdedStore'[i].entry.tmStart
    BY <1>4, <1>6, <1>9
  <2> HIDE DEF Known
  <2>3. \A e \in Entries' : Known(e) /\ e.ms = e.tmEnd - e.tmStart
    <3>1. \A y \in Range(m_mapRegisterfdedStore') : Known(y.entry) /\ y.entry.ms = y.entry.tmEnd - y.entry.tmStart
      BY <1>5, <2>2 DEF Range
    <3> QED BY <1>1, <2>1, <3>1 DEF Entries
  <2>4. \A e \in Entries' : since[e.timer] # None
    BY <1>t, <2>3 DEF EntryInv, Known
  <2>5. \A e, f \in Entries' : e.timer = f.timer => e.ms = f.ms
    BY <1>t, <2>3 DEF EntryInv, Known
  <2> QED BY <1>1, <2>3, <2>4, <2>5 DEF EntryInv
<1>15. OnceInv'
  <2>1. Single(m_tmpRegisterfdList')
    BY <1>1, <1>t DEF OnceInv
  <2>2. \A i, j \in 1..n : i # j => m_mapRegisterfdedStore'[i].entry.timer # m_mapRegisterfdedStore'[j].entry.timer
    BY <1>6, <1>8, <1>9, <1>t DEF OnceInv
  <2>3. \A e \in Range(m_tmpRegisterfdList), i \in 1..n : e.timer # m_mapRegisterfdedStore'[i].entry.timer
    BY <1>6, <1>9, <1>t DEF OnceInv
  <2> QED BY <1>1, <1>10, <2>1, <2>2, <2>3 DEF OnceInv
<1>16. CallInv'
  <2>1. \A t : WaitsAt(t)' <=> WaitsAt(t)
    <3> TAKE t
    <3>1. (\E i \in Nat : Left(i)' /\ m_mapRegisterfdedStore'[i].entry.timer = t) <=> \E i \in Nat : Left(i) /\ m_mapRegisterfdedStore[i].entry.timer = t
      <4>1. (\E i \in Nat : Left(i)' /\ m_mapRegisterfdedStore'[i].entry.timer = t) <=> \E i \in 1..n : m_mapRegisterfdedStore'[i].entry.timer = t
        BY <1>6, <1>10
      <4>2. (\E i \in 1..n : m_mapRegisterfdedStore'[i].entry.timer = t) <=> \E i \in 1..n : m_mapRegisterfdedStore[At(i)].entry.timer = t
        BY <1>9
      <4>3. (\E i \in 1..n : m_mapRegisterfdedStore[At(i)].entry.timer = t) <=> \E j \in Nat : Left(j) /\ m_mapRegisterfdedStore[j].entry.timer = t
        BY <1>6, <1>7
      <4> QED BY <4>1, <4>2, <4>3
    <3> QED BY <1>1, <3>1 DEF WaitsAt
  <2> QED BY <1>1, <1>11, <1>t, <2>1, WhereItWaits, WhereItWaitsNext DEF CallInv
<1>17. DueInv'
  <2> SUFFICES ASSUME sets = 0 PROVE DueInv'
    BY <1>1 DEF DueInv
  <2>1. DueInv!2
    BY <1>t DEF DueInv
  <2>2. \A e, j : Timely(e, j)' <=> Timely(e, j)
    BY <1>1 DEF Timely
  <2>3. ListFrom' = ListFrom /\ MapFrom' = real - slow /\ thread'.at = "wait"
    BY <1>1 DEF ListFrom, MapFrom, Wait
  <2>4. \A i \in 1..n : Timely(m_mapRegisterfdedStore'[i].entry, m_mapRegisterfdedStore'[i].key) /\ m_mapRegisterfdedStore'[i].key > real - slow
    BY <1>2, <1>5, <1>6 DEF AsChecked
  <2> QED BY <1>1, <1>10, <2>1, <2>2, <2>3, <2>4 DEF DueInv
<1> QED BY <1>11, <1>12, <1>13, <1>14, <1>15, <1>16, <1>17 DEF TimerInv

-----------------------------------------------------------------------------
(* TimerService: the invariant. *)

\* TimerInv holds at first, every step preserves it, and so it holds always.
LEMMA TimerInitInv == TimerInit => TimerInv
<1> SUFFICES ASSUME TimerInit PROVE TimerInv
  OBVIOUS
<1>1. /\ m_runing = TRUE /\ m_tmpRegisterfdList = <<>> /\ m_mapRegisterfdedStore = <<>> /\ thread = Wait /\ stopper = "out"
      /\ shift = 0 /\ sets = 0 /\ real = 0 /\ slow = 0
      /\ since = [t \in Timer |-> None] /\ calls = [t \in Timer |-> 0]
  BY DEF TimerInit
<1>2. DOMAIN m_mapRegisterfdedStore = {} /\ DOMAIN m_tmpRegisterfdList = {} /\ Range(m_tmpRegisterfdList) = {} /\ Range(m_mapRegisterfdedStore) = {}
  BY <1>1 DEF Range
<1>3. Entries = {} /\ \A i : ~Left(i)
  BY <1>2 DEF Entries, Left
<1>4. thread.at = "wait" /\ thread \in [at : {"wait", "add", "process", "again", "ended"}, curms : Int, it : Nat]
  BY <1>1 DEF Wait
<1>5. TimerTypeInv
  <2>1. 0 \in 0..MaxReal /\ 0 \in 0..MaxSlow /\ None <= 0
    BY TimerBounds
  <2> QED BY <1>1, <1>4, <2>1 DEF TimerTypeInv
<1>6. RoundInv
  BY <1>1, <1>4 DEF RoundInv, InRound
<1>7. Ordered(m_mapRegisterfdedStore) /\ EntryInv /\ OnceInv
  BY <1>2, <1>3 DEF Ordered, EntryInv, OnceInv, Single
<1>8. CallInv
  <2>1. \A t : ~Waiting(t)
    BY <1>2 DEF Waiting
  <2>2. \A t \in Timer : since[t] = None /\ calls[t] = 0
    BY <1>1
  <2>3. \A t \in Once : calls[t] = 0
    BY <2>2 DEF Timer
  <2> QED BY <2>1, <2>2, <2>3 DEF CallInv
<1>9. DueInv
  BY <1>1, <1>2, <1>3, <1>4 DEF DueInv
<1> QED BY <1>5, <1>6, <1>7, <1>8, <1>9 DEF TimerInv

LEMMA TimerInvStep == TimerInv /\ [TimerNext]_timerVars => TimerInv'
<1> SUFFICES ASSUME TimerInv, [TimerNext]_timerVars PROVE TimerInv'
  OBVIOUS
<1>1. CASE UNCHANGED timerVars
  BY <1>1, TimerStutter
<1>2. CASE Tick
  BY <1>2, TickKeeps
<1>3. CASE \E d \in Forward : setClock(d)
  <2>1. PICK d \in Forward : setClock(d)
    BY <1>3
  <2>2. d \in Int
    BY TimerAssumption
  <2> QED BY <2>1, <2>2, setClockKeeps
<1>4. CASE \E b \in Back : setClock(-b)
  <2>1. PICK b \in Back : setClock(-b)
    BY <1>4
  <2>2. -b \in Int
    <3>1. b \in Int
      BY TimerAssumption
    <3> QED BY <3>1
  <2> QED BY <2>1, <2>2, setClockKeeps
<1>5. CASE \E t \in Timer, ms \in Ms : setTimer(t, ms)
  BY <1>5, setTimerKeeps
<1>6. CASE Thread
  BY <1>6, wakeKeeps, addNewTimerKeeps, callbackKeeps, loopTimerKeeps, endOfRoundKeeps DEF Thread
<1>7. CASE stop
  BY <1>7, stopKeeps
<1>8. CASE cleardata
  BY <1>8, cleardataKeeps
<1> QED BY <1>1, <1>2, <1>3, <1>4, <1>5, <1>6, <1>7, <1>8 DEF TimerNext

LEMMA TimerInvariant == TimerSpec => []TimerInv
BY TimerInitInv, TimerInvStep, PTL DEF TimerSpec

\* The time a timer is registered with is that of any entry of it.
LEMMA MsIs ==
    ASSUME TimerTypeInv, EntryInv, NEW e \in Entries
    PROVE  MsOf(e.timer) = e.ms
<1> DEFINE all == {m_tmpRegisterfdList[i] : i \in DOMAIN m_tmpRegisterfdList} \cup {m_mapRegisterfdedStore[i].entry : i \in DOMAIN m_mapRegisterfdedStore}
           f == CHOOSE f \in all : f.timer = e.timer
<1>1. all = Entries
  BY DEF Entries, Range
<1>2. f \in Entries /\ f.timer = e.timer
  BY <1>1
<1>3. MsOf(e.timer) = f.ms
  BY DEF MsOf
<1> HIDE DEF f
<1> QED BY <1>2, <1>3 DEF EntryInv

\* TimersAreServed, for any sets of timers and times, any clock and any bounds: no timer is lost,
\* none that is called once is called twice, and while nobody sets the clock none is late.
THEOREM TimersServed == TimerSpec => []TimersAreServed
<1>1. TimerInv => TimersAreServed
  <2> SUFFICES ASSUME TimerInv PROVE TimersAreServed
    OBVIOUS
  <2>t. TimerTypeInv /\ RoundInv /\ EntryInv /\ OnceInv /\ CallInv /\ DueInv /\ Ordered(m_mapRegisterfdedStore)
    BY DEF TimerInv
  <2>1. TimerTypeOK
    <3>1. \A t \in Timer : since[t] \in {None} \cup 0..MaxReal /\ calls[t] \in Nat
      BY <2>t DEF TimerTypeInv
    <3>2. thread.at \in {"wait", "add", "process", "again", "ended"}
      BY <2>t DEF TimerTypeInv
    <3> QED BY <2>t, <3>1, <3>2 DEF TimerTypeOK, TimerTypeInv, Ordered
  <2>2. TimersAreKept
    BY <2>t DEF TimersAreKept, CallInv
  <2>3. TimersAreOnTime
    <3> SUFFICES ASSUME sets = 0, m_runing, NEW t \in Timer, Waiting(t)
                 PROVE  real <= since[t] + MsOf(t) + 2 * MaxSlow
      BY DEF TimersAreOnTime
    <3>1. real \in Int /\ slow \in 0..MaxSlow /\ MaxSlow \in Nat /\ thread.at # "ended" /\ since[t] \in Int
      BY <2>t, TimerBounds DEF TimerTypeInv, RoundInv
    <3>2. DueInv!2
      BY <2>t DEF DueInv
    <3>3. \A n \in Int : n > ListFrom \/ n > MapFrom => real <= n + 2 * MaxSlow
      BY <3>1 DEF ListFrom, MapFrom
    <3>4. CASE \E e \in Range(m_tmpRegisterfdList) : e.timer = t
      <4>1. PICK e \in Range(m_tmpRegisterfdList) : e.timer = t
        BY <3>4
      <4>2. e \in Entries /\ e.tmEnd \in Int
        BY <2>t, <4>1, EntriesType, EntryFields
      <4>3. MsOf(t) = e.ms
        BY <2>t, <4>1, <4>2, MsIs
      <4>4. e.tmEnd = since[t] + e.ms /\ e.tmEnd > ListFrom
        BY <3>1, <3>2, <4>1 DEF Timely
      <4>5. real <= e.tmEnd + 2 * MaxSlow
        BY <3>3, <4>2, <4>4
      <4> QED BY <4>3, <4>4, <4>5
    <3>5. CASE \E i \in Nat : Left(i) /\ m_mapRegisterfdedStore[i].entry.timer = t
      <4>1. PICK i \in Nat : Left(i) /\ m_mapRegisterfdedStore[i].entry.timer = t
        BY <3>5
      <4>2. m_mapRegisterfdedStore[i].entry \in Entries /\ m_mapRegisterfdedStore[i].key \in Int
        BY <2>t, <4>1, LeftPlace
      <4>3. MsOf(t) = m_mapRegisterfdedStore[i].entry.ms
        BY <2>t, <4>1, <4>2, MsIs
      <4>4. m_mapRegisterfdedStore[i].key = since[t] + m_mapRegisterfdedStore[i].entry.ms /\ m_mapRegisterfdedStore[i].key > MapFrom
        BY <3>1, <3>2, <4>1 DEF Timely
      <4>5. real <= m_mapRegisterfdedStore[i].key + 2 * MaxSlow
        BY <3>3, <4>2, <4>4
      <4> QED BY <4>3, <4>4, <4>5
    <3> QED BY <2>t, <3>4, <3>5, WhereItWaits DEF WaitsAt
  <2> QED BY <2>1, <2>2, <2>3 DEF TimersAreServed
<1> QED BY <1>1, TimerInvariant, PTL

\* What CallbacksComeDue says of each step: while nobody sets the clock no callback comes before
\* its time, and none comes after stop().
THEOREM CallbacksInTime == TimerSpec => TimersAreNotEarly /\ StoppedMeansQuiet
<1> USE DEF timerVars, serviceVars, timeVars
<1>1. TimerInv /\ [TimerNext]_timerVars => callback \/ UNCHANGED calls
  BY DEF TimerNext, Thread, Tick, setClock, setTimer, wake, addNewTimer, loopTimer, endOfRound, stop, cleardata
<1>2. TimerInv /\ callback => stopper # "stopped"
  BY DEF TimerInv, RoundInv, callback, Processing
<1>3. ASSUME TimerInv, callback, sets = 0, NEW t \in Timer, calls'[t] > calls[t]
      PROVE  real >= since[t] + MsOf(t) - MaxSlow
  <2>t. TimerTypeInv /\ RoundInv /\ EntryInv /\ DueInv
    BY <1>3 DEF TimerInv
  <2>1. Processing /\ due(last, thread.curms) /\ calls' = [calls EXCEPT ![last.timer] = @ + 1]
    BY <1>3 DEF callback
  <2>2. /\ Left(thread.it) /\ thread.it \in Nat /\ last = m_mapRegisterfdedStore[thread.it].entry
        /\ last \in Entries /\ last \in Entry /\ last.timer \in Timer
    BY <2>1, <2>t, Current
  <2>3. calls \in [Timer -> Nat] /\ real \in Int /\ slow \in 0..MaxSlow /\ MaxSlow \in Nat /\ since[t] \in Int
    BY <2>t, TimerBounds DEF TimerTypeInv
  <2>4. t = last.timer
    <3> SUFFICES ASSUME t # last.timer PROVE FALSE
      OBVIOUS
    <3>1. calls'[t] = calls[t] /\ calls[t] \in Nat
      BY <2>1, <2>3
    <3> QED BY <1>3, <3>1
  <2>5. MsOf(t) = last.ms
    BY <2>2, <2>4, <2>t, MsIs
  <2>6. thread.curms = real - slow /\ last.tmStart >= since[t] - MaxSlow
    <3>1. thread.at = "process"
      BY <2>1 DEF Processing
    <3>2. DueInv!2
      BY <1>3, <2>t DEF DueInv
    <3>3. Timely(last, m_mapRegisterfdedStore[thread.it].key)
      BY <2>2, <3>2
    <3> QED BY <2>4, <3>1, <3>2, <3>3 DEF Timely
  <2>7. thread.curms >= last.tmEnd /\ last.ms = last.tmEnd - last.tmStart
    BY <2>1, <2>2, <2>t DEF due, EntryInv
  <2>8. last.tmEnd \in Int /\ last.tmStart \in Int /\ last.ms \in Int
    BY <2>2, EntryFields
  <2>9. real >= since[t] + last.ms - MaxSlow
    BY <2>3, <2>6, <2>7, <2>8
  <2> QED BY <2>5, <2>9
<1>4. TimerInv /\ [TimerNext]_timerVars =>
          [sets = 0 => \A t \in Timer : calls'[t] > calls[t] => real >= since[t] + MsOf(t) - MaxSlow]_timerVars
  <2> SUFFICES ASSUME TimerInv, [TimerNext]_timerVars, sets = 0, NEW t \in Timer, calls'[t] > calls[t]
               PROVE  real >= since[t] + MsOf(t) - MaxSlow
    OBVIOUS
  <2>1. calls[t] \in Nat
    BY DEF TimerInv, TimerTypeInv
  <2>2. callback
    BY <1>1, <2>1
  <2> QED BY <1>3, <2>2
<1>5. TimerInv /\ [TimerNext]_timerVars => [stopper = "stopped" => calls' = calls]_timerVars
  BY <1>1, <1>2
<1>6. TimerSpec => TimersAreNotEarly
  BY <1>4, TimerInvariant, PTL DEF TimerSpec, TimersAreNotEarly
<1>7. TimerSpec => StoppedMeansQuiet
  BY <1>5, TimerInvariant, PTL DEF TimerSpec, StoppedMeansQuiet
<1> QED BY <1>6, <1>7

-----------------------------------------------------------------------------
\* Where the operations of a SharedPtr and of a WeakPtr can be.
SharedPlace == {"null", "incRef", "incWeak", "held", "delete", "decWeak", "deleteRef"}
WeakPlace == {"null", "incWeak", "held", "expired", "incFetch", "undo", "construct", "deleteRef"}

PtrTypeInv == /\ m_mutex \in Weak \cup {Free}
              /\ freed \subseteq {"object", "RefData"}
              /\ at \in [Ptr -> Place]
              /\ \A s \in Shared : at[s] \in SharedPlace
              /\ \A w \in Weak : at[w] \in WeakPlace
              /\ src \in [Ptr -> Ptr \cup {NoPtr}]
              /\ dest \in [Weak -> Shared \cup {NoPtr}]

\* What a variable is copied from stays: it keeps the counts above zero.
CopyInv == \A p \in Ptr :
               /\ at[p] \in {"incRef", "incWeak"} <=> src[p] # NoPtr
               /\ src[p] # NoPtr =>
                      \/ src[p] \in Shared /\ at[src[p]] = "held"
                      \/ p \in Weak /\ src[p] \in Weak /\ at[src[p]] \in {"held", "expired"}

\* The SharedPtr under construction by a lock() is nobody else's.
LockInv == \A w \in Weak :
               /\ at[w] \in {"incFetch", "undo", "construct"} <=> dest[w] # NoPtr
               /\ dest[w] # NoPtr => /\ at[dest[w]] = "null"
                                     /\ \A v \in Weak \ {w} : dest[v] # dest[w]

\* The mutex is held inside lock() only.
WeakMutexInv == \A w \in Weak : at[w] \in {"incFetch", "undo"} <=> m_mutex = w

\* What m_ref_count counts: owners, and a lock() that is about to undo its increment.
Strong == Owners \cup {w \in Weak : at[w] = "undo"}

\* What m_weak_ref_count counts.
WeakHolders == {s \in Shared : at[s] \in {"held", "delete", "decWeak"}} \cup
               {w \in Weak : at[w] \in {"held", "expired", "incFetch", "undo", "construct"}}

\* The counts count them.
CountInv == /\ m_ref_count = Cardinality(Strong)
            /\ m_weak_ref_count = Cardinality(WeakHolders)

\* The object is there while it has an owner, or one variable is about to delete it.
ObjectInv == /\ "object" \notin freed => Owners # {} \/ \E s \in Shared : at[s] = "delete"
             /\ Owners # {} => "object" \notin freed
             /\ \A s \in Shared : at[s] = "delete" =>
                    /\ Owners = {} /\ "object" \notin freed
                    /\ \A t \in Shared \ {s} : at[t] # "delete"
             /\ \A w \in Weak : at[w] = "undo" => Owners = {}

\* So it is with RefData and its holders.
RefDataInv == /\ "RefData" \notin freed => WeakHolders # {} \/ \E p \in Ptr : at[p] = "deleteRef"
              /\ WeakHolders # {} => "RefData" \notin freed
              /\ \A p \in Ptr : at[p] = "deleteRef" =>
                     /\ WeakHolders = {} /\ "RefData" \notin freed
                     /\ \A q \in Ptr \ {p} : at[q] # "deleteRef"

PtrInv == PtrTypeInv /\ CopyInv /\ LockInv /\ WeakMutexInv /\ CountInv /\ ObjectInv /\ RefDataInv

USE SmartPtrAssumption DEF Ptr

-----------------------------------------------------------------------------
(* SmartPtr: facts of the counts. *)

\* One more element counts one more,
LEMMA OneMore ==
    ASSUME NEW S, NEW T, NEW x, IsFiniteSet(S), x \notin S, T = S \cup {x}
    PROVE  Cardinality(T) = Cardinality(S) + 1
BY FS_AddElement

\* and one less counts one less.
LEMMA OneLess ==
    ASSUME NEW S, NEW T, NEW x, IsFiniteSet(S), x \in S, T = S \ {x}
    PROVE  Cardinality(T) = Cardinality(S) - 1
BY FS_RemoveElement

\* Exchanging an element for another one keeps the count.
LEMMA OneForAnother ==
    ASSUME NEW S, NEW T, NEW x, NEW y, IsFiniteSet(S), x \in S, y \notin S, T = (S \ {x}) \cup {y}
    PROVE  Cardinality(T) = Cardinality(S)
<1>1. IsFiniteSet(S \ {x}) /\ Cardinality(S \ {x}) = Cardinality(S) - 1
  BY FS_RemoveElement
<1>2. Cardinality(T) = Cardinality(S \ {x}) + 1
  BY <1>1, FS_AddElement
<1>3. Cardinality(S) \in Nat
  BY FS_CardinalityType
<1> QED BY <1>1, <1>2, <1>3

\* The counted sets are finite, so that a count is zero only when nobody is counted.
LEMMA CountedAreFinite ==
    /\ IsFiniteSet(Strong) /\ Cardinality(Strong) \in Nat
    /\ Cardinality(Strong) = 0 <=> Strong = {}
    /\ IsFiniteSet(WeakHolders) /\ Cardinality(WeakHolders) \in Nat
    /\ Cardinality(WeakHolders) = 0 <=> WeakHolders = {}
<1>1. IsFiniteSet(Shared \cup Weak)
  BY FS_Union
<1>2. Strong \in SUBSET (Shared \cup Weak) /\ WeakHolders \in SUBSET (Shared \cup Weak)
  BY DEF Strong, Owners, WeakHolders
<1>3. IsFiniteSet(Strong) /\ IsFiniteSet(WeakHolders)
  BY <1>1, <1>2, FS_Subset
<1> QED BY <1>3, FS_CardinalityType, FS_EmptySet

\* Initially First is the only variable that counts.
LEMMA PtrInitInv == PtrInit => PtrInv
<1> SUFFICES ASSUME PtrInit PROVE PtrInv
  OBVIOUS
<1>1. \A p \in Ptr : at[p] = IF p = First THEN "held" ELSE "null"
  BY DEF PtrInit
<1>2. Strong = {First} /\ WeakHolders = {First} /\ Owners = {First}
  BY <1>1 DEF Strong, Owners, WeakHolders
<1>3. CountInv
  BY <1>2, FS_Singleton DEF CountInv, PtrInit
<1>4. PtrTypeInv
  BY <1>1 DEF PtrInit, PtrTypeInv, Place, SharedPlace, WeakPlace
<1>5. CopyInv /\ LockInv /\ WeakMutexInv
  BY <1>1 DEF CopyInv, LockInv, WeakMutexInv, PtrInit
<1>6. ObjectInv /\ RefDataInv
  BY <1>1, <1>2 DEF ObjectInv, RefDataInv, PtrInit
<1> QED BY <1>3, <1>4, <1>5, <1>6 DEF PtrInv

-----------------------------------------------------------------------------
(* SmartPtr: the steps, one lemma each. *)

\* A copy begins: nobody is counted yet.
LEMMA CopyStep ==
    ASSUME PtrInv, NEW p \in Ptr, NEW q \in Ptr, copy(p, q)
    PROVE  PtrInv'
<1> USE DEF PtrInv, copy, Idle, GoesTo
<1>1. /\ at[p] = "null" /\ at'[p] \in {"incRef", "incWeak"} /\ \A r \in Ptr \ {p} : at'[r] = at[r]
      /\ p \in Weak => at'[p] = "incWeak"
      /\ p \in Shared => at'[p] = "incRef"
      /\ src'[p] = q /\ \A r \in Ptr \ {p} : src'[r] = src[r]
      /\ p # q
  BY DEF PtrTypeInv
<1>2. UNCHANGED <<Strong, Owners, WeakHolders>>
  BY <1>1 DEF Strong, Owners, WeakHolders
<1>3. PtrTypeInv'
  BY <1>1 DEF PtrTypeInv, Place, SharedPlace, WeakPlace
<1>4. CopyInv' /\ LockInv' /\ WeakMutexInv'
  BY <1>1 DEF PtrTypeInv, CopyInv, LockInv, WeakMutexInv
<1>5. CountInv' /\ ObjectInv' /\ RefDataInv'
  BY <1>1, <1>2 DEF CountInv, ObjectInv, RefDataInv
<1> QED BY <1>3, <1>4, <1>5

\* incRef: the source is held, so the object is alive and stays.
LEMMA IncRefStep ==
    ASSUME PtrInv, NEW s \in Shared, incRef(s)
    PROVE  PtrInv'
<1> USE DEF PtrInv, incRef, GoesTo
<1>1. /\ at[s] = "incRef" /\ at'[s] = "incWeak" /\ \A r \in Ptr \ {s} : at'[r] = at[r]
      /\ src[s] \in Shared /\ at[src[s]] = "held"
  BY DEF PtrTypeInv, CopyInv
<1>2. Owners' = Owners \cup {s} /\ Owners # {} /\ WeakHolders' = WeakHolders
  BY <1>1 DEF Owners, WeakHolders
<1>3. Strong' = Strong \cup {s} /\ s \notin Strong
  BY <1>1 DEF Strong, Owners
<1>4. PtrTypeInv'
  BY <1>1 DEF PtrTypeInv, Place, SharedPlace, WeakPlace
<1>5. CopyInv' /\ LockInv' /\ WeakMutexInv'
  BY <1>1 DEF PtrTypeInv, CopyInv, LockInv, WeakMutexInv
<1>6. CountInv'
  BY <1>2, <1>3, CountedAreFinite, OneMore DEF CountInv
<1>7. ObjectInv' /\ RefDataInv'
  BY <1>1, <1>2 DEF ObjectInv, RefDataInv
<1> QED BY <1>4, <1>5, <1>6, <1>7

\* incWeak: the copy is done, and counted by both counts.
LEMMA IncWeakStep ==
    ASSUME PtrInv, NEW p \in Ptr, incWeak(p)
    PROVE  PtrInv'
<1> USE DEF PtrInv, incWeak, GoesTo
<1>1. /\ at[p] = "incWeak" /\ at'[p] = at[src[p]] /\ \A r \in Ptr \ {p} : at'[r] = at[r]
      /\ src[p] \in Ptr /\ src[p] # p
      /\ at'[p] \in {"held", "expired"} /\ (p \in Shared => at'[p] = "held")
      /\ src'[p] = NoPtr /\ \A r \in Ptr \ {p} : src'[r] = src[r]
  BY DEF PtrTypeInv, CopyInv
<1>2. WeakHolders' = WeakHolders \cup {p} /\ p \notin WeakHolders /\ WeakHolders # {}
  <2>1. WeakHolders # {}
    BY <1>1 DEF WeakHolders, CopyInv
  <2> QED BY <1>1, <2>1 DEF WeakHolders
<1>3. Owners' = Owners /\ Strong' = Strong
  BY <1>1 DEF Strong, Owners
<1>4. PtrTypeInv'
  BY <1>1 DEF PtrTypeInv, Place, SharedPlace, WeakPlace
<1>5. CopyInv' /\ LockInv' /\ WeakMutexInv'
  BY <1>1 DEF PtrTypeInv, CopyInv, LockInv, WeakMutexInv
<1>6. CountInv'
  BY <1>2, <1>3, CountedAreFinite, OneMore DEF CountInv
<1>7. ObjectInv' /\ RefDataInv'
  BY <1>1, <1>2, <1>3 DEF ObjectInv, RefDataInv
<1> QED BY <1>4, <1>5, <1>6, <1>7

\* reset() of a SharedPtr: who counts down to zero is the one to delete.
LEMMA ResetSharedStep ==
    ASSUME PtrInv, NEW s \in Shared, resetShared(s)
    PROVE  PtrInv'
<1> USE DEF PtrInv, resetShared, Idle, GoesTo
<1>1. /\ at[s] = "held" /\ at'[s] = IF m_ref_count' = 0 THEN "delete" ELSE "decWeak"
      /\ \A r \in Ptr \ {s} : at'[r] = at[r]
      /\ \A r \in Ptr : src[r] # s
      /\ \A w \in Weak : dest[w] # s
  BY DEF PtrTypeInv
<1>2. /\ Strong' = Strong \ {s} /\ s \in Strong
      /\ Owners' = Owners \ {s} /\ s \in Owners /\ WeakHolders' = WeakHolders
  BY <1>1 DEF Strong, Owners, WeakHolders
<1>3. CountInv'
  BY <1>2, CountedAreFinite, OneLess DEF CountInv
<1>4. Owners = Strong
  BY <1>2 DEF Strong, ObjectInv
<1>5. m_ref_count' = 0 <=> Owners' = {}
  <2>1. IsFiniteSet(Strong') /\ (Cardinality(Strong') = 0 <=> Strong' = {})
    BY <1>2, CountedAreFinite, FS_RemoveElement, FS_EmptySet
  <2> QED BY <2>1, <1>2, <1>3, <1>4 DEF CountInv
<1>6. PtrTypeInv'
  BY <1>1 DEF PtrTypeInv, Place, SharedPlace, WeakPlace
<1>7. CopyInv' /\ LockInv' /\ WeakMutexInv'
  BY <1>1 DEF PtrTypeInv, CopyInv, LockInv, WeakMutexInv
<1>8. ObjectInv' /\ RefDataInv'
  BY <1>1, <1>2, <1>5 DEF ObjectInv, RefDataInv
<1> QED BY <1>3, <1>6, <1>7, <1>8

\* The object is deleted when nobody owns it.
LEMMA DeleteObjectStep ==
    ASSUME PtrInv, NEW s \in Shared, deleteObject(s)
    PROVE  PtrInv'
<1> USE DEF PtrInv, deleteObject, GoesTo
<1>1. /\ at[s] = "delete" /\ at'[s] = "decWeak" /\ \A r \in Ptr \ {s} : at'[r] = at[r]
  BY DEF PtrTypeInv
<1>2. UNCHANGED <<Strong, Owners, WeakHolders>>
  BY <1>1 DEF Strong, Owners, WeakHolders
<1>3. PtrTypeInv'
  BY <1>1 DEF PtrTypeInv, Place, SharedPlace, WeakPlace
<1>4. CopyInv' /\ LockInv' /\ WeakMutexInv'
  BY <1>1 DEF PtrTypeInv, CopyInv, LockInv, WeakMutexInv
<1>5. CountInv' /\ ObjectInv' /\ RefDataInv'
  BY <1>1, <1>2 DEF CountInv, ObjectInv, RefDataInv
<1> QED BY <1>3, <1>4, <1>5

\* The weak count falls: who counts down to zero is the one to delete RefData.
LEMMA ResetWeakStep ==
    ASSUME PtrInv, NEW p \in Ptr, resetWeak(p)
    PROVE  PtrInv'
<1> USE DEF PtrInv, resetWeak, Idle, GoesTo
<1>1. /\ at'[p] = IF m_weak_ref_count' = 0 THEN "deleteRef" ELSE "null"
      /\ \/ p \in Shared /\ at[p] = "decWeak"
         \/ p \in Weak /\ at[p] \in {"held", "expired"}
      /\ \A r \in Ptr \ {p} : at'[r] = at[r]
      /\ \A r \in Ptr : src[r] # p
      /\ \A w \in Weak : dest[w] # p
  BY DEF PtrTypeInv, CopyInv, LockInv
<1>2. /\ WeakHolders' = WeakHolders \ {p} /\ p \in WeakHolders
      /\ Owners' = Owners /\ Strong' = Strong
  BY <1>1 DEF Strong, Owners, WeakHolders
<1>3. CountInv'
  BY <1>2, CountedAreFinite, OneLess DEF CountInv
<1>4. m_weak_ref_count' = 0 <=> WeakHolders' = {}
  <2>1. IsFiniteSet(WeakHolders') /\ (Cardinality(WeakHolders') = 0 <=> WeakHolders' = {})
    BY <1>2, CountedAreFinite, FS_RemoveElement, FS_EmptySet
  <2> QED BY <2>1, <1>3 DEF CountInv
<1>5. PtrTypeInv'
  BY <1>1 DEF PtrTypeInv, Place, SharedPlace, WeakPlace
<1>6. CopyInv' /\ LockInv' /\ WeakMutexInv'
  BY <1>1 DEF PtrTypeInv, CopyInv, LockInv, WeakMutexInv
<1>7. ObjectInv' /\ RefDataInv'
  BY <1>1, <1>2, <1>4 DEF ObjectInv, RefDataInv
<1> QED BY <1>3, <1>5, <1>6, <1>7

\* RefData is deleted when nobody uses it.
LEMMA DeleteRefDataStep ==
    ASSUME PtrInv, NEW p \in Ptr, deleteRefData(p)
    PROVE  PtrInv'
<1> USE DEF PtrInv, deleteRefData, GoesTo
<1>1. /\ at[p] = "deleteRef" /\ at'[p] = "null" /\ \A r \in Ptr \ {p} : at'[r] = at[r]
      /\ src[p] = NoPtr
  BY DEF PtrTypeInv, CopyInv
<1>2. UNCHANGED <<Strong, Owners, WeakHolders>>
  BY <1>1 DEF Strong, Owners, WeakHolders
<1>3. PtrTypeInv'
  BY <1>1 DEF PtrTypeInv, Place, SharedPlace, WeakPlace
<1>4. CopyInv' /\ LockInv' /\ WeakMutexInv'
  BY <1>1 DEF PtrTypeInv, CopyInv, LockInv, WeakMutexInv
<1>5. CountInv' /\ ObjectInv' /\ RefDataInv'
  BY <1>1, <1>2 DEF CountInv, ObjectInv, RefDataInv
<1> QED BY <1>3, <1>4, <1>5

\* lock() takes the spin lock and the SharedPtr it will construct.
LEMMA LockSpinStep ==
    ASSUME PtrInv, NEW w \in Weak, NEW s \in Shared, lockSpin(w, s)
    PROVE  PtrInv'
<1> USE DEF PtrInv, lockSpin, Idle, GoesTo
<1>1. /\ at[w] = "held" /\ at'[w] = "incFetch" /\ at[s] = "null"
      /\ \A r \in Ptr \ {w} : at'[r] = at[r]
      /\ \A r \in Ptr : src[r] # w
      /\ \A v \in Weak : dest[v] # s
      /\ dest'[w] = s /\ \A v \in Weak \ {w} : dest'[v] = dest[v]
      /\ m_mutex = Free /\ m_mutex' = w
  BY DEF PtrTypeInv
<1>2. UNCHANGED <<Strong, Owners, WeakHolders>>
  BY <1>1 DEF Strong, Owners, WeakHolders
<1>3. PtrTypeInv'
  BY <1>1 DEF PtrTypeInv, Place, SharedPlace, WeakPlace
<1>4. CopyInv' /\ LockInv' /\ WeakMutexInv'
  BY <1>1 DEF PtrTypeInv, CopyInv, LockInv, WeakMutexInv
<1>5. CountInv' /\ ObjectInv' /\ RefDataInv'
  BY <1>1, <1>2 DEF CountInv, ObjectInv, RefDataInv
<1> QED BY <1>3, <1>4, <1>5

\* Under the spin lock nobody else is about to undo: the count was zero exactly when
\* the object had no owner.
LEMMA LockIncFetchStep ==
    ASSUME PtrInv, NEW w \in Weak, lockIncFetch(w)
    PROVE  PtrInv'
<1> USE DEF PtrInv, lockIncFetch, GoesTo
<1>1. /\ at[w] = "incFetch" /\ \A r \in Ptr \ {w} : at'[r] = at[r]
      /\ at'[w] = IF m_ref_count' = 1 THEN "undo" ELSE "construct"
      /\ m_mutex = w /\ m_mutex' = IF m_ref_count' = 1 THEN w ELSE Free
      /\ src[w] = NoPtr /\ \A r \in Ptr : src[r] # w
  BY DEF PtrTypeInv, WeakMutexInv, CopyInv
<1>2. \A v \in Weak : at[v] # "undo"
  BY <1>1 DEF WeakMutexInv
<1>3. Strong = Owners
  BY <1>2 DEF Strong
<1>4. Strong' = Strong \cup {w} /\ w \notin Strong /\ WeakHolders' = WeakHolders
  BY <1>1 DEF Strong, Owners, WeakHolders
<1>5. CountInv'
  BY <1>4, CountedAreFinite, OneMore DEF CountInv
<1>6. m_ref_count' = 1 <=> Owners = {}
  BY <1>3, CountedAreFinite DEF CountInv
<1>7. Owners' = IF m_ref_count' = 1 THEN {} ELSE Owners \cup {w}
  BY <1>1, <1>6 DEF Owners
<1>8. PtrTypeInv'
  BY <1>1 DEF PtrTypeInv, Place, SharedPlace, WeakPlace
<1>9. CopyInv' /\ LockInv' /\ WeakMutexInv'
  BY <1>1 DEF PtrTypeInv, CopyInv, LockInv, WeakMutexInv
<1>10. ObjectInv' /\ RefDataInv'
  BY <1>1, <1>2, <1>4, <1>6, <1>7 DEF ObjectInv, RefDataInv
<1> QED BY <1>5, <1>8, <1>9, <1>10

\* lock() of a WeakPtr whose object is gone takes its increment back.
LEMMA LockUndoStep ==
    ASSUME PtrInv, NEW w \in Weak, lockUndo(w)
    PROVE  PtrInv'
<1> USE DEF PtrInv, lockUndo, GoesTo
<1>1. /\ at[w] = "undo" /\ at'[w] = "expired" /\ \A r \in Ptr \ {w} : at'[r] = at[r]
      /\ m_mutex = w /\ m_mutex' = Free
      /\ dest'[w] = NoPtr /\ \A v \in Weak \ {w} : dest'[v] = dest[v]
      /\ \A r \in Ptr : src[r] # w
  BY DEF PtrTypeInv, WeakMutexInv, CopyInv
<1>2. /\ Strong' = Strong \ {w} /\ w \in Strong
      /\ Owners' = Owners /\ WeakHolders' = WeakHolders
  BY <1>1 DEF Strong, Owners, WeakHolders
<1>3. CountInv'
  BY <1>2, CountedAreFinite, OneLess DEF CountInv
<1>4. PtrTypeInv'
  BY <1>1 DEF PtrTypeInv, Place, SharedPlace, WeakPlace
<1>5. CopyInv' /\ LockInv' /\ WeakMutexInv'
  BY <1>1 DEF PtrTypeInv, CopyInv, LockInv, WeakMutexInv
<1>6. ObjectInv' /\ RefDataInv'
  BY <1>1, <1>2 DEF ObjectInv, RefDataInv
<1> QED BY <1>3, <1>4, <1>5, <1>6

\* The SharedPtr that lock() constructs takes over the count that lock() took.
LEMMA LockConstructStep ==
    ASSUME PtrInv, NEW w \in Weak, lockConstruct(w)
    PROVE  PtrInv'
<1> USE DEF PtrInv, lockConstruct
<1> DEFINE d == dest[w]
<1>1. /\ at[w] = "construct" /\ at[d] = "null" /\ d \in Shared
      /\ at'[w] = "held" /\ at'[d] = "held" /\ \A r \in Ptr \ {w, d} : at'[r] = at[r]
      /\ dest'[w] = NoPtr /\ \A v \in Weak \ {w} : dest'[v] = dest[v] /\ dest[v] # d
      /\ \A r \in Ptr : src[r] # w /\ src[r] # d
  BY DEF PtrTypeInv, LockInv, CopyInv
<1>2. /\ w \in Strong /\ d \notin Strong /\ Strong' = (Strong \ {w}) \cup {d}
      /\ w \in Owners /\ Owners' = (Owners \ {w}) \cup {d}
      /\ d \notin WeakHolders /\ w \in WeakHolders /\ WeakHolders' = WeakHolders \cup {d}
  BY <1>1 DEF Strong, Owners, WeakHolders
<1>3. CountInv'
  BY <1>2, CountedAreFinite, OneMore, OneForAnother DEF CountInv
<1>4. PtrTypeInv'
  BY <1>1 DEF PtrTypeInv, Place, SharedPlace, WeakPlace
<1>5. CopyInv' /\ LockInv' /\ WeakMutexInv'
  BY <1>1 DEF PtrTypeInv, CopyInv, LockInv, WeakMutexInv
<1>6. ObjectInv' /\ RefDataInv'
  BY <1>1, <1>2 DEF ObjectInv, RefDataInv
<1> QED BY <1>3, <1>4, <1>5, <1>6

-----------------------------------------------------------------------------
\* PtrInv is inductive.
LEMMA PtrStepInv == PtrInv /\ [PtrNext]_ptrVars => PtrInv'
<1> SUFFICES ASSUME PtrInv, [PtrNext]_ptrVars PROVE PtrInv'
  OBVIOUS
<1>1. CASE UNCHANGED ptrVars
  BY <1>1 DEF ptrVars, PtrInv, PtrTypeInv, CopyInv, LockInv, WeakMutexInv, CountInv, ObjectInv,
              RefDataInv, Strong, Owners, WeakHolders
<1>2. CASE PtrNext
  BY <1>2, CopyStep, IncRefStep, IncWeakStep, ResetSharedStep, DeleteObjectStep, ResetWeakStep,
     DeleteRefDataStep, LockSpinStep, LockIncFetchStep, LockUndoStep, LockConstructStep
     DEF PtrNext
<1> QED BY <1>1, <1>2

\* What the properties say follows from it.
LEMMA PtrInvMeans == PtrInv => SharedOwnership
<1> SUFFICES ASSUME PtrInv PROVE SharedOwnership
  OBVIOUS
<1> USE DEF PtrInv
<1>1. SmartPtrTypeOK
  BY CountedAreFinite DEF PtrTypeInv, CountInv, SmartPtrTypeOK
<1>2. OwnedIsAlive
  BY DEF ObjectInv, OwnedIsAlive
<1>3. CountsOutliveTheirUsers
  <2> SUFFICES ASSUME "RefData" \in freed, NEW p \in Ptr PROVE at[p] = "null"
    BY DEF CountsOutliveTheirUsers
  <2>1. WeakHolders = {} /\ \A q \in Ptr : at[q] # "deleteRef"
    BY DEF RefDataInv
  <2>2. \A q \in Ptr : src[q] = NoPtr
    BY <2>1 DEF CopyInv, WeakHolders
  <2> QED BY <2>1, <2>2 DEF CopyInv, WeakHolders, PtrTypeInv, SharedPlace, WeakPlace
<1>4. NothingLeaks
  <2> SUFFICES ASSUME \A p \in Ptr : at[p] = "null"
               PROVE  freed = {"object", "RefData"} /\ m_mutex = Free
    BY DEF NothingLeaks
  <2>1. WeakHolders = {} /\ Owners = {}
    BY DEF WeakHolders, Owners
  <2> QED BY <2>1 DEF ObjectInv, RefDataInv, WeakMutexInv, PtrTypeInv
<1> QED BY <1>1, <1>2, <1>3, <1>4 DEF SharedOwnership

\* The object lives as long as it has an owner and is deleted once; RefData outlives all
\* use of the counts; nothing is left behind.  For any number of pointer variables.
THEOREM PtrSafety == PtrSpec => []SharedOwnership
<1>1. PtrSpec => []PtrInv
  BY PtrInitInv, PtrStepInv, PTL DEF PtrSpec
<1> QED BY <1>1, PtrInvMeans, PTL

-----------------------------------------------------------------------------
(* TaskQueue: who holds what. *)

AsleepInv == asleep => pc["run"] = "consume"

BatchInv ==
    /\ tlist # <<>> => pc["run"] \in {"exec", "in_task", "post_lock", "push"}
    /\ pc["run"] \in {"leave", "exited"} => ~m_flag

\* The last closer to leave the join waited for the thread.
CloserInv ==
    /\ \A c \in Closers : pc[c] \in {"join", "returned"} => ~m_flag
    /\ ~m_flag => \/ pc["run"] = "exited"
                  \/ \E c \in Closers : pc[c] = "join"

PostedInv == \A t \in Posters : pc[t] \in {"post_lock", "push"} => posted[t] >= 1

IInv == /\ DataOK
        /\ PostedInv
        /\ MutexGuards
        /\ AsleepInv
        /\ NoLostWakeup
        /\ BatchInv
        /\ CloserInv
        /\ NothingLost

USE TaskQueueAssumption DEF Posters, Threads

-----------------------------------------------------------------------------
(* TaskQueue: the inductive invariant. *)

\* A step of one thread moves that thread only, and to one of its labels.
LEMMA GotoMoves ==
    ASSUME ControlOK, NEW t \in Threads, NEW l \in Labels(t), Goto(t, l)
    PROVE  /\ ControlOK'
           /\ pc'[t] = l
           /\ \A u \in Threads \ {t} : pc'[u] = pc[u]
<1>1. l \in UNION {Labels(u) : u \in Threads}
  OBVIOUS
<1> QED BY <1>1 DEF ControlOK, Goto

LEMMA InitIInv == Init => IInv
<1> SUFFICES ASSUME Init PROVE IInv
  OBVIOUS
<1> USE DEF Init
<1>1. DataOK
  <2>1. \A t \in Threads : pc[t] \in Labels(t)
    BY DEF Labels
  <2>2. ControlOK
    <3> DEFINE L == UNION {Labels(t) : t \in Threads}
    <3>1. \A t \in Threads : (IF t = "run" THEN "loop" ELSE "idle") \in L
      BY <2>1
    <3>2. pc \in [Threads -> L]
      <4> HIDE DEF L
      <4> QED BY <3>1
    <3> QED BY <2>1, <3>2 DEF ControlOK
  <2>3. <<>> \in Seq(Task) /\ Len(<<>>) = 0
    BY EmptySeq
  <2>4. posted \in [Posters -> 0..MaxPosts]
    OBVIOUS
  <2>5. m_flag \in BOOLEAN /\ asleep \in BOOLEAN
    OBVIOUS
  <2>6. ran \in Seq(Task)
    BY <2>3
  <2>7. m_tasklist \in Seq(Task) /\ tlist \in Seq(Task) /\ accepted \in Seq(Task)
    BY <2>3
  <2>8. mutex \in Threads \cup {"nobody"}
    OBVIOUS
  <2> HIDE DEF Init
  <2> QED BY <2>2, <2>4, <2>5, <2>6, <2>7, <2>8 DEF DataOK
<1>2. MutexGuards /\ PostedInv
  BY DEF MutexGuards, InCritical, PostedInv
<1>3. AsleepInv /\ NoLostWakeup
  BY DEF AsleepInv, NoLostWakeup
<1>4. BatchInv
  BY DEF BatchInv
<1>5. CloserInv
  BY DEF CloserInv
<1>6. NothingLost
  <2>1. <<>> \o <<>> = <<>>
    BY ConcatEmptySeq, EmptySeq
  <2> QED BY <2>1 DEF NothingLost
<1> QED BY <1>1, <1>2, <1>3, <1>4, <1>5, <1>6 DEF IInv

-----------------------------------------------------------------------------
(* TaskQueue: one lemma per thread, each for one call of Next. *)

\* A call of post() preserves the invariant.
LEMMA PostPreserves ==
    ASSUME IInv, NEW t \in Posters, Post(t)
    PROVE  IInv'
<1>0. DataOK /\ ControlOK /\ t \in Threads /\ Caller(t) \in Labels(t)
      /\ "post_lock" \in Labels(t) /\ "push" \in Labels(t)
  BY DEF IInv, DataOK, Caller, Labels
<1>1. CASE PostCheck(t)
  <2>1. /\ ControlOK'
        /\ pc'[t] \in {"post_lock", Caller(t)}
        /\ \A u \in Threads \ {t} : pc'[u] = pc[u]
    BY <1>0, <1>1, GotoMoves DEF PostCheck
  <2>2. UNCHANGED <<m_flag, m_tasklist, tlist, mutex, asleep, accepted, ran>>
    BY <1>1 DEF PostCheck, history
  <2>3. posted' \in [Posters -> 0..MaxPosts] /\ posted'[t] >= 1
        /\ \A u \in Posters \ {t} : posted'[u] = posted[u]
    BY <1>0, <1>1 DEF PostCheck, DataOK
  <2>4. DataOK'
    BY <1>0, <2>1, <2>2, <2>3 DEF DataOK
  <2>5. PostedInv'
    BY <2>1, <2>3 DEF IInv, PostedInv
  <2>6. pc[t] = Caller(t)
    BY <1>1 DEF PostCheck
  <2>7. MutexGuards'
    BY <2>1, <2>2, <2>6 DEF IInv, MutexGuards, InCritical, Caller
  <2>8. (AsleepInv /\ NoLostWakeup /\ BatchInv)'
    BY <2>1, <2>2, <2>6 DEF IInv, AsleepInv, NoLostWakeup, BatchInv, Caller
  <2>9. CloserInv'
    BY <2>1, <2>2, <2>6 DEF IInv, CloserInv, Caller
  <2>10. NothingLost'
    BY <2>1, <2>2, <2>6 DEF IInv, NothingLost, Caller
  <2> QED BY <2>4, <2>5, <2>7, <2>8, <2>9, <2>10 DEF IInv
<1>2. CASE PostLock(t)
  <2>1. /\ ControlOK'
        /\ pc'[t] = "push"
        /\ \A u \in Threads \ {t} : pc'[u] = pc[u]
    BY <1>0, <1>2, GotoMoves DEF PostLock
  <2>2. UNCHANGED <<m_flag, m_tasklist, tlist, asleep, posted, accepted, ran>>
        /\ pc[t] = "post_lock" /\ mutex = "nobody" /\ mutex' = t
    BY <1>2 DEF PostLock, history, Acquire
  <2>3. DataOK'
    BY <1>0, <2>1, <2>2 DEF DataOK
  <2>4. MutexGuards' /\ PostedInv'
    BY <2>1, <2>2 DEF IInv, MutexGuards, InCritical, PostedInv
  <2>5. (AsleepInv /\ NoLostWakeup /\ BatchInv)'
    BY <2>1, <2>2 DEF IInv, AsleepInv, NoLostWakeup, BatchInv
  <2>6. CloserInv'
    BY <2>1, <2>2 DEF IInv, CloserInv
  <2>7. NothingLost'
    BY <2>1, <2>2 DEF IInv, NothingLost
  <2> QED BY <2>3, <2>4, <2>5, <2>6, <2>7 DEF IInv
<1>3. CASE PostPush(t)
  <2> DEFINE task == <<t, posted[t]>>
  <2>1. /\ ControlOK'
        /\ pc'[t] = Caller(t)
        /\ \A u \in Threads \ {t} : pc'[u] = pc[u]
    BY <1>0, <1>3, GotoMoves DEF PostPush
  <2>2. /\ UNCHANGED <<m_flag, tlist, posted, ran>>
        /\ pc[t] = "push" /\ mutex = t /\ mutex' = "nobody"
        /\ m_tasklist' = Append(m_tasklist, task)
        /\ accepted' = Append(accepted, task)
        /\ asleep' = (asleep /\ m_tasklist # <<>>)
    BY <1>3 DEF PostPush, Release
  <2>3. task \in Task
    <3>1. posted[t] \in 1..MaxPosts
      BY <1>0, <2>2 DEF IInv, DataOK, PostedInv
    <3> QED BY <3>1 DEF Task
  <2> HIDE DEF task
  <2>4. DataOK'
    <3>1. m_tasklist' \in Seq(Task) /\ accepted' \in Seq(Task)
      BY <1>0, <2>2, <2>3, AppendProperties DEF DataOK
    <3>2. asleep' \in BOOLEAN
      BY <2>2
    <3> QED BY <1>0, <2>1, <2>2, <3>1, <3>2 DEF DataOK
  <2>5. MutexGuards' /\ PostedInv'
    BY <2>1, <2>2 DEF IInv, MutexGuards, InCritical, PostedInv, Caller
  <2>6. ~asleep'
    BY <2>2 DEF IInv, NoLostWakeup
  <2>7. AsleepInv' /\ NoLostWakeup'
    BY <2>6 DEF AsleepInv, NoLostWakeup
  <2>8. BatchInv'
    BY <2>1, <2>2 DEF IInv, BatchInv, Caller
  <2>9. CloserInv'
    BY <2>1, <2>2 DEF IInv, CloserInv, Caller
  <2>10. NothingLost'
    <3> SUFFICES ASSUME pc'["run"] # "exited"
                 PROVE  accepted' = ran' \o (tlist' \o m_tasklist')
      BY DEF NothingLost
    <3>1. accepted = ran \o (tlist \o m_tasklist)
      BY <2>1, <2>2 DEF IInv, NothingLost
    <3>2. ran \in Seq(Task) /\ tlist \in Seq(Task) /\ m_tasklist \in Seq(Task)
      BY <1>0 DEF DataOK
    <3>3. tlist \o Append(m_tasklist, task) = Append(tlist \o m_tasklist, task)
          /\ tlist \o m_tasklist \in Seq(Task)
      BY <2>3, <3>2, AppendToConcat, ConcatProperties
    <3>4. ran \o Append(tlist \o m_tasklist, task) = Append(ran \o (tlist \o m_tasklist), task)
      BY <2>3, <3>2, <3>3, AppendToConcat
    <3> QED BY <2>2, <3>1, <3>3, <3>4
  <2> QED BY <2>4, <2>5, <2>7, <2>8, <2>9, <2>10 DEF IInv
<1> QED BY <1>1, <1>2, <1>3 DEF Post

\* A call of close() preserves the invariant.
LEMMA ClosePreserves ==
    ASSUME IInv, NEW c \in Closers, Close(c)
    PROVE  IInv'
<1>0. /\ DataOK /\ ControlOK /\ c \in Threads /\ c # "run" /\ c \notin Posters
      /\ {"close_lock", "clear_flag", "join", "returned"} \subseteq Labels(c)
  BY DEF IInv, DataOK, Labels
<1> DEFINE moved(l) == /\ ControlOK'
                       /\ pc'[c] = l
                       /\ \A u \in Threads \ {c} : pc'[u] = pc[u]
<1>1. CASE CloseCheck(c)
  <2>1. pc[c] = "idle" /\ moved(IF m_flag THEN "close_lock" ELSE "returned")
    BY <1>0, <1>1, GotoMoves DEF CloseCheck
  <2>2. UNCHANGED <<m_flag, m_tasklist, tlist, mutex, asleep, posted, accepted, ran>>
    BY <1>1 DEF CloseCheck, history
  <2>3. DataOK'
    BY <1>0, <2>1, <2>2 DEF DataOK
  <2>4. MutexGuards' /\ PostedInv'
    BY <1>0, <2>1, <2>2 DEF IInv, MutexGuards, InCritical, PostedInv
  <2>5. (AsleepInv /\ NoLostWakeup /\ BatchInv)'
    BY <1>0, <2>1, <2>2 DEF IInv, AsleepInv, NoLostWakeup, BatchInv
  <2>6. CloserInv'
    BY <1>0, <2>1, <2>2 DEF IInv, CloserInv
  <2>7. NothingLost'
    BY <1>0, <2>1, <2>2 DEF IInv, NothingLost
  <2> QED BY <2>3, <2>4, <2>5, <2>6, <2>7 DEF IInv
<1>2. CASE CloseLock(c)
  <2>1. pc[c] = "close_lock" /\ moved("clear_flag")
    BY <1>0, <1>2, GotoMoves DEF CloseLock
  <2>2. /\ UNCHANGED <<m_flag, m_tasklist, tlist, asleep, posted, accepted, ran>>
        /\ mutex = "nobody" /\ mutex' = c
    BY <1>2 DEF CloseLock, history, Acquire
  <2>3. DataOK'
    BY <1>0, <2>1, <2>2 DEF DataOK
  <2>4. MutexGuards' /\ PostedInv'
    BY <1>0, <2>1, <2>2 DEF IInv, MutexGuards, InCritical, PostedInv
  <2>5. (AsleepInv /\ NoLostWakeup /\ BatchInv)'
    BY <1>0, <2>1, <2>2 DEF IInv, AsleepInv, NoLostWakeup, BatchInv
  <2>6. CloserInv'
    BY <1>0, <2>1, <2>2 DEF IInv, CloserInv
  <2>7. NothingLost'
    BY <1>0, <2>1, <2>2 DEF IInv, NothingLost
  <2> QED BY <2>3, <2>4, <2>5, <2>6, <2>7 DEF IInv
<1>3. CASE CloseBroadcast(c)
  <2>1. pc[c] = "clear_flag" /\ moved("join")
    BY <1>0, <1>3, GotoMoves DEF CloseBroadcast
  <2>2. /\ UNCHANGED <<m_tasklist, tlist, posted, accepted, ran>>
        /\ ~m_flag' /\ ~asleep' /\ m_flag' = FALSE /\ asleep' = FALSE
        /\ mutex = c /\ mutex' = "nobody"
    BY <1>3 DEF CloseBroadcast, history, Release
  <2>3. DataOK'
    BY <1>0, <2>1, <2>2 DEF DataOK
  <2>4. MutexGuards' /\ PostedInv'
    BY <1>0, <2>1, <2>2 DEF IInv, MutexGuards, InCritical, PostedInv
  <2>5. (AsleepInv /\ NoLostWakeup /\ BatchInv)'
    BY <1>0, <2>1, <2>2 DEF IInv, AsleepInv, NoLostWakeup, BatchInv
  <2>6. CloserInv'
    BY <1>0, <2>1, <2>2 DEF IInv, CloserInv
  <2>7. NothingLost'
    BY <1>0, <2>1, <2>2 DEF IInv, NothingLost
  <2> QED BY <2>3, <2>4, <2>5, <2>6, <2>7 DEF IInv
<1>4. CASE CloseJoin(c)
  <2>1. pc[c] = "join" /\ moved("returned")
    BY <1>0, <1>4, GotoMoves DEF CloseJoin
  <2>2. UNCHANGED <<m_flag, m_tasklist, tlist, mutex, asleep, posted, accepted, ran>>
    BY <1>4 DEF CloseJoin, history
  <2>3. DataOK'
    BY <1>0, <2>1, <2>2 DEF DataOK
  <2>4. MutexGuards' /\ PostedInv'
    BY <1>0, <2>1, <2>2 DEF IInv, MutexGuards, InCritical, PostedInv
  <2>5. (AsleepInv /\ NoLostWakeup /\ BatchInv)'
    BY <1>0, <2>1, <2>2 DEF IInv, AsleepInv, NoLostWakeup, BatchInv
  <2>6. CloserInv'
    \* the guard of the join: the thread has ended, or another closer waits
    <3>1. pc["run"] = "exited" \/ \E other \in Closers \ {c} : pc[other] = "join"
      BY <1>4 DEF CloseJoin
    <3>2. pc'["run"] = "exited" \/ \E other \in Closers : pc'[other] = "join"
      BY <1>0, <2>1, <3>1
    <3> QED BY <1>0, <2>1, <2>2, <3>2 DEF IInv, CloserInv
  <2>7. NothingLost'
    BY <1>0, <2>1, <2>2 DEF IInv, NothingLost
  <2> QED BY <2>3, <2>4, <2>5, <2>6, <2>7 DEF IInv
<1> QED BY <1>1, <1>2, <1>3, <1>4 DEF Close

\* A step of the queue's thread that leaves the tasks where they are.
LEMMA RunControlPreserves ==
    ASSUME IInv, RunLoop \/ ConsumeLock \/ ConsumeClosed \/ ConsumeWait \/ TaskDone \/ BatchDone
    PROVE  IInv'
<1>0. /\ DataOK /\ ControlOK /\ "run" \in Threads /\ "run" \notin Closers
      /\ {"loop", "consume", "look", "exec", "leave"} \subseteq Labels("run")
  BY DEF IInv, DataOK, Labels
<1>1. /\ UNCHANGED <<m_flag, m_tasklist, tlist, posted, accepted, ran>>
      /\ \A l \in Labels("run") : Goto("run", l) =>
            /\ ControlOK'
            /\ pc'["run"] = l
            /\ \A u \in Threads \ {"run"} : pc'[u] = pc[u]
  BY <1>0, GotoMoves DEF RunLoop, ConsumeLock, ConsumeClosed, ConsumeWait, TaskDone,
     BatchDone, history
<1>2. /\ ControlOK'
      /\ \A u \in Threads \ {"run"} : pc'[u] = pc[u]
      /\ mutex' \in Threads \cup {"nobody"} /\ asleep' \in BOOLEAN
      /\ \/ /\ UNCHANGED <<mutex, asleep>>
            /\ \/ pc["run"] = "loop" /\ pc'["run"] = IF m_flag THEN "consume" ELSE "leave"
               \/ pc["run"] = "in_task" /\ pc'["run"] = "exec"
               \/ pc["run"] = "exec" /\ pc'["run"] = "loop" /\ tlist = <<>>
         \/ /\ pc["run"] = "consume" /\ pc'["run"] = "look"
            /\ ~asleep /\ asleep' = asleep
            /\ mutex = "nobody" /\ mutex' = "run"
         \/ /\ pc["run"] = "look" /\ mutex = "run" /\ mutex' = "nobody"
            /\ m_tasklist = <<>>
            /\ \/ ~m_flag /\ asleep' = asleep /\ pc'["run"] = "leave"
               \/ m_flag /\ asleep' = TRUE /\ pc'["run"] = "consume"
  BY <1>0, <1>1 DEF RunLoop, ConsumeLock, ConsumeClosed, ConsumeWait, TaskDone,
     BatchDone, Acquire, Release, DataOK
<1>3. DataOK'
  BY <1>0, <1>1, <1>2 DEF DataOK
<1>4. MutexGuards'
  BY <1>0, <1>2 DEF IInv, MutexGuards, InCritical
<1>5. PostedInv'
  BY <1>0, <1>1, <1>2 DEF IInv, PostedInv
<1>6. AsleepInv' /\ NoLostWakeup'
  BY <1>0, <1>1, <1>2 DEF IInv, AsleepInv, NoLostWakeup
<1>7. BatchInv'
  BY <1>0, <1>1, <1>2 DEF IInv, BatchInv
<1>8. CloserInv'
  BY <1>0, <1>1, <1>2 DEF IInv, CloserInv
<1>9. NothingLost'
  BY <1>0, <1>1, <1>2 DEF IInv, NothingLost
<1> QED BY <1>3, <1>4, <1>5, <1>6, <1>7, <1>8, <1>9 DEF IInv

\* Taking the list makes it the batch: what is left of the log is unchanged.
LEMMA TakePreserves == IInv /\ ConsumeTake => IInv'
<1> SUFFICES ASSUME IInv, ConsumeTake PROVE IInv'
  OBVIOUS
<1>0. DataOK /\ ControlOK /\ "run" \in Threads /\ "run" \notin Closers /\ "exec" \in Labels("run")
  BY DEF IInv, DataOK, Labels
<1>1. /\ ControlOK' /\ pc["run"] = "look" /\ pc'["run"] = "exec"
      /\ \A u \in Threads \ {"run"} : pc'[u] = pc[u]
  BY <1>0, GotoMoves DEF ConsumeTake
<1>2. /\ UNCHANGED <<m_flag, asleep, posted, accepted, ran>>
      /\ m_tasklist # <<>> /\ tlist' = m_tasklist /\ m_tasklist' = <<>>
      /\ mutex = "run" /\ mutex' = "nobody"
  BY DEF ConsumeTake, Release, history
<1>3. m_tasklist \in Seq(Task) /\ <<>> \in Seq(Task) /\ tlist = <<>>
  BY <1>0, <1>1, EmptySeq DEF DataOK, IInv, BatchInv
<1>4. DataOK'
  BY <1>0, <1>1, <1>2, <1>3 DEF DataOK
<1>5. MutexGuards' /\ PostedInv'
  BY <1>0, <1>1, <1>2 DEF IInv, MutexGuards, InCritical, PostedInv
<1>6. ~asleep'
  BY <1>1, <1>2 DEF IInv, AsleepInv
<1>7. AsleepInv' /\ NoLostWakeup'
  BY <1>6 DEF AsleepInv, NoLostWakeup
<1>8. BatchInv' /\ CloserInv'
  BY <1>0, <1>1, <1>2 DEF IInv, BatchInv, CloserInv
<1>9. NothingLost'
  <2>1. accepted = ran \o (<<>> \o m_tasklist)
    BY <1>1, <1>3 DEF IInv, NothingLost
  <2>2. <<>> \o m_tasklist = m_tasklist /\ m_tasklist \o <<>> = m_tasklist
    BY <1>3, ConcatEmptySeq
  <2> QED BY <1>2, <2>1, <2>2 DEF NothingLost
<1> QED BY <1>4, <1>5, <1>7, <1>8, <1>9 DEF IInv

\* The task that is started is the first of what is left of the log.
LEMMA RunTaskPreserves ==
    IInv /\ RunTask => /\ IInv'
                       /\ Len(ran) < Len(accepted)
                       /\ ran' = Append(ran, accepted[Len(ran) + 1])
<1> SUFFICES ASSUME IInv, RunTask
             PROVE  /\ IInv'
                    /\ Len(ran) < Len(accepted)
                    /\ ran' = Append(ran, accepted[Len(ran) + 1])
  OBVIOUS
<1>0. /\ DataOK /\ ControlOK /\ "run" \in Threads /\ "run" \notin Closers
      /\ "in_task" \in Labels("run")
  BY DEF IInv, DataOK, Labels
<1>1. /\ ControlOK' /\ pc["run"] = "exec" /\ pc'["run"] = "in_task"
      /\ \A u \in Threads \ {"run"} : pc'[u] = pc[u]
  BY <1>0, GotoMoves DEF RunTask
<1>2. /\ UNCHANGED <<m_flag, m_tasklist, mutex, asleep, posted, accepted>>
      /\ tlist # <<>> /\ tlist' = Tail(tlist) /\ ran' = Append(ran, Head(tlist))
  BY DEF RunTask
<1>3. /\ m_tasklist \in Seq(Task) /\ tlist \in Seq(Task) /\ ran \in Seq(Task)
      /\ accepted = ran \o (tlist \o m_tasklist)
  BY <1>0, <1>1 DEF DataOK, IInv, NothingLost
<1>4. Len(ran) < Len(accepted) /\ accepted[Len(ran) + 1] = Head(tlist)
  BY <1>2, <1>3, NextEntry
<1>5. Tail(tlist) \in Seq(Task) /\ Append(ran, Head(tlist)) \in Seq(Task)
  BY <1>2, <1>3, HeadTailProperties, AppendProperties
<1>6. DataOK'
  BY <1>0, <1>1, <1>2, <1>5 DEF DataOK
<1>7. MutexGuards' /\ PostedInv'
  BY <1>0, <1>1, <1>2 DEF IInv, MutexGuards, InCritical, PostedInv
<1>8. AsleepInv' /\ NoLostWakeup'
  BY <1>1, <1>2 DEF IInv, AsleepInv, NoLostWakeup
<1>9. BatchInv' /\ CloserInv'
  BY <1>0, <1>1, <1>2 DEF IInv, BatchInv, CloserInv
<1>10. NothingLost'
  <2>1. ran \o (tlist \o m_tasklist) = Append(ran, Head(tlist)) \o (Tail(tlist) \o m_tasklist)
    <3>1. ran \in Seq(Task) /\ tlist \in Seq(Task) /\ m_tasklist \in Seq(Task) /\ tlist # <<>>
      BY <1>2, <1>3
    <3> QED BY <3>1, ConsumeOne
  <2> QED BY <1>2, <1>3, <2>1 DEF NothingLost
<1> QED BY <1>2, <1>4, <1>6, <1>7, <1>8, <1>9, <1>10 DEF IInv

\* The end of run() drops what is in the list; the log is no longer followed.
LEMMA ExitPreserves == IInv /\ RunExit => IInv'
<1> SUFFICES ASSUME IInv, RunExit PROVE IInv'
  OBVIOUS
<1>0. /\ DataOK /\ ControlOK /\ "run" \in Threads /\ "run" \notin Closers
      /\ "exited" \in Labels("run")
  BY DEF IInv, DataOK, Labels
<1>1. /\ ControlOK' /\ pc["run"] = "leave" /\ pc'["run"] = "exited"
      /\ \A u \in Threads \ {"run"} : pc'[u] = pc[u]
  BY <1>0, GotoMoves DEF RunExit
<1>2. /\ UNCHANGED <<m_flag, tlist, mutex, asleep, posted, accepted, ran>>
      /\ m_tasklist' = <<>>
  BY DEF RunExit, history
<1>3. DataOK'
  BY <1>0, <1>1, <1>2, EmptySeq DEF DataOK
<1>4. MutexGuards' /\ PostedInv'
  BY <1>0, <1>1, <1>2 DEF IInv, MutexGuards, InCritical, PostedInv
<1>5. (AsleepInv /\ NoLostWakeup /\ BatchInv /\ CloserInv /\ NothingLost)'
  BY <1>0, <1>1, <1>2 DEF IInv, AsleepInv, NoLostWakeup, BatchInv, CloserInv, NothingLost
<1> QED BY <1>3, <1>4, <1>5 DEF IInv

\* A wake-up that nobody sent, and a step that changes nothing.
LEMMA QuietPreserves == IInv /\ (SpuriousWakeup \/ UNCHANGED vars) => IInv'
<1> SUFFICES ASSUME IInv, SpuriousWakeup \/ UNCHANGED vars PROVE IInv'
  OBVIOUS
<1>1. /\ UNCHANGED <<m_flag, m_tasklist, tlist, mutex, pc, posted, accepted, ran>>
      /\ asleep' = FALSE \/ asleep' = asleep
  BY DEF SpuriousWakeup, vars, history
<1>2. DataOK'
  BY <1>1 DEF IInv, DataOK, ControlOK
<1>3. (MutexGuards /\ PostedInv /\ AsleepInv /\ NoLostWakeup)'
  BY <1>1 DEF IInv, MutexGuards, InCritical, PostedInv, AsleepInv, NoLostWakeup
<1>4. (BatchInv /\ CloserInv /\ NothingLost)'
  BY <1>1 DEF IInv, BatchInv, CloserInv, NothingLost
<1> QED BY <1>2, <1>3, <1>4 DEF IInv

LEMMA NextPreserves == IInv /\ [Next]_vars => IInv'
<1> SUFFICES ASSUME IInv, [Next]_vars PROVE IInv'
  OBVIOUS
<1>1. ASSUME NEW t \in Posters, Post(t) PROVE IInv'
  BY <1>1, PostPreserves
<1>2. ASSUME NEW c \in Closers, Close(c) PROVE IInv'
  BY <1>2, ClosePreserves
<1>3. CASE Run
  BY <1>3, RunControlPreserves, TakePreserves, RunTaskPreserves, ExitPreserves
  DEF Run, Consume
<1>4. CASE SpuriousWakeup \/ UNCHANGED vars
  BY <1>4, QuietPreserves
<1> QED BY <1>1, <1>2, <1>3, <1>4 DEF Next, Terminated

-----------------------------------------------------------------------------
(* TaskQueue: the theorems. *)

\* IInv holds in every reachable state.
THEOREM Invariance == Spec => []IInv
BY InitIInv, NextPreserves, PTL DEF Spec

\* Every variable keeps its type, and who uses the list or changes the flag
\* holds the mutex.
THEOREM TypeCorrect == Spec => []TypeOK
<1>1. IInv => TypeOK
  BY DEF IInv, TypeOK
<1> QED BY <1>1, Invariance, PTL

\* No wake-up is lost between post(), close() and the waiting thread.
THEOREM NoWakeupIsLost == Spec => []NoLostWakeup
<1>1. IInv => NoLostWakeup
  BY DEF IInv
<1> QED BY <1>1, Invariance, PTL

\* While the thread lives, what was accepted and not started is in the batch
\* and the list, in order.
THEOREM NoTaskIsLost == Spec => []NothingLost
<1>1. IInv => NothingLost
  BY DEF IInv
<1> QED BY <1>1, Invariance, PTL

\* A batch that was taken is run to its end even when close() comes meanwhile.
THEOREM BatchIsRun == Spec => []BatchSurvivesClose
<1>1. IInv => BatchSurvivesClose
  BY DEF IInv, BatchInv, BatchSurvivesClose
<1> QED BY <1>1, Invariance, PTL

\* When every closer has returned the queue's thread has ended.
THEOREM CloseWaits == Spec => []ClosedMeansStopped
<1>1. IInv => ClosedMeansStopped
  BY DEF IInv, CloserInv, ClosedMeansStopped
<1> QED BY <1>1, Invariance, PTL

\* The queue implements the FIFO executor: a push accepts a task, the start of
\* a task runs the next one, the end of run() stops, all else stutters.
THEOREM Refinement == Spec => ImplementsFifo
<1>1. Init => Fifo!FifoInit
  BY DEF Init, Fifo!FifoInit
<1>2. IInv /\ [Next]_vars => [Fifo!FifoNext]_(Fifo!fifoVars)
  <2> SUFFICES ASSUME IInv, [Next]_vars PROVE [Fifo!FifoNext]_(Fifo!fifoVars)
    OBVIOUS
  <2> USE DEF Fifo!FifoNext, Fifo!fifoVars, history
  <2>0. ControlOK /\ "run" \in Threads
    BY DEF IInv, DataOK
  <2>1. ASSUME NEW t \in Posters, PostCheck(t) \/ PostLock(t) PROVE UNCHANGED Fifo!fifoVars
    BY <2>0, <2>1 DEF PostCheck, PostLock, Goto, Caller, ControlOK
  <2>2. ASSUME NEW t \in Posters, PostPush(t) PROVE Fifo!FifoNext
    <3>1. <<t, posted[t]>> \in Task
      BY <2>2 DEF IInv, DataOK, PostedInv, PostPush, Task
    <3>2. (pc["run"] = "exited") = (pc'["run"] = "exited")
      BY <2>0, <2>2 DEF PostPush, Goto, Caller, ControlOK
    <3> QED BY <2>2, <3>1, <3>2 DEF PostPush, Fifo!Accept
  <2>3. ASSUME NEW c \in Closers, Close(c) PROVE UNCHANGED Fifo!fifoVars
    BY <2>0, <2>3 DEF Close, CloseCheck, CloseLock, CloseBroadcast, CloseJoin, Goto, ControlOK
  <2>4. CASE RunTask
    <3>1. Len(ran) < Len(accepted) /\ ran' = Append(ran, accepted[Len(ran) + 1])
      BY <2>4, RunTaskPreserves
    <3>2. pc["run"] # "exited" /\ pc'["run"] # "exited"
      BY <2>0, <2>4 DEF RunTask, Goto, ControlOK
    <3> QED BY <2>4, <3>1, <3>2 DEF RunTask, Fifo!RunNext
  <2>5. CASE RunExit
    BY <2>0, <2>5 DEF RunExit, Goto, ControlOK, Fifo!Stop
  <2>6. CASE RunLoop \/ Consume \/ TaskDone \/ BatchDone
    BY <2>0, <2>6 DEF RunLoop, Consume, ConsumeLock, ConsumeTake, ConsumeClosed, ConsumeWait,
       TaskDone, BatchDone, Goto, ControlOK
  <2>7. CASE SpuriousWakeup \/ UNCHANGED vars
    BY <2>7 DEF SpuriousWakeup, vars
  <2> QED BY <2>1, <2>2, <2>3, <2>4, <2>5, <2>6, <2>7 DEF Next, Post, Run, Terminated
<1> QED BY <1>1, <1>2, Invariance, PTL DEF Spec, ImplementsFifo, Fifo!FifoSpec
=============================================================================
