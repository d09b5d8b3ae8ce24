---------------------------- MODULE TimerService ----------------------------
(***************************************************************************)
(* ff::TimerService of fflib/base/timer_service.h: timers are registered   *)
(* by any thread into a list, and one thread takes them into a multimap    *)
(* ordered by the time at which they end, and calls those that are due.    *)
(* Time is the clock of the machine, which somebody may set.               *)
(*                                                                         *)
(* The unit of time is m_min_timeout, the time-out of epoll_wait.  The     *)
(* real time is kept beside the clock, for the properties only.            *)
(***************************************************************************)
EXTENDS Integers, Sequences, SequencesExt, FiniteSets

CONSTANTS Once, Loop,   \* the timers: each is registered once
          Ms,           \* the times they are registered with
          Back, Forward, \* by how much the clock may be set back and forward
          MaxSets,      \* bound: how often it is set
          MaxStart,     \* bound: real time until which timers are registered
          MaxReal,      \* bound: real time
          MaxSlow       \* bound: units of time the thread may take for one round

ASSUME TimerAssumption == /\ Once \cap Loop = {} /\ Ms \subseteq Nat \ {0} /\ Back \cup Forward \subseteq Nat
                          /\ {MaxSets, MaxStart, MaxReal, MaxSlow} \subseteq Nat

VARIABLES m_runing, m_tmpRegisterfdList, m_mapRegisterfdedStore,
          thread,    \* what the thread does: [at, curms, it]
          stopper,   \* what the thread that calls stop() does
          shift,     \* the clock is the real time plus this
          sets,      \* how often the clock was set
          real,      \* the real time
          slow,      \* units of time since the thread's round began
          since,     \* per timer the real time of its (last) registration, or None
          calls      \* per timer how often it was called

serviceVars == <<m_runing, m_tmpRegisterfdList, m_mapRegisterfdedStore, thread, stopper>>
timeVars    == <<shift, sets, real, slow>>
timerVars   == <<serviceVars, timeVars, since, calls>>

Timer == Once \cup Loop
None  == -1
Clock == real + shift
Wait  == [at |-> "wait", curms |-> 0, it |-> 0]

TimerInit == /\ m_runing = TRUE /\ m_tmpRegisterfdList = <<>> /\ m_mapRegisterfdedStore = <<>>
             /\ thread = Wait /\ stopper = "out"
             /\ shift = 0 /\ sets = 0 /\ real = 0 /\ slow = 0
             /\ since = [t \in Timer |-> None] /\ calls = [t \in Timer |-> 0]

-----------------------------------------------------------------------------
(* Time. *)
Tick == /\ real < MaxReal /\ slow < MaxSlow
        /\ real' = real + 1 /\ slow' = slow + 1
        /\ UNCHANGED <<shift, sets, since, calls>> /\ UNCHANGED serviceVars

setClock(d) == /\ sets < MaxSets /\ sets' = sets + 1 /\ shift' = shift + d
               /\ UNCHANGED <<real, slow, since, calls>> /\ UNCHANGED serviceVars

-----------------------------------------------------------------------------
(* onceTimer() and loopTimer(). *)
Register(t, ms) ==
    IF m_runing
    THEN /\ m_tmpRegisterfdList' = Append(m_tmpRegisterfdList,
                [timer |-> t, ms |-> ms, tmStart |-> Clock, tmEnd |-> Clock + ms])
         /\ since' = [since EXCEPT ![t] = real]
    ELSE UNCHANGED <<m_tmpRegisterfdList, since>>

setTimer(t, ms) ==
    /\ since[t] = None /\ real <= MaxStart
    /\ Register(t, ms)
    /\ UNCHANGED <<m_runing, m_mapRegisterfdedStore, thread, stopper, calls>> /\ UNCHANGED timeVars

-----------------------------------------------------------------------------
(* The thread: run(). *)
wake == /\ thread.at = "wait"
        /\ thread' = IF m_runing THEN [at |-> "add", curms |-> Clock, it |-> 1]
                                 ELSE [Wait EXCEPT !.at = "ended"]
        /\ slow' = 0
        /\ UNCHANGED <<m_runing, m_tmpRegisterfdList, m_mapRegisterfdedStore, stopper,
                       shift, sets, real, since, calls>>

\* multimap::insert: behind the entries whose key is not greater.  The key is the tmEnd at
\* this time, the entry keeps it.
insert(map, e) ==
    LET before == Cardinality({i \in DOMAIN map : map[i].key <= e.tmEnd})
    IN  InsertAt(map, before + 1, [entry |-> e, key |-> e.tmEnd])
insertAll(map, list) ==
    LET after[k \in 0..Len(list)] == IF k = 0 THEN map ELSE insert(after[k - 1], list[k])
    IN  after[Len(list)]

addNewTimer ==
    /\ thread.at = "add"
    /\ m_mapRegisterfdedStore' = insertAll(m_mapRegisterfdedStore, m_tmpRegisterfdList)
    /\ m_tmpRegisterfdList' = <<>>
    /\ thread' = [thread EXCEPT !.at = "process"]
    /\ UNCHANGED <<m_runing, stopper, since, calls>> /\ UNCHANGED timeVars

Processing == thread.at = "process" /\ thread.it <= Len(m_mapRegisterfdedStore)
last == m_mapRegisterfdedStore[thread.it].entry

due(e, curms) == curms >= e.tmEnd

\* checkTimeout() says yes: the callback, then a loop timer is registered again.
callback ==
    /\ Processing /\ due(last, thread.curms)
    /\ calls' = [calls EXCEPT ![last.timer] = @ + 1]
    /\ thread' = IF last.timer \in Loop THEN [thread EXCEPT !.at = "again"]
                                        ELSE [thread EXCEPT !.it = @ + 1]
    /\ UNCHANGED <<m_runing, m_tmpRegisterfdList, m_mapRegisterfdedStore, stopper, since>>
    /\ UNCHANGED timeVars

loopTimer ==
    /\ thread.at = "again"
    /\ Register(last.timer, last.tmEnd - last.tmStart)
    /\ thread' = [thread EXCEPT !.at = "process", !.it = @ + 1]
    /\ UNCHANGED <<m_runing, m_mapRegisterfdedStore, stopper, calls>> /\ UNCHANGED timeVars

\* Mutant: what was called is erased only when something was left to look at.
erase_Some(map, it) == IF it > Len(map) THEN map ELSE SubSeq(map, it, Len(map))
erase(map, it) == SubSeq(map, it, Len(map))

\* Mutant: a timer that is not due always starts again.
rebase_Always(e, curms) == [e EXCEPT !.tmEnd = @ - e.tmStart + curms, !.tmStart = curms]
\* checkTimeout() says no: a timer that seems to start later starts again.
rebase(e, curms) == IF curms < e.tmStart
                    THEN [e EXCEPT !.tmEnd = @ - e.tmStart + curms, !.tmStart = curms]
                    ELSE e

\* The first timer that is not due, or the end of the map, ends the round; those before it
\* are erased.
endOfRound ==
    /\ thread.at = "process"
    /\ \/ /\ ~Processing
          /\ m_mapRegisterfdedStore' = erase(m_mapRegisterfdedStore, thread.it)
       \/ /\ Processing /\ ~due(last, thread.curms)
          /\ m_mapRegisterfdedStore' =
                 erase([m_mapRegisterfdedStore EXCEPT ![thread.it].entry = rebase(@, thread.curms)],
                       thread.it)
    /\ thread' = Wait
    /\ UNCHANGED <<m_runing, m_tmpRegisterfdList, stopper, since, calls>> /\ UNCHANGED timeVars

-----------------------------------------------------------------------------
(* stop() *)
stop == /\ stopper = "out" /\ m_runing
        /\ m_runing' = FALSE /\ stopper' = "join"
        /\ UNCHANGED <<m_tmpRegisterfdList, m_mapRegisterfdedStore, thread, since, calls>>
        /\ UNCHANGED timeVars

cleardata == /\ stopper = "join" /\ thread.at = "ended"
             /\ stopper' = "stopped"
             /\ m_tmpRegisterfdList' = <<>> /\ m_mapRegisterfdedStore' = <<>>
             /\ UNCHANGED <<m_runing, thread, since, calls>> /\ UNCHANGED timeVars

-----------------------------------------------------------------------------
Thread == wake \/ addNewTimer \/ callback \/ loopTimer \/ endOfRound

TimerNext == \/ Tick
             \/ \E d \in Forward : setClock(d)
             \/ \E b \in Back : setClock(-b)
             \/ \E t \in Timer, ms \in Ms : setTimer(t, ms)
             \/ Thread \/ stop \/ cleardata

TimerSpec == TimerInit /\ [][TimerNext]_timerVars
\* Time passes and the thread goes on.
TimerFair == TimerSpec /\ WF_timerVars(Thread) /\ WF_timerVars(Tick)

-----------------------------------------------------------------------------
\* A timer waits: in the list, or in the map and not yet called in this round.
Waiting(t) ==
    \/ \E i \in DOMAIN m_tmpRegisterfdList : m_tmpRegisterfdList[i].timer = t
    \/ \E i \in DOMAIN m_mapRegisterfdedStore :
           m_mapRegisterfdedStore[i].entry.timer = t /\ (thread.at \in {"process", "again"} => i >= thread.it)
MsOf(t) == LET all == {m_tmpRegisterfdList[i] : i \in DOMAIN m_tmpRegisterfdList}
                      \cup {m_mapRegisterfdedStore[i].entry : i \in DOMAIN m_mapRegisterfdedStore}
           IN  (CHOOSE e \in all : e.timer = t).ms

\* Type invariant; nothing is in the map out of the order of its keys.
TimerTypeOK ==
    /\ m_runing \in BOOLEAN /\ stopper \in {"out", "join", "stopped"}
    /\ thread.at \in {"wait", "add", "process", "again", "ended"}
    /\ \A t \in Timer : since[t] \in {None} \cup 0..MaxReal /\ calls[t] \in Nat
    /\ \A i, j \in DOMAIN m_mapRegisterfdedStore :
           i < j => m_mapRegisterfdedStore[i].key <= m_mapRegisterfdedStore[j].key

\* A timer that is called once is called once, and one that waits is not lost: until the
\* service is stopped each registration waits or has been called, a loop timer for ever.
TimersAreKept ==
    /\ \A t \in Once : calls[t] <= 1
    /\ m_runing => \A t \in Timer : since[t] # None =>
           Waiting(t) \/ (t \in Once /\ calls[t] = 1)

\* While nobody sets the clock no timer waits longer than its time and the rounds the
\* thread needs to take it up and to call it.
TimersAreOnTime ==
    sets = 0 /\ m_runing => \A t \in Timer :
        Waiting(t) /\ ~(thread.at = "again" /\ last.timer = t) => real <= since[t] + MsOf(t) + 2 * MaxSlow

\* Timers are neither lost nor called twice nor late.
TimersAreServed == TimerTypeOK /\ TimersAreKept /\ TimersAreOnTime

\* And none is called before its time, but for the time the round had taken when it was
\* registered (curms is read before the new timers are taken up).
TimersAreNotEarly ==
    [][sets = 0 => \A t \in Timer : calls'[t] > calls[t] => real >= since[t] + MsOf(t) - MaxSlow]_timerVars

\* Every timer goes off at last, however the clock was set, unless the service is stopped.
TimersGoOff == \A t \in Timer : since[t] # None ~> calls[t] > 0 \/ ~m_runing

\* When stop() has returned no timer is called any more.
StoppedMeansQuiet == [][stopper = "stopped" => calls' = calls]_timerVars

\* Callbacks come neither before their time nor after stop(), and at last.
CallbacksComeDue == TimersAreNotEarly /\ StoppedMeansQuiet /\ TimersGoOff

\* A clock that is set back is handled "correctly" (the comment of tmStart): a timer may
\* start again then, and no other timer makes it wait longer.
TimersAreNotLate ==
    m_runing => \A t \in Timer :
        Waiting(t) /\ ~(thread.at = "again" /\ last.timer = t) => real <= since[t] + 2 * MsOf(t) + 2 * MaxSlow
=============================================================================
