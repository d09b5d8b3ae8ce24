--------------------------- MODULE IOEventProofs ----------------------------
(***************************************************************************)
(* SocketsAreServed of IOEventEpoll for any number of connections and      *)
(* descriptors, with and without another thread that closes sockets; and   *)
(* SendsAreWhole of SendBuffer, for any messages and any room.             *)
(*                                                                         *)
(* The inductive invariant EventInv follows a descriptor through its life: *)
(* accepted but not yet opened (AcceptInv), registered (RegisteredInv),    *)
(* waiting to be closed (ToCloseInv); and a connection from the kernel's   *)
(* backlog (BacklogInv) to its protocol (CallbacksInv, ClosingInv,         *)
(* PostedInv). What a thread read from m_fd may be stale: nothing is       *)
(* assumed of it.                                                          *)
(*                                                                         *)
(* SendInv, at the end, is about the units on the wire and the rests in    *)
(* the buffer (Frames), which cutting a piece from the first rest keeps.   *)
(***************************************************************************)
EXTENDS IOEventEpoll, SendBuffer, LogLemmas, FiniteSetTheorems

\* What handlers are told, and what one round of the IO thread has to call.
Event == [type : {"RECV", "BROKEN"}, sock : BOOLEAN]
Callbacks == [type : {"ACCEPT", "RECV", "BROKEN"}, conn : Conn, fd : Fd]

\* The state of the IO thread and of close() has the fields its place calls for.
WaitState == [at : {"wait"}]
Reports == UNION {[fds -> [in : BOOLEAN, err : BOOLEAN]] : fds \in SUBSET Fd}
CollectState == [at : {"collect"}, accept : BOOLEAN, events : Reports]
CallbackState == [at : {"callbacks"}, callbacks : Seq(Callbacks), funcs : Seq(Fd)]
CloseState == [at : {"idle"}] \cup [at : {"recv", "test", "read"}, conn : Conn]
                  \cup [at : {"clear", "unreg", "post", "drop"}, conn : Conn, fd : Fd \cup {-1}]

\* What a connection's stream holds.
Stream == [sent : Nat, unread : Nat, fin : BOOLEAN, rst : BOOLEAN]

StreamOK(s) == s \in Stream /\ s.sent <= MaxData /\ s.unread <= s.sent

\* Descriptors to connections.
Table == UNION {[fds -> Conn] : fds \in SUBSET Fd}

\* The variables in their ranges.
KernelTypeInv == /\ stream \in [Conn -> Stream]
                 /\ \A c \in Conn : StreamOK(stream[c])
                 /\ backlog \in Seq(Conn)
                 /\ kernel \in Table
                 /\ edge \subseteq Fd \cup {Listening}
InfoTypeInv == m_allIOinfo \in Table /\ m_listFuncToRun \in Seq(Fd)
SocketTypeInv == /\ m_fd \in [Conn -> Fd \cup {-1}]
                 /\ m_refSocket \in [Conn -> BOOLEAN]
                 /\ posted \in [Conn -> Seq(Event)]
IOTypeInv == io \in WaitState \cup CollectState \cup CallbackState
CloseTypeInv == closing \in [Thread -> CloseState]

EventTypeInv == KernelTypeInv /\ InfoTypeInv /\ SocketTypeInv /\ IOTypeInv /\ CloseTypeInv

\* Nobody else closes where the configuration says so.
AloneInv == ~HandlerCloses => /\ closing["handler"] = Idle
                              /\ At("io", "read") => m_fd[closing["io"].conn] # -1
                              /\ At("io", "clear") \/ At("io", "unreg") => closing["io"].fd # -1

\* A connection in the backlog is new.
BacklogInv ==
    /\ \A i, j \in DOMAIN backlog : i # j => backlog[i] # backlog[j]
    /\ \A i \in DOMAIN backlog : /\ posted[backlog[i]] = <<>> /\ m_fd[backlog[i]] = -1
                                 /\ \A f \in DOMAIN kernel : kernel[f] # backlog[i]

\* What epoll reports is a descriptor of a connection.
EdgesInv == \A f \in edge \ {Listening} : f \in DOMAIN kernel

\* The connection accepted in this round is new as well, and its descriptor is
\* neither registered nor about to be closed.
AcceptInv ==
    io.at = "callbacks" =>
        \A i \in DOMAIN io.callbacks : io.callbacks[i].type = "ACCEPT" =>
            LET c == io.callbacks[i].conn
                f == io.callbacks[i].fd
            IN  /\ i = 1
                /\ f \in DOMAIN kernel /\ kernel[f] = c
                /\ f \notin DOMAIN m_allIOinfo
                /\ posted[c] = <<>> /\ m_fd[c] = -1

\* A registered descriptor denotes its connection, and no other does.
RegisteredInv ==
    /\ \A f \in DOMAIN m_allIOinfo : f \in DOMAIN kernel /\ kernel[f] = m_allIOinfo[f]
    /\ \A f, g \in DOMAIN kernel : kernel[f] = kernel[g] => f = g

\* The descriptors the round in progress has still to close.
Funcs == IF io.at = "callbacks" THEN io.funcs ELSE <<>>

\* What waits to be closed is open, unregistered and waits once; a connection that
\* is being accepted does not.
WaitsToClose(f) == /\ f \in DOMAIN kernel /\ f \notin DOMAIN m_allIOinfo
                   /\ io.at = "callbacks" => \A i \in DOMAIN io.callbacks :
                          io.callbacks[i].type = "ACCEPT" => io.callbacks[i].fd # f
ToCloseInv ==
    /\ \A i \in DOMAIN m_listFuncToRun : WaitsToClose(m_listFuncToRun[i])
    /\ \A i \in DOMAIN Funcs : WaitsToClose(Funcs[i])
    /\ \A i, j \in DOMAIN m_listFuncToRun : i # j => m_listFuncToRun[i] # m_listFuncToRun[j]
    /\ \A i, j \in DOMAIN Funcs : i # j => Funcs[i] # Funcs[j]
    /\ \A i \in DOMAIN m_listFuncToRun, j \in DOMAIN Funcs : m_listFuncToRun[i] # Funcs[j]

\* The round's callbacks are of connections the kernel has a descriptor of.
CallbacksInv ==
    io.at = "callbacks" =>
        \A i \in DOMAIN io.callbacks : \E f \in DOMAIN kernel : kernel[f] = io.callbacks[i].conn

\* Who is in close() or handleEvent() is there for a known connection.
ClosingInv ==
    /\ closing["handler"] # Idle => posted[closing["handler"].conn] # <<>>
    /\ closing["io"] # Idle =>
           /\ io.at = "callbacks"
           /\ \A i \in DOMAIN io.callbacks : io.callbacks[i].type # "ACCEPT"
           /\ \E f \in DOMAIN kernel : kernel[f] = closing["io"].conn

\* Thread t has still to tell the protocol of c something; it passed the test of m_fd.
In(t, places, c) == closing[t].at \in places /\ closing[t].conn = c
Speaks(t, c) == In(t, {"recv", "read", "clear", "unreg", "post"}, c)

\* What a protocol was told, and what it may still be told.
ToldInv(c) ==
    /\ \A j \in DOMAIN posted[c] : ~posted[c][j].sock => \E i \in Ends(c) : i < j
    /\ \A i \in Ends(c) : Len(posted[c]) < i + Closers
    /\ \A i \in Ends(c), t \in Thread : Speaks(t, c) => Len(posted[c]) + 1 < i + Closers
    /\ Ends(c) # {} => m_fd[c] = -1 /\ ~(Speaks("io", c) /\ Speaks("handler", c))
    /\ m_fd[c] # -1 => m_refSocket[c]
    /\ \A t \in Thread : /\ Speaks(t, c) => m_refSocket[c] \/ Ends(c) # {}
                         /\ In(t, {"unreg", "post", "drop"}, c) => m_fd[c] = -1
                         /\ In(t, {"drop"}, c) => Ends(c) # {}
PostedInv == \A c \in Conn : ToldInv(c)

EventInv == /\ EventTypeInv /\ AloneInv /\ BacklogInv /\ EdgesInv /\ AcceptInv /\ RegisteredInv
            /\ ToCloseInv /\ CallbacksInv /\ ClosingInv /\ PostedInv

USE IOEventAssumption

-----------------------------------------------------------------------------
(* Shapes of the state. *)

\* The IO thread has callbacks and functions to run in its third place only.
LEMMA IoShape ==
    ASSUME IOTypeInv
    PROVE  /\ io.at \in {"wait", "collect", "callbacks"}
           /\ io.at = "wait" => io \in WaitState
           /\ io.at = "collect" => io \in CollectState
           /\ io.at = "callbacks" => /\ io \in CallbackState
                                     /\ io.callbacks \in Seq(Callbacks) /\ io.funcs \in Seq(Fd)
BY DEF IOTypeInv, WaitState, CollectState, CallbackState

\* What the kernel holds and what a callback is about are connections.
LEMMA QueuesShape ==
    ASSUME KernelTypeInv, IOTypeInv
    PROVE  /\ \A i \in DOMAIN backlog : backlog[i] \in Conn
           /\ io.at = "callbacks" => \A i \in DOMAIN io.callbacks :
                  io.callbacks[i] \in Callbacks /\ io.callbacks[i].conn \in Conn
                  /\ io.callbacks[i].fd \in Fd
<1>1. \A cb \in Callbacks : cb.conn \in Conn /\ cb.fd \in Fd
  BY DEF Callbacks
<1>2. ASSUME io.at = "callbacks", NEW i \in DOMAIN io.callbacks
      PROVE  io.callbacks[i] \in Callbacks
  BY <1>2, IoShape
<1>3. \A i \in DOMAIN backlog : backlog[i] \in Conn
  BY DEF KernelTypeInv
<1> QED BY <1>1, <1>2, <1>3

\* A thread in close() has its connection, and past "read" the descriptor.
LEMMA CloseShape ==
    ASSUME CloseTypeInv, NEW t \in Thread
    PROVE  /\ closing[t] \in CloseState
           /\ closing[t].at \in ClosePlaces
           /\ closing[t] # Idle <=> closing[t].at # "idle"
           /\ closing[t].at # "idle" => closing[t].conn \in Conn
           /\ closing[t].at \in {"clear", "unreg", "post", "drop"} => closing[t].fd \in Fd \cup {-1}
<1>1. closing[t] \in CloseState
  BY DEF CloseTypeInv
<1> QED BY <1>1 DEF CloseState, Idle, ClosePlaces

\* What was posted stays as it is, and so does who has to post.
LEMMA PostedFrame ==
    ASSUME PostedInv, UNCHANGED <<socketVars, closing>>
    PROVE  PostedInv'
BY DEF PostedInv, ToldInv, Ends, Speaks, In, socketVars

\* A thread goes on without telling a protocol anything: it has to only if it had to
\* before, or passes the test of m_fd now.
LEMMA GoKeeps ==
    ASSUME EventInv, NEW t \in Thread, NEW next,
           closing' = [closing EXCEPT ![t] = next], UNCHANGED socketVars,
           next.at # "drop",
           next.at \in {"unreg", "post"} => m_fd[next.conn] = -1,
           \A c \in Conn : next.at \in {"recv", "read", "clear", "unreg", "post"} /\ next.conn = c =>
               Speaks(t, c) \/ m_fd[c] # -1
    PROVE  PostedInv'
<1> USE DEF EventInv, EventTypeInv
<1>1. closing'[t] = next /\ \A u \in Thread \ {t} : closing'[u] = closing[u]
  BY DEF CloseTypeInv
<1>2. "io" \in Thread /\ "handler" \in Thread
  BY DEF Thread
<1>3. ASSUME NEW c \in Conn PROVE ToldInv(c)'
  <2>1. ToldInv(c)
    BY DEF PostedInv
  <2>2. posted' = posted /\ m_fd' = m_fd /\ m_refSocket' = m_refSocket /\ Ends(c)' = Ends(c)
    BY DEF socketVars, Ends
  <2>3. ASSUME NEW u \in Thread, Speaks(u, c)' PROVE Speaks(u, c) \/ m_fd[c] # -1
    BY <1>1, <2>3 DEF Speaks, In
  <2>4. ASSUME NEW u \in Thread PROVE /\ In(u, {"unreg", "post", "drop"}, c)' => m_fd[c] = -1
                                      /\ In(u, {"drop"}, c)' => Ends(c) # {}
    BY <1>1, <2>1 DEF In, ToldInv
  <2> QED BY <1>2, <2>1, <2>2, <2>3, <2>4 DEF ToldInv
<1> QED BY <1>3 DEF PostedInv

\* One callback is done, one function was run.
LEMMA CallbackShape ==
    ASSUME NEW x \in CallbackState
    PROVE  /\ x.callbacks # <<>> =>
                  /\ [x EXCEPT !.callbacks = Tail(@)] \in CallbackState
                  /\ [x EXCEPT !.callbacks = Tail(@)].callbacks = Tail(x.callbacks)
                  /\ [x EXCEPT !.callbacks = Tail(@)].funcs = x.funcs
           /\ x.funcs # <<>> =>
                  /\ [x EXCEPT !.funcs = Tail(@)] \in CallbackState
                  /\ [x EXCEPT !.funcs = Tail(@)].callbacks = x.callbacks
                  /\ [x EXCEPT !.funcs = Tail(@)].funcs = Tail(x.funcs)
           /\ \A y \in CallbackState : y.at = "callbacks"
<1>1. x.callbacks \in Seq(Callbacks) /\ x.funcs \in Seq(Fd)
  BY DEF CallbackState
<1>2. /\ x.callbacks # <<>> => Tail(x.callbacks) \in Seq(Callbacks)
      /\ x.funcs # <<>> => Tail(x.funcs) \in Seq(Fd)
  BY <1>1
<1>3. /\ \A s \in Seq(Callbacks) : [x EXCEPT !.callbacks = s] \in CallbackState
      /\ \A s \in Seq(Fd) : [x EXCEPT !.funcs = s] \in CallbackState
  BY DEF CallbackState
<1>4. \A s : /\ [x EXCEPT !.callbacks = s].callbacks = s
             /\ [x EXCEPT !.callbacks = s].funcs = x.funcs
             /\ [x EXCEPT !.funcs = s].callbacks = x.callbacks
             /\ [x EXCEPT !.funcs = s].funcs = s
  BY DEF CallbackState
<1>5. \A y \in CallbackState : y.at = "callbacks"
  BY DEF CallbackState
<1> QED BY <1>2, <1>3, <1>4, <1>5, Zenon

\* What epoll_wait reported, before it was looked at.
LEMMA CollectShape ==
    ASSUME NEW b \in BOOLEAN, NEW e \in Reports
    PROVE  [at |-> "collect", accept |-> b, events |-> e] \in CollectState
BY DEF CollectState

\* The place of a thread that closes nothing.
LEMMA IdleIs == Idle \in CloseState /\ Idle.at = "idle"
BY DEF CloseState, Idle

\* Tables: descriptors to connections.
LEMMA TableShape ==
    ASSUME NEW map \in Table
    PROVE  DOMAIN map \subseteq Fd /\ \A f \in DOMAIN map : map[f] \in Conn
BY DEF Table

\* A table with one entry more.
LEMMA TableWith ==
    ASSUME NEW map \in Table, NEW f \in Fd, NEW c \in Conn, NEW next, next = With(map, f, c)
    PROVE  /\ next \in Table /\ DOMAIN next = DOMAIN map \cup {f} /\ next[f] = c
           /\ \A g \in DOMAIN map \ {f} : next[g] = map[g]
<1>1. PICK fds \in SUBSET Fd : map \in [fds -> Conn]
  BY DEF Table
<1>2. next \in [fds \cup {f} -> Conn]
  BY <1>1 DEF With
<1>3. fds \cup {f} \in SUBSET Fd
  OBVIOUS
<1> QED BY <1>1, <1>2, <1>3 DEF Table, With

\* A table with one entry less.
LEMMA TableWithout ==
    ASSUME NEW map \in Table, NEW f, NEW next, next = Without(map, f)
    PROVE  /\ next \in Table /\ DOMAIN next = DOMAIN map \ {f}
           /\ \A g \in DOMAIN map \ {f} : next[g] = map[g]
<1>1. PICK fds \in SUBSET Fd : map \in [fds -> Conn]
  BY DEF Table
<1>2. next \in [fds \ {f} -> Conn]
  BY <1>1 DEF Without
<1>3. fds \ {f} \in SUBSET Fd
  OBVIOUS
<1> QED BY <1>1, <1>2, <1>3 DEF Table, Without

\* Initially nothing has happened.
LEMMA EventInitInv == EventInit => EventInv
<1> SUFFICES ASSUME EventInit PROVE EventInv
  OBVIOUS
<1> USE DEF EventInit
<1>1. KernelTypeInv /\ InfoTypeInv
  <2>1. <<>> \in [{} -> Conn]
    OBVIOUS
  <2>2. <<>> \in Table
    BY <2>1 DEF Table
  <2> DEFINE s == [sent |-> 0, unread |-> 0, fin |-> FALSE, rst |-> FALSE]
  <2>3. s \in Stream /\ StreamOK(s)
    BY DEF Stream, StreamOK
  <2>4. stream = [c \in Conn |-> s]
    OBVIOUS
  <2> HIDE DEF s
  <2>5. stream \in [Conn -> Stream] /\ \A c \in Conn : StreamOK(stream[c])
    BY <2>3, <2>4
  <2> QED BY <2>2, <2>5 DEF KernelTypeInv, InfoTypeInv
<1>2. SocketTypeInv /\ IOTypeInv /\ CloseTypeInv
  BY IdleIs DEF SocketTypeInv, IOTypeInv, WaitState, CloseTypeInv
<1>3. AloneInv
  BY IdleIs DEF AloneInv, At, Thread
<1>4. BacklogInv /\ EdgesInv /\ AcceptInv /\ RegisteredInv
  BY DEF BacklogInv, EdgesInv, AcceptInv, RegisteredInv
<1>5. ToCloseInv /\ CallbacksInv /\ ClosingInv
  BY IdleIs DEF ToCloseInv, Funcs, ClosingInv, CallbacksInv, At, Thread
<1>6. PostedInv
  BY IdleIs DEF PostedInv, ToldInv, Ends, Speaks, In
<1> QED BY <1>1, <1>2, <1>3, <1>4, <1>5, <1>6 DEF EventInv, EventTypeInv

-----------------------------------------------------------------------------
(* The peers. *)

\* A connection that arrives is unknown.
LEMMA ArriveStep ==
    ASSUME EventInv, NEW c \in Conn, Arrive(c)
    PROVE  EventInv'
<1> USE DEF EventInv, EventTypeInv, Arrive
<1>1. /\ backlog \in Seq(Conn) /\ c \notin Range(backlog) /\ c \notin Range(kernel)
      /\ posted[c] = <<>> /\ m_fd[c] = -1
  BY DEF Known, KernelTypeInv
<1>2. /\ backlog' \in Seq(Conn) /\ Len(backlog') = Len(backlog) + 1
      /\ DOMAIN backlog = 1..Len(backlog) /\ DOMAIN backlog' = 1..Len(backlog) + 1
      /\ \A i \in DOMAIN backlog' : backlog'[i] = IF i = Len(backlog) + 1 THEN c ELSE backlog[i]
  BY <1>1
<1>3. EventTypeInv'
  BY <1>2 DEF KernelTypeInv, InfoTypeInv, SocketTypeInv, IOTypeInv, CloseTypeInv,
              infoVars, socketVars
<1>4. BacklogInv'
  <2>1. \A i \in DOMAIN backlog : backlog[i] # c
    BY <1>1 DEF Range
  <2>2. \A f \in DOMAIN kernel : kernel[f] # c
    BY <1>1 DEF Range
  <2> QED BY <1>1, <1>2, <2>1, <2>2 DEF BacklogInv, socketVars
<1>5. EdgesInv'
  BY DEF EdgesInv
<1>6. AloneInv' /\ AcceptInv' /\ RegisteredInv'
  BY DEF AloneInv, At, AcceptInv, RegisteredInv, infoVars, socketVars
<1>7. ToCloseInv' /\ CallbacksInv' /\ ClosingInv' /\ PostedInv'
  BY PostedFrame DEF ToCloseInv, WaitsToClose, Funcs, CallbacksInv, ClosingInv,
         infoVars, socketVars
<1> QED BY <1>3, <1>4, <1>5, <1>6, <1>7

\* A unit of data more was sent.
LEMMA StreamSends ==
    ASSUME NEW s, StreamOK(s), s.sent < MaxData
    PROVE  StreamOK([s EXCEPT !.sent = @ + 1, !.unread = @ + 1])
<1> DEFINE t == [s EXCEPT !.sent = @ + 1, !.unread = @ + 1]
<1>1. s.sent \in Nat /\ s.unread \in Nat
  BY DEF StreamOK, Stream
<1>2. t \in Stream
  <2>1. \A m, n \in Nat : [s EXCEPT !.sent = m, !.unread = n] \in Stream
    BY DEF StreamOK, Stream
  <2>2. s.sent + 1 \in Nat /\ s.unread + 1 \in Nat
    BY <1>1
  <2> QED BY <2>1, <2>2, Zenon
<1>3. t.sent = s.sent + 1 /\ t.unread = s.unread + 1
  BY DEF StreamOK, Stream
<1>4. StreamOK(t)
  <2> HIDE DEF t
  <2> QED BY <1>1, <1>2, <1>3 DEF StreamOK
<1> QED BY <1>4

\* The peer closed.
LEMMA StreamCloses ==
    ASSUME NEW s, StreamOK(s)
    PROVE  StreamOK([s EXCEPT !.fin = TRUE])
<1> DEFINE t == [s EXCEPT !.fin = TRUE]
<1>2. t \in Stream
  BY DEF StreamOK, Stream
<1>3. t.sent = s.sent /\ t.unread = s.unread
  BY DEF StreamOK, Stream
<1>4. StreamOK(t)
  <2> HIDE DEF t
  <2> QED BY <1>2, <1>3 DEF StreamOK
<1> QED BY <1>4

\* A reset drops what was not read.
LEMMA StreamResets ==
    ASSUME NEW s, StreamOK(s)
    PROVE  StreamOK([s EXCEPT !.unread = 0, !.rst = TRUE])
<1> DEFINE t == [s EXCEPT !.unread = 0, !.rst = TRUE]
<1>1. s.sent \in Nat /\ s.unread \in Nat
  BY DEF StreamOK, Stream
<1>2. t \in Stream
  BY DEF StreamOK, Stream
<1>3. t.sent = s.sent /\ t.unread = 0
  BY DEF StreamOK, Stream
<1>4. StreamOK(t)
  <2> HIDE DEF t
  <2> QED BY <1>1, <1>2, <1>3 DEF StreamOK
<1> QED BY <1>4

\* Everything was read.
LEMMA StreamRead ==
    ASSUME NEW s, StreamOK(s)
    PROVE  StreamOK([s EXCEPT !.unread = 0])
<1> DEFINE t == [s EXCEPT !.unread = 0]
<1>1. s.sent \in Nat /\ s.unread \in Nat
  BY DEF StreamOK, Stream
<1>2. t \in Stream
  BY DEF StreamOK, Stream
<1>3. t.sent = s.sent /\ t.unread = 0
  BY DEF StreamOK, Stream
<1>4. StreamOK(t)
  <2> HIDE DEF t
  <2> QED BY <1>1, <1>2, <1>3 DEF StreamOK
<1> QED BY <1>4

\* What a peer does shows in the stream and in the edges only.
LEMMA PeerActsStep ==
    ASSUME EventInv, NEW c \in Conn, PeerSends(c) \/ PeerCloses(c) \/ PeerResets(c)
    PROVE  EventInv'
<1> USE DEF EventInv, EventTypeInv
<1>1. /\ edge' = Edges(c)
      /\ UNCHANGED <<backlog, kernel, infoVars, socketVars, io, closing>>
  BY DEF PeerSends, PeerCloses, PeerResets, PeerActs
<1>2. KernelTypeInv'
  <2>1. PICK now : StreamOK(now) /\ stream' = [stream EXCEPT ![c] = now]
    <3>1. StreamOK(stream[c])
      BY DEF KernelTypeInv
    <3>2. CASE PeerSends(c)
      BY <3>1, <3>2, StreamSends, Zenon DEF PeerSends, PeerActs
    <3>3. CASE PeerCloses(c)
      BY <3>1, <3>3, StreamCloses, Zenon DEF PeerCloses, PeerActs
    <3>4. CASE PeerResets(c)
      BY <3>1, <3>4, StreamResets, Zenon DEF PeerResets, PeerActs
    <3> QED BY <3>2, <3>3, <3>4
  <2>2. stream' \in [Conn -> Stream] /\ \A d \in Conn : StreamOK(stream'[d])
    <3>1. now \in Stream
      BY <2>1 DEF StreamOK
    <3>2. stream' \in [Conn -> Stream] /\ \A d \in Conn : stream'[d] = IF d = c THEN now ELSE stream[d]
      BY <2>1, <3>1 DEF KernelTypeInv
    <3> QED BY <2>1, <3>2 DEF KernelTypeInv
  <2>3. DOMAIN kernel \subseteq Fd
    BY TableShape DEF KernelTypeInv
  <2> QED BY <1>1, <2>1, <2>2, <2>3 DEF KernelTypeInv, Edges
<1>3. EventTypeInv'
  BY <1>1, <1>2 DEF InfoTypeInv, SocketTypeInv, IOTypeInv, CloseTypeInv, infoVars, socketVars
<1>4. EdgesInv'
  BY <1>1 DEF EdgesInv, Edges
<1>5. AloneInv' /\ AcceptInv' /\ RegisteredInv' /\ BacklogInv'
  BY <1>1 DEF AloneInv, At, AcceptInv, RegisteredInv, BacklogInv, infoVars, socketVars
<1>6. ToCloseInv' /\ CallbacksInv' /\ ClosingInv' /\ PostedInv'
  BY <1>1, PostedFrame DEF ToCloseInv, WaitsToClose, Funcs, CallbacksInv, ClosingInv,
                           infoVars, socketVars
<1> QED BY <1>3, <1>4, <1>5, <1>6

-----------------------------------------------------------------------------
(* The IO thread. *)

\* Events are reported for descriptors of connections.
LEMMA epoll_waitStep ==
    ASSUME EventInv, epoll_wait
    PROVE  EventInv'
<1> USE DEF EventInv, EventTypeInv, epoll_wait
<1>1. io'.at = "collect" /\ io.at = "wait" /\ Funcs = <<>> /\ Funcs' = <<>>
  BY DEF Funcs
<1>2. KernelTypeInv' /\ InfoTypeInv' /\ SocketTypeInv' /\ CloseTypeInv'
  BY DEF KernelTypeInv, InfoTypeInv, SocketTypeInv, CloseTypeInv, infoVars, socketVars
<1>3. IOTypeInv'
  <2> DEFINE mask(f) == [in |-> stream[kernel[f]].unread > 0 \/ stream[kernel[f]].fin \/ stream[kernel[f]].rst,
                         err |-> stream[kernel[f]].rst]
             fds == edge \ {Listening}
             events == [f \in fds |-> mask(f)]
  <2>1. fds \in SUBSET Fd
    BY DEF KernelTypeInv
  <2>2. ASSUME NEW f \in fds PROVE mask(f) \in [in : BOOLEAN, err : BOOLEAN]
    <3>1. kernel[f] \in Conn
      BY TableShape DEF EdgesInv, KernelTypeInv
    <3>2. stream[kernel[f]] \in Stream
      BY <3>1 DEF KernelTypeInv
    <3> QED BY <3>2 DEF Stream
  <2>3. events \in [fds -> [in : BOOLEAN, err : BOOLEAN]]
    <3> HIDE DEF mask
    <3> QED BY <2>2
  <2>4. io' = [at |-> "collect", accept |-> Listening \in edge, events |-> events]
    OBVIOUS
  <2>5. events \in Reports
    <3> HIDE DEF events, fds
    <3> QED BY <2>1, <2>3 DEF Reports
  <2>6. (Listening \in edge) \in BOOLEAN
    OBVIOUS
  <2> HIDE DEF events, fds
  <2>7. io' \in CollectState
    BY <2>4, <2>5, <2>6, CollectShape, Zenon
  <2> QED BY <2>7 DEF IOTypeInv
<1>4. AloneInv' /\ BacklogInv' /\ EdgesInv' /\ AcceptInv' /\ RegisteredInv'
  BY <1>1 DEF AloneInv, At, BacklogInv, EdgesInv, AcceptInv, RegisteredInv, infoVars, socketVars
<1>5. ToCloseInv' /\ CallbacksInv' /\ ClosingInv' /\ PostedInv'
  BY <1>1, PostedFrame DEF ToCloseInv, WaitsToClose, CallbacksInv, ClosingInv,
                           infoVars, socketVars
<1> QED BY <1>2, <1>3, <1>4, <1>5

\* The round ends.
LEMMA roundDoneStep ==
    ASSUME EventInv, roundDone
    PROVE  EventInv'
<1> USE DEF EventInv, EventTypeInv, roundDone
<1>1. io'.at = "wait" /\ Funcs = <<>> /\ Funcs' = <<>>
  BY DEF Funcs
<1>2. KernelTypeInv' /\ InfoTypeInv' /\ SocketTypeInv' /\ CloseTypeInv' /\ IOTypeInv'
  BY DEF KernelTypeInv, InfoTypeInv, SocketTypeInv, CloseTypeInv, IOTypeInv, WaitState,
         kernelVars, infoVars, socketVars
<1>3. AloneInv' /\ BacklogInv' /\ EdgesInv' /\ AcceptInv' /\ RegisteredInv'
  BY <1>1 DEF AloneInv, At, BacklogInv, EdgesInv, AcceptInv, RegisteredInv,
              kernelVars, infoVars, socketVars
<1>4. ToCloseInv' /\ CallbacksInv' /\ ClosingInv' /\ PostedInv'
  BY <1>1, PostedFrame DEF ToCloseInv, WaitsToClose, CallbacksInv, ClosingInv,
                           kernelVars, infoVars, socketVars
<1> QED BY <1>2, <1>3, <1>4

\* A descriptor is closed: it was unregistered, and waited once.
LEMMA safeClosefdStep ==
    ASSUME EventInv, safeClosefd
    PROVE  EventInv'
<1> USE DEF EventInv, EventTypeInv
<1>1. /\ io.at = "callbacks" /\ io \in CallbackState /\ io.funcs \in Seq(Fd) /\ io.funcs # <<>>
      /\ io.callbacks = <<>> /\ io' = [io EXCEPT !.funcs = Tail(@)]
  BY IoShape DEF safeClosefd
<1>2. /\ io' \in CallbackState /\ io'.at = "callbacks" /\ io'.callbacks = <<>>
      /\ io'.funcs = Tail(io.funcs)
  BY <1>1, CallbackShape, Zenon
<1>3. /\ Head(io.funcs) \in Fd /\ Head(io.funcs) = io.funcs[1] /\ 1 \in DOMAIN io.funcs
      /\ Tail(io.funcs) \in Seq(Fd)
      /\ \A i \in DOMAIN Tail(io.funcs) : /\ i + 1 \in DOMAIN io.funcs /\ i + 1 # 1
                                          /\ Tail(io.funcs)[i] = io.funcs[i + 1]
      /\ \A i, j \in DOMAIN Tail(io.funcs) : i # j => i + 1 # j + 1
  BY <1>1
<1>4. Funcs = io.funcs /\ Funcs' = Tail(io.funcs)
  BY <1>1, <1>2 DEF Funcs
<1>5. PICK f \in Fd : f = Head(io.funcs)
  BY <1>3
<1>6. /\ kernel' = Without(kernel, f) /\ edge' = edge \ {f}
      /\ UNCHANGED <<stream, backlog, infoVars, socketVars, closing>>
  BY <1>5, Zenon DEF safeClosefd
<1>7. kernel \in Table
  BY DEF KernelTypeInv
<1>8. /\ kernel' \in Table /\ DOMAIN kernel' = DOMAIN kernel \ {f}
      /\ \A g \in DOMAIN kernel \ {f} : kernel'[g] = kernel[g]
  BY <1>6, <1>7, TableWithout DEF Without
<1>9. f \in DOMAIN kernel /\ f \notin DOMAIN m_allIOinfo
  BY <1>3, <1>4, <1>5 DEF ToCloseInv, WaitsToClose
<1>10. KernelTypeInv' /\ InfoTypeInv' /\ SocketTypeInv' /\ CloseTypeInv' /\ IOTypeInv'
  BY <1>2, <1>6, <1>8 DEF KernelTypeInv, InfoTypeInv, SocketTypeInv, CloseTypeInv, IOTypeInv,
                          infoVars, socketVars
<1>11. AloneInv' /\ BacklogInv' /\ AcceptInv' /\ RegisteredInv'
  BY <1>2, <1>6, <1>8, <1>9 DEF AloneInv, At, BacklogInv, AcceptInv, RegisteredInv, infoVars, socketVars
<1>12. EdgesInv'
  BY <1>6, <1>8 DEF EdgesInv
<1>13. CallbacksInv' /\ ClosingInv' /\ PostedInv'
  BY <1>2, <1>6, PostedFrame DEF safeClosefd, CallbacksInv, ClosingInv, infoVars, socketVars
<1>14. ToCloseInv'
  <2>1. \A i \in DOMAIN Funcs' : Funcs'[i] # f /\ WaitsToClose(Funcs'[i])
    BY <1>3, <1>4, <1>5 DEF ToCloseInv
  <2>2. \A i \in DOMAIN m_listFuncToRun : m_listFuncToRun[i] # f
    BY <1>3, <1>4, <1>5 DEF ToCloseInv
  <2>3. \A g : g # f /\ WaitsToClose(g) => WaitsToClose(g)'
    BY <1>2, <1>6, <1>8 DEF WaitsToClose, infoVars
  <2> QED BY <1>3, <1>4, <1>6, <2>1, <2>2, <2>3 DEF ToCloseInv, infoVars
<1> QED BY <1>10, <1>11, <1>12, <1>13, <1>14

\* A callback of a socket: it is known as long as its m_fd is set.
LEMMA handleEventStep ==
    ASSUME EventInv, handleEvent
    PROVE  EventInv'
<1> USE DEF EventInv, EventTypeInv
<1>1. /\ io.at = "callbacks" /\ io.callbacks # <<>> /\ closing["io"] = Idle
      /\ Head(io.callbacks).type \in {"RECV", "BROKEN"}
      /\ io' = [io EXCEPT !.callbacks = Tail(@)]
      /\ UNCHANGED <<kernelVars, infoVars, socketVars>>
  BY DEF handleEvent, Callback, CallbackDone
<1>2. io \in CallbackState /\ io.callbacks \in Seq(Callbacks)
  BY <1>1, IoShape
<1>3. /\ io' \in CallbackState /\ io'.at = "callbacks" /\ io'.callbacks = Tail(io.callbacks)
      /\ io'.funcs = io.funcs
  BY <1>1, <1>2, CallbackShape, Zenon
<1>4. PICK c \in Conn : c = Head(io.callbacks).conn
  <2>1. Head(io.callbacks) \in Callbacks
    BY <1>1, <1>2
  <2>2. \A cb \in Callbacks : cb.conn \in Conn
    BY DEF Callbacks
  <2> QED BY <2>1, <2>2
<1>5. \A i \in DOMAIN Tail(io.callbacks) : Tail(io.callbacks)[i].type # "ACCEPT"
  <2>1. \A i \in DOMAIN Tail(io.callbacks) :
            i + 1 \in DOMAIN io.callbacks /\ i + 1 # 1 /\ Tail(io.callbacks)[i] = io.callbacks[i + 1]
    BY <1>1, <1>2
  <2> QED BY <1>1, <2>1 DEF AcceptInv
<1>6. PICK next : /\ \/ next = closing["io"]
                     \/ m_fd[c] # -1 /\ next = [at |-> "recv", conn |-> c]
                     \/ m_fd[c] # -1 /\ next = [at |-> "test", conn |-> c]
                  /\ closing' = [closing EXCEPT !["io"] = next]
  <2>1. closing = [closing EXCEPT !["io"] = closing["io"]]
    BY DEF CloseTypeInv
  <2> QED BY <1>4, <2>1 DEF handleEvent
<1>7. next \in CloseState /\ next.at \in {"idle", "recv", "test"}
      /\ (next # Idle => m_fd[c] # -1 /\ next.conn = c)
  BY <1>1, <1>6 DEF CloseState, Idle
<1>8. /\ closing' \in [Thread -> CloseState] /\ closing'["io"] = next
      /\ closing'["handler"] = closing["handler"] /\ closing["io"].at = "idle"
  BY <1>1, <1>6, <1>7, IdleIs DEF CloseTypeInv, Thread
<1>9. Funcs' = Funcs
  BY <1>1, <1>3 DEF Funcs
<1>10. KernelTypeInv' /\ InfoTypeInv' /\ SocketTypeInv' /\ IOTypeInv' /\ CloseTypeInv'
  BY <1>1, <1>3, <1>8 DEF KernelTypeInv, InfoTypeInv, SocketTypeInv, IOTypeInv, CloseTypeInv,
                          kernelVars, infoVars, socketVars
<1>11. AloneInv' /\ BacklogInv' /\ EdgesInv' /\ AcceptInv' /\ RegisteredInv'
  BY <1>1, <1>3, <1>5, <1>7, <1>8 DEF AloneInv, At, BacklogInv, EdgesInv, AcceptInv, RegisteredInv,
                                 kernelVars, infoVars, socketVars
<1>12. PostedInv'
  <2>1. /\ UNCHANGED socketVars /\ "io" \in Thread
        /\ \A d \in Conn : next.at \in {"recv", "read", "clear", "unreg", "post"} /\ next.conn = d =>
               m_fd[d] # -1
    BY <1>1, <1>7, IdleIs DEF Thread
  <2> QED BY <1>6, <1>7, <2>1, GoKeeps
<1>13. ToCloseInv'
  BY <1>1, <1>3, <1>5, <1>9 DEF ToCloseInv, WaitsToClose, kernelVars, infoVars
<1>14. ClosingInv' /\ CallbacksInv'
  <2>1. 1 \in DOMAIN io.callbacks /\ c = io.callbacks[1].conn
    BY <1>1, <1>2, <1>4
  <2>2. \E f \in DOMAIN kernel : kernel[f] = c
    BY <1>1, <2>1 DEF CallbacksInv
  <2>3. \A i \in DOMAIN Tail(io.callbacks) :
            i + 1 \in DOMAIN io.callbacks /\ Tail(io.callbacks)[i] = io.callbacks[i + 1]
    BY <1>1, <1>2
  <2>4. CallbacksInv'
    BY <1>1, <1>3, <2>3 DEF CallbacksInv, kernelVars
  <2> QED BY <1>1, <1>3, <1>5, <1>7, <1>8, <2>2, <2>4 DEF ClosingInv, kernelVars, socketVars
<1> QED BY <1>10, <1>11, <1>12, <1>13, <1>14

-----------------------------------------------------------------------------
(* Sockets: what a thread of close() does, and what is posted. *)

\* A connection that is closed or received from is neither new nor being accepted.
LEMMA ClosedIsKnown ==
    ASSUME EventInv, NEW t \in Thread, closing[t] # Idle
    PROVE  /\ \A i \in DOMAIN backlog : backlog[i] # closing[t].conn
           /\ io.at = "callbacks" => \A i \in DOMAIN io.callbacks :
                  io.callbacks[i].type = "ACCEPT" => io.callbacks[i].conn # closing[t].conn
<1> USE DEF EventInv
<1>1. CASE t = "io"
  BY <1>1 DEF ClosingInv, BacklogInv
<1>2. CASE t = "handler"
  BY <1>2 DEF ClosingInv, BacklogInv, AcceptInv
<1> QED BY <1>1, <1>2 DEF Thread

\* A thread that had to tell the protocol of c something does it.
LEMMA PostKeeps ==
    ASSUME EventInv, NEW t \in Thread, NEW c \in Conn, NEW e \in Event, NEW next,
           Speaks(t, c), e.sock = m_refSocket[c],
           \/ e.type = "RECV" /\ next.at = "idle"
           \/ e.type = "BROKEN" /\ next.at = "drop" /\ next.conn = c /\ m_fd[c] = -1,
           posted' = [posted EXCEPT ![c] = Append(@, e)],
           closing' = [closing EXCEPT ![t] = next],
           UNCHANGED <<m_fd, m_refSocket>>
    PROVE  /\ posted' \in [Conn -> Seq(Event)]
           /\ posted'[c] # <<>> /\ \A d \in Conn \ {c} : posted'[d] = posted[d]
           /\ PostedInv'
<1> USE DEF EventInv, EventTypeInv, SocketTypeInv
<1>1. /\ posted[c] \in Seq(Event) /\ Append(posted[c], e) \in Seq(Event)
      /\ posted' \in [Conn -> Seq(Event)]
      /\ posted'[c] = Append(posted[c], e) /\ \A d \in Conn \ {c} : posted'[d] = posted[d]
  OBVIOUS
<1>2. PICK n \in Nat : n = Len(posted[c])
  BY <1>1
<1>3. /\ DOMAIN posted[c] = 1..n /\ DOMAIN posted'[c] = 1..n + 1 /\ Len(posted'[c]) = n + 1
      /\ \A i \in 1..n : posted'[c][i] = posted[c][i]
      /\ posted'[c][n + 1] = e /\ posted'[c] # <<>>
  BY <1>1, <1>2
<1>4. closing'[t] = next /\ \A u \in Thread \ {t} : closing'[u] = closing[u]
  BY DEF CloseTypeInv
<1>5. /\ "io" \in Thread /\ "handler" \in Thread /\ \A u \in Thread : u = "io" \/ u = "handler"
      /\ Closers \in {1, 2}
      /\ (\E u \in Thread \ {t} : Speaks(u, c)) => Closers = 2
  <2>1. ASSUME NEW u \in Thread \ {t}, Speaks(u, c) PROVE HandlerCloses
    BY <2>1, IdleIs DEF AloneInv, Speaks, In, Thread
  <2> QED BY <2>1 DEF Thread, Closers
<1>6. ASSUME NEW d \in Conn, d # c PROVE ToldInv(d)'
  <2>1. ToldInv(d) /\ Ends(d)' = Ends(d) /\ posted'[d] = posted[d]
    BY <1>1, <1>6 DEF PostedInv, Ends
  <2>2. ASSUME NEW u \in Thread PROVE /\ Speaks(u, d)' => Speaks(u, d)
                                      /\ In(u, {"unreg", "post", "drop"}, d)' =>
                                             In(u, {"unreg", "post", "drop"}, d)
                                      /\ In(u, {"drop"}, d)' => In(u, {"drop"}, d)
    BY <1>4, <1>6 DEF Speaks, In
  <2> QED BY <1>5, <2>1, <2>2 DEF ToldInv
<1>7. ToldInv(c)'
  <2>1. ToldInv(c)
    BY DEF PostedInv
  <2>2. Ends(c) \subseteq 1..n /\ Ends(c)' = IF e.type = "BROKEN" THEN Ends(c) \cup {n + 1} ELSE Ends(c)
    BY <1>3 DEF Ends
  <2>3. ASSUME NEW u \in Thread PROVE /\ Speaks(u, c)' => u # t /\ Speaks(u, c)
                                      /\ In(u, {"unreg", "post", "drop"}, c)' =>
                                             In(u, {"unreg", "post", "drop"}, c) \/ m_fd[c] = -1
                                      /\ In(u, {"drop"}, c)' =>
                                             In(u, {"drop"}, c) \/ n + 1 \in Ends(c)'
    BY <1>4, <2>2 DEF Speaks, In
  <2>4. Ends(c) # {} => \A u \in Thread : u # t => ~Speaks(u, c)
    BY <1>5, <2>1 DEF ToldInv
  <2>5. m_refSocket[c] \/ Ends(c) # {}
    BY <2>1 DEF ToldInv
  <2>6. \A j \in DOMAIN posted'[c] : ~posted'[c][j].sock => \E i \in Ends(c)' : i < j
    <3>1. ASSUME NEW j \in 1..n, ~posted'[c][j].sock PROVE \E i \in Ends(c)' : i < j
      BY <1>3, <2>1, <2>2, <3>1 DEF ToldInv
    <3>2. ASSUME ~e.sock PROVE \E i \in Ends(c)' : i < n + 1
      BY <2>2, <2>5, <3>2
    <3> QED BY <1>3, <3>1, <3>2
  <2>7. \A i \in Ends(c)' : Len(posted'[c]) < i + Closers
    <3>1. ASSUME NEW i \in Ends(c) PROVE n + 1 < i + Closers
      BY <1>2, <2>1 DEF ToldInv
    <3>2. n + 1 < (n + 1) + Closers
      BY <1>2, <1>5
    <3> QED BY <1>3, <2>2, <3>1, <3>2
  <2>8. \A i \in Ends(c)', u \in Thread : Speaks(u, c)' => Len(posted'[c]) + 1 < i + Closers
    <3>1. ASSUME NEW i \in Ends(c)', NEW u \in Thread, Speaks(u, c)'
          PROVE  (n + 1) + 1 < i + Closers
      <4>1. u # t /\ Speaks(u, c) /\ Ends(c) = {}
        BY <2>3, <2>4, <3>1
      <4>2. Closers = 2
        BY <1>5, <4>1
      <4>3. i = n + 1
        BY <2>2, <3>1, <4>1
      <4> QED BY <1>2, <4>2, <4>3
    <3> QED BY <1>3, <3>1
  <2>9. /\ Ends(c)' # {} => m_fd'[c] = -1 /\ ~(Speaks("io", c)' /\ Speaks("handler", c)')
        /\ m_fd'[c] # -1 => m_refSocket'[c]
    BY <1>5, <2>1, <2>2, <2>3 DEF ToldInv
  <2>10. \A u \in Thread : /\ Speaks(u, c)' => m_refSocket'[c] \/ Ends(c)' # {}
                           /\ In(u, {"unreg", "post", "drop"}, c)' => m_fd'[c] = -1
                           /\ In(u, {"drop"}, c)' => Ends(c)' # {}
    BY <2>1, <2>2, <2>3, <2>5 DEF ToldInv
  <2> QED BY <2>6, <2>7, <2>8, <2>9, <2>10 DEF ToldInv
<1>8. PostedInv'
  BY <1>6, <1>7 DEF PostedInv
<1> QED BY <1>1, <1>3, <1>8

\* RECV is posted with whatever m_refSocket is.
LEMMA handleRecvStep ==
    ASSUME EventInv, handleRecv
    PROVE  EventInv'
<1> USE DEF EventInv, EventTypeInv
<1>1. /\ closing["io"].at = "recv" /\ closing["io"] # Idle /\ closing["io"].conn \in Conn
      /\ "io" \in Thread
  BY CloseShape DEF handleRecv, Thread
<1>2. PICK c \in Conn : c = closing["io"].conn
  BY <1>1
<1>3. /\ posted' = [posted EXCEPT ![c] = Append(@, [type |-> "RECV", sock |-> m_refSocket[c]])]
      /\ closing' = [closing EXCEPT !["io"] = Idle]
      /\ UNCHANGED <<kernelVars, infoVars, m_fd, m_refSocket, io>>
  BY <1>2, Zenon DEF handleRecv
<1>4. [type |-> "RECV", sock |-> m_refSocket[c]] \in Event
  BY DEF SocketTypeInv, Event
<1>5. Speaks("io", c) /\ [type |-> "RECV", sock |-> m_refSocket[c]].sock = m_refSocket[c]
  BY <1>1, <1>2 DEF Speaks, In
<1>6. /\ posted' \in [Conn -> Seq(Event)]
      /\ posted'[c] # <<>> /\ \A d \in Conn \ {c} : posted'[d] = posted[d]
      /\ PostedInv'
  <2>1. PICK e \in Event : e = [type |-> "RECV", sock |-> m_refSocket[c]] /\ e.type = "RECV"
    BY <1>4
  <2> QED BY <1>1, <1>3, <1>5, <2>1, IdleIs, PostKeeps
<1>7. /\ closing' \in [Thread -> CloseState] /\ closing'["io"] = Idle
      /\ closing'["handler"] = closing["handler"]
  BY <1>3, IdleIs DEF CloseTypeInv, Thread
<1>8. KernelTypeInv' /\ InfoTypeInv' /\ SocketTypeInv' /\ IOTypeInv' /\ CloseTypeInv'
  BY <1>3, <1>6, <1>7 DEF KernelTypeInv, InfoTypeInv, SocketTypeInv, IOTypeInv, CloseTypeInv,
                          kernelVars, infoVars
<1>9. BacklogInv' /\ AcceptInv'
  <2>1. /\ \A i \in DOMAIN backlog : backlog[i] # c
        /\ io.at = "callbacks" => \A i \in DOMAIN io.callbacks :
               io.callbacks[i].type = "ACCEPT" => io.callbacks[i].conn # c
    BY <1>1, <1>2, ClosedIsKnown
  <2>2. /\ \A i \in DOMAIN backlog : backlog[i] \in Conn
        /\ io.at = "callbacks" => \A i \in DOMAIN io.callbacks : io.callbacks[i].conn \in Conn
    BY QueuesShape
  <2> QED BY <1>3, <1>6, <2>1, <2>2 DEF BacklogInv, AcceptInv, kernelVars, infoVars
<1>10. AloneInv' /\ EdgesInv' /\ RegisteredInv' /\ CallbacksInv'
  BY <1>3, <1>7, IdleIs DEF AloneInv, At, EdgesInv, RegisteredInv, CallbacksInv, Thread, kernelVars, infoVars
<1>11. ToCloseInv'
  BY <1>3 DEF ToCloseInv, WaitsToClose, Funcs, kernelVars, infoVars
<1>12. ClosingInv'
  BY <1>3, <1>6, <1>7, CloseShape DEF ClosingInv, Thread
<1> QED BY <1>6, <1>8, <1>9, <1>10, <1>11, <1>12

\* The protocol is told that the socket broke.
LEMMA closePostStep ==
    ASSUME EventInv, NEW t \in Thread, closePost(t)
    PROVE  EventInv'
<1> USE DEF EventInv, EventTypeInv
<1>1. /\ closing[t].at = "post" /\ closing[t] # Idle /\ closing[t].conn \in Conn
      /\ closing[t] \in CloseState
  BY CloseShape DEF closePost, At
<1>2. PICK c \in Conn : c = closing[t].conn
  BY <1>1
<1>3. PICK next \in CloseState, e \in Event :
          /\ next.at = "drop" /\ next.conn = c /\ next # Idle
          /\ e.type = "BROKEN" /\ e.sock = m_refSocket[c]
          /\ posted' = [posted EXCEPT ![c] = Append(@, e)]
          /\ closing' = [closing EXCEPT ![t] = next]
          /\ UNCHANGED <<kernelVars, infoVars, m_fd, m_refSocket, io>>
  <2>1. /\ [closing[t] EXCEPT !.at = "drop"] \in CloseState
        /\ [closing[t] EXCEPT !.at = "drop"].at = "drop"
        /\ [closing[t] EXCEPT !.at = "drop"].conn = c
    BY <1>1, <1>2 DEF CloseState
  <2>2. \A x : x.at = "drop" => x # Idle
    BY IdleIs
  <2>3. [type |-> "BROKEN", sock |-> m_refSocket[c]] \in Event
    BY DEF SocketTypeInv, Event
  <2>4. /\ posted' = [posted EXCEPT ![c] = Append(@, [type |-> "BROKEN", sock |-> m_refSocket[c]])]
        /\ closing' = [closing EXCEPT ![t] = [closing[t] EXCEPT !.at = "drop"]]
        /\ UNCHANGED <<kernelVars, infoVars, m_fd, m_refSocket, io>>
    BY <1>2, Zenon DEF closePost, Go
  <2>5. /\ [type |-> "BROKEN", sock |-> m_refSocket[c]].type = "BROKEN"
        /\ [type |-> "BROKEN", sock |-> m_refSocket[c]].sock = m_refSocket[c]
    OBVIOUS
  <2> QED BY <2>1, <2>2, <2>3, <2>4, <2>5, Zenon
<1>4. Speaks(t, c) /\ m_fd[c] = -1
  BY <1>1, <1>2 DEF Speaks, In, PostedInv, ToldInv
<1>5. UNCHANGED <<m_fd, m_refSocket>>
  BY <1>3
<1>6. /\ posted' \in [Conn -> Seq(Event)]
      /\ posted'[c] # <<>> /\ \A d \in Conn \ {c} : posted'[d] = posted[d]
      /\ PostedInv'
  BY <1>3, <1>4, <1>5, PostKeeps
<1>7. /\ closing' \in [Thread -> CloseState] /\ closing'[t] = next
      /\ \A u \in Thread \ {t} : closing'[u] = closing[u]
  BY <1>3 DEF CloseTypeInv
<1>8. KernelTypeInv' /\ InfoTypeInv' /\ SocketTypeInv' /\ IOTypeInv' /\ CloseTypeInv'
  BY <1>3, <1>6, <1>7 DEF KernelTypeInv, InfoTypeInv, SocketTypeInv, IOTypeInv, CloseTypeInv,
                          kernelVars, infoVars
<1>9. BacklogInv' /\ AcceptInv'
  <2>1. /\ \A i \in DOMAIN backlog : backlog[i] # c
        /\ io.at = "callbacks" => \A i \in DOMAIN io.callbacks :
               io.callbacks[i].type = "ACCEPT" => io.callbacks[i].conn # c
    BY <1>1, <1>2, ClosedIsKnown
  <2>2. /\ \A i \in DOMAIN backlog : backlog[i] \in Conn
        /\ io.at = "callbacks" => \A i \in DOMAIN io.callbacks : io.callbacks[i].conn \in Conn
    BY QueuesShape
  <2> QED BY <1>3, <1>6, <2>1, <2>2 DEF BacklogInv, AcceptInv, kernelVars, infoVars
<1>10. AloneInv' /\ EdgesInv' /\ RegisteredInv' /\ CallbacksInv'
  <2>1. ~HandlerCloses => t = "io"
    BY <1>1, IdleIs DEF AloneInv, Thread
  <2> QED BY <1>3, <1>7, <2>1 DEF AloneInv, At, EdgesInv, RegisteredInv, CallbacksInv, Thread, kernelVars, infoVars
<1>11. ToCloseInv'
  BY <1>3 DEF ToCloseInv, WaitsToClose, Funcs, kernelVars, infoVars
<1>12. ClosingInv'
  <2>1. /\ closing'["handler"] # Idle => posted'[closing'["handler"].conn] # <<>>
    BY <1>2, <1>3, <1>6, <1>7, CloseShape DEF ClosingInv, Thread
  <2>2. t = "io" => closing["io"] # Idle
    BY <1>1
  <2>3. closing'["io"] # Idle => closing["io"] # Idle /\ closing'["io"].conn = closing["io"].conn
    BY <1>2, <1>3, <1>7, <2>2 DEF Thread
  <2> QED BY <1>3, <2>1, <2>3 DEF ClosingInv, kernelVars
<1> QED BY <1>6, <1>8, <1>9, <1>10, <1>11, <1>12

\* m_refSocket is dropped.
LEMMA closeDropStep ==
    ASSUME EventInv, NEW t \in Thread, closeDrop(t)
    PROVE  EventInv'
<1> USE DEF EventInv, EventTypeInv
<1>1. /\ closing[t].at = "drop" /\ closing[t] # Idle /\ closing[t].conn \in Conn
  BY CloseShape DEF closeDrop, At
<1>2. PICK c \in Conn : c = closing[t].conn
  BY <1>1
<1>3. /\ m_refSocket' = [m_refSocket EXCEPT ![c] = FALSE]
      /\ closing' = [closing EXCEPT ![t] = Idle]
      /\ UNCHANGED <<kernelVars, infoVars, m_fd, posted, io>>
  BY <1>2, Zenon DEF closeDrop, Go
<1>4. /\ m_refSocket' \in [Conn -> BOOLEAN]
      /\ \A d \in Conn \ {c} : m_refSocket'[d] = m_refSocket[d]
  BY <1>3 DEF SocketTypeInv
<1>5. /\ closing' \in [Thread -> CloseState] /\ closing'[t] = Idle
      /\ \A u \in Thread \ {t} : closing'[u] = closing[u]
  BY <1>3, IdleIs DEF CloseTypeInv
<1>6. KernelTypeInv' /\ InfoTypeInv' /\ SocketTypeInv' /\ IOTypeInv' /\ CloseTypeInv'
  BY <1>3, <1>4, <1>5 DEF KernelTypeInv, InfoTypeInv, SocketTypeInv, IOTypeInv, CloseTypeInv,
                          kernelVars, infoVars
<1>7. AloneInv' /\ BacklogInv' /\ EdgesInv' /\ AcceptInv' /\ RegisteredInv' /\ CallbacksInv'
  BY <1>3, <1>5, IdleIs DEF AloneInv, At, BacklogInv, EdgesInv, AcceptInv, RegisteredInv, CallbacksInv,
                       Thread, kernelVars, infoVars
<1>8. ToCloseInv' /\ ClosingInv'
  BY <1>3, <1>5 DEF ToCloseInv, WaitsToClose, Funcs, ClosingInv, Thread, kernelVars, infoVars
<1>9. PostedInv'
  <2>1. ASSUME NEW d \in Conn PROVE ToldInv(d)'
    <3>1. ToldInv(d) /\ Ends(d)' = Ends(d) /\ posted'[d] = posted[d] /\ m_fd'[d] = m_fd[d]
      BY <1>3 DEF PostedInv, Ends
    <3>2. ASSUME NEW u \in Thread PROVE /\ Speaks(u, d)' => Speaks(u, d)
                                        /\ In(u, {"unreg", "post", "drop"}, d)' =>
                                               In(u, {"unreg", "post", "drop"}, d)
                                        /\ In(u, {"drop"}, d)' => In(u, {"drop"}, d)
      BY <1>5, IdleIs DEF Speaks, In
    <3>3. d = c => Ends(d) # {} /\ m_fd[d] = -1
      BY <1>1, <1>2, <3>1 DEF In, ToldInv
    <3>4. "io" \in Thread /\ "handler" \in Thread
      BY DEF Thread
    <3> QED BY <1>3, <1>4, <3>1, <3>2, <3>3, <3>4 DEF ToldInv
  <2> QED BY <2>1 DEF PostedInv
<1> QED BY <1>6, <1>7, <1>8, <1>9

\* Another thread closes a connection its protocol knows.
LEMMA handlerClosesStep ==
    ASSUME EventInv, NEW c \in Conn, handlerCloses(c)
    PROVE  EventInv'
<1> USE DEF EventInv, EventTypeInv
<1>1. /\ HandlerCloses /\ posted[c] # <<>> /\ closing["handler"].at = "idle"
      /\ closing' = [closing EXCEPT !["handler"] = [at |-> "test", conn |-> c]]
      /\ UNCHANGED <<kernelVars, infoVars, socketVars, io>>
  BY IdleIs, Zenon DEF handlerCloses, Go
<1>2. PICK next \in CloseState : /\ next = [at |-> "test", conn |-> c]
                                /\ next.at = "test" /\ next.conn = c
  <2>1. [at |-> "test", conn |-> c] \in CloseState
    BY DEF CloseState
  <2> QED BY <2>1
<1>3. /\ closing' \in [Thread -> CloseState] /\ closing'["handler"] = next
      /\ closing'["io"] = closing["io"]
  BY <1>1, <1>2 DEF CloseTypeInv, Thread
<1>4. KernelTypeInv' /\ InfoTypeInv' /\ SocketTypeInv' /\ IOTypeInv' /\ CloseTypeInv'
  BY <1>1, <1>3 DEF KernelTypeInv, InfoTypeInv, SocketTypeInv, IOTypeInv, CloseTypeInv,
                    kernelVars, infoVars, socketVars
<1>5. AloneInv' /\ BacklogInv' /\ EdgesInv' /\ AcceptInv' /\ RegisteredInv'
  BY <1>1 DEF AloneInv, BacklogInv, EdgesInv, AcceptInv, RegisteredInv,
              kernelVars, infoVars, socketVars
<1>6. ToCloseInv' /\ CallbacksInv' /\ ClosingInv' /\ PostedInv'
  <2>1. PostedInv'
    <3>1. "handler" \in Thread
      BY DEF Thread
    <3> QED BY <1>1, <1>2, <3>1, GoKeeps
  <2> QED BY <1>1, <1>2, <1>3, <2>1 DEF Thread, ToCloseInv, WaitsToClose, Funcs, CallbacksInv, ClosingInv,
                          kernelVars, infoVars, socketVars
<1> QED BY <1>4, <1>5, <1>6

\* m_fd is tested.
LEMMA closeTestStep ==
    ASSUME EventInv, NEW t \in Thread, closeTest(t)
    PROVE  EventInv'
<1> USE DEF EventInv, EventTypeInv
<1>1. /\ closing[t].at = "test" /\ closing[t] # Idle /\ closing[t].conn \in Conn
      /\ closing[t] \in CloseState
  BY CloseShape DEF closeTest, At
<1>2. PICK c \in Conn : c = closing[t].conn
  BY <1>1
<1>3. PICK next \in CloseState :
          /\ \/ next = Idle
             \/ m_fd[c] # -1 /\ next.at = "read" /\ next.conn = c /\ next # Idle
          /\ closing' = [closing EXCEPT ![t] = next]
          /\ UNCHANGED <<kernelVars, infoVars, socketVars, io>>
  <2>1. /\ [closing[t] EXCEPT !.at = "read"] \in CloseState
        /\ [closing[t] EXCEPT !.at = "read"].at = "read"
        /\ [closing[t] EXCEPT !.at = "read"].conn = c
    BY <1>1, <1>2 DEF CloseState
  <2>2. \A x : x.at = "read" => x # Idle
    BY IdleIs
  <2>3. CASE m_fd[c] = -1
    BY <1>2, <2>3, IdleIs DEF closeTest, Go
  <2>4. CASE m_fd[c] # -1
    BY <1>2, <2>1, <2>2, <2>4 DEF closeTest, Go
  <2> QED BY <2>3, <2>4
<1>4. /\ closing' \in [Thread -> CloseState] /\ closing'[t] = next
      /\ \A u \in Thread \ {t} : closing'[u] = closing[u]
  BY <1>3 DEF CloseTypeInv
<1>5. KernelTypeInv' /\ InfoTypeInv' /\ SocketTypeInv' /\ IOTypeInv' /\ CloseTypeInv'
  BY <1>3, <1>4 DEF KernelTypeInv, InfoTypeInv, SocketTypeInv, IOTypeInv, CloseTypeInv,
                    kernelVars, infoVars, socketVars
<1>6. BacklogInv' /\ EdgesInv' /\ AcceptInv' /\ RegisteredInv' /\ ToCloseInv' /\ CallbacksInv'
  BY <1>3 DEF BacklogInv, EdgesInv, AcceptInv, RegisteredInv, ToCloseInv, WaitsToClose, Funcs,
              CallbacksInv, kernelVars, infoVars, socketVars
<1>7. AloneInv'
  BY <1>1, <1>3, <1>4, IdleIs DEF AloneInv, At, Thread, socketVars
<1>8. PostedInv'
  <2>1. /\ next.at \in {"idle", "read"} /\ UNCHANGED socketVars
        /\ \A d \in Conn : next.at = "read" /\ next.conn = d => m_fd[d] # -1
    BY <1>3, IdleIs
  <2> QED BY <1>3, <2>1, GoKeeps
<1>9. ClosingInv'
  BY <1>1, <1>2, <1>3, <1>4 DEF ClosingInv, Thread, kernelVars, socketVars
<1> QED BY <1>5, <1>6, <1>7, <1>8, <1>9

\* m_fd is read.
LEMMA closeReadStep ==
    ASSUME EventInv, NEW t \in Thread, closeRead(t)
    PROVE  EventInv'
<1> USE DEF EventInv, EventTypeInv
<1>1. /\ closing[t].at = "read" /\ closing[t] # Idle /\ closing[t].conn \in Conn
  BY CloseShape DEF closeRead, At
<1>2. PICK c \in Conn : c = closing[t].conn
  BY <1>1
<1>3. PICK next \in CloseState :
          /\ next.at = "clear" /\ next.conn = c /\ next.fd = m_fd[c] /\ next # Idle
          /\ closing' = [closing EXCEPT ![t] = next]
          /\ UNCHANGED <<kernelVars, infoVars, socketVars, io>>
  <2>1. /\ [at |-> "clear", conn |-> c, fd |-> m_fd[c]] \in CloseState
        /\ [at |-> "clear", conn |-> c, fd |-> m_fd[c]] # Idle
    BY IdleIs DEF CloseState, SocketTypeInv
  <2> QED BY <1>2, <2>1 DEF closeRead, Go
<1>4. /\ closing' \in [Thread -> CloseState] /\ closing'[t] = next
      /\ \A u \in Thread \ {t} : closing'[u] = closing[u]
  BY <1>3 DEF CloseTypeInv
<1>5. KernelTypeInv' /\ InfoTypeInv' /\ SocketTypeInv' /\ IOTypeInv' /\ CloseTypeInv'
  BY <1>3, <1>4 DEF KernelTypeInv, InfoTypeInv, SocketTypeInv, IOTypeInv, CloseTypeInv,
                    kernelVars, infoVars, socketVars
<1>6. BacklogInv' /\ EdgesInv' /\ AcceptInv' /\ RegisteredInv' /\ ToCloseInv' /\ CallbacksInv'
  BY <1>3 DEF BacklogInv, EdgesInv, AcceptInv, RegisteredInv, ToCloseInv, WaitsToClose, Funcs,
              CallbacksInv, kernelVars, infoVars, socketVars
<1>7. AloneInv'
  <2>1. ~HandlerCloses => t = "io" /\ m_fd[c] # -1
    BY <1>1, <1>2, IdleIs DEF AloneInv, At, Thread
  <2> QED BY <1>1, <1>3, <1>4, <2>1 DEF AloneInv, At, Thread
<1>8. PostedInv'
  <2>1. UNCHANGED socketVars /\ Speaks(t, c)
    BY <1>1, <1>2, <1>3 DEF Speaks, In
  <2> QED BY <1>3, <2>1, GoKeeps
<1>9. ClosingInv'
  BY <1>1, <1>2, <1>3, <1>4 DEF ClosingInv, Thread, kernelVars, socketVars
<1> QED BY <1>5, <1>6, <1>7, <1>8, <1>9

\* m_fd is cleared.
LEMMA closeClearStep ==
    ASSUME EventInv, NEW t \in Thread, closeClear(t)
    PROVE  EventInv'
<1> USE DEF EventInv, EventTypeInv
<1>1. /\ closing[t].at = "clear" /\ closing[t] # Idle /\ closing[t].conn \in Conn
      /\ closing[t] \in CloseState
  BY CloseShape DEF closeClear, At
<1>2. PICK c \in Conn : c = closing[t].conn
  BY <1>1
<1>3. PICK next \in CloseState :
          /\ next.at = "unreg" /\ next.conn = c /\ next.fd = closing[t].fd /\ next # Idle
          /\ closing' = [closing EXCEPT ![t] = next]
          /\ m_fd' = [m_fd EXCEPT ![c] = -1]
          /\ UNCHANGED <<kernelVars, infoVars, m_refSocket, posted, io>>
  <2>1. /\ [closing[t] EXCEPT !.at = "unreg"] \in CloseState
        /\ [closing[t] EXCEPT !.at = "unreg"].at = "unreg"
        /\ [closing[t] EXCEPT !.at = "unreg"].conn = c
        /\ [closing[t] EXCEPT !.at = "unreg"].fd = closing[t].fd
    BY <1>1, <1>2 DEF CloseState
  <2>2. \A x : x.at = "unreg" => x # Idle
    BY IdleIs
  <2>3. /\ closing' = [closing EXCEPT ![t] = [closing[t] EXCEPT !.at = "unreg"]]
        /\ m_fd' = [m_fd EXCEPT ![c] = -1]
        /\ UNCHANGED <<kernelVars, infoVars, m_refSocket, posted, io>>
    BY <1>2, Zenon DEF closeClear, Go
  <2> QED BY <2>1, <2>2, <2>3, Zenon
<1>4. /\ closing' \in [Thread -> CloseState] /\ closing'[t] = next
      /\ \A u \in Thread \ {t} : closing'[u] = closing[u]
  BY <1>3 DEF CloseTypeInv
<1>5. /\ m_fd' \in [Conn -> Fd \cup {-1}] /\ m_fd'[c] = -1
      /\ \A d \in Conn \ {c} : m_fd'[d] = m_fd[d]
  BY <1>3 DEF SocketTypeInv
<1>6. KernelTypeInv' /\ InfoTypeInv' /\ SocketTypeInv' /\ IOTypeInv' /\ CloseTypeInv'
  BY <1>3, <1>4, <1>5 DEF KernelTypeInv, InfoTypeInv, SocketTypeInv, IOTypeInv, CloseTypeInv,
                          kernelVars, infoVars
<1>7. EdgesInv' /\ ToCloseInv' /\ RegisteredInv' /\ CallbacksInv'
  BY <1>3 DEF EdgesInv, ToCloseInv, WaitsToClose, Funcs, RegisteredInv, CallbacksInv,
              kernelVars, infoVars
<1>8. BacklogInv' /\ AcceptInv'
  <2>1. /\ \A i \in DOMAIN backlog : backlog[i] \in Conn
        /\ io.at = "callbacks" => \A i \in DOMAIN io.callbacks : io.callbacks[i].conn \in Conn
    BY QueuesShape
  <2> QED BY <1>3, <1>5, <2>1 DEF BacklogInv, AcceptInv, kernelVars, infoVars
<1>9. AloneInv'
  <2>1. ~HandlerCloses => t = "io" /\ closing[t].fd # -1
    BY <1>1, IdleIs DEF AloneInv, At, Thread
  <2> QED BY <1>1, <1>3, <1>4, <2>1 DEF AloneInv, At, Thread
<1>10. PostedInv'
  <2>1. ASSUME NEW d \in Conn PROVE ToldInv(d)'
    <3>1. ToldInv(d) /\ Ends(d)' = Ends(d) /\ posted'[d] = posted[d] /\ m_refSocket'[d] = m_refSocket[d]
      BY <1>3 DEF PostedInv, Ends
    <3>2. m_fd[d] = -1 => m_fd'[d] = -1
      BY <1>5
    <3>3. ASSUME NEW u \in Thread PROVE /\ Speaks(u, d)' => Speaks(u, d)
                                        /\ In(u, {"unreg", "post", "drop"}, d)' =>
                                               In(u, {"unreg", "post", "drop"}, d) \/ m_fd'[d] = -1
                                        /\ In(u, {"drop"}, d)' => In(u, {"drop"}, d)
      BY <1>1, <1>2, <1>3, <1>4, <1>5 DEF Speaks, In
    <3>4. "io" \in Thread /\ "handler" \in Thread
      BY DEF Thread
    <3>5. m_fd'[d] # -1 => m_fd[d] # -1
      BY <3>2
    <3> QED BY <3>1, <3>2, <3>3, <3>4, <3>5 DEF ToldInv
  <2> QED BY <2>1 DEF PostedInv
<1>11. ClosingInv'
  BY <1>1, <1>2, <1>3, <1>4 DEF ClosingInv, Thread, kernelVars
<1> QED BY <1>6, <1>7, <1>8, <1>9, <1>10, <1>11

\* A descriptor is unregistered, and waits from then on.
LEMMA unregfdStep ==
    ASSUME EventInv, NEW t \in Thread, unregfd(t)
    PROVE  EventInv'
<1> USE DEF EventInv, EventTypeInv
<1>1. /\ closing[t].at = "unreg" /\ closing[t] # Idle /\ closing[t].conn \in Conn
      /\ closing[t].fd \in Fd \cup {-1} /\ closing[t] \in CloseState
  BY CloseShape DEF unregfd, At
<1>2. PICK f \in Fd \cup {-1} : f = closing[t].fd
  BY <1>1
<1>3. PICK next \in CloseState :
          /\ next.at = "post" /\ next.conn = closing[t].conn /\ next # Idle
          /\ closing' = [closing EXCEPT ![t] = next]
          /\ UNCHANGED <<kernelVars, socketVars, io>>
  <2>1. /\ [closing[t] EXCEPT !.at = "post"] \in CloseState
        /\ [closing[t] EXCEPT !.at = "post"].at = "post"
        /\ [closing[t] EXCEPT !.at = "post"].conn = closing[t].conn
    BY <1>1 DEF CloseState
  <2>2. \A x : x.at = "post" => x # Idle
    BY IdleIs
  <2> QED BY <2>1, <2>2 DEF unregfd, Go
<1>4. /\ closing' \in [Thread -> CloseState] /\ closing'[t] = next
      /\ \A u \in Thread \ {t} : closing'[u] = closing[u]
  BY <1>3 DEF CloseTypeInv
<1>5. /\ m_allIOinfo \in Table /\ m_allIOinfo' \in Table
      /\ DOMAIN m_allIOinfo' = DOMAIN m_allIOinfo \ {f}
      /\ \A g \in DOMAIN m_allIOinfo \ {f} : m_allIOinfo'[g] = m_allIOinfo[g]
      /\ DOMAIN m_allIOinfo \subseteq Fd
  <2>1. CASE f \in DOMAIN m_allIOinfo
    <3>1. m_allIOinfo' = Without(m_allIOinfo, f)
      BY <1>2, <2>1 DEF unregfd, infoVars
    <3> QED BY <3>1, TableWithout, TableShape DEF InfoTypeInv, Without
  <2>2. CASE f \notin DOMAIN m_allIOinfo
    <3>1. m_allIOinfo' = m_allIOinfo
      BY <1>2, <2>2 DEF unregfd, infoVars
    <3> QED BY <2>2, <3>1, TableShape DEF InfoTypeInv
  <2> QED BY <2>1, <2>2
<1>6. /\ m_listFuncToRun \in Seq(Fd) /\ m_listFuncToRun' \in Seq(Fd)
      /\ \A i \in DOMAIN m_listFuncToRun' :
             IF i \in DOMAIN m_listFuncToRun THEN m_listFuncToRun'[i] = m_listFuncToRun[i]
             ELSE /\ f \in DOMAIN m_allIOinfo /\ m_listFuncToRun'[i] = f
                  /\ i = Len(m_listFuncToRun) + 1
  <2>1. CASE f \in DOMAIN m_allIOinfo
    <3>1. m_listFuncToRun' = Append(m_listFuncToRun, f)
      BY <1>2, <2>1 DEF unregfd, infoVars
    <3> QED BY <1>5, <2>1, <3>1 DEF InfoTypeInv
  <2>2. CASE f \notin DOMAIN m_allIOinfo
    BY <1>2, <2>2 DEF unregfd, infoVars, InfoTypeInv
  <2> QED BY <2>1, <2>2
<1>7. KernelTypeInv' /\ InfoTypeInv' /\ SocketTypeInv' /\ IOTypeInv' /\ CloseTypeInv'
  BY <1>3, <1>4, <1>5, <1>6 DEF KernelTypeInv, InfoTypeInv, SocketTypeInv, IOTypeInv,
                          CloseTypeInv, kernelVars, socketVars
<1>8. BacklogInv' /\ EdgesInv' /\ AcceptInv' /\ CallbacksInv'
  BY <1>3, <1>5 DEF BacklogInv, EdgesInv, AcceptInv, CallbacksInv, kernelVars, socketVars
<1>10. RegisteredInv'
  BY <1>3, <1>5 DEF RegisteredInv, kernelVars
<1>11. AloneInv'
  <2>1. ~HandlerCloses => t = "io"
    BY <1>1, IdleIs DEF AloneInv, Thread
  <2> QED BY <1>1, <1>3, <1>4, <2>1 DEF AloneInv, At, Thread
<1>12. PostedInv'
  <2>1. m_fd[closing[t].conn] = -1
    BY <1>1 DEF In, PostedInv, ToldInv
  <2>2. \A c \in Conn : next.conn = c => Speaks(t, c)
    BY <1>1, <1>3 DEF Speaks, In
  <2>3. UNCHANGED socketVars /\ next.at = "post" /\ next.conn = closing[t].conn
    BY <1>3
  <2> QED BY <1>3, <2>1, <2>2, <2>3, GoKeeps
<1>13. ToCloseInv'
  <2> DEFINE waits(g) == /\ g \in DOMAIN kernel' /\ g \notin DOMAIN m_allIOinfo'
                         /\ io'.at = "callbacks" => \A i \in DOMAIN io'.callbacks :
                                io'.callbacks[i].type = "ACCEPT" => io'.callbacks[i].fd # g
  <2>1. \A g : g # f /\ WaitsToClose(g) => waits(g)
    BY <1>3, <1>5 DEF WaitsToClose, kernelVars
  <2>2. f \in DOMAIN m_allIOinfo => waits(f)
    BY <1>3, <1>5 DEF WaitsToClose, RegisteredInv, AcceptInv, kernelVars
  <2>3. /\ \A i \in DOMAIN m_listFuncToRun :
               WaitsToClose(m_listFuncToRun[i]) /\ (f \in DOMAIN m_allIOinfo => m_listFuncToRun[i] # f)
        /\ \A i \in DOMAIN Funcs :
               WaitsToClose(Funcs[i]) /\ (f \in DOMAIN m_allIOinfo => Funcs[i] # f)
    BY DEF ToCloseInv, WaitsToClose
  <2>4. Funcs' = Funcs
    BY <1>3 DEF Funcs
  <2>5. f \notin DOMAIN m_allIOinfo => \A g : WaitsToClose(g) => waits(g)
    BY <1>3, <1>5 DEF WaitsToClose, kernelVars
  <2>6. /\ \A i \in DOMAIN m_listFuncToRun' : waits(m_listFuncToRun'[i])
        /\ \A i \in DOMAIN Funcs' : waits(Funcs'[i])
    <3> HIDE DEF waits
    <3> QED BY <1>6, <2>1, <2>2, <2>3, <2>4, <2>5
  <2>7. /\ \A i, j \in DOMAIN m_listFuncToRun' : i # j => m_listFuncToRun'[i] # m_listFuncToRun'[j]
        /\ \A i \in DOMAIN m_listFuncToRun', j \in DOMAIN Funcs' : m_listFuncToRun'[i] # Funcs'[j]
    BY <1>6, <2>3, <2>4 DEF ToCloseInv
  <2> QED BY <2>4, <2>6, <2>7 DEF ToCloseInv, WaitsToClose
<1>14. ClosingInv'
  BY <1>1, <1>3, <1>4 DEF ClosingInv, Thread, kernelVars, socketVars
<1> QED BY <1>7, <1>8, <1>10, <1>11, <1>12, <1>13, <1>14

-----------------------------------------------------------------------------
(* A connection is accepted, and collected events become callbacks. *)

\* The socket of an accepted connection opens: its descriptor is registered.
LEMMA handleAcceptStep ==
    ASSUME EventInv, handleAccept
    PROVE  EventInv'
<1> USE DEF EventInv, EventTypeInv
<1>1. /\ io.at = "callbacks" /\ io.callbacks # <<>> /\ closing["io"] = Idle
      /\ Head(io.callbacks).type = "ACCEPT"
      /\ io' = [io EXCEPT !.callbacks = Tail(@)]
      /\ UNCHANGED <<stream, backlog, kernel, m_listFuncToRun, posted, closing>>
  BY DEF handleAccept, Callback, CallbackDone
<1>2. io \in CallbackState /\ io.callbacks \in Seq(Callbacks)
  BY <1>1, IoShape
<1>3. /\ io' \in CallbackState /\ io'.at = "callbacks" /\ io'.callbacks = Tail(io.callbacks)
      /\ io'.funcs = io.funcs
  BY <1>1, <1>2, CallbackShape, Zenon
<1>4. 1 \in DOMAIN io.callbacks /\ Head(io.callbacks) = io.callbacks[1]
  BY <1>1, <1>2
<1>5. PICK c \in Conn, f \in Fd : c = Head(io.callbacks).conn /\ f = Head(io.callbacks).fd
  BY <1>1, <1>4, QueuesShape
<1>6. \A i \in DOMAIN Tail(io.callbacks) : Tail(io.callbacks)[i].type # "ACCEPT"
  <2>1. \A i \in DOMAIN Tail(io.callbacks) :
            i + 1 \in DOMAIN io.callbacks /\ i + 1 # 1 /\ Tail(io.callbacks)[i] = io.callbacks[i + 1]
    BY <1>1, <1>2
  <2> QED BY <1>1, <2>1 DEF AcceptInv
<1>7. /\ f \in DOMAIN kernel /\ kernel[f] = c /\ f \notin DOMAIN m_allIOinfo
      /\ posted[c] = <<>> /\ m_fd[c] = -1
  BY <1>1, <1>4, <1>5 DEF AcceptInv
<1>8. /\ m_fd' = [m_fd EXCEPT ![c] = f]
      /\ m_refSocket' = [m_refSocket EXCEPT ![c] = TRUE]
      /\ m_allIOinfo' = With(m_allIOinfo, f, c)
      /\ edge' = edge \cup {f}
  BY <1>5, Zenon DEF handleAccept
<1>9. /\ m_fd' \in [Conn -> Fd \cup {-1}] /\ m_fd'[c] = f
      /\ \A d \in Conn \ {c} : m_fd'[d] = m_fd[d]
      /\ m_refSocket' \in [Conn -> BOOLEAN]
      /\ \A d \in Conn \ {c} : m_refSocket'[d] = m_refSocket[d]
  BY <1>8 DEF SocketTypeInv
<1>10. /\ m_allIOinfo' \in Table /\ DOMAIN m_allIOinfo' = DOMAIN m_allIOinfo \cup {f}
       /\ m_allIOinfo'[f] = c /\ \A g \in DOMAIN m_allIOinfo : m_allIOinfo'[g] = m_allIOinfo[g]
  <2>1. m_allIOinfo \in Table
    BY DEF InfoTypeInv
  <2>2. /\ m_allIOinfo' \in Table /\ DOMAIN m_allIOinfo' = DOMAIN m_allIOinfo \cup {f}
        /\ m_allIOinfo'[f] = c
        /\ \A g \in DOMAIN m_allIOinfo \ {f} : m_allIOinfo'[g] = m_allIOinfo[g]
    BY <1>8, <2>1, TableWith DEF With
  <2> QED BY <1>7, <2>2
<1>11. Funcs' = Funcs
  BY <1>1, <1>3 DEF Funcs
<1>12. KernelTypeInv' /\ InfoTypeInv' /\ SocketTypeInv' /\ IOTypeInv' /\ CloseTypeInv'
  BY <1>1, <1>3, <1>8, <1>9, <1>10 DEF KernelTypeInv, InfoTypeInv, SocketTypeInv, IOTypeInv,
                                       CloseTypeInv
<1>13. AloneInv' /\ EdgesInv'
  BY <1>1, <1>7, <1>8, IdleIs DEF AloneInv, At, EdgesInv
<1>14. BacklogInv'
  <2>1. \A i \in DOMAIN backlog : backlog[i] \in Conn /\ backlog[i] # c
    BY <1>7, QueuesShape DEF BacklogInv
  <2> QED BY <1>1, <1>9, <2>1 DEF BacklogInv
<1>15. AcceptInv'
  BY <1>3, <1>6 DEF AcceptInv
<1>16. RegisteredInv'
  BY <1>1, <1>7, <1>10 DEF RegisteredInv
<1>17. CallbacksInv'
  <2>1. \A i \in DOMAIN Tail(io.callbacks) :
            i + 1 \in DOMAIN io.callbacks /\ Tail(io.callbacks)[i] = io.callbacks[i + 1]
    BY <1>1, <1>2
  <2> QED BY <1>1, <1>3, <2>1 DEF CallbacksInv
<1>18. ToCloseInv'
  <2>1. \A g : WaitsToClose(g) => g # f
    BY <1>1, <1>4, <1>5 DEF WaitsToClose
  <2> QED BY <1>1, <1>3, <1>6, <1>10, <1>11, <2>1 DEF ToCloseInv, WaitsToClose
<1>19. ClosingInv'
  BY <1>1 DEF ClosingInv
<1>20. PostedInv'
  <2>1. \A t \in Thread : closing[t] # Idle => closing[t].conn # c
    BY <1>1, <1>4, <1>5, ClosedIsKnown
  <2>2. ASSUME NEW d \in Conn PROVE ToldInv(d)'
    <3>1. /\ ToldInv(d) /\ Ends(d)' = Ends(d) /\ posted'[d] = posted[d]
          /\ \A t \in Thread : /\ Speaks(t, d)' <=> Speaks(t, d)
                               /\ \A places : In(t, places, d)' <=> In(t, places, d)
      BY <1>1 DEF PostedInv, Ends, Speaks, In
    <3>2. CASE d # c
      BY <1>9, <3>1, <3>2 DEF ToldInv, Thread
    <3>3. CASE d = c
      <4>1. Ends(c) = {} /\ m_refSocket'[c] /\ DOMAIN posted[c] = {}
        BY <1>7, <1>8 DEF Ends, SocketTypeInv
      <4>2. \A t \in Thread : /\ ~Speaks(t, c) /\ ~In(t, {"unreg", "post", "drop"}, c)
                              /\ ~In(t, {"drop"}, c)
        BY <2>1, IdleIs DEF Speaks, In
      <4> QED BY <3>1, <3>3, <4>1, <4>2 DEF ToldInv
    <3> QED BY <3>2, <3>3
  <2> QED BY <2>2 DEF PostedInv
<1> QED BY <1>12, <1>13, <1>14, <1>15, <1>16, <1>17, <1>18, <1>19, <1>20

\* The connections whose sockets are registered, and callbacks for them.
Registered == {m_allIOinfo[f] : f \in DOMAIN m_allIOinfo}
SocketCallbacks == [type : {"RECV", "BROKEN"}, conn : Registered, fd : Fd]

\* The callbacks of an event are of the socket registered with its descriptor.
LEMMA CallbacksOfType ==
    ASSUME EventInv, NEW f \in DOMAIN io.events, NEW unsent
    PROVE  callbacksOf(f, unsent) \in Seq(SocketCallbacks)
<1>1. CASE f \notin DOMAIN m_allIOinfo
  BY <1>1 DEF callbacksOf
<1>2. CASE f \in DOMAIN m_allIOinfo
  <2> DEFINE cb(type) == [type |-> type, conn |-> m_allIOinfo[f], fd |-> f]
             first == IF ~io.events[f].in THEN <<>>
                      ELSE IF readAll(stream[m_allIOinfo[f]]) THEN <<cb("RECV")>> ELSE <<cb("BROKEN")>>
             second == IF f \in unsent /\ stream[m_allIOinfo[f]].rst THEN <<cb("BROKEN")>> ELSE <<>>
             third == IF io.events[f].err THEN <<cb("BROKEN")>> ELSE <<>>
  <2>1. f \in Fd /\ m_allIOinfo[f] \in Registered
    BY <1>2, TableShape DEF EventInv, EventTypeInv, InfoTypeInv, Registered
  <2>2. cb("RECV") \in SocketCallbacks /\ cb("BROKEN") \in SocketCallbacks
    BY <2>1 DEF SocketCallbacks
  <2>3. callbacksOf(f, unsent) = (first \o second) \o third
    BY <1>2 DEF callbacksOf
  <2> HIDE DEF cb
  <2>4. first \in Seq(SocketCallbacks) /\ second \in Seq(SocketCallbacks) /\ third \in Seq(SocketCallbacks)
    BY <2>2
  <2> HIDE DEF first, second, third
  <2> QED BY <2>3, <2>4
<1> QED BY <1>1, <1>2

\* What collect leaves to run, whatever it met: callbacks of sockets, perhaps behind
\* the one of a connection that was accepted; the streams are read.
LEMMA CollectDoes ==
    ASSUME EventInv, collect
    PROVE  /\ io.at = "collect" /\ m_listFuncToRun' = <<>>
           /\ UNCHANGED <<edge, m_allIOinfo, socketVars, closing>>
           /\ stream' \in [Conn -> Stream] /\ \A c \in Conn : StreamOK(stream'[c])
           /\ \E callbacks \in Seq(SocketCallbacks) :
                \/ /\ backlog # <<>> /\ backlog' = Tail(backlog)
                   /\ \E f \in Fd \ DOMAIN kernel :
                         /\ kernel' = With(kernel, f, Head(backlog))
                         /\ io' = [at |-> "callbacks", funcs |-> m_listFuncToRun,
                                   callbacks |-> <<[type |-> "ACCEPT", conn |-> Head(backlog), fd |-> f]>>
                                                     \o callbacks]
                \/ /\ io' = [at |-> "callbacks", funcs |-> m_listFuncToRun, callbacks |-> callbacks]
                   /\ UNCHANGED <<kernel, backlog>>
<1> DEFINE fds == DOMAIN io.events
           read == {m_allIOinfo[f] : f \in {x \in DOMAIN io.events \cap DOMAIN m_allIOinfo :
                                                 io.events[x].in}}
           perEvent(order, unsent) == [i \in DOMAIN order |-> callbacksOf(order[i], unsent)]
<1>1. /\ io.at = "collect" /\ m_listFuncToRun' = <<>>
      /\ UNCHANGED <<edge, m_allIOinfo, socketVars, closing>>
  BY DEF collect
<1>2. fds \in SUBSET Fd
  <2>1. io \in CollectState
    BY <1>1, IoShape DEF EventInv, EventTypeInv
  <2>2. io.events \in Reports
    BY <2>1 DEF CollectState
  <2> QED BY <2>2 DEF Reports
<1>3. Cardinality(fds) \in Nat
  BY <1>2, FS_Subset, FS_CardinalityType
<1>4. ASSUME NEW order \in SetToSeqs(fds), NEW unsent
      PROVE  FlattenSeq(perEvent(order, unsent)) \in Seq(SocketCallbacks)
  <2>1. DOMAIN order = 1..Cardinality(fds) /\ \A i \in DOMAIN order : order[i] \in fds
    BY DEF SetToSeqs
  <2>2. \A i \in DOMAIN order : callbacksOf(order[i], unsent) \in Seq(SocketCallbacks)
    BY <2>1, CallbacksOfType
  <2>3. perEvent(order, unsent) \in [1..Cardinality(fds) -> Seq(SocketCallbacks)]
    BY <2>1, <2>2
  <2>4. perEvent(order, unsent) \in Seq(Seq(SocketCallbacks))
    <3> HIDE DEF perEvent, fds
    <3> QED BY <1>3, <2>3
  <2> HIDE DEF perEvent
  <2> QED BY <2>4, FlattenType
<1>5. /\ stream' = [c \in Conn |-> IF c \in read THEN [stream[c] EXCEPT !.unread = 0] ELSE stream[c]]
      /\ \E order \in SetToSeqs(fds), unsent \in SUBSET fds :
           \/ /\ backlog # <<>> /\ backlog' = Tail(backlog)
              /\ \E f \in Fd \ DOMAIN kernel :
                    /\ kernel' = With(kernel, f, Head(backlog))
                    /\ io' = [at |-> "callbacks", funcs |-> m_listFuncToRun,
                              callbacks |-> <<[type |-> "ACCEPT", conn |-> Head(backlog), fd |-> f]>>
                                                \o FlattenSeq(perEvent(order, unsent))]
           \/ /\ io' = [at |-> "callbacks", funcs |-> m_listFuncToRun,
                        callbacks |-> FlattenSeq(perEvent(order, unsent))]
              /\ UNCHANGED <<kernel, backlog>>
  BY Zenon DEF collect
<1>6. stream' \in [Conn -> Stream] /\ \A c \in Conn : StreamOK(stream'[c])
  <2>1. ASSUME NEW c \in Conn PROVE StreamOK(stream'[c])
    <3>1. StreamOK(stream[c])
      BY DEF EventInv, EventTypeInv, KernelTypeInv
    <3>2. StreamOK([stream[c] EXCEPT !.unread = 0])
      BY <3>1, StreamRead
    <3>3. stream'[c] = [stream[c] EXCEPT !.unread = 0] \/ stream'[c] = stream[c]
      <4> HIDE DEF read
      <4> QED BY <1>5
    <3> QED BY <3>1, <3>2, <3>3, Zenon
  <2>2. \A c \in Conn : stream'[c] \in Stream
    BY <2>1 DEF StreamOK
  <2>3. stream' = [c \in Conn |-> stream'[c]]
    <3> HIDE DEF read
    <3> QED BY <1>5
  <2> QED BY <2>1, <2>2, <2>3
<1>7. \E callbacks \in Seq(SocketCallbacks) :
                \/ /\ backlog # <<>> /\ backlog' = Tail(backlog)
                   /\ \E f \in Fd \ DOMAIN kernel :
                         /\ kernel' = With(kernel, f, Head(backlog))
                         /\ io' = [at |-> "callbacks", funcs |-> m_listFuncToRun,
                                   callbacks |-> <<[type |-> "ACCEPT", conn |-> Head(backlog), fd |-> f]>>
                                                     \o callbacks]
                \/ /\ io' = [at |-> "callbacks", funcs |-> m_listFuncToRun, callbacks |-> callbacks]
                   /\ UNCHANGED <<kernel, backlog>>
  <2> HIDE DEF perEvent, fds
  <2> QED BY <1>4, <1>5, Zenon
<1> QED BY <1>1, <1>6, <1>7, Zenon

\* A round's callbacks are collected, and perhaps a connection is accepted.
LEMMA collectStep ==
    ASSUME EventInv, collect
    PROVE  EventInv'
<1> USE DEF EventInv, EventTypeInv
<1>1. /\ io.at = "collect" /\ m_listFuncToRun' = <<>>
      /\ UNCHANGED <<edge, m_allIOinfo, socketVars, closing>>
      /\ stream' \in [Conn -> Stream] /\ \A c \in Conn : StreamOK(stream'[c])
  BY CollectDoes
<1>2. closing["io"] = Idle /\ Funcs = <<>> /\ m_listFuncToRun \in Seq(Fd)
  BY <1>1 DEF ClosingInv, Funcs, InfoTypeInv
<1>3. /\ \A cb \in SocketCallbacks : cb.type # "ACCEPT" /\ cb.conn \in Registered
      /\ SocketCallbacks \subseteq Callbacks
  <2>1. Registered \subseteq Conn
    BY TableShape DEF InfoTypeInv, Registered
  <2> QED BY <2>1 DEF SocketCallbacks, Callbacks
<1>4. SocketTypeInv' /\ CloseTypeInv' /\ AloneInv'
  BY <1>1, <1>2, IdleIs DEF SocketTypeInv, CloseTypeInv, AloneInv, At, socketVars
<1>5. InfoTypeInv' /\ PostedInv'
  BY <1>1, PostedFrame DEF InfoTypeInv, socketVars
<1>6. ASSUME NEW cbs \in Seq(Callbacks),
             io' = [at |-> "callbacks", funcs |-> m_listFuncToRun, callbacks |-> cbs]
      PROVE  /\ IOTypeInv' /\ io'.at = "callbacks" /\ io'.callbacks = cbs
             /\ Funcs' = m_listFuncToRun /\ ClosingInv'
  <2>1. io' \in CallbackState
    BY <1>2, <1>6 DEF CallbackState
  <2>2. io'.at = "callbacks" /\ io'.callbacks = cbs /\ io'.funcs = m_listFuncToRun
    BY <1>6
  <2> QED BY <1>1, <1>2, <2>1, <2>2 DEF IOTypeInv, Funcs, ClosingInv, socketVars
<1>7. PICK callbacks \in Seq(SocketCallbacks) :
          \/ /\ backlog # <<>> /\ backlog' = Tail(backlog)
             /\ \E f \in Fd \ DOMAIN kernel :
                   /\ kernel' = With(kernel, f, Head(backlog))
                   /\ io' = [at |-> "callbacks", funcs |-> m_listFuncToRun,
                             callbacks |-> <<[type |-> "ACCEPT", conn |-> Head(backlog), fd |-> f]>>
                                               \o callbacks]
          \/ /\ io' = [at |-> "callbacks", funcs |-> m_listFuncToRun, callbacks |-> callbacks]
             /\ UNCHANGED <<kernel, backlog>>
  BY CollectDoes, Zenon
<1>8. /\ callbacks \in Seq(Callbacks) /\ \A i \in DOMAIN callbacks : callbacks[i].type # "ACCEPT"
      /\ \A i \in DOMAIN callbacks : \E f \in DOMAIN kernel : kernel[f] = callbacks[i].conn
  <2>1. \A c \in Registered : \E f \in DOMAIN kernel : kernel[f] = c
    BY DEF Registered, RegisteredInv
  <2>2. \A i \in DOMAIN callbacks : callbacks[i].type # "ACCEPT" /\ callbacks[i].conn \in Registered
    BY <1>3
  <2> QED BY <1>3, <2>1, <2>2
<1>9. CASE /\ io' = [at |-> "callbacks", funcs |-> m_listFuncToRun, callbacks |-> callbacks]
           /\ UNCHANGED <<kernel, backlog>>
  <2>1. /\ IOTypeInv' /\ io'.at = "callbacks" /\ io'.callbacks = callbacks
        /\ Funcs' = m_listFuncToRun /\ ClosingInv'
    BY <1>6, <1>8, <1>9
  <2>2. KernelTypeInv'
    BY <1>1, <1>9 DEF KernelTypeInv
  <2>3. BacklogInv' /\ EdgesInv' /\ AcceptInv' /\ RegisteredInv'
    BY <1>1, <1>8, <1>9, <2>1 DEF BacklogInv, EdgesInv, AcceptInv, RegisteredInv, socketVars
  <2>4. ToCloseInv'
    BY <1>1, <1>8, <1>9, <2>1 DEF ToCloseInv, WaitsToClose
  <2>5. CallbacksInv'
    BY <1>8, <1>9, <2>1 DEF CallbacksInv
  <2> QED BY <1>4, <1>5, <2>1, <2>2, <2>3, <2>4, <2>5
<1>10. CASE /\ backlog # <<>> /\ backlog' = Tail(backlog)
            /\ \E f \in Fd \ DOMAIN kernel :
                  /\ kernel' = With(kernel, f, Head(backlog))
                  /\ io' = [at |-> "callbacks", funcs |-> m_listFuncToRun,
                            callbacks |-> <<[type |-> "ACCEPT", conn |-> Head(backlog), fd |-> f]>>
                                              \o callbacks]
  <2>1. /\ backlog \in Seq(Conn) /\ 1 \in DOMAIN backlog /\ Head(backlog) = backlog[1]
        /\ backlog[1] \in Conn /\ backlog' \in Seq(Conn)
        /\ \A i \in DOMAIN backlog' : /\ i + 1 \in DOMAIN backlog /\ i + 1 # 1
                                      /\ backlog'[i] = backlog[i + 1]
        /\ \A i, j \in DOMAIN backlog' : i # j => i + 1 # j + 1
    BY <1>10 DEF KernelTypeInv
  <2>2. PICK c \in Conn : c = backlog[1]
    BY <2>1
  <2>3. PICK f \in Fd \ DOMAIN kernel :
            /\ kernel' = With(kernel, f, c)
            /\ io' = [at |-> "callbacks", funcs |-> m_listFuncToRun,
                      callbacks |-> <<[type |-> "ACCEPT", conn |-> c, fd |-> f]>> \o callbacks]
    BY <1>10, <2>1, <2>2, Zenon
  <2>4. PICK accepted \in Callbacks : /\ accepted = [type |-> "ACCEPT", conn |-> c, fd |-> f]
                                     /\ accepted.type = "ACCEPT" /\ accepted.conn = c /\ accepted.fd = f
    <3>1. [type |-> "ACCEPT", conn |-> c, fd |-> f] \in Callbacks
      BY DEF Callbacks
    <3> QED BY <3>1
  <2>5. PICK cbs \in Seq(Callbacks) :
            /\ cbs = <<accepted>> \o callbacks
            /\ \A i \in DOMAIN cbs : \/ i = 1 /\ cbs[i] = accepted
                                     \/ /\ cbs[i].type # "ACCEPT"
                                        /\ \E g \in DOMAIN kernel : kernel[g] = cbs[i].conn
    <3>1. <<accepted>> \o callbacks \in Seq(Callbacks)
      BY <1>8
    <3>2. ASSUME NEW i \in DOMAIN (<<accepted>> \o callbacks), i # 1
          PROVE  /\ (<<accepted>> \o callbacks)[i].type # "ACCEPT"
                 /\ \E g \in DOMAIN kernel : kernel[g] = (<<accepted>> \o callbacks)[i].conn
      <4>1. i - 1 \in DOMAIN callbacks /\ (<<accepted>> \o callbacks)[i] = callbacks[i - 1]
        BY <1>8, <3>2
      <4> QED BY <1>8, <4>1
    <3>3. (<<accepted>> \o callbacks)[1] = accepted
      BY <1>8
    <3> QED BY <3>1, <3>2, <3>3
  <2>6. io' = [at |-> "callbacks", funcs |-> m_listFuncToRun, callbacks |-> cbs]
    BY <2>3, <2>4, <2>5, Zenon
  <2>7. /\ IOTypeInv' /\ io'.at = "callbacks" /\ io'.callbacks = cbs
        /\ Funcs' = m_listFuncToRun /\ ClosingInv'
    BY <1>6, <2>6
  <2>8. /\ kernel' \in Table /\ DOMAIN kernel' = DOMAIN kernel \cup {f} /\ kernel'[f] = c
        /\ \A g \in DOMAIN kernel : g # f /\ kernel'[g] = kernel[g]
    <3>1. kernel \in Table /\ f \in Fd
      BY DEF KernelTypeInv
    <3>2. /\ kernel' \in Table /\ DOMAIN kernel' = DOMAIN kernel \cup {f} /\ kernel'[f] = c
          /\ \A g \in DOMAIN kernel \ {f} : kernel'[g] = kernel[g]
      BY <2>3, <3>1, TableWith DEF With
    <3> QED BY <3>2
  <2>9. /\ posted[c] = <<>> /\ m_fd[c] = -1
        /\ \A g \in DOMAIN kernel : kernel[g] # c
        /\ f \notin DOMAIN m_allIOinfo
    BY <2>1, <2>2 DEF BacklogInv, RegisteredInv
  <2>10. KernelTypeInv'
    BY <1>1, <2>1, <2>8 DEF KernelTypeInv
  <2>11. BacklogInv'
    <3>1. \A i \in DOMAIN backlog' : backlog'[i] # c
      BY <2>1, <2>2 DEF BacklogInv
    <3>2. \A i, j \in DOMAIN backlog' : i # j => backlog'[i] # backlog'[j]
      BY <2>1 DEF BacklogInv
    <3>3. \A i \in DOMAIN backlog' : /\ posted[backlog'[i]] = <<>> /\ m_fd[backlog'[i]] = -1
                                     /\ \A g \in DOMAIN kernel : kernel[g] # backlog'[i]
      BY <2>1 DEF BacklogInv
    <3> QED BY <1>1, <2>8, <3>1, <3>2, <3>3 DEF BacklogInv, socketVars
  <2>12. EdgesInv' /\ RegisteredInv'
    BY <1>1, <2>8, <2>9 DEF EdgesInv, RegisteredInv, socketVars
  <2>13. AcceptInv'
    BY <1>1, <2>4, <2>5, <2>7, <2>8, <2>9 DEF AcceptInv, socketVars
  <2>14. ToCloseInv'
    BY <1>1, <2>4, <2>5, <2>7, <2>8 DEF ToCloseInv, WaitsToClose
  <2>15. CallbacksInv'
    BY <2>4, <2>5, <2>7, <2>8 DEF CallbacksInv
  <2> QED BY <1>4, <1>5, <2>7, <2>10, <2>11, <2>12, <2>13, <2>14, <2>15
<1> QED BY <1>7, <1>9, <1>10

-----------------------------------------------------------------------------
(* The specification. *)

\* Every step keeps the invariant.
LEMMA EventStepInv ==
    ASSUME EventInv, [EventNext]_ioVars
    PROVE  EventInv'
<1>1. CASE UNCHANGED ioVars
  <2> USE <1>1 DEF ioVars, kernelVars, infoVars, socketVars
  <2>1. EventTypeInv'
    BY DEF EventInv, EventTypeInv, KernelTypeInv, InfoTypeInv, SocketTypeInv, IOTypeInv, CloseTypeInv
  <2>2. AloneInv' /\ BacklogInv' /\ EdgesInv' /\ AcceptInv' /\ RegisteredInv'
    BY DEF EventInv, AloneInv, At, BacklogInv, EdgesInv, AcceptInv, RegisteredInv
  <2>3. ToCloseInv' /\ CallbacksInv' /\ ClosingInv' /\ PostedInv'
    BY PostedFrame DEF EventInv, ToCloseInv, WaitsToClose, Funcs, CallbacksInv, ClosingInv
  <2> QED BY <2>1, <2>2, <2>3 DEF EventInv
<1>2. CASE PeerSteps
  BY <1>2, ArriveStep, PeerActsStep, Zenon DEF PeerSteps
<1>3. ASSUME NEW t \in Thread, CloseSteps(t) PROVE EventInv'
  BY <1>3, closeTestStep, closeReadStep, closeClearStep, unregfdStep, closePostStep, closeDropStep, Zenon DEF CloseSteps
<1>4. CASE IOSteps
  <2>1. "io" \in Thread
    BY DEF Thread
  <2> QED BY <1>3, <1>4, <2>1, epoll_waitStep, collectStep, handleAcceptStep, handleEventStep,
             handleRecvStep, safeClosefdStep, roundDoneStep, Zenon DEF IOSteps
<1>5. CASE CloseSteps("handler")
  BY <1>3, <1>5 DEF Thread
<1>6. CASE \E c \in Conn : handlerCloses(c)
  BY <1>6, handlerClosesStep
<1> QED BY <1>1, <1>2, <1>4, <1>5, <1>6, Zenon DEF EventNext

\* The invariant gives what the run checks.
LEMMA EventInvMeans == EventInv => SocketsAreServed
<1> SUFFICES ASSUME EventInv PROVE SocketsAreServed
  OBVIOUS
<1> USE DEF EventInv, EventTypeInv
<1>1. EventTypeOK
  <2>1. stream \in [Conn -> [sent : 0..MaxData, unread : 0..MaxData, fin : BOOLEAN, rst : BOOLEAN]]
    <3>1. ASSUME NEW c \in Conn
          PROVE  stream[c] \in [sent : 0..MaxData, unread : 0..MaxData, fin : BOOLEAN, rst : BOOLEAN]
      <4>1. stream[c] \in Stream /\ stream[c].sent <= MaxData /\ stream[c].unread <= stream[c].sent
        BY DEF KernelTypeInv, StreamOK
      <4>2. stream[c].sent \in Nat /\ stream[c].unread \in Nat
        BY <4>1 DEF Stream
      <4>3. stream[c].sent \in 0..MaxData /\ stream[c].unread \in 0..MaxData
        BY <4>1, <4>2
      <4> QED BY <4>1, <4>3 DEF Stream
    <3> QED BY <3>1 DEF KernelTypeInv
  <2>2. /\ Range(backlog) \subseteq Conn
        /\ DOMAIN kernel \subseteq Fd /\ Range(kernel) \subseteq Conn
        /\ edge \subseteq Fd \cup {Listening}
    BY TableShape DEF KernelTypeInv, Range
  <2>3. /\ DOMAIN m_allIOinfo \subseteq Fd /\ Range(m_allIOinfo) \subseteq Conn
        /\ Range(m_listFuncToRun) \subseteq Fd
    BY TableShape DEF InfoTypeInv, Range
  <2>4. /\ m_fd \in [Conn -> Fd \cup {-1}]
        /\ m_refSocket \in [Conn -> BOOLEAN]
        /\ \A c \in Conn : Range(posted[c]) \subseteq [type : {"RECV", "BROKEN"}, sock : BOOLEAN]
    <3>1. ASSUME NEW c \in Conn
          PROVE  Range(posted[c]) \subseteq [type : {"RECV", "BROKEN"}, sock : BOOLEAN]
      <4>1. posted[c] \in Seq(Event)
        BY DEF SocketTypeInv
      <4>2. Range(posted[c]) \subseteq Event
        BY <4>1 DEF Range
      <4> QED BY <4>2 DEF Event
    <3> QED BY <3>1 DEF SocketTypeInv
  <2>5. /\ io.at \in {"wait", "collect", "callbacks"}
        /\ \A t \in Thread : closing[t].at \in ClosePlaces
    BY IoShape, CloseShape
  <2>6. ~HandlerCloses => (At("io", "unreg") => closing["io"].fd \in Fd)
    BY CloseShape DEF AloneInv, At, Thread
  <2> QED BY <2>1, <2>2, <2>3, <2>4, <2>5, <2>6 DEF EventTypeOK
<1>2. DescriptorsAreCurrent
  <2>1. ToClose = m_listFuncToRun \o Funcs
    BY DEF ToClose, Funcs
  <2>2. m_listFuncToRun \in Seq(Fd) /\ Funcs \in Seq(Fd)
    BY IoShape DEF InfoTypeInv, Funcs
  <2>3. ASSUME NEW i \in DOMAIN ToClose
        PROVE  \/ i \in DOMAIN m_listFuncToRun /\ ToClose[i] = m_listFuncToRun[i]
               \/ /\ i - Len(m_listFuncToRun) \in DOMAIN Funcs
                  /\ ToClose[i] = Funcs[i - Len(m_listFuncToRun)]
    BY <2>1, <2>2
  <2>4. \A i \in DOMAIN ToClose : WaitsToClose(ToClose[i])
    BY <2>3 DEF ToCloseInv
  <2>5. ASSUME NEW i \in DOMAIN ToClose, NEW j \in DOMAIN ToClose, i # j
        PROVE  ToClose[i] # ToClose[j]
    <3>1. i \in Int /\ j \in Int /\ i - Len(m_listFuncToRun) # j - Len(m_listFuncToRun)
      BY <2>1, <2>2, <2>5
    <3> QED BY <2>3, <2>5, <3>1 DEF ToCloseInv
  <2> QED BY <2>4, <2>5 DEF DescriptorsAreCurrent, RegisteredInv, WaitsToClose, Range
<1>3. BrokenEndsIt
  BY DEF BrokenEndsIt, PostedInv, ToldInv
<1> QED BY <1>1, <1>2, <1>3 DEF SocketsAreServed

\* Descriptors, registrations and what protocols are told agree: a descriptor is
\* registered for the connection it denotes, waits to be closed once and unregistered,
\* and a protocol has its socket up to the first BROKEN, after which at most the other
\* thread tells it one thing more (nothing, where the IO thread alone closes), for any
\* number of connections, descriptors and units of data, however the rounds of the IO
\* thread and the closes of another thread meet.
THEOREM EventSafety == EventSpec => []SocketsAreServed
<1>1. EventInit => EventInv
  BY EventInitInv
<1>2. EventInv /\ [EventNext]_ioVars => EventInv'
  BY EventStepInv
<1>3. EventInv => SocketsAreServed
  BY EventInvMeans
<1> QED BY <1>1, <1>2, <1>3, PTL DEF EventSpec

-----------------------------------------------------------------------------
(* What is sent. *)

HIDE IOEventAssumption

\* What of a message is kept.
Rests == [msg : Nat, left : Nat]

\* The units of message m among those in w.
CountIn(w, m) == Cardinality({i \in DOMAIN w : w[i] = m})

\* The sizes sz, the units w and the rests b are about the same messages.
StreamTypes(sz, w) == /\ sz \in Seq(1..MaxSize)
                      /\ w \in Seq(Nat) /\ \A i \in 1..Len(w) : w[i] \in 1..Len(sz)
RestTypes(sz, b) == /\ b \in Seq(Rests)
                    /\ \A j \in 1..Len(b) : b[j].msg \in 1..Len(sz) /\ b[j].left \in 1..sz[b[j].msg]

\* The units are in the order of their messages.
InOrder(w) == \A i, j \in 1..Len(w) : i <= j => w[i] <= w[j]

\* The rests are in that order too, behind all units; a rest and the units before it make
\* up its message; and the other messages, of which there are units, are complete.
Frames(sz, w, b) ==
    /\ StreamTypes(sz, w) /\ RestTypes(sz, b) /\ InOrder(w)
    /\ \A i, j \in 1..Len(b) : i < j => b[i].msg < b[j].msg
    /\ \A i \in 1..Len(w), j \in 1..Len(b) : w[i] <= b[j].msg
    /\ \A j \in 1..Len(b) : CountIn(w, b[j].msg) + b[j].left = sz[b[j].msg]
    /\ \A i \in 1..Len(w) : \/ CountIn(w, w[i]) = sz[w[i]]
                            \/ b # <<>> /\ b[1].msg = w[i]

\* The inductive invariant: nothing of this is left to say of a peer that is gone once the
\* rests are dropped, but that the units are in order.
SendInv ==
    /\ \/ Frames(size, wire, sendBuffer)
       \/ peer = "reset" /\ sendBuffer = <<>> /\ StreamTypes(size, wire) /\ InOrder(wire)
    /\ Len(size) <= MaxSends
    /\ room \in 0..Room /\ waiting \in BOOLEAN
    /\ out \in {"none", "edge", "reported"} /\ peer \in {"up", "reset"}

-----------------------------------------------------------------------------
\* The lesser of two numbers.
LEMMA MinOfTwo ==
    ASSUME NEW a \in Int, NEW b \in Int
    PROVE  Min({a, b}) = IF a <= b THEN a ELSE b
<1> DEFINE P(x) == x \in {a, b} /\ \A y \in {a, b} : x =< y
           m == IF a <= b THEN a ELSE b
<1>1. P(m)
  OBVIOUS
<1>2. \A x : P(x) => x = m
  OBVIOUS
<1>3. Min({a, b}) = CHOOSE x : P(x)
  BY DEF Min
<1> HIDE DEF P, m
<1>4. P(CHOOSE x : P(x))
  BY <1>1
<1>5. Min({a, b}) = m
  BY <1>2, <1>3, <1>4
<1> QED BY <1>5 DEF m

\* Units of m, appended, count for m and for nothing else.
LEMMA CountUnits ==
    ASSUME NEW w \in Seq(Nat), NEW m \in Nat, NEW n \in Nat
    PROVE  /\ w \o Units(m, n) \in Seq(Nat) /\ Len(w \o Units(m, n)) = Len(w) + n
           /\ \A i \in 1..Len(w) + n : (w \o Units(m, n))[i] = IF i <= Len(w) THEN w[i] ELSE m
           /\ \A k \in Nat : CountIn(w, k) \in Nat
           /\ CountIn(w \o Units(m, n), m) = CountIn(w, m) + n
           /\ \A k \in Nat : k # m => CountIn(w \o Units(m, n), k) = CountIn(w, k)
<1> DEFINE u == Units(m, n)
           v == w \o u
<1>1. u \in Seq(Nat) /\ Len(u) = n /\ \A i \in 1..n : u[i] = m
  BY DEF Units
<1> HIDE DEF u
<1>2. v \in Seq(Nat) /\ Len(v) = Len(w) + n /\ Len(w) \in Nat
  <2>1. w \o u \in Seq(Nat) /\ Len(w \o u) = Len(w) + Len(u)
    BY <1>1, ConcatProperties, Zenon
  <2>2. Len(w) \in Nat
    BY LenProperties
  <2> QED BY <1>1, <2>1, <2>2
<1>3. \A i \in 1..Len(w) + n : v[i] = IF i <= Len(w) THEN w[i] ELSE m
  <2> SUFFICES ASSUME NEW i \in 1..Len(w) + n
               PROVE  v[i] = IF i <= Len(w) THEN w[i] ELSE m
    OBVIOUS
  <2>1. v[i] = IF i <= Len(w) THEN w[i] ELSE u[i - Len(w)]
    BY <1>1, ConcatProperties
  <2>2. i > Len(w) => i - Len(w) \in 1..n
    BY <1>2
  <2> QED BY <1>1, <1>2, <2>1, <2>2
<1> HIDE DEF v
<1>4. ASSUME NEW k \in Nat
      PROVE  /\ CountIn(w, k) \in Nat
             /\ k = m => CountIn(v, k) = CountIn(w, k) + n
             /\ k # m => CountIn(v, k) = CountIn(w, k)
  <2> DEFINE old == {i \in DOMAIN w : w[i] = k}
             new == IF k = m THEN Len(w) + 1 .. Len(w) + n ELSE {}
  <2>1. IsFiniteSet(old) /\ Cardinality(old) \in Nat
    <3>1. IsFiniteSet(1..Len(w)) /\ old \subseteq 1..Len(w)
      <4>1. IsFiniteSet(1..Len(w))
        BY <1>2, FS_Interval
      <4>2. old \subseteq 1..Len(w)
        BY <1>2
      <4> QED BY <4>1, <4>2
    <3> QED BY <3>1, FS_Subset, FS_CardinalityType
  <2>2. IsFiniteSet(new) /\ Cardinality(new) = IF k = m THEN n ELSE 0
    <3>1. IsFiniteSet(Len(w) + 1 .. Len(w) + n) /\ Cardinality(Len(w) + 1 .. Len(w) + n) = n
      <4> DEFINE first == Len(w) + 1
                 last == Len(w) + n
      <4>1. first \in Int /\ last \in Int /\ (IF first > last THEN 0 ELSE last - first + 1) = n
        BY <1>2
      <4> HIDE DEF first, last
      <4>2. IsFiniteSet(first..last) /\ Cardinality(first..last) = n
        BY <4>1, FS_Interval
      <4> QED BY <4>2 DEF first, last
    <3> QED BY <3>1, FS_EmptySet
  <2>3. old \cap new = {}
    BY <1>2
  <2>4. {i \in DOMAIN v : v[i] = k} = old \cup new
    <3>1. DOMAIN v = 1..Len(w) + n /\ DOMAIN w = 1..Len(w)
      BY <1>2
    <3>2. \A i \in 1..Len(w) + n : v[i] = k <=> i \in old \cup new
      BY <1>2, <1>3
    <3>3. \A i \in old \cup new : i \in 1..Len(w) + n
      BY <1>2
    <3> QED BY <3>1, <3>2, <3>3
  <2> HIDE DEF old, new
  <2>5. Cardinality(old \cup new) = Cardinality(old) + Cardinality(new)
    <3>1. /\ Cardinality(old \cup new) = Cardinality(old) + Cardinality(new) - Cardinality(old \cap new)
          /\ Cardinality(old \cap new) = 0
      BY <2>1, <2>2, <2>3, FS_Union, FS_EmptySet, Zenon
    <3>2. Cardinality(new) \in Nat
      BY <2>2
    <3> QED BY <2>1, <3>1, <3>2
  <2>6. CountIn(w, k) = Cardinality(old) /\ CountIn(v, k) = Cardinality(old \cup new)
    BY <2>4 DEF CountIn, old
  <2> QED BY <2>1, <2>2, <2>5, <2>6
<1> QED BY <1>1, <1>2, <1>3, <1>4 DEF v, u

-----------------------------------------------------------------------------
\* Units cut from the first rest leave the messages whole.
LEMMA CutKeeps ==
    ASSUME NEW sz, NEW w, NEW b, Frames(sz, w, b), b # <<>>,
           NEW n \in 0..b[1].left
    PROVE  Frames(sz, w \o Units(b[1].msg, n),
                  IF n = b[1].left THEN Tail(b) ELSE [b EXCEPT ![1].left = @ - n])
<1> DEFINE m == b[1].msg
           v == w \o Units(m, n)
           c == IF n = b[1].left THEN Tail(b) ELSE [b EXCEPT ![1].left = @ - n]
<1> HIDE DEF c
<1>a. StreamTypes(sz, w) /\ RestTypes(sz, b) /\ InOrder(w)
  BY DEF Frames
<1>1. /\ b \in Seq(Rests) /\ Len(b) \in Nat \ {0} /\ m = b[1].msg /\ m \in Nat /\ m \in 1..Len(sz) /\ n \in Nat
      /\ b[1].left \in Nat /\ w \in Seq(Nat) /\ Len(w) \in Nat /\ Len(sz) \in Nat
  <2>1. b \in Seq(Rests) /\ w \in Seq(Nat) /\ sz \in Seq(1..MaxSize)
    BY <1>a DEF StreamTypes, RestTypes
  <2>2. Len(b) \in Nat \ {0} /\ 1 \in 1..Len(b)
    BY <2>1, EmptySeq
  <2>3. b[1] \in Rests /\ m \in 1..Len(sz)
    BY <1>a, <2>1, <2>2 DEF RestTypes
  <2> QED BY <2>1, <2>2, <2>3 DEF Rests
<1> HIDE DEF m
<1>2. /\ v \in Seq(Nat) /\ Len(v) = Len(w) + n
      /\ \A i \in 1..Len(w) + n : v[i] = IF i <= Len(w) THEN w[i] ELSE m
      /\ \A k \in Nat : CountIn(w, k) \in Nat
      /\ CountIn(v, m) = CountIn(w, m) + n
      /\ \A k \in Nat : k # m => CountIn(v, k) = CountIn(w, k)
  <2>1. w \in Seq(Nat) /\ m \in Nat /\ n \in Nat
    BY <1>1
  <2> QED BY <2>1, CountUnits, Zenon
<1> HIDE DEF v
<1>3. /\ \A i \in 1..Len(w) : w[i] \in 1..Len(sz) /\ w[i] \in Nat /\ w[i] <= m
      /\ \A j \in 1..Len(b) : b[j].msg \in Nat /\ b[j].msg \in 1..Len(sz) /\ b[j].left \in Nat
                              /\ sz[b[j].msg] \in Int
  <2>1. ASSUME NEW i \in 1..Len(w) PROVE w[i] \in 1..Len(sz) /\ w[i] \in Nat /\ w[i] <= m
    BY <1>1 DEF Frames, StreamTypes
  <2>2. ASSUME NEW j \in 1..Len(b)
        PROVE  b[j].msg \in Nat /\ b[j].msg \in 1..Len(sz) /\ b[j].left \in Nat /\ sz[b[j].msg] \in Int
    <3>1. b[j] \in Rests /\ b[j].msg \in 1..Len(sz)
      BY <1>1, <1>a DEF RestTypes
    <3>2. sz[b[j].msg] \in 1..MaxSize
      <4>1. sz \in Seq(1..MaxSize)
        BY <1>a DEF StreamTypes
      <4> QED BY <3>1, <4>1, ElementOfSeq
    <3> QED BY <3>1, <3>2 DEF Rests
  <2> QED BY <2>1, <2>2
<1>c. Len(w) \in Nat /\ n \in Nat /\ m \in Nat /\ Len(b) \in Nat \ {0}
  BY <1>1
<1>b. ASSUME NEW i \in 1..Len(v)
      PROVE  /\ i \in 1..Len(w) => v[i] = w[i]
             /\ i \notin 1..Len(w) => v[i] = m
  <2>1. i \in 1..Len(w) + n /\ v[i] = IF i <= Len(w) THEN w[i] ELSE m
    BY <1>2
  <2>2. i \in Int /\ 1 <= i
    BY <2>1
  <2>3. CASE i <= Len(w)
    BY <1>c, <2>1, <2>2, <2>3
  <2>4. CASE ~ (i <= Len(w))
    BY <1>c, <2>1, <2>2, <2>4
  <2> QED BY <2>3, <2>4
<1>4. StreamTypes(sz, v)
  BY <1>1, <1>2, <1>3, <1>a, <1>b DEF StreamTypes
<1>5. InOrder(v)
  <2> SUFFICES ASSUME NEW i \in 1..Len(v), NEW j \in 1..Len(v), i <= j PROVE v[i] <= v[j]
    BY DEF InOrder
  <2>1. j \in 1..Len(w) => i \in 1..Len(w)
    BY <1>1
  <2>2. CASE j \in 1..Len(w)
    BY <1>a, <1>b, <2>1, <2>2 DEF InOrder
  <2>3. CASE j \notin 1..Len(w)
    <3>1. v[j] = m /\ v[i] \in Nat /\ v[i] <= m
      <4>1. m <= m
        BY <1>c
      <4> QED BY <1>c, <1>3, <1>b, <2>3, <4>1
    <3> QED BY <3>1
  <2> QED BY <2>2, <2>3
<1>6. /\ c \in Seq(Rests)
      /\ n = b[1].left => Len(c) = Len(b) - 1 /\ \A j \in 1..Len(c) : c[j] = b[j + 1]
      /\ n # b[1].left => /\ Len(c) = Len(b) /\ c[1] = [msg |-> m, left |-> b[1].left - n]
                          /\ \A j \in 2..Len(b) : c[j] = b[j]
  <2>1. CASE n = b[1].left
    BY <1>1, <2>1, HeadTailProperties DEF c
  <2>2. CASE n # b[1].left
    <3> DEFINE e == [b[1] EXCEPT !.left = @ - n]
    <3>1. e = [msg |-> m, left |-> b[1].left - n] /\ e \in Rests /\ b[1].left - n \in Nat
      <4>1. b[1] \in Rests
        BY <1>1
      <4> QED BY <1>1, <4>1 DEF Rests
    <3>2. c = [b EXCEPT ![1] = e]
      BY <2>2, Zenon DEF c
    <3> HIDE DEF e
    <3>3. c \in Seq(Rests) /\ Len(c) = Len(b) /\ \A j \in 1..Len(b) : c[j] = IF j = 1 THEN e ELSE b[j]
      BY <1>1, <3>1, <3>2, ExceptSeq
    <3> QED BY <1>1, <2>2, <3>1, <3>3
  <2> QED BY <2>1, <2>2
\* Each rest after the cut is the first, shortened, or one of the others.
<1>7. ASSUME NEW j \in 1..Len(c)
      PROVE  \E i \in 1..Len(b) : /\ c[j].msg = b[i].msg /\ c[j].left \in Nat \ {0}
                                  /\ i = 1 => n # b[1].left /\ j = 1 /\ c[j].left = b[1].left - n
                                  /\ i # 1 => c[j].left = b[i].left
                                  /\ i = IF n = b[1].left THEN j + 1 ELSE j
  <2> DEFINE i == IF n = b[1].left THEN j + 1 ELSE j
  <2>1. i \in 1..Len(b) /\ b[i].left \in Nat \ {0}
    <3>1. i \in 1..Len(b)
      BY <1>1, <1>6
    <3>2. b[i].left \in 1..sz[b[i].msg]
      BY <3>1, <1>a DEF RestTypes
    <3> QED BY <3>1, <3>2, <1>3
  <2>2. i # 1 => c[j] = b[i]
    BY <1>1, <1>6
  <2>3. i = 1 => n # b[1].left /\ j = 1 /\ c[j] = [msg |-> m, left |-> b[1].left - n]
    BY <1>1, <1>6
  <2> QED BY <1>1, <2>1, <2>2, <2>3
<1>8. \A j \in 2..Len(b) : m < b[j].msg /\ CountIn(w, b[j].msg) + b[j].left = sz[b[j].msg]
  <2>1. 1 \in 1..Len(b)
    BY <1>1
  <2> QED BY <1>1, <2>1 DEF Frames
<1>9. CountIn(w, m) + b[1].left = sz[m]
  BY <1>1 DEF Frames
<1>10. RestTypes(sz, c)
  <2> SUFFICES ASSUME NEW j \in 1..Len(c)
               PROVE  c[j].msg \in 1..Len(sz) /\ c[j].left \in 1..sz[c[j].msg]
    BY <1>6 DEF RestTypes
  <2>1. PICK i \in 1..Len(b) :
            /\ c[j].msg = b[i].msg /\ c[j].left \in Nat \ {0}
            /\ i = 1 => n # b[1].left /\ j = 1 /\ c[j].left = b[1].left - n
            /\ i # 1 => c[j].left = b[i].left
    BY <1>7
  <2>2. b[i].left \in 1..sz[b[i].msg] /\ b[i].msg \in 1..Len(sz)
    BY <1>a DEF RestTypes
  <2>3. sz[c[j].msg] \in Int /\ b[i].left \in Nat /\ b[1].left \in Nat
    BY <1>1, <1>3, <2>1
  <2>4. c[j].left <= b[i].left
    BY <1>c, <2>1, <2>3
  <2> QED BY <2>1, <2>2, <2>3, <2>4
<1>11. \A i, j \in 1..Len(c) : i < j => c[i].msg < c[j].msg
  <2> SUFFICES ASSUME NEW i \in 1..Len(c), NEW j \in 1..Len(c), i < j
               PROVE  c[i].msg < c[j].msg
    OBVIOUS
  <2>1. PICK k \in 1..Len(b) : c[i].msg = b[k].msg /\ k = IF n = b[1].left THEN i + 1 ELSE i
    BY <1>7
  <2>2. PICK l \in 1..Len(b) : c[j].msg = b[l].msg /\ l = IF n = b[1].left THEN j + 1 ELSE j
    BY <1>7
  <2>3. k < l
    BY <2>1, <2>2
  <2> QED BY <2>1, <2>2, <2>3 DEF Frames
<1>12. \A j \in 1..Len(c) : /\ m <= c[j].msg
                            /\ CountIn(v, c[j].msg) + c[j].left = sz[c[j].msg]
  <2> SUFFICES ASSUME NEW j \in 1..Len(c)
               PROVE  m <= c[j].msg /\ CountIn(v, c[j].msg) + c[j].left = sz[c[j].msg]
    OBVIOUS
  <2>1. PICK i \in 1..Len(b) :
            /\ c[j].msg = b[i].msg /\ c[j].left \in Nat \ {0}
            /\ i = 1 => n # b[1].left /\ j = 1 /\ c[j].left = b[1].left - n
            /\ i # 1 => c[j].left = b[i].left
    BY <1>7
  <2>2. CASE i = 1
    <3>1. c[j].msg = m /\ c[j].left = b[1].left - n /\ b[1].left \in Nat
      BY <1>1, <2>1, <2>2
    <3>2. CountIn(v, m) = CountIn(w, m) + n /\ CountIn(w, m) \in Nat
      BY <1>2, <1>c
    <3>3. m <= m
      BY <1>c
    <3> QED BY <1>c, <1>9, <3>1, <3>2, <3>3
  <2>3. CASE i # 1
    <3>1. i \in 2..Len(b)
      BY <2>3
    <3>2. m < b[i].msg /\ b[i].msg # m /\ CountIn(w, b[i].msg) + b[i].left = sz[b[i].msg] /\ b[i].msg \in Nat
      BY <1>1, <1>3, <1>8, <3>1
    <3>3. CountIn(v, b[i].msg) = CountIn(w, b[i].msg)
      BY <1>2, <3>2
    <3> QED BY <1>c, <2>1, <2>3, <3>2, <3>3
  <2> QED BY <2>2, <2>3
<1>13. \A i \in 1..Len(v), j \in 1..Len(c) : v[i] <= c[j].msg
  <2> SUFFICES ASSUME NEW i \in 1..Len(v), NEW j \in 1..Len(c) PROVE v[i] <= c[j].msg
    OBVIOUS
  <2>1. v[i] \in Nat /\ v[i] <= m
    <3>1. m <= m
      BY <1>c
    <3> QED BY <1>c, <1>3, <1>b, <3>1
  <2>2. m <= c[j].msg /\ c[j].msg \in Nat
    BY <1>7, <1>12, <1>3
  <2> QED BY <1>1, <2>1, <2>2
<1>14. \A i \in 1..Len(v) : CountIn(v, v[i]) = sz[v[i]] \/ (c # <<>> /\ c[1].msg = v[i])
  <2> SUFFICES ASSUME NEW i \in 1..Len(v)
               PROVE  CountIn(v, v[i]) = sz[v[i]] \/ (c # <<>> /\ c[1].msg = v[i])
    OBVIOUS
  <2>1. CASE v[i] = m
    <3>1. CASE n = b[1].left
      BY <1>1, <1>2, <1>9, <2>1, <3>1
    <3>2. CASE n # b[1].left
      <4>1. c # <<>> /\ c[1].msg = m
        BY <1>1, <1>6, <3>2, EmptySeq
      <4> QED BY <2>1, <4>1
    <3> QED BY <3>1, <3>2
  <2>2. CASE v[i] # m
    <3>1. i \in 1..Len(w) /\ v[i] = w[i] /\ v[i] \in Nat
      BY <1>3, <1>b, <2>2
    <3>2. CountIn(w, w[i]) = sz[w[i]]
      <4>1. CountIn(w, w[i]) = sz[w[i]] \/ b[1].msg = w[i]
        BY <3>1 DEF Frames
      <4> QED BY <1>1, <2>2, <3>1, <4>1
    <3>3. CountIn(v, v[i]) = CountIn(w, v[i])
      BY <1>2, <2>2, <3>1
    <3> QED BY <3>1, <3>2, <3>3
  <2> QED BY <2>1, <2>2
<1>15. Frames(sz, v, c)
  BY <1>4, <1>5, <1>10, <1>11, <1>12, <1>13, <1>14 DEF Frames
<1> QED BY <1>15 DEF v, c, m

\* A new message may be kept behind the others, or forgotten.
LEMMA NewMessage ==
    ASSUME NEW sz, NEW w, NEW b, Frames(sz, w, b), NEW n \in 1..MaxSize
    PROVE  /\ Frames(Append(sz, n), w, b)
           /\ Frames(Append(sz, n), w, Append(b, [msg |-> Len(sz) + 1, left |-> n]))
<1> DEFINE m == Len(sz) + 1
           e == [msg |-> m, left |-> n]
           c == Append(b, e)
           t == Append(sz, n)
<1>a. StreamTypes(sz, w) /\ RestTypes(sz, b) /\ InOrder(w)
  BY DEF Frames
<1>1. /\ sz \in Seq(1..MaxSize) /\ w \in Seq(Nat) /\ b \in Seq(Rests)
      /\ Len(sz) \in Nat /\ Len(w) \in Nat /\ Len(b) \in Nat /\ n \in Nat /\ m \in Nat
      /\ \A i \in 1..Len(w) : w[i] \in 1..Len(sz)
      /\ \A j \in 1..Len(b) : b[j] \in Rests /\ b[j].msg \in 1..Len(sz) /\ b[j].left \in 1..sz[b[j].msg]
  BY <1>a, SendBufferAssumption DEF StreamTypes, RestTypes
<1>2. t \in Seq(1..MaxSize) /\ Len(t) = m /\ t[m] = n /\ \A k \in 1..Len(sz) : t[k] = sz[k]
  BY <1>1, AppendProperties
<1>3. e \in Rests /\ e.msg = m /\ e.left = n
  BY <1>1 DEF Rests
<1> HIDE DEF t, e
<1>4. c \in Seq(Rests) /\ Len(c) = Len(b) + 1 /\ c[Len(b) + 1] = e /\ \A j \in 1..Len(b) : c[j] = b[j]
  BY <1>1, <1>3, AppendProperties
<1> HIDE DEF c
<1>5. StreamTypes(t, w)
  BY <1>1, <1>2 DEF StreamTypes
<1>6. RestTypes(t, b) /\ RestTypes(t, c)
  <2>1. RestTypes(t, b)
    BY <1>1, <1>2 DEF RestTypes
  <2>2. ASSUME NEW j \in 1..Len(c) PROVE c[j].msg \in 1..Len(t) /\ c[j].left \in 1..t[c[j].msg]
    <3>1. CASE j = Len(b) + 1
      BY <1>1, <1>2, <1>3, <1>4, <3>1
    <3>2. CASE j # Len(b) + 1
      <4>1. j \in 1..Len(b) /\ c[j] = b[j]
        BY <1>1, <1>4, <3>2
      <4> QED BY <2>1, <4>1 DEF RestTypes
    <3> QED BY <3>1, <3>2
  <2> QED BY <1>4, <2>1, <2>2 DEF RestTypes
<1>7. CountIn(w, m) = 0
  <2>1. {i \in DOMAIN w : w[i] = m} = {}
    BY <1>1
  <2> QED BY <2>1, FS_EmptySet DEF CountIn
<1>8. /\ \A j \in 1..Len(b) : CountIn(w, b[j].msg) + b[j].left = t[b[j].msg]
      /\ \A i \in 1..Len(w) : CountIn(w, w[i]) = t[w[i]] \/ (b # <<>> /\ b[1].msg = w[i])
  BY <1>1, <1>2 DEF Frames
<1>9. Frames(t, w, b)
  BY <1>5, <1>6, <1>8, <1>a DEF Frames
<1>10. \A i, j \in 1..Len(c) : i < j => c[i].msg < c[j].msg
  <2> SUFFICES ASSUME NEW i \in 1..Len(c), NEW j \in 1..Len(c), i < j
               PROVE  c[i].msg < c[j].msg
    OBVIOUS
  <2>1. i \in 1..Len(b) /\ c[i] = b[i] /\ b[i].msg \in 1..Len(sz)
    BY <1>1, <1>4
  <2>2. CASE j = Len(b) + 1
    BY <1>1, <1>3, <1>4, <2>1, <2>2
  <2>3. CASE j # Len(b) + 1
    <3>1. j \in 1..Len(b) /\ c[j] = b[j]
      BY <1>1, <1>4, <2>3
    <3> QED BY <2>1, <3>1 DEF Frames
  <2> QED BY <2>2, <2>3
<1>11. \A i \in 1..Len(w), j \in 1..Len(c) : w[i] <= c[j].msg
  <2> SUFFICES ASSUME NEW i \in 1..Len(w), NEW j \in 1..Len(c) PROVE w[i] <= c[j].msg
    OBVIOUS
  <2>2. CASE j = Len(b) + 1
    BY <1>1, <1>3, <1>4, <2>2
  <2>3. CASE j # Len(b) + 1
    <3>1. j \in 1..Len(b) /\ c[j] = b[j]
      BY <1>1, <1>4, <2>3
    <3> QED BY <3>1 DEF Frames
  <2> QED BY <2>2, <2>3
<1>12. \A j \in 1..Len(c) : CountIn(w, c[j].msg) + c[j].left = t[c[j].msg]
  <2> SUFFICES ASSUME NEW j \in 1..Len(c) PROVE CountIn(w, c[j].msg) + c[j].left = t[c[j].msg]
    OBVIOUS
  <2>2. CASE j = Len(b) + 1
    BY <1>1, <1>2, <1>3, <1>4, <1>7, <2>2
  <2>3. CASE j # Len(b) + 1
    <3>1. j \in 1..Len(b) /\ c[j] = b[j]
      BY <1>1, <1>4, <2>3
    <3> QED BY <3>1, <1>8
  <2> QED BY <2>2, <2>3
<1>13. \A i \in 1..Len(w) : CountIn(w, w[i]) = t[w[i]] \/ (c # <<>> /\ c[1].msg = w[i])
  <2>1. b # <<>> => c # <<>> /\ c[1] = b[1]
    BY <1>1, <1>4, EmptySeq
  <2> QED BY <1>8, <2>1
<1>14. Frames(t, w, c)
  BY <1>5, <1>6, <1>10, <1>11, <1>12, <1>13, <1>a DEF Frames
<1> QED BY <1>9, <1>14 DEF t, c, e


\* What the loop takes from the buffer leaves the messages whole, however many rounds it
\* makes, and is not more than there is room for.
LEMMA TakenKeeps ==
    ASSUME NEW sz, NEW w, NEW b, Frames(sz, w, b), NEW r \in Nat
    PROVE  /\ Frames(sz, w \o Taken(b, r).units, Taken(b, r).rest)
           /\ Taken(b, r).units \in Seq(Nat) /\ Len(Taken(b, r).units) \in 0..r
<1> DEFINE Start == [units |-> <<>>, rest |-> b]
           V == [units : Seq(Nat), rest : Seq(Rests)]
           \* What a round is given and leaves.
           Good(t) == /\ t \in V /\ Len(t.units) <= r
                      /\ Frames(sz, w \o t.units, t.rest)
           Fun(f) == f = [k \in 0..Len(b) |->
                             IF k = 0 THEN [units |-> <<>>, rest |-> b] ELSE TakeFirst(f[k - 1], r)]
           after == CHOOSE f : Fun(f)
<1>1. w \in Seq(Nat) /\ b \in Seq(Rests) /\ Len(b) \in Nat
  <2>1. w \in Seq(Nat) /\ b \in Seq(Rests)
    BY DEF Frames, StreamTypes, RestTypes
  <2> QED BY <2>1, LenProperties
<1>2. Good(Start)
  <2>1. <<>> \in Seq(Nat) /\ Len(<<>>) = 0 /\ w \o <<>> = w
    BY <1>1, EmptySeq, ConcatEmptySeq
  <2> QED BY <1>1, <2>1
<1>3. ASSUME NEW t, Good(t) PROVE Good(TakeFirst(t, r))
  <2>1. CASE t.rest = <<>>
    BY <1>3, <2>1 DEF TakeFirst
  <2>2. CASE t.rest # <<>>
    <3> DEFINE left == t.rest
               first == left[1]
               n == Min({r - Len(t.units), first.left})
               cut == IF n = first.left THEN Tail(left) ELSE [left EXCEPT ![1].left = @ - n]
    <3> HIDE DEF cut, left
    <3>1. left \in Seq(Rests) /\ left # <<>> /\ first \in Rests /\ Head(left) = first
          /\ t.units \in Seq(Nat) /\ Len(t.units) \in Nat /\ Len(t.units) <= r
          /\ Frames(sz, w \o t.units, left)
      <4>1. left \in Seq(Rests) /\ left # <<>> /\ t.units \in Seq(Nat)
        BY <1>3, <2>2 DEF left
      <4>2. Len(left) \in Nat \ {0} /\ Head(left) = first
        BY <4>1, EmptySeq
      <4>3. 1 \in 1..Len(left)
        BY <4>2
      <4>4. first \in Rests
        BY <4>1, <4>3, ElementOfSeq
      <4> QED BY <1>3, <4>1, <4>2, <4>4, LenProperties DEF left
    <3> HIDE DEF first
    <3>2. n \in 0..first.left /\ n <= r - Len(t.units)
      <4>1. r - Len(t.units) \in Nat /\ first.left \in Nat
        BY <3>1 DEF Rests
      <4>2. n = IF r - Len(t.units) <= first.left THEN r - Len(t.units) ELSE first.left
        BY <4>1, MinOfTwo
      <4> HIDE DEF n
      <4> QED BY <4>1, <4>2
    <3>3. TakeFirst(t, r) = [units |-> t.units \o Units(first.msg, n), rest |-> cut]
      BY <2>2, <3>1, Zenon DEF TakeFirst, cut, left
    <3> HIDE DEF n
    <3>4. Frames(sz, (w \o t.units) \o Units(first.msg, n), cut)
      BY <3>1, <3>2, CutKeeps, Zenon DEF cut, first
    <3>5. /\ first.msg \in Nat /\ n \in Nat
          /\ t.units \o Units(first.msg, n) \in Seq(Nat)
          /\ Len(t.units \o Units(first.msg, n)) = Len(t.units) + n
          /\ (w \o t.units) \o Units(first.msg, n) = w \o (t.units \o Units(first.msg, n))
      <4>1. first.msg \in Nat /\ n \in Nat
        BY <3>1, <3>2 DEF Rests
      <4>2. Units(first.msg, n) \in Seq(Nat)
        BY <4>1 DEF Units
      <4>3. t.units \o Units(first.msg, n) \in Seq(Nat)
            /\ Len(t.units \o Units(first.msg, n)) = Len(t.units) + n
        BY <3>1, <4>1, CountUnits, Zenon
      <4>4. (w \o t.units) \o Units(first.msg, n) = w \o (t.units \o Units(first.msg, n))
        <5> DEFINE x == t.units
                   y == Units(first.msg, n)
        <5>1. w \in Seq(Nat) /\ x \in Seq(Nat) /\ y \in Seq(Nat)
          BY <1>1, <3>1, <4>2
        <5> HIDE DEF x, y
        <5>2. \A p, q, z \in Seq(Nat) : (p \o q) \o z = p \o (q \o z)
          BY ConcatAssociative
        <5>3. (w \o x) \o y = w \o (x \o y)
          BY <5>1, <5>2, Zenon
        <5> QED BY <5>3 DEF x, y
      <4> QED BY <4>1, <4>3, <4>4
    <3>6. cut \in Seq(Rests)
      BY <3>4 DEF Frames, RestTypes
    <3>7. Len(t.units) + n <= r
      BY <3>1, <3>2, <3>5
    <3>8. [units |-> t.units \o Units(first.msg, n), rest |-> cut] \in V
      BY <3>5, <3>6
    <3>9. Frames(sz, w \o (t.units \o Units(first.msg, n)), cut)
      BY <3>4, <3>5
    <3>10. Len(t.units \o Units(first.msg, n)) <= r
      BY <3>5, <3>7
    <3>11. /\ TakeFirst(t, r) \in V
           /\ TakeFirst(t, r).units = t.units \o Units(first.msg, n)
           /\ TakeFirst(t, r).rest = cut
      <4>1. TakeFirst(t, r) \in V
        BY <3>3, <3>8, Zenon
      <4>2. /\ TakeFirst(t, r).units = t.units \o Units(first.msg, n)
            /\ TakeFirst(t, r).rest = cut
        <5> DEFINE x == t.units \o Units(first.msg, n)
                   y == TakeFirst(t, r)
        <5>1. y = [units |-> x, rest |-> cut]
          BY <3>3
        <5> HIDE DEF x, y
        <5>2. y.units = x /\ y.rest = cut
          BY <5>1
        <5> QED BY <5>2 DEF x, y
      <4> QED BY <4>1, <4>2
    <3> HIDE DEF V
    <3> QED BY <3>9, <3>10, <3>11
  <2> QED BY <2>1, <2>2
<1> HIDE DEF Good
<1>4. Fun(after)
  <2> DEFINE U == {t \in V : Good(t)}
             every == [t \in U |-> TakeFirst(t, r)]
             step == [k \in 1..Len(b) |-> every]
  <2>1. \A t : Good(t) => t \in V
    BY DEF Good
  <2>2. Start \in U /\ every \in [U -> U]
    <3> HIDE DEF V
    <3>1. \A t \in U : TakeFirst(t, r) \in U
      BY <1>3, <2>1
    <3> QED BY <1>2, <2>1, <3>1
  <2>3. PICK f : f \in [0..Len(b) -> U] /\ Iterates(f, Start, step, Len(b))
    <3>1. \A k \in 1..Len(b), t \in U : step[k][t] \in U
      <4> HIDE DEF U, every
      <4> QED BY <2>2
    <3> HIDE DEF U, step, Start
    <3> QED BY <1>1, <2>2, <3>1, IterationExists
  <2>4. \A k \in 0..Len(b) : f[k] = IF k = 0 THEN Start ELSE TakeFirst(f[k - 1], r)
    <3> SUFFICES ASSUME NEW k \in 0..Len(b)
                 PROVE  f[k] = IF k = 0 THEN Start ELSE TakeFirst(f[k - 1], r)
      OBVIOUS
    <3> HIDE DEF U, Start
    <3> HIDE DEF step
    <3>1. f[k] = IF k = 0 THEN Start ELSE step[k][f[k - 1]]
      BY <1>1, <2>3 DEF Iterates
    <3>2. k # 0 => f[k - 1] \in U
      <4>1. k # 0 => k - 1 \in 0..Len(b)
        BY <1>1
      <4> QED BY <2>3, <4>1
    <3>3. k # 0 => step[k] = every
      <4> HIDE DEF every
      <4> QED BY <1>1 DEF step
    <3>4. k # 0 => step[k][f[k - 1]] = TakeFirst(f[k - 1], r)
      BY <3>2, <3>3
    <3> QED BY <3>1, <3>4
  <2>5. Fun(f)
    <3> HIDE DEF U
    <3>1. f = [k \in 0..Len(b) |-> f[k]]
      BY <2>3
    <3> QED BY <2>4, <3>1
  <2> HIDE DEF Fun
  <2> QED BY <2>5
<1>5. Taken(b, r) = after[Len(b)]
  BY DEF Taken
<1> DEFINE Reached == {k \in Nat : k <= Len(b) => Good(after[k])}
<1> HIDE DEF after
<1>6. 0 \in Reached
  BY <1>1, <1>2, <1>4
<1>7. ASSUME NEW k \in Nat, k \in Reached PROVE k + 1 \in Reached
  <2> SUFFICES ASSUME k + 1 <= Len(b) PROVE Good(after[k + 1])
    OBVIOUS
  <2>1. Good(after[k])
    BY <1>1, <1>7
  <2>2. after[k + 1] = TakeFirst(after[k], r)
    <3>1. k + 1 \in 0..Len(b) /\ k + 1 # 0 /\ (k + 1) - 1 = k
      BY <1>1
    <3> QED BY <1>4, <3>1
  <2> QED BY <1>3, <2>1, <2>2
<1>8. \A k \in Nat : k \in Reached
  <2> HIDE DEF Reached
  <2> QED BY <1>6, <1>7, SetInduction
<1>9. Good(Taken(b, r))
  BY <1>1, <1>5, <1>8
<1> QED
  <2>1. Taken(b, r) \in V /\ Len(Taken(b, r).units) <= r /\ Frames(sz, w \o Taken(b, r).units, Taken(b, r).rest)
    BY <1>9 DEF Good
  <2> HIDE DEF Fun
  <2> QED BY <2>1, LenProperties

-----------------------------------------------------------------------------
\* The units of a message that was sent at once: as if it were kept first.
LEMMA SentAtOnce ==
    ASSUME NEW sz, NEW w, Frames(sz, w, <<>>), NEW n \in 1..MaxSize, NEW k \in 1..n
    PROVE  Frames(Append(sz, n), w \o Units(Len(sz) + 1, k),
                  IF k = n THEN <<>> ELSE <<[msg |-> Len(sz) + 1, left |-> n - k]>>)
<1> DEFINE m == Len(sz) + 1
           e == [msg |-> m, left |-> n]
           t == Append(sz, n)
           cut == IF k = e.left THEN Tail(<<e>>) ELSE [<<e>> EXCEPT ![1].left = @ - k]
<1>1. Frames(t, w, <<e>>)
  <2>1. Frames(t, w, Append(<<>>, e))
    BY NewMessage
  <2>2. Append(<<>>, e) = <<e>>
    OBVIOUS
  <2> QED BY <2>1, <2>2
<1>2. <<e>> # <<>> /\ <<e>>[1] = e /\ e.msg = m /\ e.left = n /\ k \in 0..n
  OBVIOUS
<1>3. Frames(t, w \o Units(m, k), cut)
  <2> DEFINE f == <<e>>
             c == IF k = f[1].left THEN Tail(f) ELSE [f EXCEPT ![1].left = @ - k]
  <2>1. Frames(t, w, f) /\ f # <<>> /\ k \in 0..f[1].left /\ f[1].msg = m
    BY <1>1, <1>2
  <2> HIDE DEF f, t, m
  <2>2. Frames(t, w \o Units(f[1].msg, k), c)
    BY <2>1, CutKeeps, Zenon
  <2>3. c = cut
    BY <1>2, Zenon DEF f
  <2> QED BY <2>1, <2>2, <2>3
<1>4. cut = IF k = n THEN <<>> ELSE <<[msg |-> m, left |-> n - k]>>
  <2>1. CASE k = n
    BY <1>2, <2>1
  <2>2. CASE k # n
    <3>1. cut = [<<e>> EXCEPT ![1] = [e EXCEPT !.left = n - k]]
      BY <1>2, <2>2, Zenon
    <3>2. [e EXCEPT !.left = n - k] = [msg |-> m, left |-> n - k]
      OBVIOUS
    <3>3. \A x : [<<e>> EXCEPT ![1] = x] = <<x>>
      OBVIOUS
    <3> HIDE DEF cut, e
    <3>4. cut = <<[msg |-> m, left |-> n - k]>>
      BY <3>1, <3>2, <3>3
    <3> QED BY <2>2, <3>4
  <2> QED BY <2>1, <2>2
<1> HIDE DEF cut
<1> QED BY <1>3, <1>4

\* asyncSend() keeps the invariant: the message goes behind what is kept, or as much of it
\* out as there is room for; where there is none it is forgotten.
LEMMA AsyncSendKeeps ==
    ASSUME SendInv, NEW n \in 1..MaxSize, asyncSend(n)
    PROVE  SendInv'
<1> DEFINE m == Len(size) + 1
<1>1. room \in Nat /\ Room \in Nat /\ n \in Nat \ {0} /\ room <= Room
  BY SendBufferAssumption DEF SendInv
<1>2. StreamTypes(size, wire) /\ InOrder(wire)
  BY DEF SendInv, Frames
<1>3. size' = Append(size, n) /\ UNCHANGED <<out, peer>> /\ Len(size) < MaxSends
  BY DEF asyncSend
<1>4. size \in Seq(1..MaxSize) /\ Len(size') = Len(size) + 1 /\ Len(size) \in Nat /\ wire \in Seq(Nat)
  BY <1>2, <1>3, AppendProperties, LenProperties DEF StreamTypes
<1>5. Len(size') <= MaxSends
  BY <1>3, <1>4, SendBufferAssumption
<1>6. CASE sendBuffer # <<>> /\ sendBuffer' = Append(sendBuffer, [msg |-> m, left |-> n])
           /\ UNCHANGED <<wire, room, waiting>>
  <2>1. Frames(size, wire, sendBuffer)
    BY <1>6 DEF SendInv
  <2>2. Frames(size', wire', sendBuffer')
    BY <1>3, <1>6, <2>1, NewMessage
  <2> QED BY <1>3, <1>5, <1>6, <2>2 DEF SendInv
<1>7. CASE /\ sendBuffer = <<>> /\ peer = "up" /\ Takes(m, n)
           /\ sendBuffer' = IF room \in 1..n - 1 THEN <<[msg |-> m, left |-> n - room]>> ELSE <<>>
  <2> DEFINE k == Min({room, n})
  <2>1. k = IF room <= n THEN room ELSE n
    BY <1>1, MinOfTwo
  <2>2. wire' = wire \o Units(m, k) /\ room' = room - k /\ waiting' = (waiting \/ n > room)
    BY <1>7 DEF Takes
  <2> HIDE DEF k
  <2>3. Frames(size, wire, <<>>)
    BY <1>7 DEF SendInv
  <2>4. Frames(size', wire', sendBuffer')
    <3>1. CASE room = 0
      <4>1. k = 0 /\ sendBuffer' = <<>>
        BY <1>1, <1>7, <2>1, <3>1
      <4>2. wire \o Units(m, 0) = wire
        <5>1. Units(m, 0) = <<>>
          BY DEF Units
        <5> QED BY <1>4, <5>1, ConcatEmptySeq
      <4> QED BY <1>3, <2>2, <2>3, <4>1, <4>2, NewMessage
    <3>2. CASE room # 0
      <4>1. k \in 1..n
        BY <1>1, <2>1, <3>2
      <4>2. sendBuffer' = IF k = n THEN <<>> ELSE <<[msg |-> m, left |-> n - k]>>
        <5>1. CASE room < n
          BY <1>1, <1>7, <2>1, <3>2, <5>1
        <5>2. CASE ~(room < n)
          BY <1>1, <1>7, <2>1, <5>2
        <5> QED BY <5>1, <5>2
      <4>3. Frames(Append(size, n), wire \o Units(m, k),
                   IF k = n THEN <<>> ELSE <<[msg |-> m, left |-> n - k]>>)
        BY <2>3, <4>1, SentAtOnce, Zenon
      <4> QED BY <1>3, <2>2, <4>2, <4>3
    <3> QED BY <3>1, <3>2
  <2>5. room' \in 0..Room /\ waiting' \in BOOLEAN
    <3>1. room' \in 0..Room
      BY <1>1, <2>1, <2>2
    <3>2. waiting \in BOOLEAN
      BY DEF SendInv
    <3> QED BY <2>2, <3>1, <3>2
  <2> QED BY <1>3, <1>5, <2>4, <2>5 DEF SendInv
<1>8. CASE sendBuffer = <<>> /\ peer = "reset" /\ UNCHANGED <<sendBuffer, wire, room, waiting>>
  <2>1. StreamTypes(size', wire')
    <3>1. size' \in Seq(1..MaxSize)
      BY <1>3, <1>4, AppendProperties
    <3>2. \A i \in 1..Len(wire) : wire[i] \in 1..Len(size')
      BY <1>2, <1>4 DEF StreamTypes
    <3> QED BY <1>4, <1>8, <3>1, <3>2 DEF StreamTypes
  <2>2. InOrder(wire')
    BY <1>2, <1>8
  <2> QED BY <1>3, <1>5, <1>8, <2>1, <2>2 DEF SendInv
<1> QED BY <1>6, <1>7, <1>8 DEF asyncSend

\* runOnce() does.
LEMMA FlushKeeps ==
    ASSUME SendInv, flush
    PROVE  SendInv'
<1> DEFINE taken == Taken(sendBuffer, room)
<1>1. room \in Nat /\ Room \in Nat /\ room <= Room /\ waiting \in BOOLEAN
  BY SendBufferAssumption DEF SendInv
<1>2. StreamTypes(size, wire) /\ InOrder(wire)
  BY DEF SendInv, Frames
<1>3. out' = "none" /\ UNCHANGED <<size, peer>>
  BY DEF flush
<1>4. CASE /\ peer = "up" /\ wire' = wire \o taken.units /\ sendBuffer' = taken.rest
           /\ room' = room - Len(taken.units) /\ waiting' = (waiting \/ taken.rest # <<>>)
  <2>1. Frames(size, wire, sendBuffer)
    BY <1>4 DEF SendInv
  <2>2. Frames(size, wire \o taken.units, taken.rest) /\ Len(taken.units) \in 0..room
    BY <1>1, <2>1, TakenKeeps
  <2> HIDE DEF taken
  <2>3. Frames(size', wire', sendBuffer') /\ room' \in 0..Room /\ waiting' \in BOOLEAN
    BY <1>1, <1>3, <1>4, <2>2
  <2> QED BY <1>3, <2>3 DEF SendInv
<1>5. CASE peer = "reset" /\ sendBuffer' = <<>> /\ UNCHANGED <<wire, room, waiting>>
  BY <1>2, <1>3, <1>5 DEF SendInv
<1> QED BY <1>4, <1>5 DEF flush

\* SendInv is inductive.
LEMMA SendInvInductive ==
    /\ SendInit => SendInv
    /\ SendInv /\ [SendNext]_sendVars => SendInv'
<1>1. ASSUME SendInit PROVE SendInv
  <2>1. size = <<>> /\ sendBuffer = <<>> /\ wire = <<>> /\ room = Room
        /\ waiting = FALSE /\ out = "edge" /\ peer = "up"
    BY <1>1 DEF SendInit
  <2>2. Frames(<<>>, <<>>, <<>>)
    <3>1. Len(<<>>) = 0 /\ <<>> \in Seq(1..MaxSize) /\ <<>> \in Seq(Nat) /\ <<>> \in Seq(Rests)
      BY EmptySeq
    <3> QED BY <3>1 DEF Frames, StreamTypes, RestTypes, InOrder
  <2>3. Len(<<>>) = 0
    BY EmptySeq
  <2>4. Frames(size, wire, sendBuffer)
    BY <2>1, <2>2, Zenon
  <2>5. Len(size) <= MaxSends /\ room \in 0..Room /\ waiting \in BOOLEAN
    <3>1. Len(size) = 0
      BY <2>1, <2>3, Zenon
    <3>2. waiting \in BOOLEAN
      BY <2>1
    <3>3. room \in 0..Room
      BY <2>1, SendBufferAssumption
    <3>4. Len(size) <= MaxSends
      BY <3>1, SendBufferAssumption
    <3> QED BY <3>2, <3>3, <3>4
  <2> QED BY <2>1, <2>4, <2>5 DEF SendInv
<1>2. ASSUME SendInv, [SendNext]_sendVars PROVE SendInv'
  <2>1. CASE \E n \in 1..MaxSize : asyncSend(n)
    BY <1>2, <2>1, AsyncSendKeeps
  <2>2. CASE flush
    BY <1>2, <2>2, FlushKeeps
  <2>3. CASE waitForRoom
    BY <1>2, <2>3 DEF waitForRoom, SendInv
  <2>4. CASE Drain
    <3>1. PICK k \in 1..Room - room : room' = room + k
      BY <2>4 DEF Drain
    <3>2. room' \in 0..Room
      BY <1>2, <3>1, SendBufferAssumption DEF SendInv
    <3> QED BY <1>2, <2>4, <3>2 DEF Drain, SendInv
  <2>5. CASE Reset
    BY <1>2, <2>5 DEF Reset, SendInv
  <2>6. CASE UNCHANGED sendVars
    BY <1>2, <2>6 DEF sendVars, SendInv
  <2> QED BY <1>2, <2>1, <2>2, <2>3, <2>4, <2>5, <2>6 DEF SendNext, IOThread
<1> QED BY <1>1, <1>2

\* SendInv says all that is checked.
LEMMA SendInvImplies == SendInv => SendsAreWhole
<1> SUFFICES ASSUME SendInv PROVE SendsAreWhole
  OBVIOUS
<1>1. StreamTypes(size, wire) /\ InOrder(wire)
  BY DEF SendInv, Frames
<1>2. size \in Seq(1..MaxSize) /\ wire \in Seq(Nat) /\ Len(size) \in Nat /\ Len(wire) \in Nat
      /\ \A i \in 1..Len(wire) : wire[i] \in 1..Len(size)
  BY <1>1, LenProperties DEF StreamTypes
<1>3. /\ sendBuffer \in Seq(Rests)
      /\ \A j \in 1..Len(sendBuffer) : /\ sendBuffer[j].msg \in 1..Len(size)
                                       /\ sendBuffer[j].left \in 1..size[sendBuffer[j].msg]
      /\ \A i, j \in 1..Len(sendBuffer) : i < j => sendBuffer[i].msg < sendBuffer[j].msg
  <2>1. CASE Frames(size, wire, sendBuffer)
    BY <2>1 DEF Frames, RestTypes
  <2>2. CASE sendBuffer = <<>>
    <3>1. <<>> \in Seq(Rests) /\ Len(<<>>) = 0
      BY EmptySeq
    <3> QED BY <2>2, <3>1
  <2> QED BY <2>1, <2>2 DEF SendInv
<1>4. SendTypeOK
  <2>1. DOMAIN sendBuffer = 1..Len(sendBuffer)
    BY <1>3, LenProperties
  <2>2. wire \in Seq(1..Len(size))
    BY <1>2
  <2> QED BY <1>2, <1>3, <2>1, <2>2 DEF SendTypeOK, SendInv
<1>5. \A i \in 1..Len(wire) - 1 : wire[i] <= wire[i + 1]
  <2> TAKE i \in 1..Len(wire) - 1
  <2>1. i \in 1..Len(wire) /\ i + 1 \in 1..Len(wire) /\ i <= i + 1
    BY <1>2
  <2> QED BY <1>1, <2>1 DEF InOrder
<1>6. \A m \in Range(wire) : \/ Count(m) = size[m]
                             \/ /\ peer = "up" => sendBuffer # <<>>
                                /\ sendBuffer # <<>> =>
                                       /\ Head(sendBuffer).msg = m
                                       /\ Count(m) + Head(sendBuffer).left = size[m]
  <2> SUFFICES ASSUME NEW m \in Range(wire), Count(m) # size[m],
                      Frames(size, wire, sendBuffer)
               PROVE  /\ sendBuffer # <<>> /\ Head(sendBuffer).msg = m
                      /\ Count(m) + Head(sendBuffer).left = size[m]
    BY DEF SendInv
  <2>1. PICK i \in 1..Len(wire) : wire[i] = m
    BY <1>2 DEF Range
  <2>2. Count(m) = CountIn(wire, m)
    BY DEF Count, CountIn
  <2>3. sendBuffer # <<>> /\ sendBuffer[1].msg = m
    BY <2>1, <2>2 DEF Frames
  <2>4. 1 \in 1..Len(sendBuffer) /\ Head(sendBuffer) = sendBuffer[1]
    <3>1. Len(sendBuffer) \in Nat \ {0}
      BY <1>3, <2>3, EmptySeq
    <3> QED BY <1>3, <2>3, <3>1
  <2>5. CountIn(wire, m) + sendBuffer[1].left = size[m]
    BY <2>3, <2>4 DEF Frames
  <2> QED BY <2>2, <2>3, <2>4, <2>5
<1>7. \A i \in 1..Len(sendBuffer) : \A j \in 1..i - 1 : sendBuffer[j].msg < sendBuffer[i].msg
  <2> TAKE i \in 1..Len(sendBuffer)
  <2> TAKE j \in 1..i - 1
  <2>1. j \in 1..Len(sendBuffer) /\ j < i
    BY <1>3, LenProperties
  <2> QED BY <1>3, <2>1
<1> QED BY <1>4, <1>5, <1>6, <1>7 DEF SendsAreWhole, FramesStayWhole

\* What one connection sends is made of whole messages in the order of asyncSend(), however
\* the kernel splits it and whoever sends meanwhile; what is kept are the rests that miss.
THEOREM WholeSends == SendSpec => []SendsAreWhole
<1>1. SendInit => SendInv
  BY SendInvInductive
<1>2. SendInv /\ [SendNext]_sendVars => SendInv'
  BY SendInvInductive
<1>3. SendInv => SendsAreWhole
  BY SendInvImplies
<1> QED BY <1>1, <1>2, <1>3, PTL DEF SendSpec

=============================================================================
