---------------------------- MODULE IOEventEpoll ----------------------------
(***************************************************************************)
(* ff::IOEventEpoll of fflib/net/ioevent_epoll.cpp with the sockets it     *)
(* serves (sockettcp.cpp, acceptortcp.cpp): one IO thread that waits for   *)
(* edge-triggered events, collects callbacks under the mutex and runs them *)
(* without it, and another thread that may close sockets meanwhile.        *)
(* Sending is in SendBuffer.                                               *)
(*                                                                         *)
(* The kernel's part: a file descriptor denotes a connection until it is   *)
(* closed and may then be given to the next one; a registered descriptor   *)
(* is reported once for every change (data, end of stream, reset), with    *)
(* what holds when epoll_wait looks; an end of stream is no EPOLLHUP.      *)
(***************************************************************************)
EXTENDS Integers, Sequences, SequencesExt

CONSTANTS Conn,          \* connections of clients
          Fd,            \* the numbers file descriptors have
          RecvBuffer,    \* RECV_BUFFER_SIZE, in units of data
          MaxData,       \* bound: units of data a peer sends before it ends
          HandlerCloses  \* whether another thread closes sockets as well

ASSUME IOEventAssumption == /\ Fd \subseteq Nat \ {0} /\ IsFiniteSet(Fd) /\ RecvBuffer \in Nat \ {0}
                            /\ MaxData \in Nat /\ HandlerCloses \in BOOLEAN

VARIABLES stream,           \* what a peer did: [sent, unread, fin, rst]
          backlog,          \* connections the kernel holds for accept()
          kernel,           \* descriptor -> the connection it denotes
          edge,             \* those epoll has yet to report: descriptors, Listening
          m_allIOinfo,      \* descriptor -> the connection whose handler is registered
          m_listFuncToRun,  \* descriptors given to safeClosefd
          m_fd,             \* SocketTcp::m_fd
          m_refSocket,      \* whether SocketTcp::m_refSocket is set
          posted,           \* the events handed to the protocol of a connection
          io,               \* the IO thread: its place, and the round's events and callbacks
          closing           \* per thread: where it is in SocketTcp::close()

kernelVars == <<stream, backlog, kernel, edge>>
infoVars == <<m_allIOinfo, m_listFuncToRun>>
socketVars == <<m_fd, m_refSocket, posted>>
ioVars == <<kernelVars, infoVars, socketVars, io, closing>>

Listening == 0
Thread == {"io", "handler"}
Without(map, k) == [x \in DOMAIN map \ {k} |-> map[x]]
With(map, k, v) == [x \in DOMAIN map \cup {k} |-> IF x = k THEN v ELSE map[x]]
Idle == [at |-> "idle"]

EventInit == /\ stream = [c \in Conn |-> [sent |-> 0, unread |-> 0, fin |-> FALSE, rst |-> FALSE]]
             /\ backlog = <<>>
             /\ kernel = <<>>
             /\ edge = {}
             /\ m_allIOinfo = <<>>
             /\ m_listFuncToRun = <<>>
             /\ m_fd = [c \in Conn |-> -1]
             /\ m_refSocket = [c \in Conn |-> FALSE]
             /\ posted = [c \in Conn |-> <<>>]
             /\ io = [at |-> "wait"]
             /\ closing = [t \in Thread |-> Idle]

-----------------------------------------------------------------------------
(* The peers. *)

Known == Range(backlog) \cup Range(kernel) \cup {c \in Conn : posted[c] # <<>>}
Ended(c) == stream[c].fin \/ stream[c].rst
\* A change on a connection is an edge of its descriptor, once that is registered
\* with epoll (m_allIOinfo forgets it earlier than epoll does).
Edges(c) == edge \cup {f \in DOMAIN kernel : kernel[f] = c /\ m_fd[c] # -1}

Arrive(c) == /\ c \notin Known /\ m_fd[c] = -1 /\ ~Ended(c)
             /\ backlog' = Append(backlog, c)
             /\ edge' = edge \cup {Listening}
             /\ UNCHANGED <<stream, kernel, infoVars, socketVars, io, closing>>

\* A peer's data, its end of stream or its reset.
PeerActs(c, now) ==
    /\ c \in Range(backlog) \cup Range(kernel) /\ ~Ended(c)
    /\ stream' = [stream EXCEPT ![c] = now]
    /\ edge' = Edges(c)
    /\ UNCHANGED <<backlog, kernel, infoVars, socketVars, io, closing>>
PeerSends(c) == /\ stream[c].sent < MaxData
                /\ PeerActs(c, [stream[c] EXCEPT !.sent = @ + 1, !.unread = @ + 1])
PeerCloses(c) == PeerActs(c, [stream[c] EXCEPT !.fin = TRUE])
PeerResets(c) == PeerActs(c, [stream[c] EXCEPT !.unread = 0, !.rst = TRUE])

-----------------------------------------------------------------------------
(* runOnce() of the IO thread. *)

\* epoll_wait: every edge, with what there is to report; or nothing, when it was
\* notified or timed out.
epoll_wait ==
    /\ io.at = "wait" /\ (edge # {} \/ m_listFuncToRun # <<>>)
    /\ LET mask(f) == LET s == stream[kernel[f]]
                      IN  [in |-> s.unread > 0 \/ s.fin \/ s.rst, err |-> s.rst]
       IN io' = [at |-> "collect", accept |-> Listening \in edge,
                 events |-> [f \in edge \ {Listening} |-> mask(f)]]
    /\ edge' = {}
    /\ UNCHANGED <<stream, backlog, kernel, infoVars, socketVars, closing>>

\* readAll(): reads on while the buffer was filled; an end of stream it meets
\* that way, or an error, makes it fail, whatever it has read.
readAll(s) == ~s.rst /\ ~(s.fin /\ s.unread % RecvBuffer = 0)

\* The callbacks of one event: a descriptor that was unregistered has none; when it
\* can be written, what is left to send may fail, and adds a BROKEN of its own.
callbacksOf(f, unsent) ==
    IF f \notin DOMAIN m_allIOinfo THEN <<>>
    ELSE LET c == m_allIOinfo[f]
             cb(type) == [type |-> type, conn |-> c, fd |-> f]
         IN  (IF ~io.events[f].in THEN <<>>
              ELSE IF readAll(stream[c]) THEN <<cb("RECV")>> ELSE <<cb("BROKEN")>>)
             \o (IF f \in unsent /\ stream[c].rst THEN <<cb("BROKEN")>> ELSE <<>>)
             \o (IF io.events[f].err THEN <<cb("BROKEN")>> ELSE <<>>)

\* Under the mutex: one connection is accepted, every event becomes callbacks,
\* the functions to run are taken. Any of the descriptors may have unsent data.
collect ==
    /\ io.at = "collect"
    /\ \E order \in SetToSeqs(DOMAIN io.events), unsent \in SUBSET DOMAIN io.events :
        LET read == {m_allIOinfo[f] : f \in {x \in DOMAIN io.events \cap DOMAIN m_allIOinfo :
                                                 io.events[x].in}}
            callbacks == FlattenSeq([i \in DOMAIN order |-> callbacksOf(order[i], unsent)])
        IN  /\ stream' = [c \in Conn |-> IF c \in read THEN [stream[c] EXCEPT !.unread = 0]
                                         ELSE stream[c]]
            /\ \/ /\ io.accept /\ backlog # <<>>
                  /\ \E f \in Fd \ DOMAIN kernel :
                        /\ kernel' = With(kernel, f, Head(backlog))
                        /\ io' = [at |-> "callbacks", funcs |-> m_listFuncToRun,
                                  callbacks |-> <<[type |-> "ACCEPT", conn |-> Head(backlog), fd |-> f]>>
                                                    \o callbacks]
                  /\ backlog' = Tail(backlog)
               \/ /\ ~io.accept \/ backlog = <<>> \/ Fd \subseteq DOMAIN kernel
                  /\ io' = [at |-> "callbacks", funcs |-> m_listFuncToRun, callbacks |-> callbacks]
                  /\ UNCHANGED <<kernel, backlog>>
    /\ m_listFuncToRun' = <<>>
    /\ UNCHANGED <<edge, m_allIOinfo, socketVars, closing>>

Callback(type) == /\ io.at = "callbacks" /\ closing["io"] = Idle
                  /\ io.callbacks # <<>> /\ Head(io.callbacks).type = type
CallbackDone == io' = [io EXCEPT !.callbacks = Tail(@)]

\* AcceptorTcp::handleEvent(): the socket object, SocketTcp::open(), regfd(); epoll
\* reports at once what it finds.
handleAccept ==
    LET cb == Head(io.callbacks) IN
    /\ Callback("ACCEPT") /\ CallbackDone
    /\ m_fd' = [m_fd EXCEPT ![cb.conn] = cb.fd]
    /\ m_refSocket' = [m_refSocket EXCEPT ![cb.conn] = TRUE]
    /\ m_allIOinfo' = With(m_allIOinfo, cb.fd, cb.conn)
    /\ edge' = edge \cup {cb.fd}
    /\ UNCHANGED <<stream, backlog, kernel, m_listFuncToRun, posted, closing>>

\* SocketTcp::handleEvent(): nothing for a socket that is closed; the test of
\* m_fd and what follows are two steps.
handleEvent ==
    LET cb == Head(io.callbacks) IN
    /\ Callback("RECV") \/ Callback("BROKEN")
    /\ \/ m_fd[cb.conn] = -1 /\ CallbackDone /\ UNCHANGED closing
       \/ /\ m_fd[cb.conn] # -1 /\ cb.type = "RECV"
          /\ closing' = [closing EXCEPT !["io"] = [at |-> "recv", conn |-> cb.conn]]
          /\ CallbackDone
       \/ /\ m_fd[cb.conn] # -1 /\ cb.type = "BROKEN"
          /\ closing' = [closing EXCEPT !["io"] = [at |-> "test", conn |-> cb.conn]]
          /\ CallbackDone
    /\ UNCHANGED <<kernelVars, infoVars, socketVars>>

handleRecv ==
    /\ closing["io"].at = "recv"
    /\ LET c == closing["io"].conn
       IN  posted' = [posted EXCEPT ![c] = Append(@, [type |-> "RECV", sock |-> m_refSocket[c]])]
    /\ closing' = [closing EXCEPT !["io"] = Idle]
    /\ UNCHANGED <<kernelVars, infoVars, m_fd, m_refSocket, io>>

\* safeClosefd(), and what else was to run, after the callbacks.
safeClosefd ==
    /\ io.at = "callbacks" /\ io.callbacks = <<>> /\ closing["io"] = Idle /\ io.funcs # <<>>
    /\ kernel' = Without(kernel, Head(io.funcs))
    /\ edge' = edge \ {Head(io.funcs)}
    /\ io' = [io EXCEPT !.funcs = Tail(@)]
    /\ UNCHANGED <<stream, backlog, infoVars, socketVars, closing>>

roundDone == /\ io.at = "callbacks" /\ io.callbacks = <<>> /\ closing["io"] = Idle /\ io.funcs = <<>>
             /\ io' = [at |-> "wait"]
             /\ UNCHANGED <<kernelVars, infoVars, socketVars, closing>>

-----------------------------------------------------------------------------
(* SocketTcp::close(), by the IO thread or another one, step by step: m_fd is *)
(* tested and taken without a lock.                                           *)

At(t, place) == closing[t].at = place
Go(t, next) == closing' = [closing EXCEPT ![t] = next]

handlerCloses(c) == /\ HandlerCloses /\ closing["handler"] = Idle /\ posted[c] # <<>>
                    /\ Go("handler", [at |-> "test", conn |-> c])
                    /\ UNCHANGED <<kernelVars, infoVars, socketVars, io>>

closeTest(t) == /\ At(t, "test")
                /\ Go(t, IF m_fd[closing[t].conn] = -1 THEN Idle ELSE [closing[t] EXCEPT !.at = "read"])
                /\ UNCHANGED <<kernelVars, infoVars, socketVars, io>>

closeRead(t) == LET c == closing[t].conn IN
    /\ At(t, "read")
    /\ Go(t, [at |-> "clear", conn |-> c, fd |-> m_fd[c]])
    /\ UNCHANGED <<kernelVars, infoVars, socketVars, io>>

\* Mutant: m_refSocket is dropped with m_fd, before the protocol is told.
closeClear_DropsRef(t) == LET c == closing[t].conn IN
    /\ At(t, "clear")
    /\ Go(t, [closing[t] EXCEPT !.at = "unreg"])
    /\ m_fd' = [m_fd EXCEPT ![c] = -1]
    /\ m_refSocket' = [m_refSocket EXCEPT ![c] = FALSE]
    /\ UNCHANGED <<kernelVars, infoVars, posted, io>>
closeClear(t) ==
    /\ At(t, "clear")
    /\ Go(t, [closing[t] EXCEPT !.at = "unreg"])
    /\ m_fd' = [m_fd EXCEPT ![closing[t].conn] = -1]
    /\ UNCHANGED <<kernelVars, infoVars, m_refSocket, posted, io>>

\* Mutant: the descriptor is not given to safeClosefd.
unregfd_Leaks(t) == LET f == closing[t].fd IN
    /\ At(t, "unreg")
    /\ m_allIOinfo' = Without(m_allIOinfo, f)
    /\ Go(t, [closing[t] EXCEPT !.at = "post"])
    /\ UNCHANGED <<m_listFuncToRun, kernelVars, socketVars, io>>
\* unregfd(): the IO thread closes the descriptor when the round's callbacks have run.
\* By now f may be -1, or closed by the other thread and another connection's.
unregfd(t) == LET f == closing[t].fd IN
    /\ At(t, "unreg")
    /\ \/ /\ f \in DOMAIN m_allIOinfo
          /\ m_listFuncToRun' = Append(m_listFuncToRun, f)
          /\ m_allIOinfo' = Without(m_allIOinfo, f)
       \/ f \notin DOMAIN m_allIOinfo /\ UNCHANGED infoVars
    /\ Go(t, [closing[t] EXCEPT !.at = "post"])
    /\ UNCHANGED <<kernelVars, socketVars, io>>

\* The protocol is told, with whatever m_refSocket is by now; then that is dropped.
closePost(t) == LET c == closing[t].conn IN
    /\ At(t, "post")
    /\ posted' = [posted EXCEPT ![c] = Append(@, [type |-> "BROKEN", sock |-> m_refSocket[c]])]
    /\ Go(t, [closing[t] EXCEPT !.at = "drop"])
    /\ UNCHANGED <<kernelVars, infoVars, m_fd, m_refSocket, io>>

closeDrop(t) ==
    /\ At(t, "drop")
    /\ m_refSocket' = [m_refSocket EXCEPT ![closing[t].conn] = FALSE]
    /\ Go(t, Idle)
    /\ UNCHANGED <<kernelVars, infoVars, m_fd, posted, io>>

-----------------------------------------------------------------------------
PeerSteps == \E c \in Conn : Arrive(c) \/ PeerSends(c) \/ PeerCloses(c) \/ PeerResets(c)
CloseSteps(t) == \/ closeTest(t) \/ closeRead(t) \/ closeClear(t)
                 \/ unregfd(t) \/ closePost(t) \/ closeDrop(t)
IOSteps == \/ epoll_wait \/ collect \/ handleAccept \/ handleEvent \/ handleRecv
           \/ safeClosefd \/ roundDone \/ CloseSteps("io")

EventNext == \/ PeerSteps \/ IOSteps
             \/ CloseSteps("handler") \/ \E c \in Conn : handlerCloses(c)

EventSpec == EventInit /\ [][EventNext]_ioVars

\* The IO thread runs as long as it has something to do; who closes a socket ends it.
EventFair == EventSpec /\ WF_ioVars(IOSteps) /\ WF_ioVars(CloseSteps("handler"))

-----------------------------------------------------------------------------
ClosePlaces == {"idle", "recv", "test", "read", "clear", "unreg", "post", "drop"}

\* Type invariant: the variables of the IO thread and the sockets stay in their
\* ranges, and what close() unregisters is a descriptor when nobody else closes.
EventTypeOK == /\ stream \in [Conn -> [sent : 0..MaxData, unread : 0..MaxData, fin : BOOLEAN, rst : BOOLEAN]]
               /\ Range(backlog) \subseteq Conn
               /\ DOMAIN kernel \subseteq Fd /\ Range(kernel) \subseteq Conn
               /\ edge \subseteq Fd \cup {Listening}
               /\ DOMAIN m_allIOinfo \subseteq Fd /\ Range(m_allIOinfo) \subseteq Conn
               /\ Range(m_listFuncToRun) \subseteq Fd
               /\ m_fd \in [Conn -> Fd \cup {-1}]
               /\ m_refSocket \in [Conn -> BOOLEAN]
               /\ \A c \in Conn : Range(posted[c]) \subseteq [type : {"RECV", "BROKEN"}, sock : BOOLEAN]
               /\ io.at \in {"wait", "collect", "callbacks"}
               /\ \A t \in Thread : closing[t].at \in ClosePlaces
               /\ ~HandlerCloses => (At("io", "unreg") => closing["io"].fd \in Fd)

ToClose == m_listFuncToRun \o (IF io.at = "callbacks" THEN io.funcs ELSE <<>>)

\* However two closes of one socket and a descriptor that is used again meet: the
\* handler a descriptor is registered with is that of the connection it denotes,
\* and a descriptor waits to be closed once, unregistered, while it is still open
\* (unregfd erases and defers under the mutex, safeClosefd runs on the IO thread).
DescriptorsAreCurrent ==
    /\ \A f \in DOMAIN m_allIOinfo : f \in DOMAIN kernel /\ kernel[f] = m_allIOinfo[f]
    /\ \A f \in Range(ToClose) : f \in DOMAIN kernel /\ f \notin DOMAIN m_allIOinfo
    /\ \A i, j \in DOMAIN ToClose : i # j => ToClose[i] # ToClose[j]

\* The events that say a connection broke.
Ends(c) == {i \in DOMAIN posted[c] : posted[c][i].type = "BROKEN"}
Closers == IF HandlerCloses THEN 2 ELSE 1

\* However many callbacks one round has for a connection, and whoever else is in its
\* close(): up to the first BROKEN every event has its socket, and after it comes at
\* most what each other thread was about to say, one event (SocketTcp::close() posts
\* before it drops m_refSocket, and m_fd lets a thread pass once).
BrokenEndsIt ==
    \A c \in Conn : /\ \A j \in DOMAIN posted[c] :
                           ~posted[c][j].sock => \E i \in Ends(c) : i < j
                    /\ \A i \in Ends(c) : Len(posted[c]) < i + Closers

\* Descriptors, registrations and what protocols are told agree.
SocketsAreServed == EventTypeOK /\ DescriptorsAreCurrent /\ BrokenEndsIt

\* Of the events that carry their socket, the one that says it broke comes once and
\* last: what the comment "called back when a connection breaks" and the one test of
\* m_fd suggest. Two threads in close() refute it.
BrokenOnceAndLast ==
    \A c \in Conn : \A i, j \in DOMAIN posted[c] :
        i < j /\ posted[c][i].type = "BROKEN" /\ posted[c][i].sock => ~posted[c][j].sock

\* The connection's socket is open, but its descriptor is not registered with it.
Unregistered(c) == m_fd[c] # -1 /\ ~(m_fd[c] \in DOMAIN m_allIOinfo /\ m_allIOinfo[m_fd[c]] = c)

\* An open socket is registered: what close() unregisters is its own descriptor and
\* no other's. Two threads that have both read m_fd refute it.
SocketsAreRegistered == \A c \in Conn : ~Unregistered(c)

\* The protocol is never handed an event without its socket: the handlers use it
\* through SharedPtr, whose operator asserts FF_ASSERT(NULL != m_dest_ptr).
EventsHaveTheirSocket == \A c \in Conn : \A i \in DOMAIN posted[c] : posted[c][i].sock

Told(c) == \E i \in DOMAIN posted[c] : posted[c][i].type = "BROKEN"

\* A connection that was reset is at last closed and reported to its protocol (EPOLLERR
\* and EPOLLHUP come whatever was read), whichever of the two threads in its close() is
\* first; it is closed and not reported only where the close() of another connection,
\* which had its descriptor before, has unregistered it.
ResetsAreReported ==
    \A c \in Conn : stream[c].rst /\ m_fd[c] # -1 ~>
                        (Told(c) \/ Unregistered(c)) /\ c \notin Range(kernel)

\* A connection whose peer closed it is at last reported: FFBroker::handleBroken is
\* "called back when a connection breaks".
BreaksAreReported == \A c \in Conn : Ended(c) /\ m_fd[c] # -1 ~> Told(c)
=============================================================================
