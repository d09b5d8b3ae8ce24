----------------------------- MODULE SendBuffer -----------------------------
(***************************************************************************)
(* The sending half of ff::IOEventEpoll (fflib/net/ioevent_epoll.cpp) for  *)
(* one connection: asyncSend() writes what the kernel takes and keeps the  *)
(* rest, runOnce() goes on when EPOLLOUT says there is room again.  Both   *)
(* run under the mutex.                                                    *)
(*                                                                         *)
(* Messages are numbered in the order of their asyncSend(); a unit on the  *)
(* wire carries the number of its message.                                 *)
(***************************************************************************)
EXTENDS Integers, Sequences, SequencesExt, FiniteSets

CONSTANTS MaxSends,   \* bound: how many messages are sent
          MaxSize,   \* bound: units in a message
          Room       \* units the kernel's send buffer holds

ASSUME SendBufferAssumption == MaxSends \in Nat /\ MaxSize \in Nat \ {0} /\ Room \in Nat \ {0}

VARIABLES size,         \* the sizes of the messages sent so far
          sendBuffer,   \* IOInfo::sendBuffer: what is left of messages, [msg, left]
          wire,         \* the units the kernel took
          room,         \* how many more it takes now
          waiting,      \* the kernel refused a unit and will report room (SOCK_NOSPACE)
          out,          \* EPOLLOUT: none, edge (to be reported), reported (by epoll_wait)
          peer          \* the peer: up, or reset

sendVars == <<size, sendBuffer, wire, room, waiting, out, peer>>

SendInit == /\ size = <<>> /\ sendBuffer = <<>> /\ wire = <<>>
            /\ room = Room /\ waiting = FALSE /\ out = "edge" /\ peer = "up"

Units(m, n) == [i \in 1..n |-> m]

-----------------------------------------------------------------------------
\* sendAll() of n units of message m: how many the kernel takes; it refuses one
\* when there are more.
Takes(m, n) == /\ wire' = wire \o Units(m, Min({room, n}))
               /\ room' = room - Min({room, n})
               /\ waiting' = (waiting \/ n > room)

\* asyncSend(): behind what is kept, or straight to the kernel; then only a part
\* that was taken leaves a rest to keep.
asyncSend(n) ==
    LET m == Len(size) + 1 IN
    /\ Len(size) < MaxSends /\ size' = Append(size, n)
    /\ \/ /\ sendBuffer # <<>>
          /\ sendBuffer' = Append(sendBuffer, [msg |-> m, left |-> n])
          /\ UNCHANGED <<wire, room, waiting>>
       \/ /\ sendBuffer = <<>> /\ peer = "up"
          /\ Takes(m, n)
          /\ sendBuffer' = IF room \in 1..n - 1 THEN <<[msg |-> m, left |-> n - room]>> ELSE <<>>
       \/ sendBuffer = <<>> /\ peer = "reset" /\ UNCHANGED <<sendBuffer, wire, room, waiting>>
    /\ UNCHANGED <<out, peer>>

waitForRoom == /\ out = "edge" /\ out' = "reported"
               /\ UNCHANGED <<size, sendBuffer, wire, room, waiting, peer>>

\* A round of the loop over the buffer, with r units of room: what was taken from the
\* first message is cut off, and the message goes when nothing of it is left.
TakeFirst(taken, r) ==
    IF taken.rest = <<>> THEN taken ELSE
    LET first == Head(taken.rest)
        n == Min({r - Len(taken.units), first.left})
    IN  [units |-> taken.units \o Units(first.msg, n),
         rest |-> IF n = first.left THEN Tail(taken.rest)
                  ELSE [taken.rest EXCEPT ![1].left = @ - n]]

\* What the loop takes from buffer: the units, and the rest.  A round that finds no room
\* takes nothing, nor do those after it.
Taken(buffer, r) ==
    LET after[k \in 0..Len(buffer)] ==
            IF k = 0 THEN [units |-> <<>>, rest |-> buffer] ELSE TakeFirst(after[k - 1], r)
    IN  after[Len(buffer)]

\* Mutant: a message of which a part was taken is sent again from its start.
flush_FromStart ==
    LET taken == Taken(sendBuffer, room) IN
    /\ out = "reported" /\ out' = "none"
    /\ wire' = wire \o taken.units
    /\ sendBuffer' = [i \in DOMAIN taken.rest |->
                          [taken.rest[i] EXCEPT !.left = size[taken.rest[i].msg]]]
    /\ room' = room - Len(taken.units)
    /\ waiting' = (waiting \/ taken.rest # <<>>)
    /\ UNCHANGED <<size, peer>>
\* runOnce(), EPOLLOUT: as much as the kernel takes, or nothing any more when the
\* peer is gone.
flush ==
    LET taken == Taken(sendBuffer, room) IN
    /\ out = "reported" /\ out' = "none"
    /\ \/ /\ peer = "up"
          /\ wire' = wire \o taken.units
          /\ sendBuffer' = taken.rest
          /\ room' = room - Len(taken.units)
          /\ waiting' = (waiting \/ taken.rest # <<>>)
       \/ /\ peer = "reset" /\ sendBuffer' = <<>>
          /\ UNCHANGED <<wire, room, waiting>>
    /\ UNCHANGED <<size, peer>>

-----------------------------------------------------------------------------
(* The kernel and the peer. *)

\* The peer reads: an edge when somebody was refused.
Drain == /\ peer = "up" /\ \E k \in 1..Room - room : room' = room + k
         /\ out' = IF waiting THEN "edge" ELSE out
         /\ waiting' = FALSE
         /\ UNCHANGED <<size, sendBuffer, wire, peer>>

Reset == /\ peer = "up" /\ peer' = "reset" /\ out' = "edge"
         /\ UNCHANGED <<size, sendBuffer, wire, room, waiting>>

IOThread == waitForRoom \/ flush
SendNext == (\E n \in 1..MaxSize : asyncSend(n)) \/ IOThread \/ Drain \/ Reset

SendSpec == SendInit /\ [][SendNext]_sendVars
\* The IO thread runs on, and the peer goes on reading or is gone.
SendFair == SendSpec /\ WF_sendVars(IOThread) /\ WF_sendVars(Drain)

-----------------------------------------------------------------------------
Count(m) == Cardinality({i \in DOMAIN wire : wire[i] = m})
InBuffer(m) == \E i \in DOMAIN sendBuffer : sendBuffer[i].msg = m

\* Type invariant: the buffer keeps proper rests of messages that were sent.
SendTypeOK ==
    /\ size \in Seq(1..MaxSize) /\ Len(size) <= MaxSends
    /\ \A i \in DOMAIN sendBuffer : /\ sendBuffer[i].msg \in 1..Len(size)
                                    /\ sendBuffer[i].left \in 1..size[sendBuffer[i].msg]
    /\ wire \in Seq(1..Len(size))
    /\ room \in 0..Room /\ waiting \in BOOLEAN
    /\ out \in {"none", "edge", "reported"} /\ peer \in {"up", "reset"}

\* What goes out is made of whole messages in the order of their asyncSend(), each
\* unit once, except that the last may still be under way with its rest first in
\* the buffer: no message begins inside another, whoever sends and however the
\* kernel splits (asyncSend keeps behind what is kept, runOnce cuts what was taken).
FramesStayWhole ==
    /\ \A i \in 1..Len(wire) - 1 : wire[i] <= wire[i + 1]
    /\ \A m \in Range(wire) : \/ Count(m) = size[m]
                              \/ /\ peer = "up" => sendBuffer # <<>>
                                 /\ sendBuffer # <<>> =>
                                        /\ Head(sendBuffer).msg = m
                                        /\ Count(m) + Head(sendBuffer).left = size[m]
    /\ \A i \in 1..Len(sendBuffer) : \A j \in 1..i - 1 : sendBuffer[j].msg < sendBuffer[i].msg

\* What was sent and what is kept make up the messages.
SendsAreWhole == SendTypeOK /\ FramesStayWhole

\* No message disappears from the stream of a peer that is there: "success ret>=0"
\* says sendAll(), so that one that took nothing yet has not failed.
NothingIsDropped ==
    peer = "up" => \A m \in 1..Len(size) :
        Count(m) = size[m] \/ InBuffer(m)

\* While the peer reads, all that is kept is at last sent, once nothing more is added:
\* no edge is lost between epoll_wait, which takes it, and the round that looks at the
\* buffer.
BufferDrains == sendBuffer # <<>> ~> sendBuffer = <<>>
=============================================================================
