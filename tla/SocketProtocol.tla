--------------------------- MODULE SocketProtocol ---------------------------
(***************************************************************************)
(* From what read() returns to messages: SocketProtocol::handleSocketEvent *)
(* (fflib/net/socket_protocol.h), which first asks WSProtocol::handleRecv  *)
(* (wsprotocol.h) whether the peer speaks WebSocket and otherwise puts     *)
(* binary messages together (message.h).  TCP may cut the stream anywhere: *)
(* one read brings any number of bytes of it.                              *)
(*                                                                         *)
(* A byte is a record of its value and, for text, of what is searched for  *)
(* in it; "GET", a header, the empty line that ends a request and a        *)
(* masking key are one unit each, and so is every character of a body.     *)
(***************************************************************************)
EXTENDS Integers, Sequences, FiniteSets, SequencesExt

CONSTANTS Text,       \* the characters of bodies; "GET" stands for those three letters
          MaxBody,    \* bound: characters in a body
          MaxMsgs,    \* bound: messages of a binary peer
          MaxFrames   \* bound: frames of a WebSocket peer

ASSUME SocketProtocolAssumption ==
    MaxBody \in Nat /\ MaxMsgs \in Nat /\ MaxFrames \in Nat /\ \A t \in Text : t # ""

VARIABLES script,     \* what the peer sends: its kind and the messages or frames
          incoming,     \* the bytes of it that were not read yet
          buff,       \* buff and left_len of the read that is being handled
          pc,         \* idle (waits for a read), ws, bin (in the loop of each), closed
          got,        \* m_nGotSize
          head,       \* m_message.m_head: the bytes copied to it since clear()
          body,       \* m_message.m_body
          status,     \* WSProtocol::statusWebSocketConnection: 0, 1 or -1
          cache,      \* cacheRecvData
          upgraded,   \* dictParams is not empty
          fragments,  \* dataFragmentation
          isClose,    \* bIsClose
          delivered,     \* what m_funcProtocol was given, in order
          upset       \* history: a read ended within a head or a key, or was mistaken for a request

binVars == <<got, head, body>>
wsVars == <<status, cache, upgraded, fragments, isClose>>
protocolVars == <<script, incoming, buff, pc, binVars, wsVars, delivered, upset>>

-----------------------------------------------------------------------------
(* What peers send. *)

Byte(n) == [text |-> "", value |-> n]
Chars(s) == [i \in 1..Len(s) |-> [text |-> s[i], value |-> 1]]
Body == SeqOf(Text, MaxBody)

SizeBytes == 4   \* sizeof(MessageHead::size)
HeadBytes == 8   \* sizeof(MessageHead)
MaskUnits == 1   \* nMaskingKeyByteNum: a masking key is one unit

\* A binary message as MsgSender writes it: size and cmd in network order, flag 0.
BinBytes(m) == [i \in 1..HeadBytes |-> Byte(CASE i = SizeBytes -> Len(m.body)
                                              [] i = SizeBytes + 2 -> m.cmd
                                              [] OTHER -> 0)] \o Chars(m.body)

\* A frame: FIN and opcode, length, masking key, payload.
FrameBytes(f) == <<[text |-> IF f.fin THEN "FIN" ELSE "more", value |-> f.op], Byte(Len(f.body))>>
                 \o [i \in 1..MaskUnits |-> Byte(0)] \o Chars(f.body)

\* A request without an upgrade, one with it and the key of the protocol's later or
\* earlier form, or with none; the earlier form has eight bytes of key after its end.
Request == <<"GET", "end">>
Upgrade == <<"GET", "Upgrade: websocket", "Sec-WebSocket-Key", "end">>
Upgrade1 == <<"GET", "Upgrade: websocket", "Sec-WebSocket-Key1", "end">>
UpgradeNoKey == <<"GET", "Upgrade: websocket", "end">>
KeyBytes == 8
KeyExt == [i \in 1..KeyBytes |-> [text |-> "key", value |-> 0]]

MoreOp == 0   TextOp == 1   BinaryOp == 2   CloseOp == 8   PingOp == 9   PongOp == 10

Message == [cmd : {1}, body : Body]
Frame == [fin : BOOLEAN, op : {TextOp}, body : {<<t>> : t \in Text}]
         \cup [fin : {TRUE}, op : {PingOp}, body : {<<>>} \cup {<<t>> : t \in Text}]
         \cup [fin : {TRUE}, op : {CloseOp, PongOp}, body : {<<>>}]

Script == [kind : {"bin"}, items : SeqOf(Message, MaxMsgs)]
          \cup [kind : {"ws"}, items : SeqOf(Frame, MaxFrames)]
          \cup [kind : {"ws1"}, items : SeqOf(Frame, 1)]
          \cup [kind : {"http", "nokey"}, items : {<<>>}]

\* A WebSocket peer sends its request, and its frames when it has the answer to it.
FirstBytes(s) == CASE s.kind = "bin" -> FlattenSeq([i \in DOMAIN s.items |-> BinBytes(s.items[i])])
                   [] s.kind = "ws" -> Chars(Upgrade)
                   [] s.kind = "ws1" -> Chars(Upgrade1) \o KeyExt
                   [] s.kind = "nokey" -> Chars(UpgradeNoKey)
                   [] s.kind = "http" -> Chars(Request)
LaterBytes(s) == FlattenSeq([i \in DOMAIN s.items |-> FrameBytes(s.items[i])])

ProtocolInit == /\ script \in Script /\ incoming = FirstBytes(script)
                /\ buff = <<>> /\ pc = "idle"
                /\ got = 0 /\ head = <<>> /\ body = <<>>
                /\ status = 0 /\ cache = <<>> /\ upgraded = FALSE /\ fragments = <<>> /\ isClose = FALSE
                /\ delivered = <<>> /\ upset = FALSE

-----------------------------------------------------------------------------
Has(bytes, t) == \E i \in DOMAIN bytes : bytes[i].text = t
From(s, i) == SubSeq(s, i, Len(s))
Texts(bytes) == [i \in DOMAIN bytes |-> bytes[i].text]

\* read() returned n bytes; once it is known that the peer does not speak
\* WebSocket they are not cached.
Read(n) == /\ pc = "idle"
           /\ buff' = SubSeq(incoming, 1, n) /\ incoming' = From(incoming, n + 1)
           /\ \/ status = -1 /\ pc' = "bin" /\ UNCHANGED cache
              \/ status # -1 /\ pc' = "ws" /\ cache' = cache \o buff'
           /\ UNCHANGED <<script, binVars, status, upgraded, fragments, isClose, delivered, upset>>

-----------------------------------------------------------------------------
(* WSProtocol::handleRecv() until the peer's request is complete. *)

InRequest == pc = "ws" /\ ~upgraded

\* return false: what this read brought is binary, what came before it is lost.
NotWebSocket(why) == /\ InRequest /\ why
                     /\ status' = -1 /\ pc' = "bin"
                     /\ UNCHANGED <<script, incoming, buff, binVars, cache, upgraded, fragments,
                                    isClose, delivered, upset>>

noRequest == NotWebSocket(~Has(cache, "GET"))
noUpgrade == NotWebSocket(Has(cache, "GET") /\ Has(cache, "end") /\ ~Has(cache, "Upgrade: websocket"))

requestWaits == /\ InRequest /\ Has(cache, "GET") /\ ~Has(cache, "end")
                /\ status' = 1 /\ pc' = "idle" /\ buff' = <<>>
                /\ upset' = (upset \/ script.kind = "bin")
                /\ UNCHANGED <<script, incoming, binVars, cache, upgraded, fragments, isClose, delivered>>

\* The line after the request's end: the key, as far as it was read, or, when none of
\* it was, the last line of the request, which is long enough to be taken for one.
KeyRead == Cardinality({i \in DOMAIN cache : cache[i].text = "key"})
KeyIsWhole == Has(cache, "Sec-WebSocket-Key1") => KeyRead = KeyBytes
NoKey == \/ ~Has(cache, "Sec-WebSocket-Key") /\ ~Has(cache, "Sec-WebSocket-Key1")
         \/ Has(cache, "Sec-WebSocket-Key1") /\ KeyRead \in 1..KeyBytes - 1

UpgradeRead == InRequest /\ Has(cache, "GET") /\ Has(cache, "end") /\ Has(cache, "Upgrade: websocket")

\* return false, but the request's lines are in dictParams.
noKey == /\ UpgradeRead /\ NoKey
         /\ status' = -1 /\ upgraded' = TRUE /\ pc' = "bin"
         /\ upset' = (upset \/ script.kind = "ws1")
         /\ UNCHANGED <<script, incoming, buff, binVars, cache, fragments, isClose, delivered>>

\* The handshake is answered; a peer that gets an answer to another key than its own
\* sends no frame.
upgrade == /\ UpgradeRead /\ ~NoKey
           /\ status' = 1 /\ upgraded' = TRUE /\ cache' = <<>>
           /\ pc' = "idle" /\ buff' = <<>>
           /\ \/ KeyIsWhole /\ incoming' = incoming \o LaterBytes(script) /\ UNCHANGED upset
              \/ ~KeyIsWhole /\ upset' = TRUE /\ UNCHANGED incoming
           /\ UNCHANGED <<script, binVars, fragments, isClose, delivered>>

-----------------------------------------------------------------------------
(* ... and then: frame after frame of the cache, then the messages found    *)
(* are posted; a close frame closes the socket at the end.                  *)

HeaderUnits == 2 + MaskUnits
FrameIsWhole == Len(cache) >= HeaderUnits /\ Len(cache) >= HeaderUnits + cache[2].value

Returns == buff' = <<>> /\ pc' = IF isClose' THEN "closed" ELSE "idle"

frameWaits == /\ pc = "ws" /\ upgraded /\ ~FrameIsWhole
              /\ UNCHANGED <<script, incoming, binVars, wsVars, delivered, upset>>
              /\ Returns

\* addRecvPkg() and what handleSocketEvent() makes of it: an empty one is no message.
Posts(payload) == delivered' = IF payload = <<>> THEN delivered
                            ELSE Append(delivered, [cmd |-> 0, body |-> payload])

\* Mutant: the fragments are not forgotten when their message is complete.
Collects_KeepsFragments(fin, payload) ==
    \/ fin /\ Posts(fragments \o payload) /\ UNCHANGED fragments
    \/ ~fin /\ fragments' = fragments \o payload /\ UNCHANGED delivered
Collects(fin, payload) ==
    \/ fin /\ Posts(fragments \o payload) /\ fragments' = <<>>
    \/ ~fin /\ fragments' = fragments \o payload /\ UNCHANGED delivered

\* A ping is answered, and then treated like a frame of data.
frame == LET end == Min({HeaderUnits + cache[2].value, Len(cache)})
             op == cache[1].value
             payload == Texts(SubSeq(cache, HeaderUnits + 1, end)) IN
         /\ pc = "ws" /\ upgraded /\ FrameIsWhole
         /\ cache' = From(cache, end + 1)
         /\ isClose' = (isClose \/ op = CloseOp)
         /\ IF op \in {MoreOp, TextOp, BinaryOp, PingOp} THEN Collects(cache[1].text = "FIN", payload)
            ELSE UNCHANGED <<fragments, delivered>>
         /\ IF cache' = <<>> THEN Returns ELSE UNCHANGED <<pc, buff>>
         /\ UNCHANGED <<script, incoming, binVars, status, upgraded, upset>>

-----------------------------------------------------------------------------
(* The loop of handleSocketEvent() for binary messages. *)

\* m_head.size: in network order until appendHead() has the last byte of the head.
Size(bytes) == LET s == [i \in 1..SizeBytes |-> IF i <= Len(bytes) THEN bytes[i].value ELSE 0] IN
               IF Len(bytes) = HeadBytes THEN FoldLeft(LAMBDA n, b : 256 * n + b, 0, s)
               ELSE FoldRight(LAMBDA b, n : 256 * n + b, s, 0)

\* appendHead(), then appendMsg() of what is left: the bytes the body wants, or all.
InHead == IF got >= HeadBytes THEN 0 ELSE Min({HeadBytes - got, Len(buff)})
Wanted(h) == Min({Size(h) - Len(body), Len(buff) - InHead})

\* The test that ends a message, also made when its head is not complete yet.
IsComplete(h, b) == Len(b) = Size(h)

parse == LET h == head \o SubSeq(buff, 1, InHead)
             b == body \o Texts(SubSeq(buff, InHead + 1, InHead + Wanted(h))) IN
         /\ pc = "bin" /\ buff # <<>>
         /\ buff' = From(buff, InHead + Wanted(h) + 1)
         /\ \/ /\ IsComplete(h, b)
               /\ delivered' = Append(delivered, [cmd |-> IF Len(h) = HeadBytes THEN h[SizeBytes + 2].value ELSE 0,
                                            body |-> b])
               /\ got' = 0 /\ head' = <<>> /\ body' = <<>>
               /\ upset' = (upset \/ Len(h) < HeadBytes)
            \/ /\ ~IsComplete(h, b)
               /\ head' = h /\ body' = b /\ got' = got + InHead + Wanted(h)
               /\ UNCHANGED <<delivered, upset>>
         /\ UNCHANGED <<script, incoming, pc, wsVars>>

binReturns == /\ pc = "bin" /\ buff = <<>>
              /\ pc' = "idle"
              /\ UNCHANGED <<script, incoming, buff, binVars, wsVars, delivered, upset>>

-----------------------------------------------------------------------------
Handle == noRequest \/ noUpgrade \/ requestWaits \/ noKey \/ upgrade \/ frameWaits \/ frame
          \/ parse \/ binReturns
ProtocolNext == (\E n \in 1..Len(incoming) : Read(n)) \/ Handle

ProtocolSpec == ProtocolInit /\ [][ProtocolNext]_protocolVars

-----------------------------------------------------------------------------
\* Type invariant: head and body have no more bytes than they may hold.
ProtocolTypeOK == /\ pc \in {"idle", "ws", "bin", "closed"}
                  /\ status \in {0, 1, -1} /\ upgraded \in BOOLEAN /\ isClose \in BOOLEAN
                  /\ got \in Nat /\ Len(head) <= HeadBytes /\ got = Len(head) + Len(body)
                  /\ body # <<>> => Len(head) = HeadBytes /\ Len(body) < Size(head)

AllRead == incoming = <<>> /\ pc = "idle"

\* Binary messages come out as they were sent, whole, once and in order, and none is
\* held back when all is read, however TCP cuts them: except where a read ends within
\* the bytes of a head that are zero (Size() is 0 then, an empty message is posted and
\* the stream is out of step) or the first read holds "GET" (upset).
MessagesComeAsSent ==
    script.kind = "bin" /\ ~upset => /\ IsPrefix(delivered, script.items)
                                     /\ AllRead => delivered = script.items

\* What the frames of a WebSocket peer say: the payloads of its data frames, joined up
\* to the one with FIN; those after a close frame are not read.
Data(items) == SelectSeq(items, LAMBDA f : f.op = TextOp)
BeforeClose(items) == LET c == {i \in DOMAIN items : items[i].op = CloseOp} IN
                      IF c = {} THEN items ELSE SubSeq(items, 1, (CHOOSE i \in c : \A j \in c : i <= j) - 1)
Joined(frames) ==
    FoldLeft(LAMBDA r, f : IF f.fin THEN [msgs |-> Append(r.msgs, [cmd |-> 0, body |-> r.open \o f.body]),
                                          open |-> <<>>]
                           ELSE [r EXCEPT !.open = @ \o f.body],
             [msgs |-> <<>>, open |-> <<>>], frames).msgs

\* A ping that disturbs: with a payload, or between the fragments of a message.
PingDisturbs(items) ==
    \E i \in DOMAIN items : /\ items[i].op = PingOp
                            /\ \/ items[i].body # <<>>
                               \/ \E j \in 1..i - 1 : /\ items[j].op = TextOp /\ ~items[j].fin
                                                      /\ \A k \in j + 1..i - 1 : items[k].op # TextOp

\* Messages of a WebSocket peer come out whole, once and in order, however they are
\* fragmented, whatever control frames come between messages and however TCP cuts them;
\* only a ping inside a message, or with a payload, is mistaken for data, and a peer of
\* the earlier form has to be lucky: the end of its request and its key must come in one read.
FragmentsAreJoined ==
    script.kind \in {"ws", "ws1"} /\ ~upset /\ ~PingDisturbs(script.items) =>
        /\ IsPrefix(delivered, Joined(Data(script.items)))
        /\ AllRead \/ pc = "closed" => IsPrefix(Joined(Data(BeforeClose(script.items))), delivered)

\* What is handed on is what was sent, for either kind of peer.
MessagesArrive == ProtocolTypeOK /\ MessagesComeAsSent /\ FragmentsAreJoined
=============================================================================
