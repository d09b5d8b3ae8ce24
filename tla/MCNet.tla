------------------------------- MODULE MCNet -------------------------------
(***************************************************************************)
(* Instances of IOEventEpoll, SendBuffer and SocketProtocol for TLC: what  *)
(* the IO thread does with descriptors, with what is sent and with what is *)
(* read.  The modules share no variable, so their behaviours are explored  *)
(* side by side and not interleaved: a behaviour is one of the part chosen *)
(* at its start, and the variables of the other parts stay as they are.    *)
(***************************************************************************)
EXTENDS IOEventEpoll, SendBuffer, SocketProtocol, TLC

VARIABLE part

netVars == <<part, ioVars, sendVars, protocolVars>>

Events(step)  == part = "events" /\ step /\ UNCHANGED <<part, sendVars, protocolVars>>
Sending(step) == part = "sending" /\ step /\ UNCHANGED <<part, ioVars, protocolVars>>
Framing(step) == part = "framing" /\ step /\ UNCHANGED <<part, ioVars, sendVars>>

NetInit == /\ part \in {"events", "sending", "framing"}
           /\ EventInit /\ SendInit /\ ProtocolInit
           /\ part # "framing" => script.kind = "http"

NetNext == Events(EventNext) \/ Sending(SendNext) \/ Framing(ProtocolNext)

\* The fairness of EventFair and SendFair.
NetFair == /\ NetInit /\ [][NetNext]_netVars
           /\ WF_netVars(Events(IOSteps)) /\ WF_netVars(Events(CloseSteps("handler")))
           /\ WF_netVars(Sending(IOThread)) /\ WF_netVars(Sending(Drain))

\* The IO thread gets on: what was reset is reported, what is kept is sent.
EventsAreServed == ResetsAreReported /\ BufferDrains
=============================================================================
