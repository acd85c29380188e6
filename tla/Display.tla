------------------------------- MODULE Display -------------------------------
(***************************************************************************)
(* WebServer::run() as a whole: MessagePump and WsServer side by side.     *)
(* They meet in two handlers of the I/O thread.  The lambda posted by      *)
(* msgThread broadcasts a message of the bus to the WebSocket connections, *)
(* and on_message passes a message of a connection on to the bus.          *)
(***************************************************************************)
EXTENDS MessagePump, SequencesExt

CONSTANTS Conn, Lengths, SizeValues, MaxMessageSize, IdleTimeout, MaxFrames

ASSUME ServerAssumption ==
    /\ SizeValues \in Nat
    /\ Lengths \subseteq Nat
    /\ \A n \in Lengths : n + 4 < SizeValues
    /\ MaxMessageSize \in 0 .. SizeValues - 1
    /\ IdleTimeout \in BOOLEAN
    /\ MaxFrames \in Nat

VARIABLES
    stage, members, queue, writes, closed, armed, expired, socket,
    frame, fragment, size, published, joined, wire, heard, inbox

Server == INSTANCE WsServerRelay WITH MaxMessages <- MaxReceived

serverVars  == <<stage, members, queue, writes, closed, armed, expired, socket,
                 frame, fragment, size, published, joined, wire, heard, inbox>>
displayVars == <<serverVars, vars>>

DisplayInit == Init /\ Server!Init

(***************************************************************************)
(* msgThread, the bus, and the main thread until it runs the I/O service   *)
(***************************************************************************)
PumpStep ==
    /\ main # "terminated"
    /\ Main \/ Pump \/ LinkBreaks
    /\ UNCHANGED serverVars

(***************************************************************************)
(* Handlers of the WebSocket server that do not touch the bridge           *)
(***************************************************************************)
ServerStep(c) ==
    /\ main = "running"
    /\ \/ Server!Handshake(c)
       \/ Server!ReadHeader(c)
       \/ Server!ReceiveControl(c)
       \/ Server!ReceiveFragment(c)
       \/ Server!ReadFails(c)
       \/ Server!Write(c)
       \/ Server!Outside(c)
    /\ UNCHANGED vars

RelayPosted == RunPosted /\ Server!Broadcast

(***************************************************************************)
(* on_message of connection c, for its message number Len(inbox[c]) + 1    *)
(***************************************************************************)
OnMessage(c) ==
    /\ Server!ReceiveMessage(c)
    /\ \/ ForwardCommand([from |-> c, no |-> Len(inbox[c]) + 1])
       \/ IgnoreMessage

DisplayNext ==
    \/ PumpStep
    \/ RelayPosted
    \/ \E c \in Conn : ServerStep(c) \/ OnMessage(c)
    \/ Terminated /\ UNCHANGED serverVars

(***************************************************************************)
(* The fairness is that of the bridge, whose threads are scheduled; the    *)
(* clients of the WebSocket server may do nothing at all.                  *)
(***************************************************************************)
DisplaySpec == DisplayInit /\ [][DisplayNext]_displayVars /\ Fairness

-----------------------------------------------------------------------------

(***************************************************************************)
(* Messages of the bus that a client has been sent: the frame of broadcast *)
(* n carries what the lambda found in `data' when it ran the n-th time.    *)
(***************************************************************************)
Received(c) ==
    LET texts == Server!Texts(wire[c])
    IN  [i \in 1 .. Len(texts) |-> relayed[texts[i].no]]

Promise == INSTANCE Relay WITH
    Client <- Conn,
    published <- Len(relayed),
    phase <- [c \in Conn |-> Server!PhaseOf(c)],
    start <- joined,
    end <- [c \in Conn |-> Server!End(c)],
    got <- [c \in Conn |-> Received(c)]

(***************************************************************************)
(* End to end, bus to browser: a client is sent one contiguous part of the *)
(* messages that arrived from the bus, in their order, each once, with     *)
(* reconnections of the bus and of clients in between.                     *)
(***************************************************************************)
BusReachesClients == Promise!Spec

(***************************************************************************)
(* End to end, browser to bus: commands of one connection are sent in the  *)
(* order in which its messages were read, none twice, and only whole       *)
(* messages that were read.                                                *)
(***************************************************************************)
CommandsInOrder ==
    /\ \A i, j \in 1 .. Len(sent) :
           i < j /\ sent[i].from = sent[j].from => sent[i].no < sent[j].no
    /\ \A i \in 1 .. Len(sent) : sent[i].no \in 1 .. Len(inbox[sent[i].from])
=============================================================================
