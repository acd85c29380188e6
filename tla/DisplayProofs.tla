----------------------------- MODULE DisplayProofs -----------------------------
(***************************************************************************)
(* The display server as a whole, for any number of messages, commands,    *)
(* connections, frames and failures of the link: the bridge between        *)
(* msgThread and the I/O thread, the server's promises kept behind it, and *)
(* the way of the commands back to the bus.                                *)
(***************************************************************************)
EXTENDS Display, SequenceTheorems, TLAPS

Ws == INSTANCE WsServerRelayProofs WITH MaxMessages <- MaxReceived

USE DEF Main, Pump

-----------------------------------------------------------------------------
(* The bridge *)

(***************************************************************************)
(* Why the bridge works: while msgThread is blocked, either its lambda is  *)
(* posted, alone, with references to the `data' and `promise' of this very *)
(* pass, or it has run and the promise is set; at any other time nothing   *)
(* is posted.                                                              *)
(***************************************************************************)
Handover ==
    \/ /\ pump = "blocked"
       /\ promise = "unset"
       /\ posted = <<received>>
       /\ data = received
    \/ /\ posted = << >>
       /\ pump = "blocked" => promise = "set"
       /\ pump = "waiting" => promise = "unset"

BInv == TypeOK /\ Handover /\ RelayedInOrder

(***************************************************************************)
(* A step of the bridge, whatever on_message forwards                      *)
(***************************************************************************)
BridgeStep ==
    \/ Main \/ Pump \/ LinkBreaks
    \/ RunPosted
    \/ \E m : ForwardCommand(m)
    \/ UNCHANGED vars

LEMMA InitBInv == Init => BInv
BY BoundsAssumption DEF Init, BInv, TypeOK, Handover, RelayedInOrder

LEMMA NextBInv == BInv /\ BridgeStep => BInv'
<1> SUFFICES ASSUME BInv, BridgeStep PROVE BInv'
    OBVIOUS
<1> USE DEF BInv, TypeOK, bus
<1>1. CASE StartServer \/ StartFails \/ Launched \/ Connect \/ ConnectFails
           \/ WaitFails \/ NextPass \/ WakeUp \/ LinkBreaks
    <2>1. TypeOK'
        BY <1>1 DEF StartServer, StartFails, Launched, Connect, ConnectFails,
                    WaitFails, NextPass, WakeUp, LinkBreaks
    <2>2. Handover'
        BY <1>1 DEF StartServer, StartFails, Launched, Connect, ConnectFails,
                    WaitFails, NextPass, WakeUp, LinkBreaks, Handover
    <2>3. RelayedInOrder'
        BY <1>1 DEF StartServer, StartFails, Launched, Connect, ConnectFails,
                    WaitFails, NextPass, WakeUp, LinkBreaks, RelayedInOrder
    <2>4. QED
        BY <2>1, <2>2, <2>3
<1>2. CASE TakeMessage
    <2>1. posted = << >> /\ received = Len(relayed)
        BY <1>2 DEF TakeMessage, Handover, RelayedInOrder
    <2>2. posted' = <<received + 1>> /\ data' = received + 1 /\ received' = received + 1
        BY <1>2, <2>1 DEF TakeMessage
    <2>3. TypeOK'
        BY <1>2, <2>2 DEF TakeMessage
    <2>4. Handover'
        BY <1>2, <2>2 DEF TakeMessage, Handover
    <2>5. RelayedInOrder'
        BY <1>2, <2>1, <2>2 DEF TakeMessage, RelayedInOrder
    <2>6. QED
        BY <2>3, <2>4, <2>5
<1>3. CASE RunPosted
    <2>1. posted = <<received>> /\ data = received /\ pump = "blocked"
        BY <1>3 DEF RunPosted, Handover
    <2>2. received = Len(relayed) + 1
        BY <2>1 DEF RelayedInOrder
    <2>3. posted' = << >> /\ relayed' = Append(relayed, received)
        BY <1>3, <2>1 DEF RunPosted
    <2>4. TypeOK'
        BY <1>3, <2>3 DEF RunPosted
    <2>5. Handover'
        BY <1>3, <2>1, <2>3 DEF RunPosted, Handover
    <2>6. RelayedInOrder'
        BY <1>3, <2>2, <2>3 DEF RunPosted, RelayedInOrder
    <2>7. QED
        BY <2>4, <2>5, <2>6
<1>4. ASSUME NEW m, ForwardCommand(m)
      PROVE  BInv'
    BY <1>4 DEF ForwardCommand, Handover, RelayedInOrder
<1>5. CASE UNCHANGED vars
    BY <1>5 DEF vars, Handover, RelayedInOrder
<1>6. QED
    BY <1>1, <1>2, <1>3, <1>4, <1>5 DEF BridgeStep


LEMMA NextBridge == [Next]_vars => BridgeStep
BY DEF Next, BridgeStep, Terminated

LEMMA DisplayBridge == [DisplayNext]_displayVars => BridgeStep
BY DEF DisplayNext, PumpStep, RelayPosted, ServerStep, OnMessage, IgnoreMessage,
       Terminated, displayVars, BridgeStep

(***************************************************************************)
(* The bridge loses, repeats and reorders nothing, alone and with the      *)
(* WebSocket server at its end.                                            *)
(***************************************************************************)
THEOREM BridgeInOrder ==
    (Spec => []RelayedInOrder) /\ (DisplaySpec => []RelayedInOrder)
<1>1. BInv => RelayedInOrder
    BY DEF BInv
<1>2. Spec => []RelayedInOrder
    BY <1>1, InitBInv, NextBInv, NextBridge, PTL DEF Spec
<1>3. DisplayInit => BInv
    BY InitBInv DEF DisplayInit
<1>4. DisplaySpec => []RelayedInOrder
    BY <1>1, <1>3, NextBInv, DisplayBridge, PTL DEF DisplaySpec
<1>5. QED
    BY <1>2, <1>4

(***************************************************************************)
(* No posted lambda holds a dangling or a stale reference.                 *)
(***************************************************************************)
THEOREM ReferencesStayValid ==
    (Spec => []ReferencesValid) /\ (DisplaySpec => []ReferencesValid)
<1>1. BInv => ReferencesValid
    BY DEF BInv, TypeOK, Handover, ReferencesValid
<1>2. Spec => []ReferencesValid
    BY <1>1, InitBInv, NextBInv, NextBridge, PTL DEF Spec
<1>3. DisplayInit => BInv
    BY InitBInv DEF DisplayInit
<1>4. DisplaySpec => []ReferencesValid
    BY <1>1, <1>3, NextBInv, DisplayBridge, PTL DEF DisplaySpec
<1>5. QED
    BY <1>2, <1>4

-----------------------------------------------------------------------------
(* The WebSocket server behind the bridge *)

LEMMA ServerConfig == Ws!ConfigAssumption
BY ServerAssumption, BoundsAssumption DEF Ws!ConfigAssumption

(***************************************************************************)
(* Server and Ws are the same server: one without, one with its proofs.    *)
(***************************************************************************)
LEMMA SameActions ==
    ASSUME NEW c \in Conn
    PROVE  /\ Server!Handshake(c) <=> Ws!Handshake(c)
           /\ Server!ReadHeader(c) <=> Ws!ReadHeader(c)
           /\ Server!ReceiveControl(c) <=> Ws!ReceiveControl(c)
           /\ Server!ReceiveFragment(c) <=> Ws!ReceiveFragment(c)
           /\ Server!ReceiveMessage(c) <=> Ws!ReceiveMessage(c)
           /\ Server!ReadFails(c) <=> Ws!ReadFails(c)
           /\ Server!Write(c) <=> Ws!Write(c)
           /\ Server!Outside(c) <=> Ws!Outside(c)
<1>1. Server!Handshake(c) <=> Ws!Handshake(c)
    BY DEF Server!Handshake, Ws!Handshake, Server!Upgrade, Ws!Upgrade,
           Server!Refuse, Ws!Refuse, Server!NoEndpoint, Ws!NoEndpoint,
           Server!HandshakeWritten, Ws!HandshakeWritten,
           Server!HandshakeFails, Ws!HandshakeFails, Server!WritesEnd,
           Ws!WritesEnd, Server!RefusalEnds, Ws!RefusalEnds, Server!StopReading, Ws!StopReading,
           Server!TakeSocket, Ws!TakeSocket, Server!AfterWrite,
           Ws!AfterWrite, Server!SetTimeout, Ws!SetTimeout,
           Server!CancelTimeout, Ws!CancelTimeout, Server!reading,
           Ws!reading, Server!sending, Ws!sending, Server!timer,
           Ws!timer, Server!Handshakes, Ws!Handshakes
<1>a. Server!MidMessage(c) <=> Ws!MidMessage(c)
    BY DEF Server!MidMessage, Ws!MidMessage, Server!Only, Ws!Only, Server!Positions,
           Ws!Positions, Server!Last, Ws!Last, Server!FramesOf, Ws!FramesOf,
           Server!Data, Ws!Data
<1>2. Server!ReadHeader(c) <=> Ws!ReadHeader(c)
    BY <1>a DEF Server!ReadHeader, Ws!ReadHeader, Server!ReadUnmasked,
           Ws!ReadUnmasked, Server!ReadHead, Ws!ReadHead,
           Server!ReadLongHead, Ws!ReadLongHead, Server!ReadLength,
           Ws!ReadLength, Server!ReadBigContent, Ws!ReadBigContent,
           Server!StartContent, Ws!StartContent, Server!HeadArrives,
           Ws!HeadArrives, Server!Conforms, Ws!Conforms, Server!TooBig,
           Ws!TooBig, Server!SendClose, Ws!SendClose, Server!Send,
           Ws!Send, Server!CloseFrame, Ws!CloseFrame, Server!StopReading,
           Ws!StopReading, Server!SetTimeout, Ws!SetTimeout,
           Server!CancelTimeout, Ws!CancelTimeout, Server!reading,
           Ws!reading, Server!sending, Ws!sending, Server!timer,
           Ws!timer, Server!Frames, Ws!Frames, Server!FramesOf,
           Ws!FramesOf, Server!Data, Ws!Data, Server!Control, Ws!Control
<1>3. Server!ReceiveControl(c) <=> Ws!ReceiveControl(c)
    BY DEF Server!ReceiveControl, Ws!ReceiveControl, Server!ReceiveClose,
           Ws!ReceiveClose, Server!ReceivePing, Ws!ReceivePing,
           Server!ReceivePong, Ws!ReceivePong, Server!ContentArrives,
           Ws!ContentArrives, Server!StreamLimit, Ws!StreamLimit,
           Server!NextMessage, Ws!NextMessage,
           Server!SendClose, Ws!SendClose, Server!Send, Ws!Send,
           Server!CloseFrame, Ws!CloseFrame, Server!StopReading,
           Ws!StopReading, Server!SetTimeout, Ws!SetTimeout,
           Server!CancelTimeout, Ws!CancelTimeout, Server!Opcode,
           Ws!Opcode, Server!No, Ws!No
<1>4. Server!ReceiveFragment(c) <=> Ws!ReceiveFragment(c)
    BY DEF Server!ReceiveFragment, Ws!ReceiveFragment,
           Server!ContentArrives, Ws!ContentArrives,
           Server!StreamLimit, Ws!StreamLimit, Server!NextMessage,
           Ws!NextMessage, Server!SetTimeout, Ws!SetTimeout,
           Server!Opcode, Ws!Opcode, Server!No, Ws!No, Server!InMessage,
           Ws!InMessage, Server!Fragmented, Ws!Fragmented, Server!Data,
           Ws!Data
<1>5. Server!ReceiveMessage(c) <=> Ws!ReceiveMessage(c)
    BY DEF Server!ReceiveMessage, Ws!ReceiveMessage,
           Server!ContentArrives, Ws!ContentArrives,
           Server!StreamLimit, Ws!StreamLimit, Server!NextMessage,
           Ws!NextMessage, Server!SetTimeout, Ws!SetTimeout,
           Server!Opcode, Ws!Opcode, Server!No, Ws!No, Server!InMessage,
           Ws!InMessage, Server!Fragmented, Ws!Fragmented, Server!Data,
           Ws!Data
<1>6. Server!ReadFails(c) <=> Ws!ReadFails(c)
    BY DEF Server!ReadFails, Ws!ReadFails, Server!StopReading,
           Ws!StopReading, Server!CancelTimeout, Ws!CancelTimeout,
           Server!reading, Ws!reading, Server!sending, Ws!sending,
           Server!Reads, Ws!Reads
<1>7. Server!Write(c) <=> Ws!Write(c)
    BY DEF Server!Write, Ws!Write, Server!WriteDone, Ws!WriteDone,
           Server!WriteFails, Ws!WriteFails, Server!WritesEnd,
           Ws!WritesEnd, Server!AfterWrite,
           Ws!AfterWrite, Server!SetTimeout, Ws!SetTimeout,
           Server!reading, Ws!reading
<1>8. Server!Outside(c) <=> Ws!Outside(c)
    BY DEF Server!Outside, Ws!Outside, Server!TimerExpires,
           Ws!TimerExpires, Server!RunTimer, Ws!RunTimer,
           Server!PeerFinishes, Ws!PeerFinishes,
           Server!PeerGone, Ws!PeerGone, Server!Alive, Ws!Alive,
           Server!ShutDown, Ws!ShutDown, Server!Handshakes,
           Ws!Handshakes, Server!Reads, Ws!Reads, Server!reading,
           Ws!reading, Server!sending, Ws!sending, Server!timer, Ws!timer
<1>9. QED
    BY <1>1, <1>2, <1>3, <1>4, <1>5, <1>6, <1>7, <1>8

LEMMA ServerNext == [DisplayNext]_displayVars => [Ws!Next]_(Ws!vars)
<1> SUFFICES ASSUME [DisplayNext]_displayVars PROVE [Ws!Next]_(Ws!vars)
    OBVIOUS
<1>1. CASE PumpStep \/ (Terminated /\ UNCHANGED serverVars) \/ UNCHANGED displayVars
    BY <1>1 DEF PumpStep, displayVars, serverVars, Ws!vars, Ws!reading, Ws!sending,
                Ws!timer
<1>2. CASE RelayPosted
    <2>1. Ws!Broadcast
        BY <1>2 DEF RelayPosted, Server!Broadcast, Ws!Broadcast, Server!reading, Ws!reading
    <2>2. QED
        BY <2>1 DEF Ws!Next
<1>3. ASSUME NEW c \in Conn, ServerStep(c) \/ OnMessage(c)
      PROVE  [Ws!Next]_(Ws!vars)
    BY <1>3, SameActions DEF ServerStep, OnMessage, Ws!Next
<1>4. QED
    BY <1>1, <1>2, <1>3 DEF DisplayNext

(***************************************************************************)
(* Whatever the server promises alone it promises behind the bridge.       *)
(***************************************************************************)
SInv == Ws!IInv /\ Ws!SInv /\ Ws!Within

LEMMA InitServer == DisplayInit => SInv
<1>1. Server!Init => Ws!Init
    BY DEF Server!Init, Ws!Init, Server!NoFrame, Ws!NoFrame
<1>2. QED
    BY <1>1, ServerConfig, Ws!InitIInv, Ws!InitSInv, Ws!InitWithin DEF DisplayInit, SInv

LEMMA NextServer == SInv /\ [DisplayNext]_displayVars => SInv'
BY ServerConfig, ServerNext, Ws!NextIInv, Ws!NextSInv, Ws!NextWithin DEF SInv

-----------------------------------------------------------------------------
(* From the bus to the browsers *)

(***************************************************************************)
(* Every lambda broadcasts once.                                           *)
(***************************************************************************)
Counted == published = Len(relayed)

LEMMA InitCounted == DisplayInit => Counted
BY DEF DisplayInit, Init, Server!Init, Counted

LEMMA NextCounted ==
    BInv /\ SInv /\ Counted /\ [DisplayNext]_displayVars => Counted'
<1> SUFFICES ASSUME BInv, SInv, Counted, [DisplayNext]_displayVars PROVE Counted'
    OBVIOUS
<1>1. CASE RelayPosted
    <2>1. relayed \in Seq(Nat) /\ data \in Nat
        BY DEF BInv, TypeOK
    <2>2. relayed' = Append(relayed, data) /\ published' = published + 1
        BY <1>1 DEF RelayPosted, RunPosted, Server!Broadcast
    <2>3. QED
        BY <2>1, <2>2, AppendProperties DEF Counted
<1>2. CASE PumpStep \/ (Terminated /\ UNCHANGED serverVars) \/ UNCHANGED displayVars
    <2>1. relayed' = relayed /\ published' = published
        BY <1>2 DEF PumpStep, StartServer, StartFails, Launched, Connect, ConnectFails,
              TakeMessage, WaitFails, NextPass, WakeUp, LinkBreaks, Terminated,
              displayVars, serverVars, vars
    <2>2. QED
        BY <2>1 DEF Counted
<1>3. ASSUME NEW c \in Conn, ServerStep(c) \/ OnMessage(c)
      PROVE  Counted'
    <2>1. relayed' = relayed
        BY <1>3 DEF ServerStep, OnMessage, ForwardCommand, IgnoreMessage, vars
    <2>2. Ws!Acts(c)
        BY <1>3, SameActions DEF ServerStep, OnMessage, Ws!Acts
    <2>3. published' = published
        BY <2>2, ServerConfig, Ws!PublishedKept
    <2>4. QED
        BY <2>1, <2>3 DEF Counted
<1>4. QED
    BY <1>1, <1>2, <1>3 DEF DisplayNext

(***************************************************************************)
(* The frame of broadcast n carries message n of the bus.                  *)
(***************************************************************************)
Carried == \A c \in Conn : Received(c) = Ws!Got(c)

LEMMA MessagesCarried == BInv /\ SInv /\ Counted => Carried
<1> SUFFICES ASSUME BInv, SInv, Counted, NEW c \in Conn
             PROVE  Received(c) = Ws!Got(c)
    BY DEF Carried
<1> DEFINE t == Ws!Texts(wire[c])
<1>1. Server!Texts(wire[c]) = t
    BY DEF Server!Texts, Ws!Texts, Server!Only, Ws!Only, Server!Positions, Ws!Positions
<1>2. /\ Len(t) \in Nat /\ Len(t) <= Len(Ws!Texts(Ws!Deliverable(c)))
      /\ Len(Ws!Texts(Ws!Deliverable(c))) \in Nat
    BY ServerConfig, Ws!Reach DEF SInv
<1>3. joined[c] \in Nat /\ published \in Nat
    BY DEF SInv, Ws!IInv, Ws!TypeOK
<1>4. joined[c] + Len(t) <= published
    BY <1>2, <1>3 DEF SInv, Ws!Within, Ws!End
<1>5. \A i \in 1 .. Len(t) : t[i].no = joined[c] + i
    BY DEF SInv, Ws!SInv, Ws!SentRight, Ws!GapRight, Ws!Consecutive
<1> HIDE DEF t
<1>6. \A k \in 1 .. published : relayed[k] = k
    BY DEF BInv, RelayedInOrder, Counted
<1>7. \A i \in 1 .. Len(t) : relayed[t[i].no] = t[i].no
    <2> SUFFICES ASSUME NEW i \in 1 .. Len(t) PROVE relayed[t[i].no] = t[i].no
        OBVIOUS
    <2> DEFINE k == joined[c] + i
    <2>1. k \in 1 .. published
        BY <1>2, <1>3, <1>4
    <2>2. t[i].no = k
        BY <1>5
    <2> HIDE DEF k
    <2>3. QED
        BY <1>6, <2>1, <2>2
<1>8. Received(c) = [i \in 1 .. Len(t) |-> relayed[t[i].no]]
    BY <1>1 DEF Received
<1>9. Ws!Got(c) = [i \in 1 .. Len(t) |-> t[i].no]
    BY DEF Ws!Got, Ws!Numbers, t
<1>10. QED
    BY <1>7, <1>8, <1>9

(***************************************************************************)
(* Relay, as it is made out in the server, is Relay for the whole program. *)
(***************************************************************************)
LEMMA SameRelay ==
    /\ [c \in Conn |-> Server!PhaseOf(c)] = [c \in Conn |-> Ws!PhaseOf(c)]
    /\ [c \in Conn |-> Server!End(c)] = [c \in Conn |-> Ws!End(c)]
<1>1. ASSUME NEW c \in Conn
      PROVE  Server!PhaseOf(c) = Ws!PhaseOf(c)
    BY DEF Server!PhaseOf, Ws!PhaseOf, Server!Handshakes, Ws!Handshakes
<1>2. ASSUME NEW c \in Conn
      PROVE  Server!End(c) = Ws!End(c)
    BY DEF Server!End, Ws!End, Server!Deliverable, Ws!Deliverable, Server!Output, Ws!Output,
           Server!Texts, Ws!Texts, Server!Only, Ws!Only, Server!Positions, Ws!Positions
<1>3. QED
    BY <1>1, <1>2

Agree ==
    /\ [c \in Conn |-> Server!PhaseOf(c)] = [c \in Conn |-> Ws!PhaseOf(c)]
    /\ [c \in Conn |-> Server!End(c)] = [c \in Conn |-> Ws!End(c)]
    /\ [c \in Conn |-> Received(c)] = [c \in Conn |-> Ws!Got(c)]
    /\ Len(relayed) = published

LEMMA RelayAgrees == BInv /\ SInv /\ Counted => Agree
BY SameRelay, MessagesCarried DEF Agree, Carried, Counted

LEMMA AgreedStep ==
    ASSUME Agree, Agree', [Ws!Promise!Next]_(Ws!Promise!vars)
    PROVE  [Promise!Next]_(Promise!vars)
<1> USE DEF Agree
<1>1. CASE UNCHANGED Ws!Promise!vars
    BY <1>1 DEF Promise!vars, Ws!Promise!vars
<1>2. CASE Ws!Promise!Publish
    BY <1>2 DEF Promise!Publish, Ws!Promise!Publish, Promise!Next
<1>3. ASSUME NEW c \in Conn, Ws!Promise!Open(c)
      PROVE  Promise!Next
    BY <1>3 DEF Promise!Open, Ws!Promise!Open, Promise!Next
<1>4. ASSUME NEW c \in Conn, Ws!Promise!TurnAway(c)
      PROVE  Promise!Next
    BY <1>4 DEF Promise!TurnAway, Ws!Promise!TurnAway, Promise!Next
<1>5. ASSUME NEW c \in Conn, Ws!Promise!Deliver(c)
      PROVE  Promise!Next
    BY <1>5 DEF Promise!Deliver, Ws!Promise!Deliver, Promise!Due, Ws!Promise!Due, Promise!Next
<1>6. ASSUME NEW c \in Conn, Ws!Promise!Leave(c)
      PROVE  Promise!Next
    BY <1>6 DEF Promise!Leave, Ws!Promise!Leave, Promise!Next
<1>7. QED
    BY <1>1, <1>2, <1>3, <1>4, <1>5, <1>6 DEF Ws!Promise!Next

LEMMA AgreedInit == DisplayInit /\ Agree => Promise!Init
<1> SUFFICES ASSUME DisplayInit, Agree PROVE Promise!Init
    OBVIOUS
<1>1. Ws!Init
    BY DEF DisplayInit, Server!Init, Ws!Init, Server!NoFrame, Ws!NoFrame
<1>2. Ws!Promise!Init
    BY <1>1, ServerConfig, Ws!RelayInit
<1>3. QED
    BY <1>2 DEF Agree, Promise!Init, Ws!Promise!Init

LEMMA RelayMoves ==
    ASSUME SInv, SInv', Agree, Agree', [DisplayNext]_displayVars
    PROVE  [Promise!Next]_(Promise!vars)
<1>1. [Ws!Promise!Next]_(Ws!Promise!vars)
    BY ServerConfig, ServerNext, Ws!RelayNext DEF SInv
<1>2. QED
    BY <1>1, AgreedStep

(***************************************************************************)
(* Bus to browser: a client is sent one contiguous part of the messages    *)
(* that arrived from the bus, through failures of the link, of writes and  *)
(* of connections, and with clients that come and go.                      *)
(***************************************************************************)
THEOREM ClientsSeeTheBus == DisplaySpec => BusReachesClients
<1>1. DisplayInit => BInv
    BY InitBInv DEF DisplayInit
<1>2. SInv /\ SInv' /\ Agree /\ Agree' /\ [DisplayNext]_displayVars
          => [Promise!Next]_(Promise!vars)
    BY RelayMoves
<1>3. QED
    BY <1>1, <1>2, NextBInv, DisplayBridge, InitServer, NextServer, InitCounted,
       NextCounted, RelayAgrees, AgreedInit, PTL
       DEF DisplaySpec, BusReachesClients, Promise!Spec

-----------------------------------------------------------------------------
(* From the browsers to the bus *)

Command == [from : Conn, no : Nat]

CInv == sent \in Seq(Command) /\ CommandsInOrder

LEMMA InitCInv == DisplayInit => CInv
BY DEF DisplayInit, Init, CInv, CommandsInOrder

(***************************************************************************)
(* on_message passes the last message read on, or drops it: either way it  *)
(* comes after all that were passed on before.                             *)
(***************************************************************************)
LEMMA OnMessageStep ==
    ASSUME SInv, CInv, NEW c \in Conn, OnMessage(c)
    PROVE  CInv'
<1> USE DEF CInv
<1> DEFINE n == Len(inbox[c])
           command == [from |-> c, no |-> n + 1]
<1>0. inbox \in [Conn -> Seq(Seq(Nat))]
    BY DEF SInv, Ws!IInv, Ws!TypeOK
<1>1. inbox[c] \in Seq(Seq(Nat)) /\ n \in Nat /\ command \in Command
    BY <1>0, LenProperties DEF Command
<1>2. Ws!ReceiveMessage(c)
    BY SameActions DEF OnMessage
<1>3. inbox' = [inbox EXCEPT ![c] = Append(inbox[c], Ws!InMessage(c))]
    BY <1>2 DEF Ws!ReceiveMessage
<1>4. Ws!InMessage(c) \in Seq(Nat)
    BY <1>2, ServerConfig, Ws!HeardType DEF Ws!ReceiveMessage, SInv
<1>5. /\ Len(inbox'[c]) = n + 1
      /\ \A d \in Conn \ {c} : inbox'[d] = inbox[d]
    <2>1. Len(Append(inbox[c], Ws!InMessage(c))) = n + 1
        BY <1>1, <1>4, AppendProperties
    <2>2. QED
        BY <1>0, <1>3, <2>1
<1>6. sent' = sent \/ sent' = Append(sent, command)
    BY DEF OnMessage, ForwardCommand, IgnoreMessage, vars
<1> HIDE DEF command, n
<1>7. sent' \in Seq(Command)
    <2>1. sent \in Seq(Command) /\ Append(sent, command) \in Seq(Command)
        BY <1>1, AppendProperties
    <2>2. QED
        BY <1>6, <2>1
<1>8. \A d \in Conn : Len(inbox[d]) \in Nat /\ Len(inbox[d]) <= Len(inbox'[d])
    <2>1. \A d \in Conn : inbox[d] \in Seq(Seq(Nat))
        BY <1>0
    <2>2. \A d \in Conn : Len(inbox[d]) \in Nat
        BY <2>1, LenProperties
    <2>3. Len(inbox[c]) <= Len(inbox'[c])
        BY <1>1, <1>5 DEF n
    <2>4. \A d \in Conn \ {c} : Len(inbox[d]) <= Len(inbox'[d])
        BY <1>5, <2>2
    <2>5. QED
        BY <2>2, <2>3, <2>4
<1>9. \A i \in 1 .. Len(sent) : sent[i].no \in 1 .. Len(inbox'[sent[i].from])
    <2>1. ASSUME NEW i \in 1 .. Len(sent)
          PROVE  sent[i].no \in 1 .. Len(inbox'[sent[i].from])
        <3>1. sent[i].from \in Conn
            <4>1. sent[i] \in Command
                BY ElementOfSeq
            <4>2. QED
                BY <4>1 DEF Command
        <3>2. sent[i].no \in 1 .. Len(inbox[sent[i].from])
            BY DEF CommandsInOrder
        <3>3. /\ Len(inbox[sent[i].from]) \in Nat
              /\ Len(inbox[sent[i].from]) <= Len(inbox'[sent[i].from])
            BY <1>8, <3>1
        <3>4. QED
            BY <3>2, <3>3, <1>5, <1>1
    <2>2. QED
        BY <2>1
<1>10. CASE sent' = sent
    <2>1. CommandsInOrder'
        BY <1>10, <1>9 DEF CommandsInOrder
    <2>2. QED
        BY <1>7, <2>1
<1>11. CASE sent' = Append(sent, command)
    <2>1. /\ Len(sent') = Len(sent) + 1
          /\ \A i \in 1 .. Len(sent) : sent'[i] = sent[i] /\ sent[i] \in Command
          /\ sent'[Len(sent) + 1] = command
          /\ Len(sent) \in Nat
        BY <1>1, <1>11, AppendProperties, ElementOfSeq, LenProperties
    <2>2. command.from = c /\ command.no = n + 1
        BY DEF command
    <2>3. ASSUME NEW i \in 1 .. Len(sent')
          PROVE  sent'[i].no \in 1 .. Len(inbox'[sent'[i].from])
        <3>1. CASE i = Len(sent) + 1
            BY <1>1, <1>5, <2>1, <2>2, <3>1
        <3>2. CASE i \in 1 .. Len(sent)
            BY <1>9, <2>1, <3>2
        <3>3. QED
            BY <2>1, <3>1, <3>2
    <2>4. ASSUME NEW i \in 1 .. Len(sent'), NEW j \in 1 .. Len(sent'),
                 i < j, sent'[i].from = sent'[j].from
          PROVE  sent'[i].no < sent'[j].no
        <3>1. i \in 1 .. Len(sent)
            BY <2>1, <2>4
        <3>2. CASE j = Len(sent) + 1
            <4>1. sent[i].from = c
                BY <2>1, <2>2, <2>4, <3>1, <3>2
            <4>2. sent[i].no \in 1 .. n
                BY <3>1, <4>1 DEF CommandsInOrder, n
            <4>3. QED
                BY <1>1, <2>1, <2>2, <3>1, <3>2, <4>2
        <3>3. CASE j \in 1 .. Len(sent)
            BY <2>1, <2>4, <3>1, <3>3 DEF CommandsInOrder
        <3>4. QED
            BY <2>1, <3>2, <3>3
    <2>5. CommandsInOrder'
        BY <2>3, <2>4 DEF CommandsInOrder
    <2>6. QED
        BY <1>7, <2>5
<1>12. QED
    BY <1>6, <1>10, <1>11

(***************************************************************************)
(* What does not read a whole message leaves the inboxes as they are.      *)
(***************************************************************************)
LEMMA InboxesKept ==
    ASSUME NEW c \in Conn, ServerStep(c)
    PROVE  UNCHANGED <<sent, inbox>>
<1>1. UNCHANGED sent
    BY DEF ServerStep, vars
<1>2. CASE \/ Server!Handshake(c) \/ Server!ReadFails(c)
           \/ Server!Write(c) \/ Server!Outside(c)
    BY <1>1, <1>2 DEF Server!Handshake, Server!Upgrade, Server!Refuse, Server!NoEndpoint,
          Server!HandshakeWritten, Server!HandshakeFails, Server!RefusalEnds,
          Server!ReadFails, Server!Write, Server!WriteDone, Server!WriteFails,
          Server!Outside, Server!TimerExpires, Server!RunTimer, Server!PeerFinishes, Server!PeerGone,
          Server!reading
<1>3. CASE Server!ReadHeader(c)
    BY <1>1, <1>3 DEF Server!ReadHeader, Server!ReadUnmasked, Server!ReadHead,
          Server!ReadLongHead, Server!ReadLength, Server!ReadBigContent,
          Server!StartContent, Server!reading
<1>4. CASE Server!ReceiveControl(c) \/ Server!ReceiveFragment(c)
    BY <1>1, <1>4 DEF Server!ReceiveControl, Server!ReceiveClose, Server!ReceivePing,
          Server!ReceivePong, Server!ReceiveFragment
<1>5. QED
    BY <1>2, <1>3, <1>4 DEF ServerStep

LEMMA NextCInv == SInv /\ CInv /\ [DisplayNext]_displayVars => CInv'
<1> SUFFICES ASSUME SInv, CInv, [DisplayNext]_displayVars PROVE CInv'
    OBVIOUS
<1>1. ASSUME UNCHANGED <<sent, inbox>>
      PROVE  CInv'
    BY <1>1 DEF CInv, CommandsInOrder
<1>2. CASE PumpStep \/ (Terminated /\ UNCHANGED serverVars) \/ UNCHANGED displayVars
    BY <1>1, <1>2 DEF PumpStep, Terminated, StartServer, StartFails, Launched, Connect,
          ConnectFails, TakeMessage, WaitFails, NextPass, WakeUp, LinkBreaks,
          serverVars, displayVars, vars
<1>3. CASE RelayPosted
    BY <1>1, <1>3 DEF RelayPosted, RunPosted, Server!Broadcast, Server!reading
<1>4. ASSUME NEW c \in Conn, ServerStep(c)
      PROVE  CInv'
    BY <1>1, <1>4, InboxesKept
<1>5. ASSUME NEW c \in Conn, OnMessage(c)
      PROVE  CInv'
    BY <1>5, OnMessageStep
<1>6. QED
    BY <1>2, <1>3, <1>4, <1>5 DEF DisplayNext

(***************************************************************************)
(* Browser to bus: whatever the link and the connections do, the commands  *)
(* of one browser reach sendMsg in the order in which they were read, none *)
(* twice, and none that was not read.                                      *)
(***************************************************************************)
THEOREM CommandsStayInOrder == DisplaySpec => []CommandsInOrder
<1>1. CInv => CommandsInOrder
    BY DEF CInv
<1>2. QED
    BY <1>1, InitServer, NextServer, InitCInv, NextCInv, PTL DEF DisplaySpec
=============================================================================
