---------------------------- MODULE WsServerProofs ----------------------------
(***************************************************************************)
(* Safety of the WebSocket server for any set of connections, any number   *)
(* of messages and frames, and every configuration.                        *)
(***************************************************************************)
EXTENDS WsServer, ScanProofs

USE DEF Handshakes, Reads

(***************************************************************************)
(* Nothing is queued on a connection before it is opened: this, with the   *)
(* membership, is what makes OneWriteInFlight inductive, for a broadcast   *)
(* reaches only connections whose handshake has been written.              *)
(***************************************************************************)
QuietBeforeOpen ==
    \A c \in Conn : stage[c] \in {"none"} \cup Handshakes => queue[c] = << >>

IInv ==
    /\ TypeOK
    /\ OneWriteInFlight
    /\ RegisteredIffReading
    /\ QuietBeforeOpen

(***************************************************************************)
(* Types of the frames that are sent and read.                             *)
(***************************************************************************)
LEMMA FrameTypes ==
    /\ \A n \in Nat : [op |-> "text", no |-> n] \in OutFrames
    /\ \A n \in Nat : [op |-> "pong", no |-> n] \in OutFrames
    /\ CloseFrame \in OutFrames
    /\ \A f \in Frames \cup {NoFrame} : f.length \in Nat
<1>1. \A n \in Nat : [op |-> "text", no |-> n] \in OutFrames
    BY DEF OutFrames
<1>2. \A n \in Nat : [op |-> "pong", no |-> n] \in OutFrames
    BY DEF OutFrames
<1>3. CloseFrame \in OutFrames
    BY DEF OutFrames, CloseFrame
<1>4. \A f \in Frames : f.length \in Nat
    BY ConfigAssumption DEF Frames, FramesOf
<1>5. NoFrame.length \in Nat
    BY DEF NoFrame
<1>6. QED
    BY <1>1, <1>2, <1>3, <1>4, <1>5

LEMMA AppendNotEmpty ==
    ASSUME NEW S, NEW q \in Seq(S), NEW e \in S
    PROVE  Append(q, e) \in Seq(S) /\ Append(q, e) # << >>
<1>1. Len(Append(q, e)) = Len(q) + 1 /\ Len(q) \in Nat /\ Append(q, e) \in Seq(S)
    OBVIOUS
<1>2. QED
    BY <1>1, EmptySeq

(***************************************************************************)
(* send keeps the queue and the pending write together.                    *)
(***************************************************************************)
LEMMA SendKeeps ==
    ASSUME IInv, NEW c \in Conn, NEW f \in OutFrames, Send(c, f)
    PROVE  /\ queue' \in [Conn -> Seq(OutFrames)]
           /\ writes' \in [Conn -> Nat]
           /\ \A d \in Conn : writes'[d] = IF queue'[d] = << >> THEN 0 ELSE 1
           /\ \A d \in Conn : d # c => queue'[d] = queue[d]
<1> USE DEF IInv, TypeOK, OneWriteInFlight, Send
<1>1. Append(queue[c], f) \in Seq(OutFrames) /\ Append(queue[c], f) # << >>
    BY AppendNotEmpty
<1>2. queue' = [queue EXCEPT ![c] = Append(queue[c], f)]
    OBVIOUS
<1>3. queue' \in [Conn -> Seq(OutFrames)] /\ writes' \in [Conn -> Nat]
    BY <1>1
<1>4. ASSUME NEW d \in Conn
      PROVE  writes'[d] = IF queue'[d] = << >> THEN 0 ELSE 1
    <2>1. CASE d = c
        <3>1. queue'[c] = Append(queue[c], f)
            BY <1>2
        <3>2. writes'[c] = 1
            OBVIOUS
        <3>3. QED
            BY <1>1, <2>1, <3>1, <3>2
    <2>2. CASE d # c
        BY <2>2
    <2>3. QED
        BY <2>1, <2>2
<1>5. QED
    BY <1>2, <1>3, <1>4

LEMMA SendCloseKeeps ==
    ASSUME IInv, NEW c \in Conn, SendClose(c)
    PROVE  /\ queue' \in [Conn -> Seq(OutFrames)]
           /\ writes' \in [Conn -> Nat]
           /\ closed' \in [Conn -> BOOLEAN]
           /\ armed' \in [Conn -> BOOLEAN]
           /\ \A d \in Conn : writes'[d] = IF queue'[d] = << >> THEN 0 ELSE 1
           /\ \A d \in Conn : d # c => queue'[d] = queue[d]
<1>1. armed' \in [Conn -> BOOLEAN]
    BY ConfigAssumption DEF SendClose, SetTimeout, CancelTimeout, IInv, TypeOK
<1>2. CASE ~closed[c]
    <2>1. Send(c, CloseFrame) /\ closed' = [closed EXCEPT ![c] = TRUE]
        BY <1>2 DEF SendClose
    <2>2. closed' \in [Conn -> BOOLEAN]
        BY <2>1 DEF IInv, TypeOK
    <2>3. QED
        BY <1>1, <2>1, <2>2, SendKeeps, FrameTypes
<1>3. CASE closed[c]
    <2>1. UNCHANGED <<queue, writes>> /\ closed' = [closed EXCEPT ![c] = TRUE]
        BY <1>3 DEF SendClose
    <2>2. QED
        BY <1>1, <2>1 DEF IInv, TypeOK, OneWriteInFlight
<1>4. QED
    BY <1>2, <1>3 DEF IInv, TypeOK

-----------------------------------------------------------------------------

LEMMA InitIInv == Init => IInv
<1> SUFFICES ASSUME Init PROVE IInv
    OBVIOUS
<1>1. TypeOK
    BY DEF Init, TypeOK
<1>2. OneWriteInFlight /\ RegisteredIffReading /\ QuietBeforeOpen
    BY DEF Init, OneWriteInFlight, RegisteredIffReading, QuietBeforeOpen
<1>3. QED
    BY <1>1, <1>2 DEF IInv

(***************************************************************************)
(* upgrade, and the end of the handshake                                   *)
(***************************************************************************)
LEMMA HandshakeStep ==
    ASSUME IInv, NEW c \in Conn, Handshake(c)
    PROVE  IInv'
<1> USE ConfigAssumption DEF IInv, reading, sending, timer
<1>1. CASE Upgrade(c) \/ Refuse(c) \/ NoEndpoint(c)
    <2>1. TypeOK'
        BY <1>1 DEF TypeOK, Upgrade, Refuse, NoEndpoint, TakeSocket
    <2>2. RegisteredIffReading'
        BY <1>1 DEF TypeOK, RegisteredIffReading, Upgrade, Refuse, NoEndpoint, TakeSocket
    <2>3. OneWriteInFlight' /\ QuietBeforeOpen'
        BY <1>1 DEF TypeOK, OneWriteInFlight, QuietBeforeOpen, Upgrade, Refuse, NoEndpoint, TakeSocket
    <2>4. QED
        BY <2>1, <2>2, <2>3
<1>2. CASE HandshakeWritten(c)
    <2>1. TypeOK'
        BY <1>2 DEF TypeOK, HandshakeWritten, AfterWrite, SetTimeout
    <2>2. RegisteredIffReading'
        BY <1>2 DEF TypeOK, RegisteredIffReading, HandshakeWritten
    <2>3. OneWriteInFlight' /\ QuietBeforeOpen'
        BY <1>2 DEF TypeOK, OneWriteInFlight, QuietBeforeOpen, HandshakeWritten
    <2>4. QED
        BY <2>1, <2>2, <2>3
<1>3. CASE HandshakeFails(c) \/ RefusalEnds(c)
    <2>1. TypeOK'
        BY <1>3 DEF TypeOK, HandshakeFails, RefusalEnds, StopReading, CancelTimeout
    <2>2. RegisteredIffReading'
        BY <1>3 DEF TypeOK, RegisteredIffReading, HandshakeFails, RefusalEnds, StopReading
    <2>3. stage' = [stage EXCEPT ![c] = "done"] /\ UNCHANGED <<queue, writes>>
        BY <1>3 DEF HandshakeFails, RefusalEnds, StopReading
    <2>4. QuietBeforeOpen'
        BY <2>3 DEF TypeOK, QuietBeforeOpen
    <2>5. OneWriteInFlight'
        BY <2>3 DEF TypeOK, OneWriteInFlight
    <2>6. QED
        BY <2>1, <2>2, <2>4, <2>5
<1>4. QED
    BY <1>1, <1>2, <1>3 DEF Handshake

(***************************************************************************)
(* A handler that answers with a close frame and reads no further          *)
(***************************************************************************)
LEMMA CloseStep ==
    ASSUME IInv, NEW c \in Conn, SendClose(c), StopReading(c),
           stage[c] \in Reads,
           UNCHANGED <<frame, fragment, size, inbox, published, joined, socket, wire, expired>>,
           heard' \in [Conn -> Seq(Frames \cup {NoFrame})]
    PROVE  IInv'
<1> USE DEF IInv
<1>1. TypeOK'
    BY SendCloseKeeps DEF TypeOK, StopReading
<1>2. RegisteredIffReading'
    BY DEF TypeOK, RegisteredIffReading, StopReading
<1>3. \A d \in Conn : d # c => stage'[d] = stage[d] /\ queue'[d] = queue[d]
    BY SendCloseKeeps DEF TypeOK, StopReading
<1>4. stage'[c] = "done"
    BY DEF TypeOK, StopReading
<1>5. QuietBeforeOpen'
    BY <1>3, <1>4 DEF QuietBeforeOpen
<1>6. OneWriteInFlight'
    BY <1>5, SendCloseKeeps DEF OneWriteInFlight, QuietBeforeOpen
<1>7. QED
    BY <1>1, <1>2, <1>5, <1>6

(***************************************************************************)
(* A handler that reads on without sending                                 *)
(***************************************************************************)
LEMMA ReadStep ==
    ASSUME IInv, TypeOK', NEW c \in Conn, NEW s \in Reads,
           stage[c] \in Reads,
           stage' = [stage EXCEPT ![c] = s],
           UNCHANGED <<members, queue, writes>>
    PROVE  IInv'
<1>1. RegisteredIffReading'
    BY DEF IInv, TypeOK, RegisteredIffReading
<1>2. OneWriteInFlight' /\ QuietBeforeOpen'
    BY DEF IInv, TypeOK, OneWriteInFlight, QuietBeforeOpen
<1>3. QED
    BY <1>1, <1>2 DEF IInv

(***************************************************************************)
(* read_message up to the content of a frame                               *)
(***************************************************************************)
LEMMA ContentStep ==
    ASSUME IInv, NEW c \in Conn, NEW f \in Frames \cup {NoFrame},
           stage[c] \in Reads,
           ReadBigContent(c, f) \/ StartContent(c, f)
    PROVE  IInv'
<1>1. CASE ReadBigContent(c, f)
    BY <1>1, CloseStep DEF ReadBigContent, reading, IInv, TypeOK
<1>2. CASE StartContent(c, f)
    <2>1. TypeOK'
        BY <1>2, ConfigAssumption DEF StartContent, SetTimeout, sending, IInv, TypeOK
    <2>2. QED
        BY <1>2, <2>1, ReadStep DEF StartContent, sending
<1>3. QED
    BY <1>1, <1>2

LEMMA HeaderStep ==
    ASSUME IInv, NEW c \in Conn, ReadHeader(c)
    PROVE  IInv'
<1>1. ASSUME NEW f \in Frames, ReadUnmasked(c, f)
      PROVE  IInv'
    BY <1>1, CloseStep DEF ReadUnmasked, HeadArrives, reading, IInv, TypeOK
<1>2. ASSUME NEW f \in Frames, ReadHead(c, f)
      PROVE  IInv'
    BY <1>2, ContentStep DEF ReadHead, HeadArrives
<1>3. ASSUME NEW f \in Frames, ReadLongHead(c, f)
      PROVE  IInv'
    <2>1. TypeOK'
        BY <1>3, ConfigAssumption DEF ReadLongHead, SetTimeout, sending, IInv, TypeOK
    <2>2. QED
        BY <1>3, <2>1, ReadStep DEF ReadLongHead, HeadArrives, sending
<1>4. CASE ReadLength(c)
    BY <1>4, ContentStep DEF ReadLength, IInv, TypeOK
<1>5. QED
    BY <1>1, <1>2, <1>3, <1>4 DEF ReadHeader

(***************************************************************************)
(* The content of a frame has been read                                    *)
(***************************************************************************)
LEMMA HeardType ==
    ASSUME IInv, NEW c \in Conn, ContentArrives(c)
    PROVE  /\ heard' \in [Conn -> Seq(Frames \cup {NoFrame})]
           /\ No(c) \in Nat
           /\ InMessage(c) \in Seq(Nat)
<1> USE DEF IInv, TypeOK
<1>1. frame[c] \in Frames \cup {NoFrame} /\ heard[c] \in Seq(Frames \cup {NoFrame})
    OBVIOUS
<1>2. No(c) \in Nat
    BY <1>1 DEF No
<1>3. InMessage(c) \in Seq(Nat)
    BY <1>2 DEF InMessage
<1>4. heard' \in [Conn -> Seq(Frames \cup {NoFrame})]
    BY <1>1 DEF ContentArrives
<1>5. QED
    BY <1>2, <1>3, <1>4

LEMMA ControlStep ==
    ASSUME IInv, NEW c \in Conn, ReceiveControl(c)
    PROVE  IInv'
<1>1. CASE ReceiveClose(c)
    BY <1>1, CloseStep, HeardType DEF ReceiveClose, ContentArrives
<1>2. CASE ReceivePing(c)
    <2> DEFINE pong == [op |-> "pong", no |-> No(c)]
    <2>1. Send(c, pong) /\ pong \in OutFrames
        BY <1>2, HeardType, FrameTypes DEF ReceivePing
    <2> HIDE DEF pong
    <2>2. TypeOK'
        BY <1>2, <2>1, HeardType, SendKeeps, ConfigAssumption
        DEF ReceivePing, ContentArrives, NextMessage, SetTimeout, IInv, TypeOK
    <2>3. stage[c] = "content" /\ stage' = [stage EXCEPT ![c] = "head"] /\ members' = members
        BY <1>2 DEF ReceivePing, ContentArrives, NextMessage
    <2>4. RegisteredIffReading'
        BY <2>3 DEF IInv, TypeOK, RegisteredIffReading
    <2>5. \A d \in Conn : d # c => stage'[d] = stage[d] /\ queue'[d] = queue[d]
        BY <2>1, <2>3, SendKeeps DEF IInv, TypeOK
    <2>6. stage'[c] = "head"
        BY <2>3 DEF IInv, TypeOK
    <2>7. QuietBeforeOpen'
        BY <2>5, <2>6 DEF IInv, QuietBeforeOpen
    <2>8. OneWriteInFlight'
        BY <2>1, <2>7, SendKeeps DEF OneWriteInFlight, QuietBeforeOpen
    <2>9. QED
        BY <2>2, <2>4, <2>7, <2>8 DEF IInv
<1>3. CASE ReceivePong(c)
    <2>1. TypeOK'
        BY <1>3, HeardType, ConfigAssumption
        DEF ReceivePong, ContentArrives, NextMessage, SetTimeout, IInv, TypeOK
    <2>2. QED
        BY <1>3, <2>1, ReadStep DEF ReceivePong, ContentArrives, NextMessage
<1>4. QED
    BY <1>1, <1>2, <1>3 DEF ReceiveControl

LEMMA DataStep ==
    ASSUME IInv, NEW c \in Conn, ReceiveFragment(c) \/ ReceiveMessage(c)
    PROVE  IInv'
<1>1. ContentArrives(c) /\ NextMessage(c) /\ UNCHANGED <<queue, writes>>
    BY DEF ReceiveFragment, ReceiveMessage
<1>2. frame[c].length \in Nat
    BY FrameTypes DEF IInv, TypeOK
<1>3. fragment' \in [Conn -> Seq(Nat)] /\ size' \in [Conn -> Nat]
      /\ inbox' \in [Conn -> Seq(Seq(Nat))]
    <2> USE DEF IInv, TypeOK
    <2>1. InMessage(c) \in Seq(Nat)
        BY <1>1, HeardType
    <2>2. CASE ReceiveFragment(c)
        <3>1. fragment' \in [Conn -> Seq(Nat)] /\ inbox' = inbox
            BY <2>1, <2>2 DEF ReceiveFragment
        <3> DEFINE total == size[c] + frame[c].length
        <3>2. total \in Nat
            BY <1>2
        <3>3. size' = [size EXCEPT ![c] = total]
            BY <2>2 DEF ReceiveFragment
        <3> HIDE DEF total
        <3>4. size' \in [Conn -> Nat]
            BY <3>2, <3>3
        <3>5. QED
            BY <3>1, <3>4
    <2>3. CASE ReceiveMessage(c)
        <3>1. fragment' \in [Conn -> Seq(Nat)] /\ size' \in [Conn -> Nat]
            BY <2>3 DEF ReceiveMessage
        <3>2. inbox[c] \in Seq(Seq(Nat))
            OBVIOUS
        <3>3. Append(inbox[c], InMessage(c)) \in Seq(Seq(Nat))
            BY <2>1, <3>2, AppendNotEmpty
        <3>4. inbox' \in [Conn -> Seq(Seq(Nat))]
            BY <2>3, <3>3 DEF ReceiveMessage
        <3>5. QED
            BY <3>1, <3>4
    <2>4. QED
        BY <2>2, <2>3
<1>4. TypeOK'
    BY <1>1, <1>3, HeardType, ConfigAssumption
    DEF ContentArrives, NextMessage, SetTimeout, IInv, TypeOK
<1>5. QED
    BY <1>1, <1>4, ReadStep DEF ContentArrives, NextMessage

(***************************************************************************)
(* Reading ends with an error                                              *)
(***************************************************************************)
LEMMA ReadFailsStep ==
    ASSUME IInv, NEW c \in Conn, ReadFails(c)
    PROVE  IInv'
<1> USE DEF IInv, TypeOK, ReadFails, StopReading, CancelTimeout, reading, sending
<1>1. TypeOK'
    OBVIOUS
<1>2. RegisteredIffReading'
    BY DEF RegisteredIffReading
<1>3. OneWriteInFlight' /\ QuietBeforeOpen'
    BY DEF OneWriteInFlight, QuietBeforeOpen
<1>4. QED
    BY <1>1, <1>2, <1>3

(***************************************************************************)
(* The broadcast reaches members only                                      *)
(***************************************************************************)
LEMMA BroadcastStep ==
    ASSUME IInv, Broadcast
    PROVE  IInv'
<1> USE DEF IInv
<1>1. published \in Nat /\ published' = published + 1
    BY DEF Broadcast, TypeOK
<1> DEFINE text == [op |-> "text", no |-> published + 1]
<1>2. text \in OutFrames
    BY <1>1, FrameTypes
<1>3. \A d \in Conn : queue'[d] = IF d \in members THEN Append(queue[d], text) ELSE queue[d]
    BY DEF Broadcast
<1>4. queue' \in [Conn -> Seq(OutFrames)]
    <2>1. queue' = [d \in Conn |-> IF d \in members THEN Append(queue[d], text) ELSE queue[d]]
        BY DEF Broadcast
    <2> HIDE DEF text
    <2>2. QED
        BY <1>2, <2>1 DEF TypeOK
<1> HIDE DEF text
<1>5. writes' \in [Conn -> Nat] /\ armed' \in [Conn -> BOOLEAN]
    BY ConfigAssumption DEF Broadcast, TypeOK
<1>6. TypeOK'
    BY <1>1, <1>4, <1>5 DEF Broadcast, TypeOK, reading
<1>7. RegisteredIffReading'
    BY DEF Broadcast, RegisteredIffReading
<1>8. QuietBeforeOpen'
    BY <1>3 DEF Broadcast, QuietBeforeOpen, RegisteredIffReading
<1>9. ASSUME NEW d \in Conn
      PROVE  writes'[d] = IF queue'[d] = << >> THEN 0 ELSE 1
    <2>1. d \in members => queue'[d] # << >>
        BY <1>2, <1>3, AppendNotEmpty DEF TypeOK
    <2>2. QED
        BY <2>1, <1>3 DEF Broadcast, OneWriteInFlight, TypeOK
<1>10. QED
    BY <1>6, <1>7, <1>8, <1>9 DEF OneWriteInFlight, QuietBeforeOpen

(***************************************************************************)
(* A write has ended                                                       *)
(***************************************************************************)
LEMMA RestOfQueue ==
    ASSUME NEW S, NEW q \in Seq(S), q # << >>
    PROVE  /\ Head(q) \in S
           /\ Tail(q) \in Seq(S)
           /\ Len(q) > 1 <=> Tail(q) # << >>
<1>1. Head(q) \in S /\ Tail(q) \in Seq(S) /\ Len(Tail(q)) = Len(q) - 1
    BY HeadTailProperties
<1>2. Tail(q) # << >> <=> Len(Tail(q)) # 0
    BY <1>1, EmptySeq
<1>3. Len(q) \in Nat \ {0}
    BY EmptySeq
<1>4. QED
    BY <1>1, <1>2, <1>3

LEMMA WriteStep ==
    ASSUME IInv, NEW c \in Conn, Write(c)
    PROVE  IInv'
<1> USE DEF IInv
<1>1. writes[c] = 1 /\ queue[c] # << >> /\ queue[c] \in Seq(OutFrames)
    BY DEF Write, WriteDone, WriteFails, OneWriteInFlight, TypeOK
<1>2. Head(queue[c]) \in OutFrames /\ Tail(queue[c]) \in Seq(OutFrames)
      /\ (Len(queue[c]) > 1 <=> Tail(queue[c]) # << >>)
    BY <1>1, RestOfQueue
<1>3. CASE WriteDone(c)
    <2>1. wire' \in [Conn -> Seq(OutFrames)] /\ queue' \in [Conn -> Seq(OutFrames)]
        BY <1>2, <1>3 DEF WriteDone, TypeOK
    <2>2. writes' \in [Conn -> Nat] /\ armed' \in [Conn -> BOOLEAN]
          /\ socket' \in [Conn -> {"open", "half", "gone", "shut", "torn"}]
        BY <1>1, <1>3, ConfigAssumption DEF WriteDone, AfterWrite, SetTimeout, TypeOK
    <2>3. TypeOK'
        BY <1>3, <2>1, <2>2 DEF WriteDone, reading, TypeOK
    <2>4. queue'[c] = Tail(queue[c]) /\ writes'[c] = IF Len(queue[c]) > 1 THEN 1 ELSE 0
        BY <1>1, <1>3 DEF WriteDone, TypeOK
    <2>5. \A d \in Conn : d # c => queue'[d] = queue[d] /\ writes'[d] = writes[d]
        BY <1>3 DEF WriteDone, TypeOK
    <2>6. OneWriteInFlight'
        BY <1>1, <1>2, <1>3, <2>4, <2>5 DEF WriteDone, OneWriteInFlight
    <2>7. RegisteredIffReading' /\ QuietBeforeOpen'
        BY <1>1, <1>3, <2>5 DEF WriteDone, RegisteredIffReading, QuietBeforeOpen
    <2>8. QED
        BY <2>3, <2>6, <2>7
<1>4. CASE WriteFails(c)
    <2>1. queue' \in [Conn -> Seq(OutFrames)]
        BY <1>4 DEF WriteFails, TypeOK
    <2>2. writes' \in [Conn -> Nat] /\ armed' \in [Conn -> BOOLEAN]
          /\ socket' \in [Conn -> {"open", "half", "gone", "shut", "torn"}]
        BY <1>1, <1>4, ConfigAssumption DEF WriteFails, SetTimeout, TypeOK
    <2>3. TypeOK'
        BY <1>4, <2>1, <2>2 DEF WriteFails, reading, TypeOK
    <2>4. queue'[c] = << >> /\ writes'[c] = 0
        BY <1>1, <1>4 DEF WriteFails, TypeOK
    <2>5. \A d \in Conn : d # c => queue'[d] = queue[d] /\ writes'[d] = writes[d]
        BY <1>4 DEF WriteFails, TypeOK
    <2>6. OneWriteInFlight'
        BY <1>4, <2>4, <2>5 DEF WriteFails, OneWriteInFlight
    <2>7. RegisteredIffReading' /\ QuietBeforeOpen'
        BY <1>4, <2>4, <2>5 DEF WriteFails, RegisteredIffReading, QuietBeforeOpen
    <2>8. QED
        BY <2>3, <2>6, <2>7
<1>5. QED
    BY <1>3, <1>4 DEF Write

(***************************************************************************)
(* Timer and peer touch neither queue nor membership                       *)
(***************************************************************************)
LEMMA OutsideStep ==
    ASSUME IInv, NEW c \in Conn, Outside(c)
    PROVE  IInv'
<1> USE DEF IInv, Outside, TimerExpires, RunTimer, PeerFinishes, PeerGone, reading, sending, timer
<1>1. TypeOK'
    BY DEF TypeOK, ShutDown
<1>2. UNCHANGED <<stage, members, queue, writes>>
    OBVIOUS
<1>3. QED
    BY <1>1, <1>2 DEF OneWriteInFlight, RegisteredIffReading, QuietBeforeOpen

LEMMA NextIInv == IInv /\ [Next]_vars => IInv'
<1> SUFFICES ASSUME IInv, [Next]_vars PROVE IInv'
    OBVIOUS
<1>1. CASE UNCHANGED vars
    BY <1>1 DEF vars, reading, sending, timer, IInv, TypeOK, OneWriteInFlight,
                RegisteredIffReading, QuietBeforeOpen
<1>2. CASE Next
    BY <1>2, HandshakeStep, HeaderStep, ControlStep, DataStep, ReadFailsStep,
       BroadcastStep, WriteStep, OutsideStep DEF Next
<1>3. QED
    BY <1>1, <1>2

-----------------------------------------------------------------------------
(* Messages put together of the frames heard *)

AnyFrame == Frames \cup {NoFrame}

Mid(h) ==
    LET data == Only(h, FramesOf(Data))
    IN  data # << >> /\ ~Last(data).fin

WholeIn(h, m) == \A i \in 1 .. Len(m) : h[m[i]].fin <=> i = Len(m)

Assembled(h, ib, fg) ==
    /\ ib \in Seq(Seq(1 .. Len(h)))
    /\ fg \in Seq(1 .. Len(h))
    /\ FlattenSeq(ib) \o fg = Positions(h, FramesOf(Data))
    /\ \A i \in 1 .. Len(ib) : ib[i] # << >> /\ WholeIn(h, ib[i])
    /\ \A i \in 1 .. Len(fg) : ~h[fg[i]].fin
    /\ fg = << >> <=> ~Mid(h)

LengthIn(h, m) == Total([i \in 1 .. Len(m) |-> h[m[i]].length])

Measured(h, ib, fg, sz) ==
    /\ sz = LengthIn(h, fg)
    /\ \A i \in 1 .. Len(ib) : LengthIn(h, ib[i]) <= MaxMessageSize

LEMMA FramesByOpcode ==
    ASSUME NEW f \in AnyFrame, NEW ops \in SUBSET (Data \cup Control)
    PROVE  f \in FramesOf(ops) <=> f.opcode \in ops
<1>1. CASE f \in Frames
    BY <1>1 DEF Frames, FramesOf
<1>2. CASE f = NoFrame
    <2>1. f.opcode = "none"
        BY <1>2 DEF NoFrame
    <2>2. "none" \notin ops
        BY DEF Data, Control
    <2>3. QED
        BY <2>1, <2>2 DEF FramesOf
<1>3. QED
    BY <1>1, <1>2 DEF AnyFrame

LEMMA HeardMore ==
    ASSUME NEW h \in Seq(AnyFrame), NEW f \in AnyFrame
    PROVE  /\ Append(h, f) \in Seq(AnyFrame)
           /\ Len(h) \in Nat
           /\ Len(Append(h, f)) = Len(h) + 1
           /\ \A i \in 1 .. Len(h) : Append(h, f)[i] = h[i]
           /\ Append(h, f)[Len(h) + 1] = f
           /\ \A S : S \in SUBSET (1 .. Len(h)) => S \in SUBSET (1 .. Len(Append(h, f)))
<1>1. /\ Append(h, f) \in Seq(AnyFrame)
      /\ Len(h) \in Nat
      /\ Len(Append(h, f)) = Len(h) + 1
      /\ \A i \in 1 .. Len(h) : Append(h, f)[i] = h[i]
      /\ Append(h, f)[Len(h) + 1] = f
    BY AppendProperties, LenProperties
<1>2. QED
    BY <1>1

LEMMA MidMore ==
    ASSUME NEW h \in Seq(AnyFrame), NEW f \in AnyFrame
    PROVE  Mid(Append(h, f)) <=> IF f.opcode \in Data THEN ~f.fin ELSE Mid(h)
<1> DEFINE D == FramesOf(Data)
<1> DEFINE data == Only(h, D)
<1>1. f \in D <=> f.opcode \in Data
    BY FramesByOpcode
<1>2. data \in Seq(AnyFrame) /\ Only(Append(h, f), D) = IF f \in D THEN Append(data, f) ELSE data
    BY OnlyType, OnlyAppend
<1>3. Append(data, f) # << >> /\ Last(Append(data, f)) = f
    <2> HIDE DEF data
    <2>1. Len(Append(data, f)) = Len(data) + 1 /\ Len(data) \in Nat /\ Append(data, f)[Len(data) + 1] = f
        BY <1>2, AppendProperties, LenProperties
    <2>2. QED
        BY <2>1, EmptySeq DEF Last
<1>4. QED
    BY <1>1, <1>2, <1>3 DEF Mid

(***************************************************************************)
(* What has been put together of the frames heard stays right, as long as  *)
(* only more frames are heard.                                             *)
(***************************************************************************)
LEMMA WiderElements ==
    ASSUME NEW A, NEW B, A \subseteq B
    PROVE  Seq(A) \subseteq Seq(B) /\ Seq(Seq(A)) \subseteq Seq(Seq(B))
<1>1. ASSUME NEW X, NEW Y, X \subseteq Y, NEW s \in Seq(X) PROVE s \in Seq(Y)
    <2>1. s = [i \in 1 .. Len(s) |-> s[i]] /\ Len(s) \in Nat /\ \A i \in 1 .. Len(s) : s[i] \in X
        OBVIOUS
    <2>2. QED
        BY <1>1, <2>1
<1>2. QED
    BY <1>1

LEMMA WiderSeq ==
    ASSUME NEW n \in Nat, NEW m \in Nat, n <= m
    PROVE  /\ Seq(1 .. n) \subseteq Seq(1 .. m)
           /\ Seq(Seq(1 .. n)) \subseteq Seq(Seq(1 .. m))
<1>1. 1 .. n \subseteq 1 .. m
    OBVIOUS
<1>2. QED
    BY <1>1, WiderElements

LEMMA SeqOfNat ==
    ASSUME NEW n \in Nat
    PROVE  Seq(1 .. n) \subseteq Seq(Nat) /\ Seq(Seq(1 .. n)) \subseteq Seq(Seq(Nat))
<1>1. QED
    BY WiderElements

LEMMA WholeKept ==
    ASSUME NEW h \in Seq(AnyFrame), NEW f \in AnyFrame, NEW m \in Seq(1 .. Len(h))
    PROVE  /\ WholeIn(Append(h, f), m) <=> WholeIn(h, m)
           /\ LengthIn(Append(h, f), m) = LengthIn(h, m)
<1>1. \A i \in 1 .. Len(m) : m[i] \in 1 .. Len(h)
    BY ElementOfSeq
<1>2. \A i \in 1 .. Len(m) : Append(h, f)[m[i]] = h[m[i]]
    BY <1>1, HeardMore
<1>3. [i \in 1 .. Len(m) |-> Append(h, f)[m[i]].length] = [i \in 1 .. Len(m) |-> h[m[i]].length]
    BY <1>2
<1>4. QED
    BY <1>2, <1>3 DEF WholeIn, LengthIn

LEMMA AssembledControl ==
    ASSUME NEW h \in Seq(AnyFrame), NEW f \in AnyFrame, f.opcode \notin Data,
           NEW ib, NEW fg, Assembled(h, ib, fg)
    PROVE  Assembled(Append(h, f), ib, fg)
<1> DEFINE g == Append(h, f)
<1>1. Len(h) \in Nat /\ Len(g) = Len(h) + 1 /\ \A i \in 1 .. Len(h) : g[i] = h[i]
    BY HeardMore
<1>2. ib \in Seq(Seq(1 .. Len(g))) /\ fg \in Seq(1 .. Len(g))
    <2> HIDE DEF g
    <2>1. Len(h) \in Nat /\ Len(g) \in Nat /\ Len(h) <= Len(g)
        BY <1>1
    <2>2. QED
        BY <2>1, WiderSeq DEF Assembled
<1>3. Positions(g, FramesOf(Data)) = Positions(h, FramesOf(Data))
    BY FramesByOpcode, PositionsAppend
<1>4. \A i \in 1 .. Len(ib) : ib[i] # << >> /\ WholeIn(g, ib[i])
    <2>1. ASSUME NEW i \in 1 .. Len(ib) PROVE WholeIn(g, ib[i])
        <3>1. ib[i] \in Seq(1 .. Len(h)) /\ WholeIn(h, ib[i])
            BY ElementOfSeq DEF Assembled
        <3>2. QED
            BY <3>1, WholeKept
    <2>2. QED
        BY <2>1 DEF Assembled
<1>5. \A i \in 1 .. Len(fg) : ~g[fg[i]].fin
    <2>1. ASSUME NEW i \in 1 .. Len(fg) PROVE ~g[fg[i]].fin
        <3>1. fg[i] \in 1 .. Len(h) /\ ~h[fg[i]].fin
            BY ElementOfSeq DEF Assembled
        <3>2. QED
            BY <1>1, <3>1
    <2>2. QED
        BY <2>1
<1>6. fg = << >> <=> ~Mid(g)
    BY MidMore DEF Assembled
<1> HIDE DEF g
<1>7. Assembled(g, ib, fg)
    BY <1>2, <1>3, <1>4, <1>5, <1>6 DEF Assembled
<1>8. QED
    BY <1>7 DEF g

LEMMA OneMore ==
    ASSUME NEW h \in Seq(AnyFrame), NEW f \in AnyFrame, NEW fg \in Seq(1 .. Len(h))
    PROVE  /\ Append(fg, Len(h) + 1) \in Seq(1 .. Len(h) + 1)
           /\ Append(fg, Len(h) + 1) # << >>
           /\ Len(Append(fg, Len(h) + 1)) = Len(fg) + 1
           /\ \A i \in 1 .. Len(fg) :
                  /\ Append(fg, Len(h) + 1)[i] = fg[i]
                  /\ Append(h, f)[fg[i]] = h[fg[i]]
           /\ Append(fg, Len(h) + 1)[Len(fg) + 1] = Len(h) + 1
           /\ Append(h, f)[Len(h) + 1] = f
<1>1. Len(h) \in Nat /\ Len(fg) \in Nat
    BY LenProperties
<1>2. fg \in Seq(1 .. Len(h) + 1) /\ Len(h) + 1 \in 1 .. Len(h) + 1
    BY <1>1, WiderSeq
<1> DEFINE more == Append(fg, Len(h) + 1)
<1>3. /\ more \in Seq(1 .. Len(h) + 1)
      /\ Len(more) = Len(fg) + 1
      /\ \A i \in 1 .. Len(fg) : more[i] = fg[i]
      /\ more[Len(fg) + 1] = Len(h) + 1
    BY <1>2, AppendProperties
<1> HIDE DEF more
<1>4. more # << >>
    BY <1>1, <1>3, EmptySeq
<1>5. \A i \in 1 .. Len(fg) : Append(h, f)[fg[i]] = h[fg[i]]
    <2>1. \A i \in 1 .. Len(fg) : fg[i] \in 1 .. Len(h)
        BY ElementOfSeq
    <2>2. QED
        BY <2>1, HeardMore
<1>6. QED
    BY <1>3, <1>4, <1>5, HeardMore DEF more

LEMMA AssembledFragment ==
    ASSUME NEW h \in Seq(AnyFrame), NEW f \in AnyFrame, f.opcode \in Data, ~f.fin,
           NEW ib, NEW fg, Assembled(h, ib, fg)
    PROVE  Assembled(Append(h, f), ib, Append(fg, Len(h) + 1))
<1> DEFINE g == Append(h, f)
<1> DEFINE more == Append(fg, Len(h) + 1)
<1>1. Len(h) \in Nat /\ Len(g) = Len(h) + 1
    BY HeardMore
<1>2. fg \in Seq(1 .. Len(h)) /\ ib \in Seq(Seq(1 .. Len(h)))
    BY DEF Assembled
<1>3. /\ more \in Seq(1 .. Len(h) + 1)
      /\ more # << >>
      /\ Len(more) = Len(fg) + 1
      /\ \A i \in 1 .. Len(fg) : more[i] = fg[i] /\ g[fg[i]] = h[fg[i]]
      /\ more[Len(fg) + 1] = Len(h) + 1
      /\ g[Len(h) + 1] = f
    BY <1>2, OneMore
<1>4. ib \in Seq(Seq(1 .. Len(g))) /\ more \in Seq(1 .. Len(g))
    <2> HIDE DEF g
    <2>1. Len(h) \in Nat /\ Len(g) \in Nat /\ Len(h) <= Len(g)
        BY <1>1
    <2>2. QED
        BY <1>1, <1>2, <1>3, <2>1, WiderSeq
<1>5. FlattenSeq(ib) \o more = Positions(g, FramesOf(Data))
    <2>1. Positions(g, FramesOf(Data)) = Append(Positions(h, FramesOf(Data)), Len(h) + 1)
        BY FramesByOpcode, PositionsAppend
    <2>2. FlattenSeq(ib) \o more = Append(FlattenSeq(ib) \o fg, Len(h) + 1)
        <3>1. ib \in Seq(Seq(Nat)) /\ fg \in Seq(Nat) /\ Len(h) + 1 \in Nat
            BY <1>1, <1>2, SeqOfNat
        <3>2. FlattenSeq(ib) \in Seq(Nat)
            BY <3>1, FlattenType
        <3>3. QED
            BY <3>1, <3>2, AppendLast
    <2>3. QED
        BY <2>1, <2>2 DEF Assembled
<1>6. \A i \in 1 .. Len(ib) : ib[i] # << >> /\ WholeIn(g, ib[i])
    <2>1. ASSUME NEW i \in 1 .. Len(ib) PROVE WholeIn(g, ib[i])
        <3>1. ib[i] \in Seq(1 .. Len(h)) /\ WholeIn(h, ib[i])
            BY ElementOfSeq DEF Assembled
        <3>2. QED
            BY <3>1, WholeKept
    <2>2. QED
        BY <2>1 DEF Assembled
<1>7. \A i \in 1 .. Len(more) : ~g[more[i]].fin
    <2> HIDE DEF g, more
    <2>1. ASSUME NEW i \in 1 .. Len(more) PROVE ~g[more[i]].fin
        <3>1. Len(fg) \in Nat
            BY <1>2, LenProperties
        <3>2. i \in 1 .. Len(fg) \/ i = Len(fg) + 1
            BY <1>3, <3>1
        <3>3. CASE i \in 1 .. Len(fg)
            BY <1>3, <3>3 DEF Assembled
        <3>4. CASE i = Len(fg) + 1
            BY <1>3, <3>4
        <3>5. QED
            BY <3>2, <3>3, <3>4
    <2>2. QED
        BY <2>1
<1>8. Mid(g)
    BY MidMore
<1> HIDE DEF g, more
<1>9. Assembled(g, ib, more)
    BY <1>3, <1>4, <1>5, <1>6, <1>7, <1>8 DEF Assembled
<1>10. QED
    BY <1>9 DEF g, more

LEMMA AssembledMessage ==
    ASSUME NEW h \in Seq(AnyFrame), NEW f \in AnyFrame, f.opcode \in Data, f.fin = TRUE,
           NEW ib, NEW fg, Assembled(h, ib, fg)
    PROVE  Assembled(Append(h, f), Append(ib, Append(fg, Len(h) + 1)), << >>)
<1> DEFINE g == Append(h, f)
<1> DEFINE more == Append(fg, Len(h) + 1)
<1> DEFINE next == Append(ib, more)
<1>1. Len(h) \in Nat /\ Len(g) = Len(h) + 1
    BY HeardMore
<1>2. fg \in Seq(1 .. Len(h)) /\ ib \in Seq(Seq(1 .. Len(h)))
    BY DEF Assembled
<1>3. /\ more \in Seq(1 .. Len(h) + 1)
      /\ more # << >>
      /\ Len(more) = Len(fg) + 1
      /\ \A i \in 1 .. Len(fg) : more[i] = fg[i] /\ g[fg[i]] = h[fg[i]]
      /\ more[Len(fg) + 1] = Len(h) + 1
      /\ g[Len(h) + 1] = f
    BY <1>2, OneMore
<1>4. ib \in Seq(Seq(1 .. Len(g))) /\ more \in Seq(1 .. Len(g))
    <2> HIDE DEF g
    <2>1. Len(h) \in Nat /\ Len(g) \in Nat /\ Len(h) <= Len(g)
        BY <1>1
    <2>2. QED
        BY <1>1, <1>2, <1>3, <2>1, WiderSeq
<1>5. /\ next \in Seq(Seq(1 .. Len(g)))
      /\ Len(next) = Len(ib) + 1
      /\ \A i \in 1 .. Len(ib) : next[i] = ib[i]
      /\ next[Len(ib) + 1] = more
      /\ Len(ib) \in Nat
    <2> HIDE DEF more, g
    <2>1. QED
        BY <1>4, AppendProperties, LenProperties
<1>6. FlattenSeq(next) \o << >> = Positions(g, FramesOf(Data))
    <2>1. Positions(g, FramesOf(Data)) = Append(Positions(h, FramesOf(Data)), Len(h) + 1)
        BY FramesByOpcode, PositionsAppend
    <2>2. ib \in Seq(Seq(Nat)) /\ fg \in Seq(Nat) /\ Len(h) + 1 \in Nat /\ more \in Seq(Nat)
        BY <1>1, <1>2, SeqOfNat
    <2>3. FlattenSeq(ib) \in Seq(Nat) /\ FlattenSeq(next) = FlattenSeq(ib) \o more
        BY <2>2, FlattenType, FlattenAppend
    <2>4. FlattenSeq(ib) \o more = Append(FlattenSeq(ib) \o fg, Len(h) + 1)
        BY <2>2, <2>3, AppendLast
    <2>5. FlattenSeq(next) \o << >> = FlattenSeq(next)
        BY <2>2, <2>3, ConcatProperties, ConcatEmptySeq
    <2>6. QED
        BY <2>1, <2>3, <2>4, <2>5 DEF Assembled
<1>7. \A i \in 1 .. Len(next) : next[i] # << >> /\ WholeIn(g, next[i])
    <2>1. ASSUME NEW i \in 1 .. Len(ib) PROVE ib[i] # << >> /\ WholeIn(g, ib[i])
        <3>1. ib[i] \in Seq(1 .. Len(h)) /\ WholeIn(h, ib[i]) /\ ib[i] # << >>
            BY ElementOfSeq DEF Assembled
        <3>2. QED
            BY <3>1, WholeKept
    <2>2. WholeIn(g, more)
        <3> HIDE DEF g, more
        <3>1. Len(fg) \in Nat
            BY <1>2, LenProperties
        <3>2. ASSUME NEW i \in 1 .. Len(more) PROVE g[more[i]].fin <=> i = Len(more)
            <4>1. i \in 1 .. Len(fg) \/ i = Len(fg) + 1
                BY <1>3, <3>1
            <4>2. CASE i \in 1 .. Len(fg)
                <5>1. ~h[fg[i]].fin /\ i # Len(more)
                    BY <1>3, <3>1, <4>2 DEF Assembled
                <5>2. QED
                    BY <1>3, <4>2, <5>1
            <4>3. CASE i = Len(fg) + 1
                BY <1>3, <4>3
            <4>4. QED
                BY <4>1, <4>2, <4>3
        <3>3. QED
            BY <3>2 DEF WholeIn
    <2> HIDE DEF g, more, next
    <2>3. \A i \in 1 .. Len(next) : i \in 1 .. Len(ib) \/ i = Len(ib) + 1
        BY <1>5
    <2>4. QED
        BY <1>3, <1>5, <2>1, <2>2, <2>3
<1>8. ~Mid(g)
    BY MidMore
<1> HIDE DEF g, more, next
<1>9. Assembled(g, next, << >>)
    BY <1>5, <1>6, <1>7, <1>8 DEF Assembled
<1>10. QED
    BY <1>9 DEF g, more, next

LEMMA MeasuredSame ==
    ASSUME NEW h \in Seq(AnyFrame), NEW f \in AnyFrame, NEW ib, NEW fg, NEW sz,
           Assembled(h, ib, fg), Measured(h, ib, fg, sz)
    PROVE  Measured(Append(h, f), ib, fg, sz)
<1>1. \A i \in 1 .. Len(ib) : ib[i] \in Seq(1 .. Len(h))
    BY ElementOfSeq DEF Assembled
<1>2. fg \in Seq(1 .. Len(h))
    BY DEF Assembled
<1>3. QED
    BY <1>1, <1>2, WholeKept DEF Measured

LEMMA LengthMore ==
    ASSUME NEW h \in Seq(AnyFrame), NEW f \in AnyFrame, NEW fg \in Seq(1 .. Len(h)),
           \A x \in AnyFrame : x.length \in Nat
    PROVE  LengthIn(Append(h, f), Append(fg, Len(h) + 1)) = LengthIn(h, fg) + f.length
<1> DEFINE g == Append(h, f)
<1> DEFINE more == Append(fg, Len(h) + 1)
<1> DEFINE lengths == [i \in 1 .. Len(fg) |-> h[fg[i]].length]
<1>1. /\ Len(more) = Len(fg) + 1
      /\ \A i \in 1 .. Len(fg) : more[i] = fg[i] /\ g[fg[i]] = h[fg[i]]
      /\ more[Len(fg) + 1] = Len(h) + 1
      /\ g[Len(h) + 1] = f
      /\ Len(fg) \in Nat
    BY OneMore, LenProperties
<1>2. lengths \in Seq(Nat) /\ Len(lengths) = Len(fg)
    <2>1. \A i \in 1 .. Len(fg) : h[fg[i]] \in AnyFrame
        BY ElementOfSeq
    <2>2. QED
        BY <1>1, <2>1
<1>3. f.length \in Nat
    OBVIOUS
<1> HIDE DEF g, more
<1>4. [i \in 1 .. Len(more) |-> g[more[i]].length] = Append(lengths, f.length)
    <2>1. \A i \in 1 .. Len(fg) + 1 : i \in 1 .. Len(fg) \/ i = Len(fg) + 1
        BY <1>1
    <2>2. Append(lengths, f.length) =
              [i \in 1 .. Len(fg) + 1 |-> IF i = Len(fg) + 1 THEN f.length ELSE lengths[i]]
        <3> HIDE DEF lengths
        <3>1. QED
            BY <1>1, <1>2, <1>3, <2>1
    <2>3. \A i \in 1 .. Len(fg) + 1 :
              g[more[i]].length = IF i = Len(fg) + 1 THEN f.length ELSE lengths[i]
        BY <1>1, <2>1
    <2>4. QED
        BY <1>1, <2>2, <2>3
<1>5. Total(Append(lengths, f.length)) = Total(lengths) + f.length
    <2> HIDE DEF lengths
    <2>1. QED
        BY <1>2, <1>3, TotalAppend
<1>6. QED
    BY <1>4, <1>5 DEF LengthIn, g, more
-----------------------------------------------------------------------------
(* What a connection has read *)

(***************************************************************************)
(* TooBig has been asked before the content of a frame is read, which says *)
(* what the sum is up to a multiple of SizeValues, and, for a content that *)
(* can be there, what it is.                                               *)
(***************************************************************************)
FitsRight(c) ==
    /\ size[c] <= MaxMessageSize
    /\ stage[c] = "content" =>
           (frame[c].length + size[c]) % SizeValues <= MaxMessageSize

LEMMA NotWrapped ==
    ASSUME NEW n \in Nat, n < StreamLimit
    PROVE  n % SizeValues = n
<1>1. SizeValues \in Nat /\ 0 < SizeValues
    BY ConfigAssumption
<1>2. n < SizeValues
    BY <1>1 DEF StreamLimit
<1>3. QED
    BY <1>1, <1>2

ConformsTo(h, f) ==
    /\ f.opcode = "text" => ~Mid(h)
    /\ f.opcode = "continuation" => Mid(h)

ReadRight(c) ==
    /\ FitsRight(c)
    /\ Assembled(heard[c], inbox[c], fragment[c])
    /\ Measured(heard[c], inbox[c], fragment[c], size[c])
    /\ stage[c] \in {"length", "content"} =>
           frame[c] \in Frames /\ ConformsTo(heard[c], frame[c])

(***************************************************************************)
(* The same after a step                                                   *)
(***************************************************************************)
StaysRead(c) == ReadRight(c)'

RInv == \A c \in Conn : ReadRight(c)

LEMMA ConformsMeans ==
    ASSUME NEW c \in Conn, NEW f, Conforms(c, f)
    PROVE  ConformsTo(heard[c], f)
BY DEF Conforms, ConformsTo, MidMessage, Mid

(***************************************************************************)
(* Up to its content, reading a frame changes only which it is.            *)
(***************************************************************************)
ReadSame(c) == UNCHANGED <<heard[c], inbox[c], fragment[c], size[c]>>

LEMMA NothingHeard ==
    ASSUME NEW c \in Conn, ReadRight(c), ReadSame(c),
           stage'[c] \in {"length", "content"} =>
               frame'[c] \in Frames /\ ConformsTo(heard[c], frame'[c]),
           stage'[c] = "content" =>
               (frame'[c].length + size[c]) % SizeValues <= MaxMessageSize
    PROVE  StaysRead(c)
<1>1. FitsRight(c)'
    BY DEF ReadRight, ReadSame, FitsRight
<1>2. Assembled(heard[c], inbox[c], fragment[c])'
    BY DEF ReadRight, ReadSame
<1>3. Measured(heard[c], inbox[c], fragment[c], size[c])'
    BY DEF ReadRight, ReadSame
<1>4. (stage[c] \in {"length", "content"} =>
           frame[c] \in Frames /\ ConformsTo(heard[c], frame[c]))'
    BY DEF ReadSame
<1>5. QED
    BY <1>1, <1>2, <1>3, <1>4 DEF ReadRight, StaysRead

(***************************************************************************)
(* Handlers that end reading, or have nothing to do with it                *)
(***************************************************************************)
LEMMA NotReading ==
    ASSUME NEW c \in Conn, ReadRight(c), ReadSame(c),
           \/ stage'[c] = stage[c] /\ frame'[c] = frame[c]
           \/ stage'[c] \notin {"length", "content"}
    PROVE  StaysRead(c)
<1>1. CASE stage'[c] \notin {"length", "content"}
    BY <1>1, NothingHeard
<1>2. CASE stage'[c] = stage[c] /\ frame'[c] = frame[c]
    <2>1. /\ stage'[c] \in {"length", "content"} =>
                 frame'[c] \in Frames /\ ConformsTo(heard[c], frame'[c])
          /\ stage'[c] = "content" =>
                 (frame'[c].length + size[c]) % SizeValues <= MaxMessageSize
        BY <1>2 DEF ReadRight, FitsRight
    <2>2. QED
        BY <2>1, NothingHeard
<1>3. QED
    BY <1>1, <1>2

(***************************************************************************)
(* read_message up to the content of a frame                               *)
(***************************************************************************)
LEMMA ContentFits ==
    ASSUME IInv, NEW c \in Conn, ReadRight(c), NEW f \in Frames, ConformsTo(heard[c], f),
           ReadBigContent(c, f) \/ StartContent(c, f)
    PROVE  StaysRead(c)
<1>1. CASE ReadBigContent(c, f)
    <2>1. stage'[c] = "done" /\ ReadSame(c)
        BY <1>1 DEF ReadBigContent, StopReading, reading, ReadSame, IInv, TypeOK
    <2>2. QED
        BY <2>1, NotReading
<1>2. CASE StartContent(c, f)
    <2>1. stage'[c] = "content" /\ frame'[c] = f /\ ReadSame(c)
        BY <1>2 DEF StartContent, ReadSame, IInv, TypeOK
    <2>2. f.length \in Nat /\ size[c] \in Nat
        BY FrameTypes DEF IInv, TypeOK
    <2>3. (f.length + size[c]) % SizeValues <= MaxMessageSize
        <3>1. (f.length + size[c]) % SizeValues \in Nat
            BY <2>2, ConfigAssumption
        <3>2. QED
            BY <1>2, <3>1, ConfigAssumption DEF StartContent, TooBig
    <2>4. QED
        BY <2>1, <2>3, NothingHeard
<1>3. QED
    BY <1>1, <1>2

LEMMA HeaderRead ==
    ASSUME IInv, NEW c \in Conn, ReadRight(c), ReadHeader(c)
    PROVE  StaysRead(c)
<1>1. ASSUME NEW f \in Frames, ReadUnmasked(c, f)
      PROVE  StaysRead(c)
    <2>1. stage'[c] = "done" /\ ReadSame(c)
        BY <1>1 DEF ReadUnmasked, StopReading, reading, ReadSame, IInv, TypeOK
    <2>2. QED
        BY <2>1, NotReading
<1>2. ASSUME NEW f \in Frames, ReadHead(c, f)
      PROVE  StaysRead(c)
    BY <1>2, ContentFits, ConformsMeans DEF ReadHead, HeadArrives
<1>3. ASSUME NEW f \in Frames, ReadLongHead(c, f)
      PROVE  StaysRead(c)
    <2>1. stage'[c] = "length" /\ frame'[c] = f /\ ReadSame(c)
        BY <1>3 DEF ReadLongHead, ReadSame, IInv, TypeOK
    <2>2. ConformsTo(heard[c], f)
        BY <1>3, ConformsMeans DEF ReadLongHead, HeadArrives
    <2>3. QED
        BY <2>1, <2>2, NothingHeard
<1>4. CASE ReadLength(c)
    <2>1. frame[c] \in Frames /\ ConformsTo(heard[c], frame[c])
        BY <1>4 DEF ReadLength, ReadRight
    <2>2. QED
        BY <1>4, <2>1, ContentFits DEF ReadLength
<1>5. QED
    BY <1>1, <1>2, <1>3, <1>4 DEF ReadHeader

(***************************************************************************)
(* The content of a control frame, of whichever kind                       *)
(***************************************************************************)
LEMMA ControlRead ==
    ASSUME IInv, NEW c \in Conn, ReadRight(c), ReceiveControl(c)
    PROVE  StaysRead(c)
<1> DEFINE h == heard[c]
<1> DEFINE f == frame[c]
<1>1. h \in Seq(AnyFrame) /\ f \in AnyFrame /\ f.opcode \notin Data
    BY DEF ReceiveControl, ReceiveClose, ReceivePing, ReceivePong, Opcode, Data,
           IInv, TypeOK, AnyFrame
<1>2. /\ heard'[c] = Append(h, f)
      /\ inbox'[c] = inbox[c]
      /\ fragment'[c] = fragment[c]
      /\ size'[c] = size[c]
    BY DEF ReceiveControl, ReceiveClose, ReceivePing, ReceivePong, ContentArrives, IInv, TypeOK
<1>3. stage'[c] \in {"head", "done"}
    BY DEF ReceiveControl, ReceiveClose, ReceivePing, ReceivePong, StopReading, NextMessage,
           IInv, TypeOK
<1>4. Assembled(h, inbox[c], fragment[c]) /\ Measured(h, inbox[c], fragment[c], size[c])
    BY DEF ReadRight
<1> HIDE DEF h, f
<1>5. /\ Assembled(Append(h, f), inbox[c], fragment[c])
      /\ Measured(Append(h, f), inbox[c], fragment[c], size[c])
    BY <1>1, <1>4, AssembledControl, MeasuredSame
<1>6. FitsRight(c)'
    BY <1>2, <1>3 DEF ReadRight, FitsRight
<1>7. QED
    BY <1>2, <1>3, <1>5, <1>6 DEF ReadRight, StaysRead

(***************************************************************************)
(* A data frame continues the message under construction, also when it is  *)
(* the only one of its message.                                            *)
(***************************************************************************)
LEMMA MessageGrows ==
    ASSUME IInv, NEW c \in Conn, ReadRight(c), stage[c] = "content", Opcode(c) \in Data
    PROVE  InMessage(c) = Append(fragment[c], Len(heard[c]) + 1)
<1>1. CASE Fragmented(c)
    BY <1>1 DEF InMessage, No
<1>2. CASE ~Fragmented(c)
    <2>1. frame[c].opcode = "text"
        BY <1>2 DEF Fragmented, Opcode, Data
    <2>2. fragment[c] = << >>
        BY <2>1 DEF ReadRight, ConformsTo, Assembled
    <2>3. QED
        BY <1>2, <2>2 DEF InMessage, No
<1>3. QED
    BY <1>1, <1>2

LEMMA DataRead ==
    ASSUME IInv, NEW c \in Conn, ReadRight(c), ReceiveFragment(c) \/ ReceiveMessage(c)
    PROVE  StaysRead(c)
<1> DEFINE h == heard[c]
<1> DEFINE f == frame[c]
<1> DEFINE more == Append(fragment[c], Len(h) + 1)
<1>1. stage[c] = "content" /\ f.opcode \in Data /\ InMessage(c) = more
    <2>1. stage[c] = "content" /\ Opcode(c) \in Data
        BY DEF ReceiveFragment, ReceiveMessage, ContentArrives
    <2>2. QED
        BY <2>1, MessageGrows DEF Opcode
<1>2. heard'[c] = Append(h, f) /\ stage'[c] = "head"
    BY DEF ReceiveFragment, ReceiveMessage, ContentArrives, NextMessage, IInv, TypeOK
<1>3. h \in Seq(AnyFrame) /\ f \in Frames /\ f \in AnyFrame
    BY <1>1 DEF ReadRight, IInv, TypeOK, AnyFrame
<1>4. /\ Assembled(h, inbox[c], fragment[c])
      /\ Measured(h, inbox[c], fragment[c], size[c])
      /\ (f.length + size[c]) % SizeValues <= MaxMessageSize
      /\ fragment[c] \in Seq(1 .. Len(h))
      /\ inbox[c] \in Seq(Seq(1 .. Len(h)))
    BY <1>1 DEF ReadRight, FitsRight, Assembled
<1>5. f.length \in Nat /\ size[c] \in Nat /\ \A x \in AnyFrame : x.length \in Nat
    BY <1>3, FrameTypes DEF AnyFrame, IInv, TypeOK
<1>6. f.length + size[c] <= MaxMessageSize
    <2>1. f.length + size[c] < StreamLimit /\ f.length + size[c] \in Nat
        BY <1>5 DEF ReceiveFragment, ReceiveMessage, ContentArrives
    <2>2. QED
        BY <1>4, <2>1, NotWrapped
<1>7. LengthIn(Append(h, f), more) = size[c] + f.length
    BY <1>3, <1>4, <1>5, LengthMore DEF Measured
<1>8. \A i \in 1 .. Len(inbox[c]) : LengthIn(Append(h, f), inbox[c][i]) <= MaxMessageSize
    BY <1>3, <1>4, MeasuredSame DEF Measured
<1>9. CASE ReceiveFragment(c)
    <2>1. /\ fragment'[c] = more
          /\ inbox'[c] = inbox[c]
          /\ size'[c] = size[c] + f.length
          /\ ~f.fin
        BY <1>1, <1>9 DEF ReceiveFragment, IInv, TypeOK
    <2> HIDE DEF h, f, more
    <2>2. Assembled(Append(h, f), inbox[c], more)
        BY <1>1, <1>3, <1>4, <2>1, AssembledFragment DEF more
    <2>3. Measured(Append(h, f), inbox[c], more, size[c] + f.length)
        BY <1>7, <1>8 DEF Measured
    <2>4. FitsRight(c)'
        BY <1>2, <1>5, <1>6, <2>1 DEF FitsRight
    <2>5. QED
        BY <1>2, <2>1, <2>2, <2>3, <2>4 DEF ReadRight, StaysRead
<1>10. CASE ReceiveMessage(c)
    <2> DEFINE next == Append(inbox[c], more)
    <2>1. /\ fragment'[c] = << >>
          /\ inbox'[c] = next
          /\ size'[c] = 0
          /\ f.fin = TRUE
        BY <1>1, <1>3, <1>10 DEF ReceiveMessage, IInv, TypeOK, Frames, FramesOf
    <2>2. /\ Len(next) = Len(inbox[c]) + 1
          /\ \A i \in 1 .. Len(inbox[c]) : next[i] = inbox[c][i]
          /\ next[Len(inbox[c]) + 1] = more
          /\ Len(inbox[c]) \in Nat
        <3>1. inbox[c] \in Seq(Seq(Nat)) /\ InMessage(c) \in Seq(Nat)
            BY HeardType, <1>10 DEF ReceiveMessage, IInv, TypeOK
        <3> HIDE DEF more
        <3>2. QED
            BY <1>1, <3>1, AppendProperties, LenProperties
    <2> HIDE DEF h, f, next
    <2>3. Assembled(Append(h, f), Append(inbox[c], more), << >>)
        BY <1>1, <1>3, <1>4, <2>1, AssembledMessage
    <2> HIDE DEF more
    <2>4. Measured(Append(h, f), next, << >>, 0)
        <3>1. ASSUME NEW i \in 1 .. Len(next) PROVE LengthIn(Append(h, f), next[i]) <= MaxMessageSize
            <4>1. CASE i \in 1 .. Len(inbox[c])
                BY <1>8, <2>2, <4>1
            <4>2. CASE i = Len(inbox[c]) + 1
                BY <1>5, <1>7, <1>6, <2>2, <4>2
            <4>3. QED
                BY <2>2, <4>1, <4>2
        <3>2. LengthIn(Append(h, f), << >>) = 0
            <4>1. [i \in 1 .. Len(<< >>) |-> Append(h, f)[<< >>[i]].length] = << >>
                OBVIOUS
            <4>2. QED
                BY <4>1, TotalEmpty DEF LengthIn
        <3>3. QED
            BY <3>1, <3>2 DEF Measured
    <2>5. FitsRight(c)'
        BY <1>2, <2>1, ConfigAssumption DEF FitsRight
    <2>6. QED
        BY <1>2, <2>1, <2>3, <2>4, <2>5 DEF ReadRight, StaysRead, next
<1>11. QED
    BY <1>9, <1>10

(***************************************************************************)
(* Handshakes, errors, writes and what happens outside read nothing.       *)
(***************************************************************************)
LEMMA OthersRead ==
    ASSUME IInv, NEW c \in Conn, ReadRight(c),
           Handshake(c) \/ ReadFails(c) \/ Write(c) \/ Outside(c)
    PROVE  StaysRead(c)
<1>1. ReadSame(c) /\ frame'[c] = frame[c]
    BY DEF Handshake, Upgrade, Refuse, NoEndpoint, HandshakeWritten, HandshakeFails,
           RefusalEnds, ReadFails, Write, WriteDone, WriteFails,
           Outside, TimerExpires, RunTimer, PeerFinishes, PeerGone, reading, ReadSame
<1>2. stage'[c] = stage[c] \/ stage'[c] \notin {"length", "content"}
    <2>1. CASE Handshake(c)
        BY <2>1 DEF Handshake, Upgrade, Refuse, NoEndpoint, HandshakeWritten,
                    HandshakeFails, RefusalEnds, StopReading, IInv, TypeOK
    <2>2. CASE ReadFails(c)
        BY <2>2 DEF ReadFails, StopReading, IInv, TypeOK
    <2>3. CASE Write(c) \/ Outside(c)
        BY <2>3 DEF Write, WriteDone, WriteFails, Outside, TimerExpires, RunTimer, PeerFinishes, PeerGone
    <2>4. QED
        BY <2>1, <2>2, <2>3
<1>3. QED
    BY <1>1, <1>2, NotReading

-----------------------------------------------------------------------------
(* A handler leaves the other connections alone. *)

Acts(c) ==
    \/ Handshake(c) \/ ReadHeader(c) \/ ReceiveControl(c) \/ ReceiveFragment(c)
    \/ ReceiveMessage(c) \/ ReadFails(c) \/ Write(c) \/ Outside(c)

LeftAlone(d) ==
    /\ UNCHANGED <<stage[d], closed[d], wire[d], queue[d], socket[d], joined[d]>>
    /\ UNCHANGED <<frame[d], size[d], fragment[d], heard[d], inbox[d]>>
    /\ UNCHANGED published
    /\ d \in members' <=> d \in members

LEMMA Elsewhere ==
    ASSUME IInv, NEW c \in Conn, NEW d \in Conn, d # c, Acts(c)
    PROVE  LeftAlone(d)
<1> USE DEF IInv, TypeOK, LeftAlone
<1>1. CASE Handshake(c) \/ ReadFails(c)
    BY <1>1 DEF Handshake, Upgrade, Refuse, NoEndpoint, HandshakeWritten, HandshakeFails,
                RefusalEnds, ReadFails, StopReading, TakeSocket, AfterWrite, reading, sending
<1>2. CASE ReadHeader(c)
    BY <1>2 DEF ReadHeader, ReadUnmasked, ReadHead, ReadLongHead, ReadLength,
                ReadBigContent, StartContent, SendClose, Send, StopReading,
                reading, sending
<1>3. CASE ReceiveControl(c)
    <2>1. CASE ReceiveClose(c)
        BY <2>1 DEF ReceiveClose, ContentArrives, SendClose, Send, StopReading
    <2>2. CASE ReceivePing(c)
        BY <2>2 DEF ReceivePing, ContentArrives, NextMessage, Send
    <2>3. CASE ReceivePong(c)
        BY <2>3 DEF ReceivePong, ContentArrives, NextMessage
    <2>4. QED
        BY <1>3, <2>1, <2>2, <2>3 DEF ReceiveControl
<1>4. CASE ReceiveFragment(c) \/ ReceiveMessage(c)
    BY <1>4 DEF ReceiveFragment, ReceiveMessage, ContentArrives, NextMessage
<1>5. CASE Write(c)
    BY <1>5 DEF Write, WriteDone, WriteFails, AfterWrite, reading
<1>6. CASE Outside(c)
    BY <1>6 DEF Outside, TimerExpires, RunTimer, PeerFinishes, PeerGone, reading, sending
<1>7. QED
    BY <1>1, <1>2, <1>3, <1>4, <1>5, <1>6 DEF Acts

-----------------------------------------------------------------------------

LEMMA InitRInv == Init => RInv
<1> SUFFICES ASSUME Init, NEW c \in Conn PROVE ReadRight(c)
    BY DEF RInv
<1>1. /\ heard[c] = << >> /\ inbox[c] = << >> /\ fragment[c] = << >>
      /\ size[c] = 0 /\ stage[c] = "none"
    BY DEF Init
<1>2. Assembled(<< >>, << >>, << >>)
    <2>1. FlattenSeq(<< >>) \o << >> = << >>
        <3>1. << >> \in Seq(Nat)
            OBVIOUS
        <3>2. QED
            BY <3>1, FlattenEmpty, ConcatEmptySeq
    <2>2. Positions(<< >>, FramesOf(Data)) = << >> /\ ~Mid(<< >>)
        BY PositionsEmpty, OnlyEmpty DEF Mid
    <2>3. QED
        BY <2>1, <2>2, EmptySeq DEF Assembled
<1>3. Measured(<< >>, << >>, << >>, 0)
    <2>1. [i \in 1 .. Len(<< >>) |-> << >>[<< >>[i]].length] = << >>
        OBVIOUS
    <2>2. QED
        BY <2>1, TotalEmpty, EmptySeq DEF Measured, LengthIn
<1>4. FitsRight(c)
    BY <1>1, ConfigAssumption DEF FitsRight
<1>5. QED
    BY <1>1, <1>2, <1>3, <1>4 DEF ReadRight

LEMMA NextRInv == IInv /\ RInv /\ [Next]_vars => RInv'
<1> SUFFICES ASSUME IInv, RInv, [Next]_vars, NEW d \in Conn
             PROVE  StaysRead(d)
    BY DEF RInv, StaysRead
<1>1. ReadRight(d)
    BY DEF RInv
<1>2. CASE UNCHANGED vars
    BY <1>1, <1>2, NotReading DEF vars, reading, ReadSame
<1>3. CASE Broadcast
    BY <1>1, <1>3, NotReading DEF Broadcast, reading, ReadSame
<1>4. ASSUME NEW c \in Conn, Acts(c)
      PROVE  StaysRead(d)
    <2>1. CASE d = c
        BY <1>1, <1>4, <2>1, OthersRead, HeaderRead, ControlRead, DataRead DEF Acts
    <2>2. CASE d # c
        <3>1. LeftAlone(d)
            BY <1>4, <2>2, Elsewhere
        <3>2. QED
            BY <1>1, <3>1, NotReading DEF LeftAlone, ReadSame
    <2>3. QED
        BY <2>1, <2>2
<1>5. QED
    BY <1>2, <1>3, <1>4 DEF Next, Acts

(***************************************************************************)
(* Type correctness.                                                       *)
(***************************************************************************)
THEOREM TypeCorrect == Spec => []TypeOK
<1>1. IInv => TypeOK
    BY DEF IInv
<1>2. QED
    BY <1>1, InitIInv, NextIInv, PTL DEF Spec

(***************************************************************************)
(* Frames never overlap on the wire, and none is forgotten in a queue.     *)
(***************************************************************************)
THEOREM WritesAreSerial == Spec => []OneWriteInFlight
<1>1. IInv => OneWriteInFlight
    BY DEF IInv
<1>2. QED
    BY <1>1, InitIInv, NextIInv, PTL DEF Spec

(***************************************************************************)
(* The endpoint holds exactly the connections that are being read.         *)
(***************************************************************************)
THEOREM MembersAreRead == Spec => []RegisteredIffReading
<1>1. IInv => RegisteredIffReading
    BY DEF IInv
<1>2. QED
    BY <1>1, InitIInv, NextIInv, PTL DEF Spec

(***************************************************************************)
(* However the frames of a client are fragmented, and whatever control     *)
(* frames come between the fragments, the messages put together of them    *)
(* are its data frames, each once, in order, and whole.                    *)
(***************************************************************************)
THEOREM MessagesPutTogether == Spec => []MessagesIntact
<1>1. RInv => MessagesIntact
    BY DEF RInv, ReadRight, Assembled, WholeIn, MessagesIntact
<1>2. QED
    BY <1>1, InitIInv, NextIInv, InitRInv, NextRInv, PTL DEF Spec

(***************************************************************************)
(* For frames of any length, the sum of line 714 wrapping around or not,   *)
(* and for any limit, no message is longer than that, and `length' of the  *)
(* fragments kept is their sum.                                            *)
(***************************************************************************)
THEOREM SizesAdded == Spec => []SizeBounded
<1>1. RInv => SizeBounded
    BY DEF RInv, ReadRight, FitsRight, Measured, LengthIn, SizeBounded
<1>2. QED
    BY <1>1, InitIInv, NextIInv, InitRInv, NextRInv, PTL DEF Spec

(***************************************************************************)
(* The fragments that are kept of a message do not exceed the limit with   *)
(* the frame whose content is being read either, unless there is more of   *)
(* it than can ever be there: then only the sum in size_t does not.        *)
(***************************************************************************)
FragmentsFit ==
    \A c \in Conn :
        stage[c] = "content" /\ frame[c].length + size[c] < StreamLimit =>
            frame[c].length + size[c] <= MaxMessageSize

THEOREM LimitIsKept == Spec => []FragmentsFit
<1>1. IInv /\ RInv => FragmentsFit
    <2> SUFFICES ASSUME IInv, RInv, NEW c \in Conn, stage[c] = "content",
                        frame[c].length + size[c] < StreamLimit
                 PROVE  frame[c].length + size[c] <= MaxMessageSize
        BY DEF FragmentsFit
    <2>1. frame[c].length + size[c] \in Nat
        BY FrameTypes DEF RInv, ReadRight, IInv, TypeOK
    <2>2. (frame[c].length + size[c]) % SizeValues <= MaxMessageSize
        BY DEF RInv, ReadRight, FitsRight
    <2>3. QED
        BY <2>1, <2>2, NotWrapped
<1>2. QED
    BY <1>1, InitIInv, NextIInv, InitRInv, NextRInv, PTL DEF Spec
=============================================================================
