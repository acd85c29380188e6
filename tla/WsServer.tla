------------------------------- MODULE WsServer -------------------------------
(***************************************************************************)
(* SimpleWeb::SocketServer<WS> (src/src/web/server_ws.hpp) as moba-display *)
(* uses it: connections handed over by the HTTP server through upgrade(),  *)
(* one endpoint, messages broadcast to every connection of the endpoint,   *)
(* frames read from every connection.                                      *)
(*                                                                         *)
(* There is one I/O thread, so an action is one completion handler, run to *)
(* its return.  Between two handlers anything may happen outside: the peer *)
(* sends a frame, takes what was written, or goes away; a timer fires.     *)
(*                                                                         *)
(* A connection of Conn is used once: a client that comes back is another  *)
(* connection.  Text frames carry the number of the broadcast message,     *)
(* pongs the number of the ping they answer.                               *)
(***************************************************************************)
EXTENDS Integers, Sequences, SequencesExt, Scans

CONSTANTS Conn,            \* connections that may be upgraded
          Lengths,         \* payload lengths of the frames a peer sends
          SizeValues,      \* number of values of std::size_t: 2^64
          MaxMessageSize,  \* config.max_message_size
          IdleTimeout,     \* config.timeout_idle # 0 (moba-display leaves it 0)
          MaxMessages,     \* bound: messages broadcast
          MaxFrames        \* bound: frames read from one connection

(***************************************************************************)
(* A length is sent in up to eight bytes and taken as it comes.  Left out  *)
(* are the four for which 4 + length wraps to less than a mask (line 723). *)
(***************************************************************************)
ASSUME ConfigAssumption ==
    /\ SizeValues \in Nat
    /\ Lengths \subseteq Nat
    /\ \A n \in Lengths : n + 4 < SizeValues
    /\ MaxMessageSize \in 0 .. SizeValues - 1
    /\ IdleTimeout \in BOOLEAN
    /\ MaxMessages \in Nat
    /\ MaxFrames \in Nat

VARIABLES
    stage,      \* which asynchronous operation of the reading side is pending
    members,    \* endpoint.connections
    queue,      \* send_queue
    writes,     \* async_writes of queued frames that are pending
    closed,     \* closed: send_close has been called
    armed,      \* timer is waiting
    expired,    \* timer fired: its handler is due and cannot be cancelled
    socket,     \* what the TCP connection still does
    frame,      \* the frame whose header has been read
    fragment,   \* fragmented_in_message: its frames, << >> for nullptr
    size,       \* fragmented_in_message->length
    (* history *)
    published,  \* messages broadcast so far
    joined,     \* published, when the connection was opened
    wire,       \* frames written
    heard,      \* frames read to their end
    inbox       \* messages passed to on_message, as the frames they consist of

reading == <<frame, fragment, size, heard, inbox>>
sending == <<queue, writes, closed, wire>>
timer   == <<armed, expired>>
vars    == <<stage, members, published, joined, socket, reading, sending, timer>>

Data    == {"text", "continuation"}
Control == {"close", "ping", "pong"}
FramesOf(opcodes) == [opcode : opcodes, fin : BOOLEAN, masked : BOOLEAN, length : Lengths]
Frames  == FramesOf(Data \cup Control)
NoFrame == [opcode |-> "none", fin |-> FALSE, masked |-> FALSE, length |-> 0]

Handshakes == {"handshake", "refusal"}
Reads      == {"head", "length", "content"}

Init ==
    /\ stage = [c \in Conn |-> "none"]
    /\ members = {}
    /\ queue = [c \in Conn |-> << >>]
    /\ writes = [c \in Conn |-> 0]
    /\ closed = [c \in Conn |-> FALSE]
    /\ armed = [c \in Conn |-> FALSE]
    /\ expired = [c \in Conn |-> FALSE]
    /\ socket = [c \in Conn |-> "open"]
    /\ frame = [c \in Conn |-> NoFrame]
    /\ fragment = [c \in Conn |-> << >>]
    /\ size = [c \in Conn |-> 0]
    /\ published = 0
    /\ joined = [c \in Conn |-> 0]
    /\ wire = [c \in Conn |-> << >>]
    /\ heard = [c \in Conn |-> << >>]
    /\ inbox = [c \in Conn |-> << >>]

(***************************************************************************)
(* A Connection lives as long as a pending handler or the endpoint's set   *)
(* holds a shared_ptr to it; the timer's handler holds a weak_ptr only.    *)
(***************************************************************************)
Alive(c) ==
    \/ stage[c] \in Handshakes \cup Reads
    \/ writes[c] > 0
    \/ c \in members

SetTimeout(c)    == armed' = [armed EXCEPT ![c] = IdleTimeout]
CancelTimeout(c) == armed' = [armed EXCEPT ![c] = FALSE]

(***************************************************************************)
(* Connection::send: append, and start writing if nothing is being written *)
(***************************************************************************)
SendInFront(c, f) ==     \* faulty: emplace_front
    /\ queue' = [queue EXCEPT ![c] = <<f>> \o @]
    /\ writes' = [writes EXCEPT ![c] = IF queue[c] = << >> THEN @ + 1 ELSE @]

Send(c, f) ==
    /\ queue' = [queue EXCEPT ![c] = Append(@, f)]
    /\ writes' = [writes EXCEPT ![c] = IF queue[c] = << >> THEN @ + 1 ELSE @]

CloseFrame == [op |-> "close", no |-> 0]

(***************************************************************************)
(* send_close, called by a handler that has cancelled the timer: only a    *)
(* write that starts now sets it again.                                    *)
(***************************************************************************)
SendClose(c) ==
    /\ closed' = [closed EXCEPT ![c] = TRUE]
    /\ IF closed[c] THEN UNCHANGED <<queue, writes>> ELSE Send(c, CloseFrame)
    /\ IF ~closed[c] /\ queue[c] = << >> THEN SetTimeout(c) ELSE CancelTimeout(c)

(***************************************************************************)
(* connection_close and connection_error: the endpoint forgets the         *)
(* connection.  The handlers that call them do not read on.                *)
(***************************************************************************)
StopKeepingMember(c) ==  \* faulty: the connection stays in the set
    /\ stage' = [stage EXCEPT ![c] = "done"]
    /\ UNCHANGED members

StopReading(c) ==
    /\ stage' = [stage EXCEPT ![c] = "done"]
    /\ members' = members \ {c}

-----------------------------------------------------------------------------
(* upgrade() and write_handshake() *)

(***************************************************************************)
(* The socket comes from an HTTP connection (webserver.cpp:130), whose     *)
(* timer may have closed it while the handler of the header was due.       *)
(***************************************************************************)
TakeSocket(c) ==
    \E state \in {"open", "torn"} : socket' = [socket EXCEPT ![c] = state]

UpgradeUntimed(c) ==     \* faulty: no set_timeout
    /\ stage[c] = "none"
    /\ stage' = [stage EXCEPT ![c] = "handshake"]
    /\ TakeSocket(c)
    /\ UNCHANGED <<members, published, joined, reading, sending, timer>>

Upgrade(c) ==            \* path and key match: 101
    /\ stage[c] = "none"
    /\ stage' = [stage EXCEPT ![c] = "handshake"]
    /\ TakeSocket(c)
    /\ armed' = [armed EXCEPT ![c] = TRUE]    \* timeout_request
    /\ UNCHANGED <<members, published, joined, reading, sending, expired>>

Refuse(c) ==             \* no Sec-WebSocket-Key: 426
    /\ stage[c] = "none"
    /\ stage' = [stage EXCEPT ![c] = "refusal"]
    /\ TakeSocket(c)
    /\ armed' = [armed EXCEPT ![c] = TRUE]
    /\ UNCHANGED <<members, published, joined, reading, sending, expired>>

NoEndpoint(c) ==         \* no endpoint for the path: the connection is dropped
    /\ stage[c] = "none"
    /\ stage' = [stage EXCEPT ![c] = "done"]
    /\ UNCHANGED <<members, published, joined, socket, reading, sending, timer>>

(***************************************************************************)
(* A socket is "open"; "half" once the peer has sent its FIN: reads end,   *)
(* but writes go on, and stay pending while the peer takes nothing; "gone" *)
(* once the peer has reset it; "shut" when close() has shut it down under  *)
(* a pending write; "torn" when every later write must fail.  A write that *)
(* ended well before the socket was shut down is still reported as a       *)
(* success; none after it is.                                              *)
(***************************************************************************)
WritesEnd(c) == socket[c] \notin {"open", "half"}

AfterWrite(c) ==
    socket' = [socket EXCEPT ![c] = IF @ = "shut" THEN "torn" ELSE @]

HandshakeWritten(c) ==   \* connection_open, then the first read_message
    /\ stage[c] = "handshake"
    /\ socket[c] # "torn"
    /\ stage' = [stage EXCEPT ![c] = "head"]
    /\ members' = members \cup {c}
    /\ joined' = [joined EXCEPT ![c] = published]
    /\ AfterWrite(c)
    /\ SetTimeout(c)
    /\ UNCHANGED <<published, reading, sending, expired>>

HandshakeFails(c) ==
    /\ stage[c] = "handshake"
    /\ WritesEnd(c)
    /\ StopReading(c)
    /\ socket' = [socket EXCEPT ![c] = "torn"]
    /\ CancelTimeout(c)
    /\ UNCHANGED <<published, joined, reading, sending, expired>>

RefusalEnds(c) ==        \* written or not, the connection is dropped
    /\ stage[c] = "refusal"
    /\ stage' = [stage EXCEPT ![c] = "done"]
    /\ CancelTimeout(c)
    /\ UNCHANGED <<members, published, joined, socket, reading, sending, expired>>

-----------------------------------------------------------------------------
(* read_message(): the two header bytes, and the length bytes after them *)

(***************************************************************************)
(* What an RFC 6455 client may send next; a browser sends nothing else,    *)
(* but for frames without a mask, which read_message checks.               *)
(***************************************************************************)
MidMessage(c) ==
    LET data == Only(heard[c], FramesOf(Data))
    IN  data # << >> /\ ~Last(data).fin

Conforms(c, f) ==
    /\ f.opcode = "text" => ~MidMessage(c)
    /\ f.opcode = "continuation" => MidMessage(c)
    /\ f.opcode \in Control => f.fin /\ f.length < 126

HeadArrives(c, f) ==
    /\ stage[c] = "head"
    /\ Len(heard[c]) < MaxFrames
    /\ Conforms(c, f)

ReadUnmasked(c, f) ==
    /\ HeadArrives(c, f)
    /\ ~f.masked
    /\ SendClose(c)
    /\ StopReading(c)
    /\ UNCHANGED <<published, joined, socket, reading, wire, expired>>

(***************************************************************************)
(* read_message_content() up to its async_read                             *)
(***************************************************************************)
TooBigAlone(c, f) == f.length > MaxMessageSize    \* faulty: fragments forgotten

TooBig(c, f) == (f.length + size[c]) % SizeValues > MaxMessageSize    \* size_t

ReadBigContent(c, f) ==
    /\ TooBig(c, f)
    /\ SendClose(c)
    /\ StopReading(c)
    /\ UNCHANGED <<published, joined, socket, reading, wire, expired>>

StartContent(c, f) ==
    /\ ~TooBig(c, f)
    /\ stage' = [stage EXCEPT ![c] = "content"]
    /\ frame' = [frame EXCEPT ![c] = f]
    /\ SetTimeout(c)
    /\ UNCHANGED <<members, published, joined, socket,
                   fragment, size, heard, inbox, sending, expired>>

ReadHead(c, f) ==
    /\ HeadArrives(c, f)
    /\ f.masked
    /\ f.length < 126
    /\ ReadBigContent(c, f) \/ StartContent(c, f)

ReadLongHead(c, f) ==    \* 126 or 127: the length is still to be read
    /\ HeadArrives(c, f)
    /\ f.masked
    /\ f.length >= 126
    /\ stage' = [stage EXCEPT ![c] = "length"]
    /\ frame' = [frame EXCEPT ![c] = f]
    /\ SetTimeout(c)
    /\ UNCHANGED <<members, published, joined, socket,
                   fragment, size, heard, inbox, sending, expired>>

ReadLength(c) ==
    /\ stage[c] = "length"
    /\ ReadBigContent(c, frame[c]) \/ StartContent(c, frame[c])

-----------------------------------------------------------------------------
(* read_message_content(), once mask and payload are there *)

Opcode(c) == frame[c].opcode
No(c)     == Len(heard[c]) + 1    \* the number of the frame being read

Fragmented(c) == ~frame[c].fin \/ Opcode(c) = "continuation"

InMessage(c) == IF Fragmented(c) THEN Append(fragment[c], No(c)) ELSE <<No(c)>>

StreamLimit == SizeValues \div 2    \* a std::vector<char> holds no more bytes

ContentArrives(c) ==     \* what memory cannot hold never arrives to its end
    /\ stage[c] = "content"
    /\ frame[c].length + size[c] < StreamLimit
    /\ heard' = [heard EXCEPT ![c] = Append(@, frame[c])]
    /\ UNCHANGED <<frame, published, joined, socket, wire, expired>>

NextMessage(c) ==        \* read_message again
    /\ stage' = [stage EXCEPT ![c] = "head"]
    /\ SetTimeout(c)
    /\ UNCHANGED <<members, closed>>

ReceiveClose(c) ==
    /\ ContentArrives(c)
    /\ Opcode(c) = "close"
    /\ SendClose(c)
    /\ StopReading(c)
    /\ UNCHANGED <<fragment, size, inbox>>

ReceivePingResetting(c) ==    \* faulty: resets fragmented_in_message
    /\ ContentArrives(c)
    /\ Opcode(c) = "ping"
    /\ Send(c, [op |-> "pong", no |-> No(c)])
    /\ fragment' = [fragment EXCEPT ![c] = << >>]
    /\ size' = [size EXCEPT ![c] = 0]
    /\ NextMessage(c)
    /\ UNCHANGED inbox

ReceivePing(c) ==
    /\ ContentArrives(c)
    /\ Opcode(c) = "ping"
    /\ Send(c, [op |-> "pong", no |-> No(c)])
    /\ NextMessage(c)
    /\ UNCHANGED <<fragment, size, inbox>>

ReceivePong(c) ==
    /\ ContentArrives(c)
    /\ Opcode(c) = "pong"
    /\ NextMessage(c)
    /\ UNCHANGED <<fragment, size, inbox, queue, writes>>

ReceiveFragment(c) ==
    /\ ContentArrives(c)
    /\ Opcode(c) \in Data
    /\ ~frame[c].fin
    /\ fragment' = [fragment EXCEPT ![c] = InMessage(c)]
    /\ size' = [size EXCEPT ![c] = @ + frame[c].length]
    /\ NextMessage(c)
    /\ UNCHANGED <<inbox, queue, writes>>

ReceiveMessage(c) ==     \* on_message
    /\ ContentArrives(c)
    /\ Opcode(c) \in Data
    /\ frame[c].fin
    /\ inbox' = [inbox EXCEPT ![c] = Append(@, InMessage(c))]
    /\ fragment' = [fragment EXCEPT ![c] = << >>]
    /\ size' = [size EXCEPT ![c] = 0]
    /\ NextMessage(c)
    /\ UNCHANGED <<queue, writes>>

ReadFailsRegistered(c) ==     \* faulty: no connection_error
    /\ stage[c] \in Reads
    /\ socket[c] # "open"
    /\ stage' = [stage EXCEPT ![c] = "done"]
    /\ CancelTimeout(c)
    /\ UNCHANGED <<members, published, joined, socket, reading, sending, expired>>

ReadFails(c) ==          \* in any of the reads: connection_error
    /\ stage[c] \in Reads
    /\ socket[c] # "open"
    /\ StopReading(c)
    /\ CancelTimeout(c)
    /\ UNCHANGED <<published, joined, socket, reading, sending, expired>>

-----------------------------------------------------------------------------
(* the broadcast posted by the message thread, and send_from_queue() *)

BroadcastToIdle ==       \* faulty: skips connections that are still writing
    /\ published < MaxMessages
    /\ published' = published + 1
    /\ LET idle == {c \in members : queue[c] = << >>}
       IN  /\ queue' = [c \in Conn |->
                           IF c \in idle
                           THEN <<[op |-> "text", no |-> published + 1]>>
                           ELSE queue[c]]
           /\ writes' = [c \in Conn |-> IF c \in idle THEN writes[c] + 1 ELSE writes[c]]
           /\ armed' = [c \in Conn |-> IF c \in idle THEN IdleTimeout ELSE armed[c]]
    /\ UNCHANGED <<stage, members, joined, socket, reading, closed, wire, expired>>

Broadcast ==             \* for every connection of get_connections(): send
    /\ published < MaxMessages
    /\ published' = published + 1
    /\ queue' = [c \in Conn |->
                    IF c \in members
                    THEN Append(queue[c], [op |-> "text", no |-> published + 1])
                    ELSE queue[c]]
    /\ writes' = [c \in Conn |->
                    IF c \in members /\ queue[c] = << >>
                    THEN writes[c] + 1 ELSE writes[c]]
    /\ armed' = [c \in Conn |->
                    IF c \in members /\ queue[c] = << >>
                    THEN IdleTimeout ELSE armed[c]]
    /\ UNCHANGED <<stage, members, joined, socket, reading, closed, wire, expired>>

WriteDoneStopping(c) ==  \* faulty: does not go on with the queue
    /\ writes[c] > 0
    /\ socket[c] # "torn"
    /\ wire' = [wire EXCEPT ![c] = Append(@, Head(queue[c]))]
    /\ queue' = [queue EXCEPT ![c] = Tail(@)]
    /\ writes' = [writes EXCEPT ![c] = @ - 1]
    /\ AfterWrite(c)
    /\ SetTimeout(c)
    /\ UNCHANGED <<stage, members, published, joined, reading, closed, expired>>

WriteDoneNewest(c) ==    \* faulty: the queue is a stack
    /\ writes[c] > 0
    /\ socket[c] # "torn"
    /\ wire' = [wire EXCEPT ![c] = Append(@, Last(queue[c]))]
    /\ queue' = [queue EXCEPT ![c] = Front(@)]
    /\ writes' = [writes EXCEPT ![c] = IF Len(queue[c]) > 1 THEN @ ELSE @ - 1]
    /\ AfterWrite(c)
    /\ SetTimeout(c)
    /\ UNCHANGED <<stage, members, published, joined, reading, closed, expired>>

WriteDone(c) ==
    /\ writes[c] > 0
    /\ socket[c] # "torn"
    /\ wire' = [wire EXCEPT ![c] = Append(@, Head(queue[c]))]
    /\ queue' = [queue EXCEPT ![c] = Tail(@)]
    /\ writes' = [writes EXCEPT ![c] = IF Len(queue[c]) > 1 THEN @ ELSE @ - 1]
    /\ AfterWrite(c)
    /\ SetTimeout(c)
    /\ UNCHANGED <<stage, members, published, joined, reading, closed, expired>>

WriteRetried(c) ==       \* faulty: the write is started again
    /\ writes[c] > 0
    /\ WritesEnd(c)
    /\ socket' = [socket EXCEPT ![c] = "torn"]
    /\ SetTimeout(c)
    /\ UNCHANGED <<stage, members, published, joined, reading, sending, expired>>

WriteFailsPerFrame(c) == \* faulty: one write given up for every queued frame
    /\ writes[c] > 0
    /\ WritesEnd(c)
    /\ queue' = [queue EXCEPT ![c] = << >>]
    /\ writes' = [writes EXCEPT ![c] = @ - Len(queue[c])]
    /\ socket' = [socket EXCEPT ![c] = "torn"]
    /\ SetTimeout(c)
    /\ UNCHANGED <<stage, members, published, joined, reading, closed, wire, expired>>

WriteFails(c) ==         \* every queued frame is dropped, reading goes on
    /\ writes[c] > 0
    /\ WritesEnd(c)
    /\ queue' = [queue EXCEPT ![c] = << >>]
    /\ writes' = [writes EXCEPT ![c] = @ - 1]
    /\ socket' = [socket EXCEPT ![c] = "torn"]
    /\ SetTimeout(c)
    /\ UNCHANGED <<stage, members, published, joined, reading, closed, wire, expired>>

-----------------------------------------------------------------------------
(* timer and peer *)

TimerExpires(c) ==
    /\ armed[c]
    /\ Alive(c)
    /\ armed' = [armed EXCEPT ![c] = FALSE]
    /\ expired' = [expired EXCEPT ![c] = TRUE]
    /\ UNCHANGED <<stage, members, published, joined, socket, reading, sending>>

ShutDown(state) == IF state = "torn" THEN "torn" ELSE "shut"

RunTimer(c) ==           \* close(), if the connection is still there
    /\ expired[c]
    /\ expired' = [expired EXCEPT ![c] = FALSE]
    /\ socket' = [socket EXCEPT ![c] =
                    IF stage[c] \in Handshakes \/ writes[c] > 0 THEN ShutDown(@)
                    ELSE IF Alive(c) THEN "torn" ELSE @]
    /\ UNCHANGED <<stage, members, published, joined, reading, sending, armed>>

PeerFinishes(c) ==       \* FIN from the peer
    /\ Alive(c)
    /\ socket[c] = "open"
    /\ socket' = [socket EXCEPT ![c] = "half"]
    /\ UNCHANGED <<stage, members, published, joined, reading, sending, timer>>

PeerGone(c) ==           \* RST from the peer
    /\ Alive(c)
    /\ socket[c] \in {"open", "half"}
    /\ socket' = [socket EXCEPT ![c] = "gone"]
    /\ UNCHANGED <<stage, members, published, joined, reading, sending, timer>>

-----------------------------------------------------------------------------

Handshake(c) ==
    \/ Upgrade(c)
    \/ Refuse(c)
    \/ NoEndpoint(c)
    \/ HandshakeWritten(c)
    \/ HandshakeFails(c)
    \/ RefusalEnds(c)

ReadHeader(c) ==
    \/ \E f \in Frames : \/ ReadUnmasked(c, f)
                         \/ ReadHead(c, f)
                         \/ ReadLongHead(c, f)
    \/ ReadLength(c)

ReceiveControl(c) ==
    \/ ReceiveClose(c)
    \/ ReceivePing(c)
    \/ ReceivePong(c)

Write(c) == WriteDone(c) \/ WriteFails(c)

Outside(c) == TimerExpires(c) \/ RunTimer(c) \/ PeerFinishes(c) \/ PeerGone(c)

Next ==
    \/ Broadcast
    \/ \E c \in Conn : \/ Handshake(c)
                       \/ ReadHeader(c)
                       \/ ReceiveControl(c)
                       \/ ReceiveFragment(c)
                       \/ ReceiveMessage(c)
                       \/ ReadFails(c)
                       \/ Write(c)
                       \/ Outside(c)

(***************************************************************************)
(* The I/O thread runs every handler that is due: a timer that is waiting  *)
(* fires, a read ends when the peer has finished, and everything ends on a *)
(* socket that is reset or shut down.  Nothing is assumed of the peer: it  *)
(* need not take what is written, or send, or reset what it has finished.  *)
(***************************************************************************)
Fairness ==
    \A c \in Conn : /\ WF_vars(TimerExpires(c))
                    /\ WF_vars(RunTimer(c))
                    /\ WF_vars(HandshakeFails(c))
                    /\ WF_vars(WritesEnd(c) /\ RefusalEnds(c))
                    /\ WF_vars(ReadFails(c))
                    /\ WF_vars(WriteFails(c))

Spec == Init /\ [][Next]_vars

FairSpec == Spec /\ Fairness

-----------------------------------------------------------------------------
(* Properties *)

OutFrames == [op : {"text", "pong", "close"}, no : Nat]

TypeOK ==
    /\ stage \in [Conn -> {"none", "done"} \cup Handshakes \cup Reads]
    /\ members \subseteq Conn
    /\ queue \in [Conn -> Seq(OutFrames)]
    /\ writes \in [Conn -> Nat]
    /\ closed \in [Conn -> BOOLEAN]
    /\ armed \in [Conn -> BOOLEAN]
    /\ expired \in [Conn -> BOOLEAN]
    /\ socket \in [Conn -> {"open", "half", "gone", "shut", "torn"}]
    /\ frame \in [Conn -> Frames \cup {NoFrame}]
    /\ fragment \in [Conn -> Seq(Nat)]
    /\ size \in [Conn -> Nat]
    /\ published \in Nat
    /\ joined \in [Conn -> Nat]
    /\ wire \in [Conn -> Seq(OutFrames)]
    /\ heard \in [Conn -> Seq(Frames \cup {NoFrame})]
    /\ inbox \in [Conn -> Seq(Seq(Nat))]

(***************************************************************************)
(* At most one asynchronous write is pending on a socket, that of the      *)
(* handshake included, and while frames are queued one is pending: frames  *)
(* are neither interleaved on the wire nor forgotten in the queue.  The    *)
(* code says so with `if(send_queue.size() == 1)' in send and              *)
(* `if(send_queue.size() > 0)' in the handler of the write.                *)
(***************************************************************************)
OneWriteInFlight ==
    \A c \in Conn :
        /\ writes[c] = IF queue[c] = << >> THEN 0 ELSE 1
        /\ stage[c] \in Handshakes => queue[c] = << >>

(***************************************************************************)
(* The endpoint's set holds exactly the connections that are being read:   *)
(* whichever way reading ends, the connection is forgotten, and one that   *)
(* is still registered has a read pending that will notice its end.        *)
(***************************************************************************)
RegisteredIffReading ==
    \A c \in Conn : c \in members <=> stage[c] \in Reads

Output(c) == wire[c] \o queue[c]

(***************************************************************************)
(* RFC 6455, 5.5.1: nothing is sent after a close frame.  send_close is    *)
(* followed by connection_close, so no broadcast reaches the connection    *)
(* any more, and no frame is read that could be answered.                  *)
(***************************************************************************)
CloseIsLast ==
    \A c \in Conn :
        \A i \in 1 .. Len(Output(c)) - 1 : Output(c)[i].op # "close"

Texts(frames) == Only(frames, [op : {"text"}, no : Nat])
Pongs(frames) == Only(frames, [op : {"pong"}, no : Nat])

Numbers(frames) == [i \in 1 .. Len(frames) |-> frames[i].no]

(***************************************************************************)
(* A client sees the message bus without a gap: the text frames written to *)
(* it are consecutive messages, from the first one broadcast after it was  *)
(* opened; and while it is registered and no write has failed, every       *)
(* message broadcast since is on the wire or in its queue.                 *)
(***************************************************************************)
Consecutive(frames, first) ==
    \A i \in 1 .. Len(frames) : frames[i].no = first + i

Gapless ==
    \A c \in Conn :
        /\ Consecutive(Texts(wire[c]), joined[c])
        /\ c \in members /\ socket[c] # "torn" =>
             /\ Consecutive(Texts(Output(c)), joined[c])
             /\ Len(Texts(Output(c))) = published - joined[c]

(***************************************************************************)
(* Pongs answer the pings that were read, each once and in their order,    *)
(* also when they are queued behind broadcast messages.                    *)
(***************************************************************************)
PongsAnswerPings ==
    \A c \in Conn :
        LET pings == Positions(heard[c], FramesOf({"ping"}))
        IN  /\ IsPrefix(Numbers(Pongs(wire[c])), pings)
            /\ socket[c] # "torn" => Numbers(Pongs(Output(c))) = pings

(***************************************************************************)
(* Fragmented messages are put together right, with control frames between *)
(* their fragments ("Only reset fragmented_in_message for non-control      *)
(* frames", server_ws.hpp:797): the frames of the messages delivered and   *)
(* of the one under construction are the data frames read, each once and   *)
(* in order, and a message ends where a frame has FIN set.                 *)
(***************************************************************************)
MessagesIntact ==
    \A c \in Conn :
        LET Whole(m) == \A i \in 1 .. Len(m) : heard[c][m[i]].fin <=> i = Len(m)
        IN  /\ FlattenSeq(inbox[c]) \o fragment[c] = Positions(heard[c], FramesOf(Data))
            /\ \A i \in 1 .. Len(inbox[c]) : inbox[c][i] # << >> /\ Whole(inbox[c][i])
            /\ \A i \in 1 .. Len(fragment[c]) : ~heard[c][fragment[c][i]].fin

(***************************************************************************)
(* "Maximum size of incoming messages" (server_ws.hpp:360): no message,    *)
(* delivered or under construction, is longer, however it is fragmented.   *)
(* A sum that wraps around passes the check of line 714, and the frame is  *)
(* read; it has more bytes than can ever be there.                         *)
(***************************************************************************)
SizeBounded ==
    \A c \in Conn :
        LET Length(m) == Total([i \in 1 .. Len(m) |-> heard[c][m[i]].length])
        IN  /\ size[c] = Length(fragment[c])
            /\ size[c] <= MaxMessageSize
            /\ \A i \in 1 .. Len(inbox[c]) : Length(inbox[c][i]) <= MaxMessageSize

(***************************************************************************)
(* timeout_request: no handshake stays pending for ever, whatever the peer *)
(* does or does not do.                                                    *)
(***************************************************************************)
HandshakeBounded ==
    \A c \in Conn : stage[c] \in Handshakes ~> stage[c] \notin Handshakes

(***************************************************************************)
(* A connection whose socket is down is let go by every handler and by the *)
(* endpoint, so that the Connection and its queue are freed.  One that the *)
(* peer has only finished leaves the endpoint; a write that the peer does  *)
(* not take may keep it, as the end of the read has cancelled the timer.   *)
(***************************************************************************)
DownReleased ==
    \A c \in Conn :
        /\ socket[c] \in {"gone", "shut", "torn"} ~> ~Alive(c)
        /\ socket[c] = "half" ~> c \notin members
=============================================================================
