------------------------------ MODULE HttpServer ------------------------------
(***************************************************************************)
(* SimpleWeb::Server<HTTP> (src/src/web/server_http.hpp) with the one      *)
(* resource of moba-display, ResourceLoader (src/src/resourceloader.cpp),  *)
(* which streams a file in pieces of the size of its buffer.               *)
(*                                                                         *)
(* An action is one completion handler of the I/O thread.  A connection    *)
(* has one operation pending, `phase', as long as it lives: the handler of *)
(* that operation holds the Session, and with it the Connection.  Objects  *)
(* are used again: a "free" element of Conn is a Connection that has been  *)
(* deleted or not yet been made.                                           *)
(*                                                                         *)
(* Clients send a request after they have got the response to the one      *)
(* before it, as browsers do.                                              *)
(***************************************************************************)
EXTENDS Integers, FiniteSets

CONSTANTS Conn,         \* bound: connections at one time, the accepting one included
          Requests,     \* the requests that clients send
          BufferSize,   \* ResourceLoader::buffer.size()
          ErrorSize     \* size of the text that comes with a 400

NoFile == -1

RequestType == [method : {"GET", "POST"},
                upgrade : BOOLEAN,
                body : {"none", "length", "chunked"},
                persistent : BOOLEAN,   \* by Connection header or HTTP version
                file : Nat \cup {NoFile}]   \* length of the file that path names

ASSUME SizesAssumption ==
    /\ Requests \subseteq RequestType
    /\ BufferSize \in Nat \ {0}
    /\ ErrorSize \in Nat \ {0}

VARIABLES
    phase,        \* the operation that is pending
    connections,  \* connections->set: pointers
    armed,        \* timer is waiting
    turn,         \* flips when a timer replaces the one before
    expired,      \* a timer has fired, its handler is due
    socket,       \* what the TCP connection still does; "moved" once handed over
    request,      \* session->request
    response      \* the response under way

timer == <<armed, turn, expired>>
vars  == <<phase, connections, timer, socket, request, response>>

Reads  == {"header", "content", "chunk size", "chunk", "chunk end"}
Writes == {"sending", "final"}
Phases == {"free", "accepting"} \cup Reads \cup Writes

NoRequest == [method |-> "GET", upgrade |-> FALSE, body |-> "none",
              persistent |-> FALSE, file |-> NoFile]

(***************************************************************************)
(* A response: the length it announces, the bytes of its body written and  *)
(* being written, and what is left of the file.                            *)
(***************************************************************************)
Response(announced, delivered, flying, left) ==
    [announced |-> announced, delivered |-> delivered, flying |-> flying, left |-> left]

NoResponse == Response(0, 0, 0, 0)

Alive(c) == phase[c] # "free"

(***************************************************************************)
(* start() has called accept() once.                                       *)
(***************************************************************************)
Init ==
    /\ \E first \in Conn :
           /\ phase = [c \in Conn |-> IF c = first THEN "accepting" ELSE "free"]
           /\ connections = {first}
    /\ armed = [c \in Conn |-> FALSE]
    /\ turn = [c \in Conn |-> FALSE]
    /\ expired = [c \in Conn |-> FALSE]
    /\ socket = [c \in Conn |-> "open"]
    /\ request = [c \in Conn |-> NoRequest]
    /\ response = [c \in Conn |-> NoResponse]

Goto(c, next) == phase' = [phase EXCEPT ![c] = next]

(***************************************************************************)
(* The timer of c waits when the handler has returned, if `on' and if c is *)
(* still there: the timer goes with the connection.                        *)
(***************************************************************************)
Timer(c, on) == armed' = [armed EXCEPT ![c] = on /\ phase'[c] # "free"]

SetTimeout(c)  == Timer(c, TRUE) /\ turn' = [turn EXCEPT ![c] = ~@]
KeepTimeout(c) == Timer(c, armed[c]) /\ UNCHANGED turn
CancelTimeout(c) == Timer(c, FALSE) /\ UNCHANGED turn

(***************************************************************************)
(* The handler returns without starting anything: the last shared_ptr is   *)
(* gone, and the deleter of create_connection erases the pointer.          *)
(***************************************************************************)
ReleaseLeavingPointer(c) ==   \* faulty: the deleter does not erase
    /\ Goto(c, "free")
    /\ UNCHANGED connections

Release(c) ==
    /\ Goto(c, "free")
    /\ connections' = connections \ {c}

-----------------------------------------------------------------------------
(* accept() and its handler *)

Unused(d) == phase[d] = "free" /\ ~expired[d]

(***************************************************************************)
(* accept(): create_connection for d, which c's handler calls first        *)
(***************************************************************************)
AcceptWith(c, d, next) ==
    /\ phase' = [phase EXCEPT ![c] = next, ![d] = "accepting"]
    /\ socket' = [socket EXCEPT ![d] = "open"]
    /\ request' = [request EXCEPT ![d] = NoRequest]
    /\ response' = [response EXCEPT ![d] = NoResponse]

Accepted(c) ==
    /\ phase[c] = "accepting"
    /\ \E d \in Conn : Unused(d) /\ AcceptWith(c, d, "header") /\ connections' = connections \cup {d}
    /\ SetTimeout(c)          \* timeout_request
    /\ UNCHANGED expired

AcceptGivesUp(c) ==           \* faulty: an error ends accepting
    /\ phase[c] = "accepting"
    /\ Release(c)
    /\ UNCHANGED <<timer, socket, request, response>>

AcceptFails(c) ==
    /\ phase[c] = "accepting"
    /\ \E d \in Conn : /\ Unused(d)
                       /\ AcceptWith(c, d, "free")
                       /\ connections' = (connections \cup {d}) \ {c}
    /\ UNCHANGED timer

-----------------------------------------------------------------------------
(* ResourceLoader: readAndSend, with `left' bytes of the file to come *)

Piece(left) == IF left < BufferSize THEN left ELSE BufferSize

ReadAndSendBuffer(c, announced, delivered, left) ==   \* faulty: buffer.size(), not gcount
    /\ response' = [response EXCEPT ![c] =
                        Response(announced, delivered, BufferSize, left - BufferSize)]
    /\ Goto(c, IF left < BufferSize THEN "final" ELSE "sending")

ReadAndSendFull(c, announced, delivered, left) ==   \* faulty: looks at gcount, then writes
    /\ response' = [response EXCEPT ![c] =
                        Response(announced, delivered,
                                 IF left < BufferSize THEN 0 ELSE BufferSize,
                                 left - Piece(left))]
    /\ Goto(c, IF left < BufferSize THEN "final" ELSE "sending")

ReadAndSend(c, announced, delivered, left) ==
    /\ response' = [response EXCEPT ![c] =
                        Response(announced, delivered, Piece(left), left - Piece(left))]
    /\ Goto(c, IF left < BufferSize THEN "final" ELSE "sending")

(***************************************************************************)
(* operator(): the header announces the length of the file; a path outside *)
(* the root and a file that cannot be read give a 400.  A piece that does  *)
(* not fill the buffer is left in the stream and sent when the Response is *)
(* deleted, which happens when the handler returns.                        *)
(***************************************************************************)
LoadResource(c, r) ==
    \/ /\ r.file # NoFile
       /\ ReadAndSend(c, r.file, 0, r.file)
    \/ /\ r.file = NoFile
       /\ response' = [response EXCEPT ![c] = Response(ErrorSize, 0, ErrorSize, 0)]
       /\ Goto(c, "final")

(***************************************************************************)
(* find_resource, which leaves the timer alone.  An upgrade takes the      *)
(* connection out of the set and moves its socket to the WebSocket server. *)
(* A request for which there is no resource gets no answer.                *)
(***************************************************************************)
FindResource(c, r) ==
    \/ /\ r.upgrade
       /\ Release(c)
       /\ socket' = [socket EXCEPT ![c] = "moved"]
       /\ UNCHANGED response
    \/ /\ ~r.upgrade
       /\ r.method = "GET"
       /\ LoadResource(c, r)
       /\ UNCHANGED <<connections, socket>>
    \/ /\ ~r.upgrade
       /\ r.method # "GET"
       /\ Release(c)
       /\ UNCHANGED <<socket, response>>

-----------------------------------------------------------------------------
(* read(): the handler of the header *)

HeaderReadUntimed(c, r) ==    \* faulty: the timer is only cancelled
    /\ phase[c] = "header"
    /\ request' = [request EXCEPT ![c] = r]
    /\ CancelTimeout(c)
    /\ UNCHANGED expired

HeaderRead(c, r) ==
    /\ phase[c] = "header"
    /\ request' = [request EXCEPT ![c] = r]
    /\ SetTimeout(c)          \* timeout_content
    /\ UNCHANGED expired

ReadOn(c, next) ==
    /\ Goto(c, next)
    /\ UNCHANGED <<connections, socket, response>>

ReadRequest(c, r) ==          \* no content, or all of it came with the header
    /\ r.body \in {"none", "length"}
    /\ FindResource(c, r)
    /\ HeaderRead(c, r)

ReadLength(c, r) ==
    /\ r.body = "length"
    /\ ReadOn(c, "content")
    /\ HeaderRead(c, r)

ReadChunked(c, r) ==
    /\ r.body = "chunked"
    /\ ReadOn(c, "chunk size")
    /\ HeaderRead(c, r)

Malformed(c) ==               \* in the header, its Content-Length or a chunk's size
    /\ phase[c] \in {"header", "chunk size"}
    /\ Release(c)
    /\ KeepTimeout(c)
    /\ UNCHANGED <<expired, socket, request, response>>

ReadContent(c) ==
    /\ phase[c] = "content"
    /\ FindResource(c, request[c])
    /\ KeepTimeout(c)
    /\ UNCHANGED <<expired, request>>

-----------------------------------------------------------------------------
(* read_chunked_transfer_encoded(): size, data, CR LF; size 0 ends it *)

Chunk(c, from, next) ==
    /\ phase[c] = from
    /\ Goto(c, next)
    /\ UNCHANGED <<connections, timer, socket, request, response>>

ReadChunkTimed(c) ==          \* faulty: every chunk starts the timeout again
    /\ \/ phase[c] = "chunk size"
          /\ \E next \in {"chunk", "chunk end", "chunk size"} : Goto(c, next)
       \/ phase[c] = "chunk" /\ Goto(c, "chunk end")
       \/ phase[c] = "chunk end" /\ Goto(c, "chunk size")
    /\ SetTimeout(c)
    /\ UNCHANGED <<connections, expired, socket, request, response>>

ReadChunk(c) ==
    \/ \E next \in {"chunk", "chunk end", "chunk size"} : Chunk(c, "chunk size", next)
    \/ Chunk(c, "chunk", "chunk end")
    \/ Chunk(c, "chunk end", "chunk size")

ReadLastChunk(c) ==
    /\ phase[c] = "chunk size"
    /\ FindResource(c, request[c])
    /\ KeepTimeout(c)
    /\ UNCHANGED <<expired, request>>

ReadFails(c) ==               \* in any of the reads: on_error
    /\ phase[c] \in Reads
    /\ socket[c] # "open"
    /\ Release(c)
    /\ KeepTimeout(c)
    /\ UNCHANGED <<expired, socket, request, response>>

-----------------------------------------------------------------------------
(* Response: send() with readAndSend as its callback, and send_on_delete   *)

(***************************************************************************)
(* A peer that has closed its half (FIN) may still read, or not.           *)
(***************************************************************************)
WritesEnd(c) == socket[c] \notin {"open", "half"}

AfterWrite(c) ==
    socket' = [socket EXCEPT ![c] = IF @ = "shut" THEN "torn" ELSE @]

PieceSent(c) ==
    /\ phase[c] = "sending"
    /\ socket[c] # "torn"
    /\ LET r == response[c]
       IN  ReadAndSend(c, r.announced, r.delivered + r.flying, r.left)
    /\ AfterWrite(c)
    /\ UNCHANGED <<connections, timer, request>>

PieceFails(c) ==              \* the Response is deleted: it sends what it has, nothing
    /\ phase[c] = "sending"
    /\ WritesEnd(c)
    /\ Goto(c, "final")
    /\ response' = [response EXCEPT ![c].flying = 0]
    /\ socket' = [socket EXCEPT ![c] = "torn"]
    /\ UNCHANGED <<connections, timer, request>>

(***************************************************************************)
(* A write of no bytes is done at once, whatever has become of the socket. *)
(* It happens after a file of full pieces and after a failed piece.  The   *)
(* first write is never empty, as the header goes with it.                 *)
(***************************************************************************)
EmptyWrite(c) == response[c].announced > 0 /\ response[c].flying = 0

(***************************************************************************)
(* send_on_delete has written: the timer is cancelled, and read() for the  *)
(* next request starts it again.                                           *)
(***************************************************************************)
LastPieceSent(c) ==
    /\ phase[c] = "final"
    /\ EmptyWrite(c) \/ socket[c] # "torn"
    /\ response' = [response EXCEPT ![c] =
                        Response(@.announced, @.delivered + @.flying, 0, @.left)]
    /\ AfterWrite(c)
    /\ IF request[c].persistent
       THEN Goto(c, "header") /\ UNCHANGED connections
       ELSE Release(c)
    /\ UNCHANGED <<expired, request>>

FinalSentUntimed(c) ==        \* faulty: cancel_timeout after read()
    /\ LastPieceSent(c)
    /\ CancelTimeout(c)

FinalSent(c) ==
    /\ LastPieceSent(c)
    /\ SetTimeout(c)          \* timeout_request

FinalFails(c) ==              \* on_error
    /\ phase[c] = "final"
    /\ ~EmptyWrite(c)
    /\ WritesEnd(c)
    /\ Release(c)
    /\ KeepTimeout(c)
    /\ UNCHANGED <<expired, socket, request, response>>

-----------------------------------------------------------------------------
(* timer and peer *)

TimerExpires(c) ==
    /\ armed[c]
    /\ armed' = [armed EXCEPT ![c] = FALSE]
    /\ expired' = [expired EXCEPT ![c] = TRUE]
    /\ UNCHANGED <<turn, phase, connections, socket, request, response>>

RunTimerUnowned(c) ==         \* faulty: the handler does not ask its weak_ptr
    /\ expired[c]
    /\ expired' = [expired EXCEPT ![c] = FALSE]
    /\ socket' = [socket EXCEPT ![c] = "torn"]
    /\ UNCHANGED <<phase, connections, armed, turn, request, response>>

RunTimer(c) ==                \* close(), if the connection is still there
    /\ expired[c]
    /\ expired' = [expired EXCEPT ![c] = FALSE]
    /\ socket' = [socket EXCEPT ![c] =
                    IF ~Alive(c) \/ @ = "torn" THEN @
                    ELSE IF phase[c] \in Writes THEN "shut" ELSE "torn"]
    /\ UNCHANGED <<phase, connections, armed, turn, request, response>>

PeerFinishes(c) ==            \* FIN: reads end, writes need not
    /\ phase[c] \in Reads \cup Writes
    /\ socket[c] = "open"
    /\ socket' = [socket EXCEPT ![c] = "half"]
    /\ UNCHANGED <<phase, connections, timer, request, response>>

PeerGone(c) ==                \* RST
    /\ phase[c] \in Reads \cup Writes
    /\ socket[c] \in {"open", "half"}
    /\ socket' = [socket EXCEPT ![c] = "gone"]
    /\ UNCHANGED <<phase, connections, timer, request, response>>

-----------------------------------------------------------------------------

Accept(c) == Accepted(c) \/ AcceptFails(c)

Read(c) ==
    \/ \E r \in Requests : \/ ReadRequest(c, r)
                           \/ ReadLength(c, r)
                           \/ ReadChunked(c, r)
    \/ Malformed(c)
    \/ ReadContent(c)
    \/ ReadChunk(c)
    \/ ReadLastChunk(c)
    \/ ReadFails(c)

Write(c) == PieceSent(c) \/ PieceFails(c) \/ FinalSent(c) \/ FinalFails(c)

Outside(c) == TimerExpires(c) \/ RunTimer(c) \/ PeerFinishes(c) \/ PeerGone(c)

Next == \E c \in Conn : Accept(c) \/ Read(c) \/ Write(c) \/ Outside(c)

(***************************************************************************)
(* A timer that is not replaced expires, and the I/O thread runs handlers  *)
(* that are due.  Nothing is assumed of the clients.                       *)
(***************************************************************************)
Fairness ==
    \A c \in Conn : /\ WF_vars(turn[c] /\ TimerExpires(c))
                    /\ WF_vars(~turn[c] /\ TimerExpires(c))
                    /\ WF_vars(RunTimer(c))
                    /\ WF_vars(ReadFails(c))
                    /\ WF_vars(PieceFails(c))
                    /\ WF_vars(FinalFails(c))
                    /\ WF_vars(EmptyWrite(c) /\ FinalSent(c))

Spec == Init /\ [][Next]_vars

FairSpec == Spec /\ Fairness

-----------------------------------------------------------------------------
(* Types: what a response announces, has sent, is sending and still has of *)
(* its file are never negative (server_http.hpp:47-59, resourceloader.cpp: *)
(* 66-80).                                                                 *)
TypeOK ==
    /\ phase \in [Conn -> Phases]
    /\ connections \subseteq Conn
    /\ armed \in [Conn -> BOOLEAN]
    /\ turn \in [Conn -> BOOLEAN]
    /\ expired \in [Conn -> BOOLEAN]
    /\ socket \in [Conn -> {"open", "half", "gone", "shut", "torn", "moved"}]
    /\ request \in [Conn -> RequestType]
    /\ response \in [Conn -> [announced : Nat, delivered : Nat, flying : Nat, left : Nat]]

(* The set of raw pointers that stop() and the destructor would walk holds *)
(* the living connections and no deleted one, whichever handler was the    *)
(* last to hold it (create_connection and its deleter, 520-536; the        *)
(* upgrade, 713-723).                                                      *)
MembersAlive == connections = {c \in Conn : Alive(c)}

(* There is always one accept pending: no failure of a connection or of    *)
(* accepting itself makes the server deaf (accept, 799-823).               *)
OneListener == \E c \in Conn : {d \in Conn : phase[d] = "accepting"} = {c}

(* The body has the length that was announced.  While the connection works *)
(* what is sent, on the way and left in the file adds up to it; so the     *)
(* next request is read only after the whole body, and the client cannot   *)
(* take the header of the next response for a part of this one             *)
(* (readAndSend; write and its deleter, 745-769).                          *)
LengthKept ==
    \A c \in Conn : Alive(c) /\ ~WritesEnd(c) =>
        LET r == response[c]
        IN  /\ r.delivered + r.flying + r.left = r.announced
            /\ phase[c] \in Reads => r.delivered = r.announced
            /\ phase[c] = "final" => r.left = 0

(* Whoever waits for a peer has a timer: the handlers cancel and set it in *)
(* different orders, and one that lost it would wait for ever              *)
(* (set_timeout at 539 and 541, cancel_timeout at 749).                    *)
NobodyWaitsUntimed ==
    \A c \in Conn : phase[c] \in Reads \cup Writes =>
                       armed[c] \/ expired[c] \/ WritesEnd(c)

(* A socket handed to the WebSocket server is not touched again by the     *)
(* HTTP connection that had it, although its timer may have fired before   *)
(* and its handler is still to come (find_resource, 713-723; set_timeout,  *)
(* 300-315).                                                               *)
HandedOverForGood ==
    [][\A c \in Conn : socket[c] = "moved" =>
           socket'[c] = "moved" \/ phase'[c] = "accepting"]_vars

(* Whatever a client does or leaves undone, a connection that waits for a  *)
(* request gets one or is closed (timeout_request, 539).                   *)
IdleEnds == \A c \in Conn : phase[c] = "header" ~> phase[c] # "header"

(* A request that has begun ends: it is answered or its connection goes,   *)
(* even when the client sends one chunk after the other for ever or reads  *)
(* nothing of the response (timeout_content, 541, is set once for a        *)
(* request).                                                               *)
RequestEnds ==
    \A c \in Conn : phase[c] \in (Reads \cup Writes) \ {"header"}
                       ~> phase[c] \in {"free", "header"}
=============================================================================
