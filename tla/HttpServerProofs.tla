-------------------------- MODULE HttpServerProofs ---------------------------
(***************************************************************************)
(* Safety of the HTTP server for any set of connections, any requests and  *)
(* files, and any size of the buffer.                                      *)
(*                                                                         *)
(* A handler of c moves c alone.  So the invariant is a part for each      *)
(* connection, Sound, and the two properties of the whole, MembersAlive    *)
(* and OneListener; a step of c is Contained when it leaves the other      *)
(* connections alone and c sound.                                          *)
(***************************************************************************)
EXTENDS HttpServer, TLAPS

Responses == [announced : Nat, delivered : Nat, flying : Nat, left : Nat]

USE DEF Reads, Writes, Phases, WritesEnd

Timed(c) == phase[c] \in Reads \cup Writes =>
                armed[c] \/ expired[c] \/ WritesEnd(c)

Complete(c) == Alive(c) /\ ~WritesEnd(c) =>
    LET r == response[c]
    IN  /\ r.delivered + r.flying + r.left = r.announced
        /\ phase[c] \in Reads => r.delivered = r.announced
        /\ phase[c] = "final" => r.left = 0

(***************************************************************************)
(* A connection that is being accepted has not answered anything yet; one  *)
(* whose socket was moved is gone.  The first makes LengthKept inductive,  *)
(* the second HandedOverForGood.                                           *)
(***************************************************************************)
Sound(c) ==
    /\ Timed(c)
    /\ Complete(c)
    /\ phase[c] = "accepting" => response[c] = NoResponse
    /\ socket[c] = "moved" => ~Alive(c)

IInv ==
    /\ TypeOK
    /\ \A c \in Conn : Sound(c)
    /\ MembersAlive
    /\ OneListener

(* The handlers of c, other than that of accept, move c so. *)
Moves(c) ==
    /\ phase[c] \in Reads \cup Writes
    /\ \E p \in Reads \cup Writes \cup {"free"} :
           /\ phase' = [phase EXCEPT ![c] = p]
           /\ connections' = IF p = "free" THEN connections \ {c} ELSE connections

LeavesOthers(c) ==
    \A d \in Conn \ {c} : /\ armed'[d] = armed[d]
                          /\ expired'[d] = expired[d]
                          /\ socket'[d] = socket[d]
                          /\ response'[d] = response[d]

Contained(c) == TypeOK' /\ LeavesOthers(c) /\ Sound(c)'

-----------------------------------------------------------------------------
(* Helpers *)

LEMMA NothingSent ==
    /\ NoResponse \in Responses
    /\ NoResponse.delivered + NoResponse.flying + NoResponse.left = NoResponse.announced
    /\ NoResponse.delivered = NoResponse.announced /\ NoResponse.left = 0
BY DEF NoResponse, Response, Responses

LEMMA NewResponse ==
    ASSUME TypeOK, NEW c \in Conn, NEW r \in Responses,
           response' = [response EXCEPT ![c] = r]
    PROVE  /\ response' \in [Conn -> Responses]
           /\ response'[c] = r
           /\ \A d \in Conn \ {c} : response'[d] = response[d]
<1>1. response \in [Conn -> Responses]
  BY DEF TypeOK, Responses
<1>2. QED
  BY <1>1

(***************************************************************************)
(* readAndSend cuts a piece off the file that the buffer can hold.         *)
(***************************************************************************)
LEMMA PieceBounds ==
    ASSUME NEW left \in Nat
    PROVE  /\ Piece(left) \in Nat
           /\ left - Piece(left) \in Nat
           /\ left < BufferSize => left - Piece(left) = 0
           /\ Piece(left) + (left - Piece(left)) = left
BY SizesAssumption DEF Piece

(***************************************************************************)
(* operator() starts a response that is balanced: what flies and what is   *)
(* left make up what the header announces.                                 *)
(***************************************************************************)
LEMMA LoadResourceBalanced ==
    ASSUME TypeOK, NEW c \in Conn, NEW r \in RequestType, LoadResource(c, r)
    PROVE  /\ response' \in [Conn -> Responses]
           /\ \A d \in Conn \ {c} : response'[d] = response[d]
           /\ \E p \in Writes : phase' = [phase EXCEPT ![c] = p]
           /\ response'[c].delivered + response'[c].flying + response'[c].left
                = response'[c].announced
           /\ phase'[c] = "final" => response'[c].left = 0
<1> DEFINE piece == Piece(r.file)
           rest == r.file - Piece(r.file)
           whole == [announced |-> r.file, delivered |-> 0, flying |-> piece, left |-> rest]
           text == [announced |-> ErrorSize, delivered |-> 0, flying |-> ErrorSize, left |-> 0]
<1>1. CASE r.file # NoFile /\ ReadAndSend(c, r.file, 0, r.file)
  <2>1. r.file \in Nat
    BY <1>1 DEF RequestType, NoFile
  <2>2. /\ response' = [response EXCEPT ![c] = whole]
        /\ phase' = [phase EXCEPT ![c] = IF r.file < BufferSize THEN "final" ELSE "sending"]
    BY <1>1 DEF ReadAndSend, Response, Goto
  <2>3. piece \in Nat /\ rest \in Nat /\ piece + rest = r.file
        /\ (r.file < BufferSize => rest = 0)
    BY <2>1, PieceBounds
  <2> HIDE DEF piece, rest
  <2>4. whole \in Responses
    BY <2>1, <2>3 DEF Responses
  <2>5. /\ response' \in [Conn -> Responses]
        /\ response'[c] = whole
        /\ \A d \in Conn \ {c} : response'[d] = response[d]
    BY <2>2, <2>4, NewResponse
  <2>6. \E p \in Writes : phase' = [phase EXCEPT ![c] = p]
    BY <2>2
  <2>7. phase'[c] = "final" => rest = 0
    BY <2>2, <2>3 DEF TypeOK
  <2>8. whole.delivered + whole.flying + whole.left = whole.announced /\ whole.left = rest
    BY <2>1, <2>3
  <2> HIDE DEF whole
  <2>9. QED
    BY <2>5, <2>6, <2>7, <2>8
<1>2. CASE response' = [response EXCEPT ![c] = text] /\ phase' = [phase EXCEPT ![c] = "final"]
  <2>1. text \in Responses
    BY SizesAssumption DEF Responses
  <2>2. /\ response' \in [Conn -> Responses]
        /\ response'[c] = text
        /\ \A d \in Conn \ {c} : response'[d] = response[d]
    BY <1>2, <2>1, NewResponse
  <2>3. \E p \in Writes : phase' = [phase EXCEPT ![c] = p]
    BY <1>2
  <2>4. text.delivered + text.flying + text.left = text.announced /\ text.left = 0
    BY SizesAssumption
  <2> HIDE DEF text
  <2>5. QED
    BY <2>2, <2>3, <2>4
<1>3. QED
  BY <1>1, <1>2 DEF LoadResource, Response, Goto

(***************************************************************************)
(* find_resource moves c to a write, with the socket as it was, or ends it *)
(* and may hand its socket over.                                           *)
(***************************************************************************)
LEMMA FindResourceEffect ==
    ASSUME TypeOK, NEW c \in Conn, NEW r \in RequestType,
           phase[c] \in Reads, FindResource(c, r)
    PROVE  /\ Moves(c)
           /\ response' \in [Conn -> Responses]
           /\ \A d \in Conn \ {c} : response'[d] = response[d] /\ socket'[d] = socket[d]
           /\ socket' \in [Conn -> {"open", "half", "gone", "shut", "torn", "moved"}]
           /\ phase'[c] # "free" =>
                /\ phase'[c] \in Writes
                /\ socket' = socket
                /\ response'[c].delivered + response'[c].flying + response'[c].left
                     = response'[c].announced
                /\ phase'[c] = "final" => response'[c].left = 0
<1> USE DEF TypeOK, Moves, Responses
<1>1. CASE r.upgrade
  BY <1>1 DEF FindResource, Release, Goto
<1>2. CASE ~r.upgrade /\ r.method = "GET"
  <2>1. LoadResource(c, r) /\ UNCHANGED <<connections, socket>>
    BY <1>2 DEF FindResource
  <2>2. QED
    BY <2>1, LoadResourceBalanced
<1>3. CASE ~r.upgrade /\ r.method # "GET"
  BY <1>3 DEF FindResource, Release, Goto
<1>4. QED
  BY <1>1, <1>2, <1>3 DEF FindResource

-----------------------------------------------------------------------------
(* Handlers that end a connection or leave its response alone *)

(***************************************************************************)
(* A handler that returns without starting anything.                       *)
(***************************************************************************)
LEMMA ReleaseStep ==
    ASSUME TypeOK, NEW c \in Conn, Sound(c), phase[c] \in Reads \cup Writes,
           Release(c), KeepTimeout(c), UNCHANGED <<expired, socket, request, response>>
    PROVE  Moves(c) /\ Contained(c)
<1> USE DEF TypeOK, Release, KeepTimeout, Timer, Goto
<1>1. Moves(c)
  BY DEF Moves
<1>2. TypeOK' /\ LeavesOthers(c)
  BY DEF LeavesOthers
<1>3. Sound(c)'
  BY DEF Sound, Timed, Complete, Alive
<1>4. QED
  BY <1>1, <1>2, <1>3 DEF Contained

LEMMA ReadFailsStep ==
    ASSUME TypeOK, NEW c \in Conn, Sound(c),
           Malformed(c) \/ ReadFails(c) \/ FinalFails(c)
    PROVE  Moves(c) /\ Contained(c)
BY ReleaseStep DEF Malformed, ReadFails, FinalFails

(***************************************************************************)
(* The header has been read, and find_resource called or not.              *)
(***************************************************************************)
LEMMA HeaderStep ==
    ASSUME TypeOK, NEW c \in Conn, Sound(c), NEW r \in RequestType,
           ReadRequest(c, r) \/ ReadLength(c, r) \/ ReadChunked(c, r)
    PROVE  Moves(c) /\ Contained(c)
<1> USE DEF TypeOK, HeaderRead, SetTimeout, Timer
<1>1. CASE ReadRequest(c, r)
  <2>1. phase[c] \in Reads /\ FindResource(c, r) /\ HeaderRead(c, r)
    BY <1>1 DEF ReadRequest
  <2>2. /\ Moves(c)
        /\ response' \in [Conn -> Responses]
        /\ \A d \in Conn \ {c} : response'[d] = response[d] /\ socket'[d] = socket[d]
        /\ socket' \in [Conn -> {"open", "half", "gone", "shut", "torn", "moved"}]
        /\ phase'[c] # "free" =>
             /\ phase'[c] \in Writes
             /\ socket' = socket
             /\ response'[c].delivered + response'[c].flying + response'[c].left
                  = response'[c].announced
             /\ phase'[c] = "final" => response'[c].left = 0
    BY <2>1, FindResourceEffect
  <2>3. TypeOK' /\ LeavesOthers(c)
    BY <2>1, <2>2 DEF LeavesOthers, Moves, Responses
  <2>4. Sound(c)'
    BY <2>1, <2>2 DEF Sound, Timed, Complete, Alive
  <2>5. QED
    BY <2>2, <2>3, <2>4 DEF Contained
<1>2. CASE ReadLength(c, r) \/ ReadChunked(c, r)
  <2>1. PICK p \in {"content", "chunk size"} : ReadOn(c, p) /\ HeaderRead(c, r)
    BY <1>2 DEF ReadLength, ReadChunked
  <2>2. Moves(c)
    BY <2>1 DEF ReadOn, Goto, Moves
  <2>3. TypeOK' /\ LeavesOthers(c)
    BY <2>1 DEF ReadOn, Goto, LeavesOthers
  <2>4. Sound(c)'
    BY <2>1 DEF ReadOn, Goto, Sound, Timed, Complete, Alive
  <2>5. QED
    BY <2>2, <2>3, <2>4 DEF Contained
<1>3. QED
  BY <1>1, <1>2

(***************************************************************************)
(* The content or the last chunk has been read: find_resource, under the   *)
(* timer of the header's handler.                                          *)
(***************************************************************************)
LEMMA ContentStep ==
    ASSUME TypeOK, NEW c \in Conn, Sound(c), ReadContent(c) \/ ReadLastChunk(c)
    PROVE  Moves(c) /\ Contained(c)
<1> USE DEF TypeOK, KeepTimeout, Timer
<1>1. /\ phase[c] \in Reads
      /\ request[c] \in RequestType
      /\ FindResource(c, request[c])
      /\ KeepTimeout(c)
      /\ UNCHANGED <<expired, request>>
  BY DEF ReadContent, ReadLastChunk
<1>2. /\ Moves(c)
      /\ response' \in [Conn -> Responses]
      /\ \A d \in Conn \ {c} : response'[d] = response[d] /\ socket'[d] = socket[d]
      /\ socket' \in [Conn -> {"open", "half", "gone", "shut", "torn", "moved"}]
      /\ phase'[c] # "free" =>
           /\ phase'[c] \in Writes
           /\ socket' = socket
           /\ response'[c].delivered + response'[c].flying + response'[c].left
                = response'[c].announced
           /\ phase'[c] = "final" => response'[c].left = 0
  BY <1>1, FindResourceEffect
<1>3. TypeOK' /\ LeavesOthers(c)
  BY <1>1, <1>2 DEF LeavesOthers, Moves, Responses
<1>4. Sound(c)'
  BY <1>1, <1>2 DEF Sound, Timed, Complete, Alive
<1>5. QED
  BY <1>2, <1>3, <1>4 DEF Contained

LEMMA ChunkStep ==
    ASSUME TypeOK, NEW c \in Conn, Sound(c), ReadChunk(c)
    PROVE  Moves(c) /\ Contained(c)
<1> USE DEF TypeOK, Chunk, Goto
<1>1. PICK from \in {"chunk size", "chunk", "chunk end"},
           next \in {"chunk size", "chunk", "chunk end"} : Chunk(c, from, next)
  BY DEF ReadChunk
<1>2. Moves(c)
  BY <1>1 DEF Moves
<1>3. TypeOK' /\ LeavesOthers(c)
  BY <1>1 DEF LeavesOthers, timer
<1>4. Sound(c)'
  BY <1>1 DEF Sound, Timed, Complete, Alive, timer
<1>5. QED
  BY <1>2, <1>3, <1>4 DEF Contained

-----------------------------------------------------------------------------
(* Handlers of writes, timers and the peer *)

(***************************************************************************)
(* A piece is through: the next one is cut off what is left.               *)
(***************************************************************************)
LEMMA PieceStep ==
    ASSUME TypeOK, NEW c \in Conn, Sound(c), PieceSent(c) \/ PieceFails(c)
    PROVE  Moves(c) /\ Contained(c)
<1> DEFINE r == response[c]
           piece == Piece(r.left)
           rest == r.left - Piece(r.left)
           next == [announced |-> r.announced, delivered |-> r.delivered + r.flying,
                    flying |-> piece, left |-> rest]
           failed == [r EXCEPT !.flying = 0]
<1>1. /\ r \in Responses
      /\ r.announced \in Nat /\ r.delivered \in Nat /\ r.flying \in Nat /\ r.left \in Nat
  BY DEF TypeOK, Responses
<1>2. CASE PieceSent(c)
  <2>1. /\ phase[c] = "sending"
        /\ response' = [response EXCEPT ![c] = next]
        /\ phase' = [phase EXCEPT ![c] = IF r.left < BufferSize THEN "final" ELSE "sending"]
        /\ socket' = [socket EXCEPT ![c] = IF @ = "shut" THEN "torn" ELSE @]
        /\ UNCHANGED <<connections, armed, turn, expired, request>>
    BY <1>2 DEF PieceSent, ReadAndSend, Response, AfterWrite, Goto, timer
  <2>2. piece \in Nat /\ rest \in Nat /\ piece + rest = r.left
        /\ (r.left < BufferSize => rest = 0)
    BY <1>1, PieceBounds
  <2>3. PICK p \in Writes : phase' = [phase EXCEPT ![c] = p] /\ (p = "final" => rest = 0)
    BY <2>1, <2>2
  <2>4. Moves(c)
    BY <2>1, <2>3 DEF Moves
  <2> HIDE DEF r, piece, rest
  <2>5. next \in Responses
    BY <1>1, <2>2 DEF Responses
  <2>6. /\ response' \in [Conn -> Responses]
        /\ response'[c] = next
        /\ \A d \in Conn \ {c} : response'[d] = response[d]
    BY <2>1, <2>5, NewResponse
  <2>7. TypeOK' /\ LeavesOthers(c)
    BY <2>1, <2>3, <2>6 DEF TypeOK, LeavesOthers, Responses
  <2>8. ~WritesEnd(c)' => r.delivered + r.flying + r.left = r.announced
    BY <2>1 DEF TypeOK, Sound, Complete, Alive, r
  <2>9. ~WritesEnd(c)' => (r.delivered + r.flying) + piece + rest = r.announced
    BY <1>1, <2>2, <2>8
  <2>10. Complete(c)'
    BY <2>1, <2>3, <2>6, <2>9 DEF TypeOK, Complete
  <2>11. phase'[c] \in Writes /\ socket'[c] # "moved" /\ (~WritesEnd(c)' => ~WritesEnd(c))
    BY <2>1, <2>3 DEF TypeOK, Sound, Alive
  <2>12. Sound(c)'
    BY <2>1, <2>10, <2>11 DEF Sound, Timed, Alive
  <2>13. QED
    BY <2>4, <2>7, <2>12 DEF Contained
<1>3. CASE PieceFails(c)
  <2>1. /\ phase[c] = "sending"
        /\ phase' = [phase EXCEPT ![c] = "final"]
        /\ response' = [response EXCEPT ![c] = failed]
        /\ socket' = [socket EXCEPT ![c] = "torn"]
        /\ UNCHANGED <<connections, armed, turn, expired, request>>
    BY <1>3 DEF PieceFails, Goto, timer
  <2>2. Moves(c)
    BY <2>1 DEF Moves
  <2>3. failed \in Responses
    BY <1>1 DEF Responses
  <2>4. /\ response' \in [Conn -> Responses]
        /\ \A d \in Conn \ {c} : response'[d] = response[d]
    BY <2>1, <2>3, NewResponse
  <2>5. TypeOK' /\ LeavesOthers(c)
    BY <2>1, <2>4 DEF TypeOK, LeavesOthers, Responses
  <2>6. Sound(c)'
    BY <2>1 DEF TypeOK, Sound, Timed, Complete, Alive
  <2>7. QED
    BY <2>2, <2>5, <2>6 DEF Contained
<1>4. QED
  BY <1>2, <1>3

(***************************************************************************)
(* The response has been written: c is alive only to read, under a timer,  *)
(* and then the whole body has been delivered.                             *)
(***************************************************************************)
LEMMA FinalStep ==
    ASSUME TypeOK, NEW c \in Conn, Sound(c), FinalSent(c)
    PROVE  Moves(c) /\ Contained(c)
<1> DEFINE r == response[c]
           done == [announced |-> r.announced, delivered |-> r.delivered + r.flying,
                    flying |-> 0, left |-> r.left]
<1>1. /\ r \in Responses
      /\ r.announced \in Nat /\ r.delivered \in Nat /\ r.flying \in Nat /\ r.left \in Nat
  BY DEF TypeOK, Responses
<1>2. /\ phase[c] = "final"
      /\ socket' = [socket EXCEPT ![c] = IF @ = "shut" THEN "torn" ELSE @]
      /\ UNCHANGED <<expired, request>>
      /\ armed' = [armed EXCEPT ![c] = phase'[c] # "free"]
      /\ turn' = [turn EXCEPT ![c] = ~@]
  BY DEF FinalSent, LastPieceSent, AfterWrite, SetTimeout, Timer
<1>3. \/ phase' = [phase EXCEPT ![c] = "header"] /\ UNCHANGED connections
      \/ phase' = [phase EXCEPT ![c] = "free"] /\ connections' = connections \ {c}
  BY DEF FinalSent, LastPieceSent, Goto, Release
<1>4. Moves(c)
  BY <1>2, <1>3 DEF Moves
<1>5. response' = [response EXCEPT ![c] = done]
  BY DEF FinalSent, LastPieceSent, Response
<1>6. /\ done \in Responses
      /\ done.delivered = r.delivered + r.flying
      /\ done.flying = 0 /\ done.left = r.left /\ done.announced = r.announced
  BY <1>1 DEF Responses
<1>7. /\ response' \in [Conn -> Responses]
      /\ response'[c] = done
      /\ \A d \in Conn \ {c} : response'[d] = response[d]
  BY <1>5, <1>6, NewResponse
<1>8. TypeOK' /\ LeavesOthers(c)
  BY <1>2, <1>3, <1>7 DEF TypeOK, LeavesOthers, Responses
<1>9. ~WritesEnd(c)' =>
          r.delivered + r.flying + r.left = r.announced /\ r.left = 0
  BY <1>2 DEF TypeOK, Sound, Complete, Alive
<1> HIDE DEF r, done
<1>10. ~WritesEnd(c)' =>
          /\ done.delivered + done.flying + done.left = done.announced
          /\ done.delivered = done.announced
  BY <1>1, <1>6, <1>9
<1>11. phase'[c] \in {"header", "free"}
  BY <1>3 DEF TypeOK
<1>12. Complete(c)'
  BY <1>7, <1>10, <1>11 DEF Complete
<1>13. socket'[c] # "moved" /\ (phase'[c] = "header" => armed'[c])
  BY <1>2 DEF TypeOK, Sound, Alive
<1>14. Sound(c)'
  BY <1>11, <1>12, <1>13 DEF Sound, Timed
<1>15. QED
  BY <1>4, <1>8, <1>14 DEF Contained

(***************************************************************************)
(* Timers and peers: nothing moves.  The handler of a timer that finds its *)
(* connection gone does nothing.                                           *)
(***************************************************************************)
LEMMA OutsideStep ==
    ASSUME TypeOK, NEW c \in Conn, Sound(c), Outside(c)
    PROVE  UNCHANGED <<phase, connections>> /\ Contained(c)
<1> USE DEF TypeOK
<1>1. UNCHANGED <<phase, connections, response>>
  BY DEF Outside, TimerExpires, RunTimer, PeerFinishes, PeerGone, timer
<1>2. TypeOK' /\ LeavesOthers(c)
  BY DEF Outside, TimerExpires, RunTimer, PeerFinishes, PeerGone, timer, LeavesOthers
<1>3. ~WritesEnd(c)' => ~WritesEnd(c)
  BY DEF Outside, TimerExpires, RunTimer, PeerFinishes, PeerGone
<1>4. socket'[c] = "moved" => socket[c] = "moved"
  BY DEF Outside, TimerExpires, RunTimer, PeerFinishes, PeerGone
<1>5. Timed(c)'
  BY <1>1 DEF Outside, TimerExpires, RunTimer, PeerFinishes, PeerGone, timer, Sound, Timed, Alive
<1>6. Sound(c)'
  BY <1>1, <1>3, <1>4, <1>5 DEF Sound, Complete, Alive
<1>7. QED
  BY <1>1, <1>2, <1>6 DEF Contained

-----------------------------------------------------------------------------
(* The invariant *)

(***************************************************************************)
(* Every handler but that of accept moves its connection and is contained. *)
(***************************************************************************)
LEMMA HandlerStep ==
    ASSUME TypeOK, NEW c \in Conn, Sound(c), Read(c) \/ Write(c)
    PROVE  Moves(c) /\ Contained(c)
<1>1. Requests \subseteq RequestType
  BY SizesAssumption
<1>2. QED
  BY <1>1, HeaderStep, ReadFailsStep, ContentStep, ChunkStep, PieceStep, FinalStep
     DEF Read, Write

LEMMA ContainedKeeps ==
    ASSUME IInv, NEW c \in Conn, Contained(c), Moves(c) \/ UNCHANGED <<phase, connections>>
    PROVE  IInv'
<1>1. \A d \in Conn \ {c} : phase'[d] = phase[d]
  BY DEF IInv, TypeOK, Moves
<1>2. \A d \in Conn : Sound(d)'
  BY <1>1 DEF Contained, LeavesOthers, IInv, Sound, Timed, Complete, Alive
<1>3. MembersAlive'
  BY DEF IInv, TypeOK, Moves, MembersAlive, Alive
<1>4. {d \in Conn : phase'[d] = "accepting"} = {d \in Conn : phase[d] = "accepting"}
  BY DEF IInv, TypeOK, Moves
<1>5. OneListener'
  BY <1>4 DEF IInv, OneListener
<1>6. QED
  BY <1>2, <1>3, <1>5 DEF IInv, Contained

(***************************************************************************)
(* accept: the listener moves from c to d.                                 *)
(***************************************************************************)
LEMMA AcceptStep ==
    ASSUME IInv, NEW c \in Conn, Accept(c)
    PROVE  IInv'
<1> USE DEF IInv, TypeOK
<1>1. PICK d \in Conn :
        /\ phase[c] = "accepting"
        /\ Unused(d)
        /\ UNCHANGED expired
        /\ \/ /\ AcceptWith(c, d, "header")
              /\ connections' = connections \cup {d}
              /\ SetTimeout(c)
           \/ /\ AcceptWith(c, d, "free")
              /\ connections' = (connections \cup {d}) \ {c}
              /\ UNCHANGED <<armed, turn>>
  BY DEF Accept, Accepted, AcceptFails, timer
<1>2. c # d
  BY <1>1 DEF Unused
<1>3. NoRequest \in RequestType /\ NoResponse \in Responses
  BY DEF NoRequest, RequestType, NoFile, NoResponse, Response, Responses
<1>4. TypeOK'
  <2>1. /\ phase' \in [Conn -> Phases]
        /\ socket' \in [Conn -> {"open", "half", "gone", "shut", "torn", "moved"}]
    BY <1>1 DEF AcceptWith
  <2>2. request' \in [Conn -> RequestType]
    <3>1. request' = [request EXCEPT ![d] = NoRequest] /\ request \in [Conn -> RequestType]
      BY <1>1 DEF AcceptWith
    <3> HIDE DEF TypeOK
    <3>2. QED
      BY <1>3, <3>1
  <2>3. response' = [response EXCEPT ![d] = NoResponse]
    BY <1>1 DEF AcceptWith
  <2>4. response' \in [Conn -> Responses]
    BY <1>3, <2>3, NewResponse
  <2>5. connections' \subseteq Conn /\ armed' \in [Conn -> BOOLEAN]
        /\ turn' \in [Conn -> BOOLEAN] /\ expired' \in [Conn -> BOOLEAN]
    BY <1>1 DEF SetTimeout, Timer
  <2>6. QED
    BY <2>1, <2>2, <2>4, <2>5 DEF Responses
<1>5. /\ phase'[d] = "accepting"
      /\ phase'[c] \in {"header", "free"}
      /\ phase'[c] = "header" => armed'[c]
      /\ socket'[d] = "open" /\ response'[d] = NoResponse
      /\ socket'[c] = socket[c] /\ response'[c] = response[c]
      /\ \A e \in Conn \ {c, d} :
            /\ phase'[e] = phase[e] /\ socket'[e] = socket[e]
            /\ response'[e] = response[e] /\ armed'[e] = armed[e]
  BY <1>1, <1>2 DEF AcceptWith, SetTimeout, Timer
<1>6. \A e \in Conn : Sound(e)'
  <2>1. Sound(c)'
    <3>1. Sound(c) /\ response[c] = NoResponse
      BY <1>1 DEF Sound
    <3>2. Timed(c)'
      BY <1>5 DEF Timed
    <3>3. Complete(c)'
      BY <1>5, <3>1, NothingSent DEF Complete
    <3>4. socket'[c] # "moved"
      BY <1>1, <1>5, <3>1 DEF Sound, Alive
    <3>5. QED
      BY <1>5, <3>2, <3>3, <3>4 DEF Sound
  <2>2. Sound(d)'
    <3>1. Timed(d)'
      BY <1>5 DEF Timed
    <3>2. Complete(d)'
      BY <1>5, NothingSent DEF Complete
    <3>3. QED
      BY <1>5, <3>1, <3>2 DEF Sound
  <2>3. ASSUME NEW e \in Conn \ {c, d} PROVE Sound(e)'
    BY <1>1, <1>5 DEF Sound, Timed, Complete, Alive
  <2>4. QED
    BY <2>1, <2>2, <2>3
<1>7. MembersAlive'
  <2>1. CASE phase'[c] = "header" /\ connections' = connections \cup {d}
    BY <1>1, <1>5, <2>1 DEF MembersAlive, Alive
  <2>2. CASE phase'[c] = "free" /\ connections' = (connections \cup {d}) \ {c}
    BY <1>2, <1>5, <2>2 DEF MembersAlive, Alive
  <2>3. QED
    BY <1>1, <1>2, <2>1, <2>2 DEF AcceptWith
<1>8. {e \in Conn : phase'[e] = "accepting"} = {d}
  <2>1. {e \in Conn : phase[e] = "accepting"} = {c}
    BY <1>1 DEF OneListener
  <2>2. QED
    BY <1>5, <2>1
<1>9. QED
  BY <1>4, <1>6, <1>7, <1>8 DEF OneListener

LEMMA InitIInv == Init => IInv
<1> SUFFICES ASSUME Init PROVE IInv
  OBVIOUS
<1>1. NoRequest \in RequestType /\ NoResponse \in Responses
  BY DEF NoRequest, RequestType, NoFile, NoResponse, Response, Responses
<1>2. TypeOK
  BY <1>1 DEF Init, TypeOK, Responses
<1>3. \A c \in Conn : Sound(c)
  BY DEF Init, Sound, Timed, Complete, Alive, NoResponse, Response
<1>4. MembersAlive
  BY DEF Init, MembersAlive, Alive
<1>5. OneListener
  BY DEF Init, OneListener
<1>6. QED
  BY <1>2, <1>3, <1>4, <1>5 DEF IInv

LEMMA NextIInv == IInv /\ [Next]_vars => IInv'
<1> SUFFICES ASSUME IInv, [Next]_vars PROVE IInv'
  OBVIOUS
<1>1. CASE UNCHANGED vars
  BY <1>1 DEF vars, timer, IInv, TypeOK, Sound, Timed, Complete, Alive, MembersAlive,
              OneListener
<1>2. ASSUME NEW c \in Conn, Read(c) \/ Write(c) \/ Outside(c) PROVE IInv'
  BY <1>2, HandlerStep, OutsideStep, ContainedKeeps DEF IInv
<1>3. QED
  BY <1>1, <1>2, AcceptStep DEF Next

-----------------------------------------------------------------------------

(***************************************************************************)
(* Type correctness; no part of a response is ever negative.               *)
(***************************************************************************)
THEOREM TypeCorrect == Spec => []TypeOK
<1>1. IInv => TypeOK
  BY DEF IInv
<1>2. QED
  BY <1>1, InitIInv, NextIInv, PTL DEF Spec

(***************************************************************************)
(* The set of pointers holds the living connections and no dangling one.   *)
(***************************************************************************)
THEOREM NoDanglingPointer == Spec => []MembersAlive
<1>1. IInv => MembersAlive
  BY DEF IInv
<1>2. QED
  BY <1>1, InitIInv, NextIInv, PTL DEF Spec

(***************************************************************************)
(* The server never goes deaf.                                             *)
(***************************************************************************)
THEOREM AlwaysListening == Spec => []OneListener
<1>1. IInv => OneListener
  BY DEF IInv
<1>2. QED
  BY <1>1, InitIInv, NextIInv, PTL DEF Spec

(***************************************************************************)
(* For a file of any length and a buffer of any size, a body has the       *)
(* length that its header announced.                                       *)
(***************************************************************************)
THEOREM BodiesAreWhole == Spec => []LengthKept
<1>1. IInv => LengthKept
  BY DEF IInv, Sound, Complete, LengthKept
<1>2. QED
  BY <1>1, InitIInv, NextIInv, PTL DEF Spec

(***************************************************************************)
(* Nobody waits for a peer without a timer.                                *)
(***************************************************************************)
THEOREM WaitsAreTimed == Spec => []NobodyWaitsUntimed
<1>1. IInv => NobodyWaitsUntimed
  BY DEF IInv, Sound, Timed, NobodyWaitsUntimed
<1>2. QED
  BY <1>1, InitIInv, NextIInv, PTL DEF Spec

(***************************************************************************)
(* A socket that was handed over is not touched again.                     *)
(***************************************************************************)
LEMMA MovedStays ==
    ASSUME IInv, [Next]_vars, NEW c \in Conn, socket[c] = "moved"
    PROVE  socket'[c] = "moved" \/ phase'[c] = "accepting"
<1>1. phase[c] = "free"
  BY DEF IInv, Sound, Alive
<1>2. CASE UNCHANGED vars
  BY <1>2 DEF vars
<1>3. ASSUME NEW e \in Conn, Accept(e)
      PROVE  socket'[c] = "moved" \/ phase'[c] = "accepting"
  BY <1>1, <1>3 DEF Accept, Accepted, AcceptFails, AcceptWith, IInv, TypeOK
<1>4. ASSUME NEW e \in Conn, Read(e) \/ Write(e) PROVE socket'[c] = "moved"
  <2>1. Moves(e) /\ Contained(e)
    BY <1>4, HandlerStep DEF IInv
  <2>2. e # c
    BY <1>1, <2>1 DEF Moves
  <2>3. QED
    BY <2>1, <2>2 DEF Contained, LeavesOthers
<1>5. ASSUME NEW e \in Conn, Outside(e) PROVE socket'[c] = "moved"
  BY <1>1, <1>5 DEF Outside, TimerExpires, RunTimer, PeerFinishes, PeerGone, Alive, IInv, TypeOK
<1>6. QED
  BY <1>2, <1>3, <1>4, <1>5 DEF Next

THEOREM SocketsAreHandedOver == Spec => HandedOverForGood
<1>1. IInv /\ [Next]_vars =>
        [\A c \in Conn : socket[c] = "moved" =>
             socket'[c] = "moved" \/ phase'[c] = "accepting"]_vars
  BY MovedStays
<1>2. QED
  BY <1>1, InitIInv, NextIInv, PTL DEF Spec, HandedOverForGood
=============================================================================
