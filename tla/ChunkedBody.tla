----------------------------- MODULE ChunkedBody -----------------------------
(***************************************************************************)
(* read_chunked_transfer_encoded (src/src/web/server_http.hpp): the        *)
(* content of a request comes in chunks, each a line with its size, its    *)
(* bytes and CR LF, and a chunk of size 0 ends it.  The bytes arrive in    *)
(* pieces that have nothing to do with the chunks: what was read behind a  *)
(* size is in the buffer of the sizes and has to be moved or dropped.      *)
(*                                                                         *)
(* HttpServer has the same handlers as steps of a connection; here it is   *)
(* their bytes that are followed, for one request of a client that keeps   *)
(* to the format.  A byte has a kind, which is all the code looks at, and  *)
(* a number, by which the bytes of the content are told apart.  A size is  *)
(* one byte, so that LineSize, 16 + 2 in the code, is scaled with it.      *)
(***************************************************************************)
EXTENDS Integers, Sequences, SequencesExt

CONSTANTS Bodies,     \* what clients send: sequences of chunks, which are
                      \* non-empty sequences of the kinds of their bytes
          LineSize,   \* least capacity of the buffer for the sizes
          MaxSize     \* config.max_request_streambuf_size

Kinds == {"data", "CR", "LF"}

ASSUME BodiesAssumption ==
    /\ \A b \in Bodies : b \in Seq(Seq(Kinds) \ {<< >>})
    /\ LineSize \in Nat
    /\ LineSize >= 3
    /\ MaxSize \in Nat

VARIABLES
    body,       \* the body that is sent
    stream,     \* bytes that have not been read from the socket
    buffer,     \* chunk_size_streambuf
    capacity,   \* its max_size
    content,    \* request->streambuf
    phase,      \* the operation that is pending, or how the request ended
    need        \* the number of bytes that transfer_exactly asks for

bodyVars == <<body, stream, buffer, capacity, content, phase, need>>

Byte(kind, no) == [kind |-> kind, no |-> no]
CRLF           == <<Byte("CR", 0), Byte("LF", 0)>>
Size(n)        == <<Byte("size", n)>> \o CRLF

(***************************************************************************)
(* The bytes of chunk i, numbered 10 i + 1 and so on, and all of the body  *)
(* as the client writes it                                                 *)
(***************************************************************************)
ChunkBytes(b, i) == [j \in 1 .. Len(b[i]) |-> Byte(b[i][j], 10 * i + j)]

Wire(b) ==
    FlattenSeq([i \in 1 .. Len(b) |-> Size(Len(b[i])) \o ChunkBytes(b, i) \o CRLF])
        \o Size(0) \o CRLF

Bytes(b) == FlattenSeq([i \in 1 .. Len(b) |-> ChunkBytes(b, i)])

First(s, n) == SubSeq(s, 1, n)
After(s, n) == SubSeq(s, n + 1, Len(s))

AtLeast(n, m) == IF n < m THEN m ELSE n
AtMost(n, m)  == IF n > m THEN m ELSE n

(***************************************************************************)
(* read(): some bytes of the body came with the header and are moved to a  *)
(* buffer that holds at least them.                                        *)
(***************************************************************************)
BodyInit ==
    /\ body \in Bodies
    /\ \E n \in 0 .. Len(Wire(body)) :
           /\ buffer = First(Wire(body), n)
           /\ stream = After(Wire(body), n)
           /\ capacity = AtLeast(n, LineSize)
    /\ content = << >>
    /\ phase = "size"
    /\ need = 0

(***************************************************************************)
(* async_read_until: reads pieces until CR LF is in the buffer, of which   *)
(* the last piece may bring bytes behind it, as many as there is room for. *)
(***************************************************************************)
LineEnd(s) == {i \in 1 .. Len(s) - 1 : s[i].kind = "CR" /\ s[i + 1].kind = "LF"}

ReadUntil(n) ==
    IF LineEnd(buffer) # {} THEN n = 0
    ELSE /\ n <= capacity - Len(buffer)
         /\ LineEnd(buffer \o First(stream, n)) # {}

Wait(next, n) ==
    /\ phase' = next
    /\ need' = n

(***************************************************************************)
(* The handler of a size line, of which `read' is what the buffer holds.   *)
(* The line ends at its LF.  As much of the chunk as was read with it goes *)
(* to the content; the rest is read into the content, and then CR LF.      *)
(***************************************************************************)
LastChunk(read) ==
    /\ read[1].no = 0
    /\ buffer' = After(read, 3)
    /\ UNCHANGED content
    /\ Wait("dispatched", 0)

TooLarge(read) ==
    /\ read[1].no > 0
    /\ read[1].no + Len(content) > MaxSize
    /\ buffer' = After(read, 3)
    /\ UNCHANGED content
    /\ Wait("refused", 0)

MoveLeftover(read, chunk, additional) ==
    content' = content \o First(After(read, 3), AtMost(additional, chunk))

PartOfChunk(read) ==       \* the chunk goes on in the socket
    LET chunk == read[1].no
        additional == Len(read) - 3
    IN  /\ chunk > additional
        /\ chunk + Len(content) <= MaxSize
        /\ MoveLeftover(read, chunk, additional)
        /\ buffer' = << >>
        /\ Wait("chunk", chunk - additional)

ChunkWithoutEndKeepingCR(read) ==    \* faulty: the CR that was read is kept
    LET chunk == read[1].no
        additional == Len(read) - 3
    IN  /\ 0 < chunk /\ chunk <= additional /\ additional < chunk + 2
        /\ chunk + Len(content) <= MaxSize
        /\ MoveLeftover(read, chunk, additional)
        /\ buffer' = After(read, 3 + chunk)
        /\ Wait("end", chunk + 2 - additional)

ChunkWithoutEnd(read) ==   \* CR LF, or LF, is still to come
    LET chunk == read[1].no
        additional == Len(read) - 3
    IN  /\ 0 < chunk /\ chunk <= additional /\ additional < chunk + 2
        /\ chunk + Len(content) <= MaxSize
        /\ MoveLeftover(read, chunk, additional)
        /\ buffer' = << >>
        /\ Wait("end", chunk + 2 - additional)

ChunkAndMoreDropping(read) ==    \* faulty: what was read behind the chunk is dropped
    LET chunk == read[1].no
        additional == Len(read) - 3
    IN  /\ 0 < chunk /\ chunk + 2 <= additional
        /\ chunk + Len(content) <= MaxSize
        /\ MoveLeftover(read, chunk, additional)
        /\ buffer' = << >>
        /\ Wait("size", 0)

ChunkAndMore(read) ==      \* all of it was read, and perhaps the next sizes too
    LET chunk == read[1].no
        additional == Len(read) - 3
    IN  /\ 0 < chunk /\ chunk + 2 <= additional
        /\ chunk + Len(content) <= MaxSize
        /\ MoveLeftover(read, chunk, additional)
        /\ buffer' = After(read, 3 + chunk + 2)
        /\ Wait("size", 0)

ReadSize ==
    /\ phase = "size"
    /\ \E n \in 0 .. Len(stream) :
           /\ ReadUntil(n)
           /\ stream' = After(stream, n)
           /\ LET read == buffer \o First(stream, n)
              IN  \/ LastChunk(read)
                  \/ TooLarge(read)
                  \/ PartOfChunk(read)
                  \/ ChunkWithoutEnd(read)
                  \/ ChunkAndMore(read)
    /\ UNCHANGED <<body, capacity>>

(***************************************************************************)
(* The rest of a chunk is read into the content, and then two bytes are    *)
(* read for CR LF; or one or two bytes for what is missing of it.          *)
(***************************************************************************)
ReadChunk ==
    /\ phase = "chunk"
    /\ need <= Len(stream)
    /\ content' = content \o First(stream, need)
    /\ stream' = After(stream, need)
    /\ Wait("end", 2)
    /\ UNCHANGED <<body, buffer, capacity>>

ReadEnd ==
    /\ phase = "end"
    /\ need <= Len(stream)
    /\ stream' = After(stream, need)
    /\ Wait("size", 0)
    /\ UNCHANGED <<body, buffer, capacity, content>>

BodyNext == ReadSize \/ ReadChunk \/ ReadEnd

(***************************************************************************)
(* The client sends the whole body, and the I/O thread runs the handlers   *)
(* whose bytes are there.                                                  *)
(***************************************************************************)
BodySpec == BodyInit /\ [][BodyNext]_bodyVars /\ WF_bodyVars(BodyNext)

-----------------------------------------------------------------------------

Ended == phase \in {"dispatched", "refused"}

(***************************************************************************)
(* However the bytes are cut into pieces, the content is made of the bytes *)
(* of the chunks, each once and in order; all of them are there when the   *)
(* resource is looked for; and then nothing that belongs to the content is *)
(* left for the next request on the connection to begin with, but part of  *)
(* the CR LF behind the last chunk (server_http.hpp:637).                  *)
(***************************************************************************)
ContentIntact ==
    /\ IsPrefix(content, Bytes(body))
    /\ phase = "dispatched" => content = Bytes(body) /\ IsSuffix(stream, CRLF)

(***************************************************************************)
(* The operations never ask for more than the client sends: a request in   *)
(* the right format is dispatched, or refused if its content is too large. *)
(***************************************************************************)
BodyIsRead ==
    IF Len(Bytes(body)) <= MaxSize THEN <>(phase = "dispatched") ELSE <>(phase = "refused")
=============================================================================
