---------------------------- MODULE MCHttpServer -----------------------------
(***************************************************************************)
(* HttpServer with the requests of the runs.  The files are shorter than   *)
(* the buffer, as long as one and as two of them, one byte longer, empty,  *)
(* and missing.                                                            *)
(***************************************************************************)
EXTENDS HttpServer

Get(length, stays) == [NoRequest EXCEPT !.file = length, !.persistent = stays]

Post(how) == [NoRequest EXCEPT !.method = "POST", !.body = how]

GetWith(how) == [NoRequest EXCEPT !.body = how, !.persistent = TRUE]

Upgrading == [NoRequest EXCEPT !.upgrade = TRUE]

(* Every kind of request *)
AllRequests ==
    {Get(length, TRUE) : length \in {NoFile, 0, 1, BufferSize, BufferSize + 1, 2 * BufferSize}}
    \cup {Get(1, FALSE), Upgrading, Post("none")}
    \cup {GetWith(how) : how \in {"length", "chunked"}}
=============================================================================
