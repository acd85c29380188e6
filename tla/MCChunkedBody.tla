---------------------------- MODULE MCChunkedBody ----------------------------
(***************************************************************************)
(* Bodies for ChunkedBody: up to three chunks of up to three bytes, with   *)
(* line breaks in the content.                                             *)
(***************************************************************************)
EXTENDS ChunkedBody

Chunks == {<<"data">>, <<"CR">>, <<"LF">>, <<"CR", "LF">>, <<"data", "data">>,
           <<"data", "CR", "LF">>}

AllBodies == UNION {[1 .. n -> Chunks] : n \in 0 .. 3}
=============================================================================
