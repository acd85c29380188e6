----------------------------- MODULE MCWsServer ------------------------------
(* WsServer with the symmetry of its connections, for safety runs. *)
EXTENDS WsServer

ConnSymmetry == Permutations(Conn)
=============================================================================
