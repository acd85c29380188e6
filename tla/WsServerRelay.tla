---------------------------- MODULE WsServerRelay ----------------------------
(***************************************************************************)
(* The WebSocket server implements Relay: with timeouts, failing writes,   *)
(* close frames and pongs in the way, a client still gets one contiguous   *)
(* part of the log.                                                        *)
(***************************************************************************)
EXTENDS WsServer

PhaseOf(c) ==
    IF stage[c] \in {"none"} \cup Handshakes THEN "new"
    ELSE IF c \in members /\ socket[c] \in {"open", "half", "gone"} THEN "open"
    ELSE "left"

(***************************************************************************)
(* What may still get to the client: all that is queued, but only the      *)
(* frame being written when the socket was shut down under it, and nothing *)
(* once a write has failed.                                                *)
(***************************************************************************)
Deliverable(c) ==
    CASE socket[c] = "torn" -> wire[c]
      [] socket[c] = "shut" /\ queue[c] # << >> -> Append(wire[c], Head(queue[c]))
      [] OTHER -> Output(c)

End(c) == joined[c] + Len(Texts(Deliverable(c)))
Got(c) == Numbers(Texts(wire[c]))

Promise == INSTANCE Relay WITH
    Client <- Conn,
    published <- published,
    phase <- [c \in Conn |-> PhaseOf(c)],
    start <- joined,
    end <- [c \in Conn |-> End(c)],
    got <- [c \in Conn |-> Got(c)]

(***************************************************************************)
(* Every behaviour of the server is one of Relay.                          *)
(***************************************************************************)
ImplementsRelay == Promise!Spec
=============================================================================
