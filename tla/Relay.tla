-------------------------------- MODULE Relay --------------------------------
(***************************************************************************)
(* What the display server promises its clients: a growing log of          *)
(* messages, of which every client gets, in order and without a gap, the   *)
(* part that begins when it is opened.  The part ends at some point after  *)
(* the client has left or its connection has failed; a message published   *)
(* after that is never delivered to it.                                    *)
(***************************************************************************)
EXTENDS Integers, Sequences

CONSTANT Client

VARIABLES published,  \* length of the log
          phase,      \* of each client: "new", "open" or "left"
          start,      \* length of the log when the client was opened
          end,        \* the last message that may still be delivered to it
          got         \* the messages delivered to it

vars == <<published, phase, start, end, got>>

Init ==
    /\ published = 0
    /\ phase = [c \in Client |-> "new"]
    /\ start = [c \in Client |-> 0]
    /\ end = [c \in Client |-> 0]
    /\ got = [c \in Client |-> << >>]

Publish ==
    /\ published' = published + 1
    /\ end' = [c \in Client |-> IF phase[c] = "open" THEN published + 1 ELSE end[c]]
    /\ UNCHANGED <<phase, start, got>>

Open(c) ==          \* it may be lost already
    /\ phase[c] = "new"
    /\ \E p \in {"open", "left"} : phase' = [phase EXCEPT ![c] = p]
    /\ start' = [start EXCEPT ![c] = published]
    /\ end' = [end EXCEPT ![c] = published]
    /\ UNCHANGED <<published, got>>

TurnAway(c) ==
    /\ phase[c] = "new"
    /\ phase' = [phase EXCEPT ![c] = "left"]
    /\ UNCHANGED <<published, start, end, got>>

Due(c) == start[c] + Len(got[c]) + 1    \* the message that is due

Deliver(c) ==
    /\ Due(c) <= end[c]
    /\ got' = [got EXCEPT ![c] = Append(@, Due(c))]
    /\ UNCHANGED <<published, phase, start, end>>

Leave(c) ==         \* or lose messages that were still under way
    /\ phase[c] \in {"open", "left"}
    /\ phase' = [phase EXCEPT ![c] = "left"]
    /\ \E last \in start[c] + Len(got[c]) .. end[c] :
           end' = [end EXCEPT ![c] = last]
    /\ UNCHANGED <<published, start, got>>

Next ==
    \/ Publish
    \/ \E c \in Client : Open(c) \/ TurnAway(c) \/ Deliver(c) \/ Leave(c)

Spec == Init /\ [][Next]_vars
=============================================================================
