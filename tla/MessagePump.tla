----------------------------- MODULE MessagePump -----------------------------
(***************************************************************************)
(* WebServer::run() without its servers (src/src/webserver.cpp): the       *)
(* thread msgThread, which waits for messages of the moba bus and posts    *)
(* each to the I/O thread, and the I/O thread's side of the bridge.  What  *)
(* is posted holds references to `data' and `promise', locals of one pass  *)
(* of msgThread's loop.                                                    *)
(*                                                                         *)
(* Messages of the bus are numbered as they arrive.  Endpoint and Socket   *)
(* (modules/lib-msghandling) are external: connect() and                   *)
(* waitForNewMsgAsString() throw when the link is down, and sendMsg() does *)
(* when it finds it down.                                                  *)
(***************************************************************************)
EXTENDS Integers, Sequences

CONSTANTS MaxReceived,  \* bound: messages that arrive from the bus
          MaxSent       \* bound: commands passed to sendMsg

ASSUME BoundsAssumption == MaxReceived \in Nat /\ MaxSent \in Nat

VARIABLES main,      \* the main thread, which becomes the I/O thread
          pump,      \* where msgThread is
          link,      \* the connection to the moba server
          received,  \* messages that arrived
          data,      \* the local `data', 0 when there is none
          promise,   \* the local `promise'
          posted,    \* lambdas posted and not run: `data' when posted
          relayed,   \* what the lambdas found in `data' when they ran
          sent,      \* commands accepted by sendMsg
          lost       \* commands sendMsg threw for

bus  == <<link, received>>
vars == <<main, pump, bus, data, promise, posted, relayed, sent, lost>>

Init ==
    /\ main = "starting"
    /\ pump = "launching"
    /\ link = "down"
    /\ received = 0
    /\ data = 0
    /\ promise = "none"
    /\ posted = << >>
    /\ relayed = << >>
    /\ sent = << >>
    /\ lost = 0

-----------------------------------------------------------------------------
(* the main thread: httpServer.start() and then io_service->run() *)

StartServer ==
    /\ main = "starting"
    /\ main' = "running"
    /\ UNCHANGED <<pump, bus, data, promise, posted, relayed, sent, lost>>

(***************************************************************************)
(* start() throws, say because the port is in use: msgThread is joinable   *)
(* when it is destroyed, so the whole program ends (std::terminate).       *)
(***************************************************************************)
StartFails ==
    /\ main = "starting"
    /\ main' = "terminated"
    /\ UNCHANGED <<pump, bus, data, promise, posted, relayed, sent, lost>>

-----------------------------------------------------------------------------
(* msgThread *)

Launched ==            \* system("xdg-open ...") has returned
    /\ pump = "launching"
    /\ pump' = "connecting"
    /\ UNCHANGED <<main, bus, data, promise, posted, relayed, sent, lost>>

Connect ==
    /\ pump = "connecting"
    /\ link' = "up"
    /\ pump' = "waiting"
    /\ promise' = "unset"
    /\ UNCHANGED <<main, received, data, posted, relayed, sent, lost>>

ConnectFails ==
    /\ pump = "connecting"
    /\ link' = "down"
    /\ pump' = "sleeping"
    /\ UNCHANGED <<main, received, data, promise, posted, relayed, sent, lost>>

TakeUnposted ==        \* faulty: the message is not posted
    /\ pump = "waiting"
    /\ link = "up"
    /\ received < MaxReceived
    /\ received' = received + 1
    /\ data' = received'
    /\ pump' = "blocked"
    /\ UNCHANGED <<main, link, promise, posted, relayed, sent, lost>>

TakeMessage ==         \* waitForNewMsgAsString, then post
    /\ pump = "waiting"
    /\ link = "up"
    /\ received < MaxReceived
    /\ received' = received + 1
    /\ data' = received'
    /\ posted' = Append(posted, received')
    /\ pump' = "blocked"
    /\ UNCHANGED <<main, link, promise, relayed, sent, lost>>

WaitFailsForGood ==    \* faulty: the exception ends msgThread
    /\ pump = "waiting"
    /\ link = "down"
    /\ pump' = "ended"
    /\ promise' = "none"
    /\ UNCHANGED <<main, bus, data, posted, relayed, sent, lost>>

WaitFails ==           \* the exception leaves the loop and destroys its locals
    /\ pump = "waiting"
    /\ link = "down"
    /\ pump' = "sleeping"
    /\ promise' = "none"
    /\ UNCHANGED <<main, bus, data, posted, relayed, sent, lost>>

NextPassUnawaited ==   \* faulty: no get_future().wait()
    /\ pump = "blocked"
    /\ pump' = "waiting"
    /\ data' = 0
    /\ promise' = "unset"
    /\ UNCHANGED <<main, bus, posted, relayed, sent, lost>>

NextPass ==            \* wait() returns; new locals
    /\ pump = "blocked"
    /\ promise = "set"
    /\ pump' = "waiting"
    /\ data' = 0
    /\ promise' = "unset"
    /\ UNCHANGED <<main, bus, posted, relayed, sent, lost>>

WakeUp ==              \* after four seconds
    /\ pump = "sleeping"
    /\ pump' = "connecting"
    /\ UNCHANGED <<main, bus, data, promise, posted, relayed, sent, lost>>

-----------------------------------------------------------------------------
(* the I/O thread *)

RunPostedAgain ==      \* faulty: the lambda is left in the I/O service's queue
    /\ main = "running"
    /\ posted # << >>
    /\ relayed' = Append(relayed, data)
    /\ promise' = "set"
    /\ UNCHANGED <<main, pump, bus, data, posted, sent, lost>>

RunPosted ==           \* the lambda: send `data' to all, promise.set_value()
    /\ main = "running"
    /\ posted # << >>
    /\ posted' = Tail(posted)
    /\ relayed' = Append(relayed, data)
    /\ promise' = "set"
    /\ UNCHANGED <<main, pump, bus, data, sent, lost>>

ForwardTwice(m) ==     \* faulty: sendMsg is tried again after it has succeeded
    /\ main = "running"
    /\ \/ link = "up" /\ sent' = sent \o <<m, m>> /\ UNCHANGED lost
       \/ link = "down" /\ lost' = lost + 1 /\ UNCHANGED sent
    /\ UNCHANGED <<main, pump, bus, data, promise, posted, relayed>>

(***************************************************************************)
(* on_message: "group#id#payload" is passed on, anything else is ignored,  *)
(* and an exception of sendMsg is logged and forgotten.                    *)
(***************************************************************************)
ForwardCommand(m) ==
    /\ main = "running"
    /\ \/ link = "up" /\ sent' = Append(sent, m) /\ UNCHANGED lost
       \/ link = "down" /\ lost' = lost + 1 /\ UNCHANGED sent
    /\ UNCHANGED <<main, pump, bus, data, promise, posted, relayed>>

IgnoreMessage ==
    /\ main = "running"
    /\ UNCHANGED vars

-----------------------------------------------------------------------------
(* the bus *)

LinkBreaks ==
    /\ link = "up"
    /\ link' = "down"
    /\ UNCHANGED <<main, pump, received, data, promise, posted, relayed, sent, lost>>

-----------------------------------------------------------------------------

Main == StartServer \/ StartFails

Pump ==
    \/ Launched
    \/ Connect
    \/ ConnectFails
    \/ TakeMessage
    \/ WaitFails
    \/ NextPass
    \/ WakeUp

Terminated == main = "terminated" /\ UNCHANGED vars

Next ==
    \/ main # "terminated" /\ (Main \/ Pump \/ LinkBreaks)
    \/ RunPosted
    \/ Len(sent) + lost < MaxSent /\ ForwardCommand("command")
    \/ Terminated

(***************************************************************************)
(* Threads are scheduled and start() returns or throws.  The moba server   *)
(* is assumed to accept a connection now and then (SF of Connect).  That   *)
(* the bus delivers messages is not assumed.                               *)
(***************************************************************************)
Running(A) == main # "terminated" /\ A

Fairness ==
    /\ WF_vars(Main)
    /\ WF_vars(Running(Launched))
    /\ SF_vars(Running(Connect))
    /\ WF_vars(Running(WaitFails))
    /\ WF_vars(Running(NextPass))
    /\ WF_vars(Running(WakeUp))
    /\ WF_vars(RunPosted)

Spec == Init /\ [][Next]_vars

FairSpec == Spec /\ Fairness

-----------------------------------------------------------------------------

TypeOK ==
    /\ main \in {"starting", "running", "terminated"}
    /\ pump \in {"launching", "connecting", "waiting", "blocked", "sleeping"}
    /\ link \in {"up", "down"}
    /\ received \in Nat
    /\ data \in Nat
    /\ promise \in {"none", "unset", "set"}
    /\ posted \in Seq(Nat)
    /\ relayed \in Seq(Nat)
    /\ lost \in Nat

(***************************************************************************)
(* The references a posted lambda captures (webserver.cpp:66) are alive    *)
(* when it runs: msgThread is still in the pass that posted it, `data' is  *)
(* what it was then, and the promise is not yet set.                       *)
(***************************************************************************)
ReferencesValid ==
    \A i \in 1 .. Len(posted) :
        /\ pump = "blocked"
        /\ data = posted[i]
        /\ promise = "unset"

(***************************************************************************)
(* The bridge neither loses, repeats nor reorders a message of the bus,    *)
(* across reconnections too: those relayed are the first ones received,    *)
(* and all but the one that is posted have been relayed.                   *)
(***************************************************************************)
RelayedInOrder ==
    /\ \A i \in 1 .. Len(relayed) : relayed[i] = i
    /\ received = Len(relayed) + Len(posted)
    /\ Len(posted) <= 1

(***************************************************************************)
(* A message that has arrived is broadcast, unless the program ends.       *)
(***************************************************************************)
ReceivedRelayed ==
    received > Len(relayed) ~> received = Len(relayed) \/ main = "terminated"

(***************************************************************************)
(* A lost link is restored: msgThread notices, sleeps and connects again,  *)
(* as often as it takes (webserver.cpp:59-78).                             *)
(***************************************************************************)
LinkRestored ==
    link = "down" ~> link = "up" \/ main = "terminated"
=============================================================================
