--------------------------- MODULE ServerLifecycle ---------------------------
(***************************************************************************)
(* start(), stop() and the destructor of SimpleWeb::ServerBase             *)
(* (src/src/web/server_http.hpp), called by the thread that owns the       *)
(* server, while the handlers of its connections run in the threads of an  *)
(* I/O service that is not the server's own, as moba-display's is not.     *)
(*                                                                         *)
(* HttpServer has what the handlers do for a request.  Here a connection   *)
(* waits for its client, and its handler ends the connection or starts the *)
(* next operation: what counts is who still runs, and who is forgotten.    *)
(* Every handler enters the server's ScopeRunner first.  The gate here is  *)
(* what ScopeRunner!StopExcludesHandlers promises of it.                   *)
(*                                                                         *)
(* acceptor->close() and the close() of the connections race with the      *)
(* handlers that use the same objects; they are taken to be atomic.        *)
(***************************************************************************)
EXTENDS Integers

CONSTANTS Conn,         \* bound: connections at one time
          MaxStarts     \* bound: calls of start()

ASSUME LifecycleAssumption == MaxStarts \in Nat

VARIABLES
    owner,         \* the call in which the owning thread is
    starts,        \* the number of calls of start()
    stopped,       \* history: stop() was called, not only by the destructor
    acceptor,      \* "none", "listening", "closed", or "open" but not listening
    gate,          \* handler_runner: "open" or "closed"
    inside,        \* connections whose handler holds a SharedLock
    phase,         \* what a connection waits for, or which handler is due
    sending,       \* connections whose operation is a Response::send
    shut,          \* its socket has been shut down by close()
    connections    \* connections->set

calls         == <<owner, starts, stopped, acceptor, gate>>
lifecycleVars == <<calls, inside, phase, sending, shut, connections>>

OwnerStates == {"idle", "stopping", "destroying", "refusing", "closing", "destroyed"}

(***************************************************************************)
(* The completions whose handlers are due: of async_accept, and of any     *)
(* operation on the socket of the client.  Within the handler of an accept *)
(* "taken" and "failing" follow the call of accept().  A connection that   *)
(* no handler will come for, and that is not deleted, is "held".           *)
(***************************************************************************)
Due    == {"accepted", "aborted", "failed", "completed", "broken"}
Phases == {"free", "accepting", "waiting", "taken", "failing", "held"} \cup Due

LifecycleInit ==
    /\ owner = "idle"
    /\ starts = 0
    /\ stopped = FALSE
    /\ acceptor = "none"
    /\ gate = "open"
    /\ inside = {}
    /\ phase = [c \in Conn |-> "free"]
    /\ sending = {}
    /\ shut = [c \in Conn |-> FALSE]
    /\ connections = {}

(***************************************************************************)
(* accept(): create_connection for d, and async_accept, which fails at     *)
(* once when the acceptor does not listen                                  *)
(***************************************************************************)
Accept(d, others) ==
    /\ phase[d] = "free"
    /\ phase' = [others EXCEPT ![d] = IF acceptor' = "listening" THEN "accepting" ELSE "failed"]
    /\ connections' = connections \cup {d}
    /\ UNCHANGED <<sending, shut>>

-----------------------------------------------------------------------------
(* The owning thread *)

Start ==
    /\ owner = "idle"
    /\ starts < MaxStarts
    /\ acceptor \in {"none", "closed"}    \* else open() throws
    /\ starts' = starts + 1
    /\ acceptor' = "listening"
    /\ \E d \in Conn : Accept(d, phase)
    /\ UNCHANGED <<owner, stopped, gate, inside>>

StartFails ==    \* the port is taken: bind() throws
    /\ owner = "idle"
    /\ starts < MaxStarts
    /\ acceptor \in {"none", "closed"}
    /\ starts' = starts + 1
    /\ acceptor' = "open"
    /\ UNCHANGED <<owner, stopped, gate, inside, phase, sending, shut, connections>>

(***************************************************************************)
(* stop() of a server that was started: it closes the acceptor, by which   *)
(* the accept that is pending is aborted ...                               *)
(***************************************************************************)
CloseAcceptor(from, to) ==
    /\ owner = from
    /\ acceptor # "none"
    /\ owner' = to
    /\ acceptor' = "closed"
    /\ phase' = [c \in Conn |-> IF phase[c] = "accepting" THEN "aborted" ELSE phase[c]]
    /\ UNCHANGED <<starts, gate, inside, sending, shut, connections>>

(***************************************************************************)
(* ... and then, under the mutex of the set, all connections.  A           *)
(* connection gets its socket from an accept when the handler is called;   *)
(* before that, close() has nothing to shut down.                          *)
(***************************************************************************)
HasSocket(c) ==
    \/ phase[c] \in {"taken", "waiting", "completed", "broken", "held"}
    \/ phase[c] = "accepted" /\ c \in inside

CloseConnections(from, to) ==
    /\ owner = from
    /\ owner' = to
    /\ shut' = [c \in Conn |-> shut[c] \/ (c \in connections /\ HasSocket(c))]
    /\ connections' = {}
    /\ UNCHANGED <<starts, acceptor, gate, inside, phase, sending>>

Stop ==
    \/ CloseAcceptor("idle", "stopping") /\ UNCHANGED stopped
    \/ CloseConnections("stopping", "idle") /\ stopped' = TRUE

(***************************************************************************)
(* ~ServerBase(): handler_runner->stop(), which waits until no handler is  *)
(* inside, and then stop().                                                *)
(***************************************************************************)
Destroy ==
    /\ owner = "idle"
    /\ owner' = "destroying"
    /\ UNCHANGED <<starts, stopped, acceptor, gate, inside, phase, sending, shut, connections>>

CloseGateUnawaited ==    \* faulty: does not wait for the handlers
    /\ owner = "destroying"
    /\ owner' = IF acceptor = "none" THEN "destroyed" ELSE "refusing"
    /\ gate' = "closed"
    /\ UNCHANGED <<starts, stopped, acceptor, inside, phase, sending, shut, connections>>

CloseGate ==
    /\ owner = "destroying"
    /\ inside = {}
    /\ owner' = IF acceptor = "none" THEN "destroyed" ELSE "refusing"
    /\ gate' = "closed"
    /\ UNCHANGED <<starts, stopped, acceptor, inside, phase, sending, shut, connections>>

StopAtLast ==
    /\ \/ CloseAcceptor("refusing", "closing")
       \/ CloseConnections("closing", "destroyed")
    /\ UNCHANGED stopped

-----------------------------------------------------------------------------
(* Completions *)

Complete(c, from, to) ==
    /\ phase[c] = from
    /\ phase' = [phase EXCEPT ![c] = to]
    /\ UNCHANGED <<calls, inside, sending, shut, connections>>

Connected(c)   == Complete(c, "accepting", "accepted")
NotAccepted(c) == Complete(c, "accepting", "failed")
Progress(c)    == ~shut[c] /\ Complete(c, "waiting", "completed")
Breaks(c)      == Complete(c, "waiting", "broken")
Cancelled(c)   == shut[c] /\ Breaks(c)

(***************************************************************************)
(* Every wait is timed (HttpServer!NobodyWaitsUntimed).  The handler of    *)
(* the timer knows only its connection, and passes no gate.                *)
(***************************************************************************)
TimeOut(c) ==
    /\ phase[c] \in {"waiting", "held"}
    /\ ~shut[c]
    /\ shut' = [shut EXCEPT ![c] = TRUE]
    /\ UNCHANGED <<calls, inside, phase, sending, connections>>

-----------------------------------------------------------------------------
(* Handlers *)

EnterScope(c) ==
    /\ gate = "open"
    /\ phase[c] \in Due
    /\ c \notin inside
    /\ inside' = inside \cup {c}
    /\ UNCHANGED <<calls, phase, sending, shut, connections>>

LeaveScope(c) == inside' = inside \ {c}

(***************************************************************************)
(* The last reference to the connection goes with the handler.             *)
(***************************************************************************)
Release(c) ==
    /\ phase' = [phase EXCEPT ![c] = "free"]
    /\ shut' = [shut EXCEPT ![c] = FALSE]
    /\ connections' = connections \ {c}
    /\ sending' = sending \ {c}

(***************************************************************************)
(* A handler of Response::send that is turned away leaves send_queue as it *)
(* is.  The callback in it holds the Response whose queue it is, and the   *)
(* Response its Session and the Connection: they hold one another.         *)
(***************************************************************************)
HoldItself(c) ==
    /\ phase' = [phase EXCEPT ![c] = "held"]
    /\ UNCHANGED <<sending, shut, connections>>

TurnedAwayAccepting(c) ==    \* faulty: an accept handler accepts before it asks the gate
    /\ gate = "closed"
    /\ phase[c] \in Due
    /\ UNCHANGED calls
    /\ IF phase[c] \in {"accepted", "failed"}
       THEN \E d \in Conn : Accept(d, [phase EXCEPT ![c] = "aborted"])
       ELSE IF c \in sending THEN HoldItself(c) ELSE Release(c)
    /\ UNCHANGED inside

TurnedAway(c) ==
    /\ gate = "closed"
    /\ phase[c] \in Due
    /\ IF c \in sending THEN HoldItself(c) ELSE Release(c)
    /\ UNCHANGED <<calls, inside>>

AcceptNextOnSuccess(c) ==    \* faulty: an error other than the abortion ends it
    /\ c \in inside
    /\ phase[c] \in {"accepted", "failed"}
    /\ UNCHANGED calls
    /\ IF phase[c] = "accepted"
       THEN \E d \in Conn : Accept(d, [phase EXCEPT ![c] = "taken"])
       ELSE phase' = [phase EXCEPT ![c] = "failing"] /\ UNCHANGED <<sending, shut, connections>>
    /\ UNCHANGED inside

(***************************************************************************)
(* The handler of an accept that was not aborted accepts the next ...      *)
(***************************************************************************)
AcceptNext(c) ==
    /\ c \in inside
    /\ phase[c] \in {"accepted", "failed"}
    /\ UNCHANGED calls
    /\ LET next == IF phase[c] = "accepted" THEN "taken" ELSE "failing"
       IN  \E d \in Conn : Accept(d, [phase EXCEPT ![c] = next])
    /\ UNCHANGED inside

Read(c) ==        \* ... and reads from the connection that it has got.
    /\ c \in inside
    /\ phase[c] = "taken"
    /\ phase' = [phase EXCEPT ![c] = "waiting"]
    /\ LeaveScope(c)
    /\ UNCHANGED <<calls, sending, shut, connections>>

Continue(c) ==    \* the next operation for the request, or the next request
    /\ c \in inside
    /\ phase[c] = "completed"
    /\ phase' = [phase EXCEPT ![c] = "waiting"]
    /\ sending' \in {sending \cup {c}, sending \ {c}}
    /\ LeaveScope(c)
    /\ UNCHANGED <<calls, shut, connections>>

Ends(c) ==        \* done, handed over to the WebSocket server, or an error
    /\ c \in inside
    /\ phase[c] \in {"completed", "broken", "aborted", "failing"}
    /\ Release(c)
    /\ LeaveScope(c)
    /\ UNCHANGED calls

-----------------------------------------------------------------------------

Owner == Start \/ StartFails \/ Stop \/ Destroy \/ CloseGate \/ StopAtLast

Network(c) == Connected(c) \/ NotAccepted(c) \/ Progress(c) \/ Breaks(c)

Handler(c) == TurnedAway(c) \/ AcceptNext(c) \/ Read(c) \/ Continue(c) \/ Ends(c)

LifecycleNext ==
    \/ Owner
    \/ \E c \in Conn : Network(c) \/ TimeOut(c) \/ EnterScope(c) \/ Handler(c)

(***************************************************************************)
(* The I/O threads run what is due and the timers fire.  What clients and  *)
(* the owner do is up to them.                                             *)
(***************************************************************************)
LifecycleFairness ==
    \A c \in Conn : /\ WF_lifecycleVars(TimeOut(c))
                    /\ WF_lifecycleVars(Cancelled(c))
                    /\ WF_lifecycleVars(EnterScope(c))
                    /\ WF_lifecycleVars(Handler(c))

LifecycleSpec == LifecycleInit /\ [][LifecycleNext]_lifecycleVars /\ LifecycleFairness

-----------------------------------------------------------------------------

LifecycleTypes ==
    /\ owner \in OwnerStates
    /\ starts \in 0 .. MaxStarts
    /\ stopped \in BOOLEAN
    /\ acceptor \in {"none", "open", "listening", "closed"}
    /\ gate \in {"open", "closed"}
    /\ inside \subseteq Conn
    /\ phase \in [Conn -> Phases]
    /\ sending \subseteq Conn
    /\ shut \in [Conn -> BOOLEAN]
    /\ connections \subseteq Conn

Waits(c) == phase[c] \in {"waiting", "held"} /\ ~shut[c]

(***************************************************************************)
(* The destructor closes before it stops: when it is over, no handler is   *)
(* in the server, and no connection still waits for a client, not even one *)
(* that came in while it ran.  With a stop() before it some may wait; see  *)
(* StopCloses.                                                             *)
(***************************************************************************)
DestructorCloses ==
    owner = "destroyed" =>
        /\ inside = {}
        /\ ~stopped => \A c \in Conn : ~Waits(c)

(***************************************************************************)
(* A server that was started, or started again after stop(), goes on       *)
(* accepting until it is destroyed, whatever errors an accept ends with    *)
(* and whatever has become of the one that stop() aborted.                 *)
(***************************************************************************)
KeepsAccepting ==
    acceptor = "listening" /\ gate = "open" =>
        \E c \in Conn : phase[c] \in {"accepting", "accepted", "failed"}

(***************************************************************************)
(* When the server is gone its connections go, one by one, those too that  *)
(* stop() has forgotten: nothing keeps the I/O service busy.  What is not  *)
(* deleted is a connection whose Response::send ended after the destructor *)
(* had closed the gate; but its socket is shut down too.                   *)
(***************************************************************************)
ConnectionsEnd ==
    owner = "destroyed" ~> \A c \in Conn : \/ phase[c] = "free"
                                           \/ phase[c] = "held" /\ c \in sending /\ shut[c]

(***************************************************************************)
(* "Stop accepting new requests, and close current connections."           *)
(* (server_http.hpp:473): when stop() has returned, and until start(), no  *)
(* connection waits for a request.  One does whose accept had completed    *)
(* when stop() was called, and whose handler runs only then.               *)
(***************************************************************************)
StopCloses ==
    owner = "idle" /\ acceptor = "closed" => \A c \in Conn : ~Waits(c)
=============================================================================
