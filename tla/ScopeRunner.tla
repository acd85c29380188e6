----------------------------- MODULE ScopeRunner -----------------------------
(***************************************************************************)
(* SimpleWeb::ScopeRunner (src/src/web/utility.hpp): the gate that every   *)
(* asynchronous handler of a server passes before it touches the server    *)
(* object, and that the server's destructor closes.                        *)
(*                                                                         *)
(* Handlers call continue_lock() and keep the returned SharedLock until    *)
(* they return; stoppers call stop().  Both are compare-and-swap loops on  *)
(* one atomic counter, so an action here is one access to that counter.    *)
(* compare_exchange_weak may fail although the values agree: a failing     *)
(* exchange is therefore always possible, and only reloads `expected'.     *)
(***************************************************************************)
EXTENDS Integers, FiniteSets

CONSTANTS Handlers,   \* threads that run handlers of the server
          Stoppers    \* threads that call stop()

ASSUME ThreadsAssumption ==
    /\ IsFiniteSet(Handlers)
    /\ Handlers \cap Stoppers = {}

VARIABLES count,      \* the atomic: scopes entered, or -1 once stopped
          expected,   \* each thread's local copy of it
          pc          \* where each thread is

vars == <<count, expected, pc>>

Threads == Handlers \cup Stoppers

HandlerPC == {"idle", "entering", "inside"}
StopperPC == {"running", "stopping", "stopped"}

Init ==
    /\ count = 0
    /\ expected = [t \in Threads |-> 0]
    /\ pc = [t \in Threads |-> IF t \in Handlers THEN "idle" ELSE "running"]

Goto(t, from, to) ==
    /\ pc[t] = from
    /\ pc' = [pc EXCEPT ![t] = to]

-----------------------------------------------------------------------------
(* continue_lock(), by a handler h *)

Load(h) ==
    /\ Goto(h, "idle", "entering")
    /\ expected' = [expected EXCEPT ![h] = count]
    /\ UNCHANGED count

Enter(h) ==
    /\ expected[h] >= 0
    /\ count = expected[h]
    /\ Goto(h, "entering", "inside")
    /\ count' = expected[h] + 1
    /\ UNCHANGED expected

EnterRetryStale(h) ==    \* faulty: `expected' is not reloaded
    /\ pc[h] = "entering"
    /\ expected[h] >= 0
    /\ UNCHANGED vars

EnterRetry(h) ==
    /\ pc[h] = "entering"
    /\ expected[h] >= 0
    /\ expected' = [expected EXCEPT ![h] = count]
    /\ UNCHANGED <<count, pc>>

RefusedForGood(h) ==    \* faulty: the handler's thread stops
    /\ expected[h] < 0
    /\ Goto(h, "entering", "stopped")
    /\ UNCHANGED <<count, expected>>

Refused(h) ==    \* nullptr: the handler returns without doing anything
    /\ expected[h] < 0
    /\ Goto(h, "entering", "idle")
    /\ UNCHANGED <<count, expected>>

(* ~SharedLock(), when the handler returns *)

LeaveUncounted(h) ==    \* faulty: the counter is not decremented
    /\ Goto(h, "inside", "idle")
    /\ UNCHANGED <<count, expected>>

Leave(h) ==
    /\ Goto(h, "inside", "idle")
    /\ count' = count - 1
    /\ UNCHANGED expected

-----------------------------------------------------------------------------
(* stop(), by a thread s *)

BeginStop(s) ==
    /\ Goto(s, "running", "stopping")
    /\ expected' = [expected EXCEPT ![s] = 0]
    /\ UNCHANGED count

CloseUnchecked(s) ==    \* faulty: a store instead of the exchange
    /\ Goto(s, "stopping", "stopped")
    /\ count' = -1
    /\ UNCHANGED expected

Close(s) ==
    /\ count = expected[s]
    /\ Goto(s, "stopping", "stopped")
    /\ count' = -1
    /\ UNCHANGED expected

CloseRetry(s) ==
    /\ pc[s] = "stopping"
    /\ count >= 0
    /\ expected' = [expected EXCEPT ![s] = 0]
    /\ UNCHANGED <<count, pc>>

FoundClosedSpins(s) ==    \* faulty: waits for 0 although the gate is closed
    /\ pc[s] = "stopping"
    /\ count < 0
    /\ expected' = [expected EXCEPT ![s] = 0]
    /\ UNCHANGED <<count, pc>>

FoundClosed(s) ==    \* another stop() has already succeeded
    /\ count < 0
    /\ Goto(s, "stopping", "stopped")
    /\ expected' = [expected EXCEPT ![s] = count]
    /\ UNCHANGED count

-----------------------------------------------------------------------------

Next ==
    \/ \E h \in Handlers : \/ Load(h)
                           \/ Enter(h)
                           \/ EnterRetry(h)
                           \/ Refused(h)
                           \/ Leave(h)
    \/ \E s \in Stoppers : \/ BeginStop(s)
                           \/ Close(s)
                           \/ CloseRetry(s)
                           \/ FoundClosed(s)

(***************************************************************************)
(* Threads that have entered a loop are scheduled; that somebody calls     *)
(* continue_lock() or stop() at all is up to the program.  An exchange     *)
(* that could succeed again and again does not fail spuriously for ever,   *)
(* hence SF for Enter and Close.                                           *)
(***************************************************************************)
Fairness ==
    /\ \A h \in Handlers : /\ SF_vars(Enter(h))
                           /\ WF_vars(EnterRetry(h))
                           /\ WF_vars(Refused(h))
                           /\ WF_vars(Leave(h))
    /\ \A s \in Stoppers : /\ SF_vars(Close(s))
                           /\ WF_vars(FoundClosed(s))

Spec == Init /\ [][Next]_vars

FairSpec == Spec /\ Fairness

-----------------------------------------------------------------------------

Inside  == {h \in Handlers : pc[h] = "inside"}
Stopped == {s \in Stoppers : pc[s] = "stopped"}

TypeOK ==
    /\ count \in Int
    /\ expected \in [Threads -> Int]
    /\ pc \in [Threads -> HandlerPC \cup StopperPC]
    /\ \A h \in Handlers : pc[h] \in HandlerPC
    /\ \A s \in Stoppers : pc[s] \in StopperPC

(***************************************************************************)
(* The counter tells the truth: the number of SharedLocks alive, or -1     *)
(* when the gate is closed and then none is alive.                         *)
(***************************************************************************)
CountExact ==
    \/ count = Cardinality(Inside)
    \/ count = -1 /\ Inside = {}

(***************************************************************************)
(* "The shared lock ensures that a potential destructor call is delayed    *)
(* until all locks are released" (utility.hpp:455): once any stop() has    *)
(* returned, no handler is inside its scope, and none can come in.         *)
(***************************************************************************)
StopExcludesHandlers ==
    Stopped # {} => Inside = {} /\ count = -1

(***************************************************************************)
(* The inductive strengthening: a thread in stop() always compares with 0, *)
(* so the exchange that closes the gate happens only when nobody is        *)
(* inside, and the value -1 it leaves behind is never replaced.            *)
(***************************************************************************)
StoppersExpectZero ==
    \A s \in Stoppers : pc[s] = "stopping" => expected[s] = 0

IInv ==
    /\ TypeOK
    /\ CountExact
    /\ StoppersExpectZero
    /\ Stopped # {} => count = -1

(***************************************************************************)
(* "Blocks until all shared locks are released" (utility.hpp:467): stop()  *)
(* returns if the handlers leave a gap again and again, in which none of   *)
(* them is inside.  With one handler thread, as in moba-display, there is  *)
(* one after every handler; with several there need never be any.          *)
(***************************************************************************)
StopReturns ==
    []<>(count <= 0) =>
        \A s \in Stoppers : pc[s] = "stopping" ~> pc[s] = "stopped"

(***************************************************************************)
(* A handler that starts after, or races with, stop() never hangs in       *)
(* continue_lock(): it gets in or it is refused.                           *)
(***************************************************************************)
ContinueLockReturns ==
    \A h \in Handlers : pc[h] = "entering" ~> pc[h] # "entering"
=============================================================================
