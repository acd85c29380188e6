------------------------------ MODULE StopProofs ------------------------------
(***************************************************************************)
(* What stop() leaves behind: of the ScopeRunner, for any threads, and of  *)
(* the server whose destructor calls it, for any connections and any       *)
(* number of calls of start() and stop().  The first is the promise that   *)
(* the gate of ServerLifecycle stands for.                                 *)
(***************************************************************************)
EXTENDS ScopeRunner, ServerLifecycle, FiniteSetTheorems, TLAPS

-----------------------------------------------------------------------------
(* ScopeRunner *)

USE ThreadsAssumption DEF Threads

(***************************************************************************)
(* The set of handlers inside their scope is finite, so it can be counted. *)
(***************************************************************************)
LEMMA InsideFinite ==
    /\ IsFiniteSet(Inside)
    /\ Cardinality(Inside) \in Nat
    /\ Cardinality(Inside) = 0 <=> Inside = {}
<1>1. Inside \in SUBSET Handlers
  BY DEF Inside
<1>2. IsFiniteSet(Inside)
  BY <1>1, FS_Subset
<1>3. QED
  BY <1>2, FS_CardinalityType, FS_EmptySet

(***************************************************************************)
(* A handler that goes in or out changes the count of Inside by one; no    *)
(* other step changes Inside.                                              *)
(***************************************************************************)
LEMMA InsideSteps ==
    ASSUME TypeOK, NEW h \in Handlers
    PROVE  /\ Goto(h, "entering", "inside") =>
                 Cardinality(Inside') = Cardinality(Inside) + 1
           /\ Goto(h, "inside", "idle") =>
                 Cardinality(Inside') = Cardinality(Inside) - 1
<1>1. ASSUME Goto(h, "entering", "inside")
      PROVE  Cardinality(Inside') = Cardinality(Inside) + 1
  <2>1. h \notin Inside /\ Inside' = Inside \cup {h}
    BY <1>1 DEF Goto, Inside, TypeOK
  <2>2. QED
    BY <2>1, InsideFinite, FS_AddElement
<1>2. ASSUME Goto(h, "inside", "idle")
      PROVE  Cardinality(Inside') = Cardinality(Inside) - 1
  <2>1. h \in Inside /\ Inside' = Inside \ {h}
    BY <1>2 DEF Goto, Inside, TypeOK
  <2>2. QED
    BY <2>1, InsideFinite, FS_RemoveElement
<1>3. QED
  BY <1>1, <1>2

(***************************************************************************)
(* Type correctness.                                                       *)
(***************************************************************************)
THEOREM TypeCorrect == Spec => []TypeOK
<1>1. Init => TypeOK
  BY DEF Init, TypeOK, HandlerPC, StopperPC
<1>2. ASSUME TypeOK, [Next]_vars
      PROVE  TypeOK'
  <2> USE <1>2 DEF TypeOK, HandlerPC, StopperPC
  <2>1. ASSUME NEW h \in Handlers,
               Load(h) \/ Enter(h) \/ EnterRetry(h) \/ Refused(h) \/ Leave(h)
        PROVE  TypeOK'
    BY <2>1 DEF Load, Enter, EnterRetry, Refused, Leave, Goto
  <2>2. ASSUME NEW s \in Stoppers,
               BeginStop(s) \/ Close(s) \/ CloseRetry(s) \/ FoundClosed(s)
        PROVE  TypeOK'
    BY <2>2 DEF BeginStop, Close, CloseRetry, FoundClosed, Goto
  <2>3. CASE UNCHANGED vars
    BY <2>3 DEF vars
  <2>4. QED
    BY <2>1, <2>2, <2>3 DEF Next
<1>3. QED
  BY <1>1, <1>2, PTL DEF Spec

(***************************************************************************)
(* The inductive invariant.                                                *)
(***************************************************************************)
LEMMA InitIInv == Init => IInv
<1> SUFFICES ASSUME Init PROVE IInv
  OBVIOUS
<1>1. TypeOK
  BY DEF Init, TypeOK, HandlerPC, StopperPC
<1>2. Inside = {} /\ Stopped = {}
  BY DEF Init, Inside, Stopped
<1>3. CountExact
  BY <1>2, FS_EmptySet DEF Init, CountExact
<1>4. StoppersExpectZero
  BY DEF Init, StoppersExpectZero
<1>5. QED
  BY <1>1, <1>2, <1>3, <1>4 DEF IInv

LEMMA NextIInv ==
    ASSUME IInv, TypeOK', [Next]_vars
    PROVE  IInv'
<1> USE DEF IInv
<1>1. ASSUME NEW h \in Handlers, Enter(h)
      PROVE  IInv'
  <2>1. count # -1 /\ count = Cardinality(Inside)
    BY <1>1 DEF Enter, CountExact
  <2>2. CountExact'
    BY <1>1, <2>1, InsideSteps DEF Enter, CountExact
  <2>3. StoppersExpectZero' /\ Stopped' = Stopped
    BY <1>1 DEF Enter, Goto, StoppersExpectZero, Stopped, TypeOK, HandlerPC, StopperPC
  <2>4. QED
    BY <2>1, <2>2, <2>3
<1>2. ASSUME NEW h \in Handlers, Leave(h)
      PROVE  IInv'
  <2>1. h \in Inside
    BY <1>2 DEF Leave, Goto, Inside
  <2>2. count = Cardinality(Inside) /\ count # -1
    BY <2>1, InsideFinite DEF CountExact
  <2>3. CountExact'
    BY <1>2, <2>2, InsideSteps DEF Leave, CountExact
  <2>4. StoppersExpectZero' /\ Stopped' = Stopped
    BY <1>2 DEF Leave, Goto, StoppersExpectZero, Stopped, TypeOK, HandlerPC, StopperPC
  <2>5. QED
    BY <2>2, <2>3, <2>4
<1>3. ASSUME NEW h \in Handlers, Load(h) \/ EnterRetry(h) \/ Refused(h)
      PROVE  IInv'
  <2>1. Inside' = Inside /\ Stopped' = Stopped /\ count' = count
    BY <1>3 DEF Load, EnterRetry, Refused, Goto, Inside, Stopped, TypeOK
  <2>2. StoppersExpectZero'
    BY <1>3 DEF Load, EnterRetry, Refused, Goto, StoppersExpectZero, TypeOK
  <2>3. QED
    BY <2>1, <2>2 DEF CountExact
<1>4. ASSUME NEW s \in Stoppers, Close(s)
      PROVE  IInv'
  <2>1. count = 0 /\ Inside = {}
    BY <1>4, InsideFinite DEF Close, Goto, CountExact, StoppersExpectZero
  <2>2. Inside' = Inside
    BY <1>4 DEF Close, Goto, Inside, TypeOK
  <2>3. StoppersExpectZero' /\ count' = -1
    BY <1>4 DEF Close, Goto, StoppersExpectZero, TypeOK
  <2>4. QED
    BY <2>1, <2>2, <2>3 DEF CountExact
<1>5. ASSUME NEW s \in Stoppers, BeginStop(s) \/ CloseRetry(s)
      PROVE  IInv'
  <2>1. Inside' = Inside /\ Stopped' = Stopped /\ count' = count
    BY <1>5 DEF BeginStop, CloseRetry, Goto, Inside, Stopped, TypeOK
  <2>2. StoppersExpectZero'
    BY <1>5 DEF BeginStop, CloseRetry, Goto, StoppersExpectZero, TypeOK
  <2>3. QED
    BY <2>1, <2>2 DEF CountExact
<1>6. ASSUME NEW s \in Stoppers, FoundClosed(s)
      PROVE  IInv'
  <2>1. Inside' = Inside /\ count' = count
    BY <1>6 DEF FoundClosed, Goto, Inside, TypeOK
  <2>2. count = -1
    BY <1>6, InsideFinite DEF FoundClosed, CountExact
  <2>3. StoppersExpectZero'
    BY <1>6 DEF FoundClosed, Goto, StoppersExpectZero, TypeOK
  <2>4. QED
    BY <2>1, <2>2, <2>3 DEF CountExact
<1>7. CASE UNCHANGED vars
  BY <1>7 DEF vars, CountExact, Inside, Stopped, StoppersExpectZero
<1>8. QED
  BY <1>1, <1>2, <1>3, <1>4, <1>5, <1>6, <1>7 DEF Next

(***************************************************************************)
(* The counter is exact, for every number of threads.                      *)
(***************************************************************************)
THEOREM CountIsExact == Spec => []CountExact
<1>1. TypeOK /\ TypeOK' /\ IInv /\ [Next]_vars => IInv'
  BY NextIInv
<1>2. IInv => CountExact
  BY DEF IInv
<1>3. QED
  BY <1>1, <1>2, InitIInv, TypeCorrect, PTL DEF Spec

(***************************************************************************)
(* Once a stop() has returned, no handler is inside its scope and the gate *)
(* stays closed: the destructor may go on.                                 *)
(***************************************************************************)
THEOREM StopExcludes == Spec => []StopExcludesHandlers
<1>1. TypeOK /\ TypeOK' /\ IInv /\ [Next]_vars => IInv'
  BY NextIInv
<1>2. IInv => StopExcludesHandlers
  BY InsideFinite DEF IInv, StopExcludesHandlers, CountExact
<1>3. QED
  BY <1>1, <1>2, InitIInv, TypeCorrect, PTL DEF Spec
HIDE ThreadsAssumption DEF Threads

-----------------------------------------------------------------------------
(* ServerLifecycle *)

(***************************************************************************)
(* No handler is in the server once the gate is closed, and it is closed   *)
(* from the destructor's first call on.  A connection whose handler is in  *)
(* the server has one that was due.                                        *)
(***************************************************************************)
GateHolds ==
    /\ gate = "closed" <=> owner \in {"refusing", "closing", "destroyed"}
    /\ gate = "closed" => inside = {}
    /\ \A c \in inside : phase[c] \in Due \cup {"taken", "failing"}

(***************************************************************************)
(* Until a stop() or the destructor clears it, the set holds every         *)
(* connection there is; so there is none the destructor could miss, and    *)
(* those that have a socket have been shut down when it is over.           *)
(***************************************************************************)
Established == {"waiting", "completed", "broken", "held"}

NobodyMissed ==
    /\ acceptor = "none" => \A c \in Conn : phase[c] = "free"
    /\ ~stopped /\ owner # "destroyed" =>
           \A c \in Conn : phase[c] # "free" => c \in connections
    /\ ~stopped /\ owner = "destroyed" =>
           \A c \in Conn : phase[c] \in Established => shut[c]

(***************************************************************************)
(* A Response::send is pending, due or held, on a connection of its own.   *)
(***************************************************************************)
SendsEstablished == \A c \in sending : phase[c] \in Established

LifecycleInv ==
    /\ LifecycleTypes
    /\ GateHolds
    /\ NobodyMissed
    /\ SendsEstablished
    /\ KeepsAccepting

LEMMA InitLifecycle == LifecycleInit => LifecycleInv
<1> SUFFICES ASSUME LifecycleInit PROVE LifecycleInv
    OBVIOUS
<1>1. LifecycleTypes
    <2>1. starts \in 0 .. MaxStarts
        BY LifecycleAssumption DEF LifecycleInit
    <2>2. phase \in [Conn -> Phases] /\ shut \in [Conn -> BOOLEAN]
        BY DEF LifecycleInit, Phases
    <2>3. QED
        BY <2>1, <2>2, Zenon DEF LifecycleInit, LifecycleTypes, OwnerStates
<1>2. GateHolds
    BY DEF LifecycleInit, GateHolds
<1>3. NobodyMissed
    BY DEF LifecycleInit, NobodyMissed
<1>4. SendsEstablished
    BY DEF LifecycleInit, SendsEstablished
<1>5. KeepsAccepting
    BY DEF LifecycleInit, KeepsAccepting
<1>6. QED
    BY <1>1, <1>2, <1>3, <1>4, <1>5 DEF LifecycleInv

-----------------------------------------------------------------------------
(* The type invariant is preserved by every step. *)

LEMMA TypeStep == LifecycleTypes /\ [LifecycleNext]_lifecycleVars => LifecycleTypes'
<1> SUFFICES ASSUME LifecycleTypes, [LifecycleNext]_lifecycleVars PROVE LifecycleTypes'
    OBVIOUS
<1> USE DEF LifecycleTypes, OwnerStates, Phases, Due, calls
<1>1. CASE Start
    BY <1>1, LifecycleAssumption DEF Start, Accept
<1>2. CASE StartFails
    BY <1>2, LifecycleAssumption DEF StartFails
<1>3. CASE Stop
    BY <1>3 DEF Stop, CloseAcceptor, CloseConnections
<1>4. CASE Destroy \/ CloseGate
    BY <1>4 DEF Destroy, CloseGate
<1>5. CASE StopAtLast
    BY <1>5 DEF StopAtLast, CloseAcceptor, CloseConnections
<1>6. ASSUME NEW c \in Conn, Network(c) \/ TimeOut(c)
      PROVE LifecycleTypes'
    BY <1>6 DEF Network, Connected, NotAccepted, Progress, Breaks, Complete, TimeOut
<1>7. ASSUME NEW c \in Conn, EnterScope(c)
      PROVE LifecycleTypes'
    BY <1>7 DEF EnterScope
<1>8. ASSUME NEW c \in Conn, Handler(c)
      PROVE LifecycleTypes'
    <2>1. CASE TurnedAway(c)
        BY <2>1 DEF TurnedAway, HoldItself, Release
    <2>2. CASE AcceptNext(c)
        BY <2>2 DEF AcceptNext, Accept
    <2>3. CASE Read(c) \/ Continue(c)
        BY <2>3 DEF Read, Continue, LeaveScope
    <2>4. CASE Ends(c)
        BY <2>4 DEF Ends, Release, LeaveScope
    <2>5. QED
        BY <1>8, <2>1, <2>2, <2>3, <2>4 DEF Handler
<1>9. CASE UNCHANGED lifecycleVars
    BY <1>9 DEF lifecycleVars
<1>10. QED
    BY <1>1, <1>2, <1>3, <1>4, <1>5, <1>6, <1>7, <1>8, <1>9 DEF LifecycleNext, Owner

-----------------------------------------------------------------------------
(* The rest of the invariant, one step for each action. *)

Rest == GateHolds /\ NobodyMissed /\ SendsEstablished /\ KeepsAccepting

LEMMA InvStep == LifecycleInv /\ [LifecycleNext]_lifecycleVars => LifecycleInv'
<1> SUFFICES ASSUME LifecycleInv, [LifecycleNext]_lifecycleVars PROVE LifecycleInv'
    OBVIOUS
<1>t. LifecycleTypes /\ LifecycleTypes'
    BY TypeStep DEF LifecycleInv
<1> SUFFICES Rest'
    BY <1>t DEF LifecycleInv, Rest
<1> USE <1>t DEF LifecycleInv, Rest, GateHolds, NobodyMissed, SendsEstablished, Established,
           KeepsAccepting
<1>1. CASE Start
    <2>1. PICK d \in Conn : Accept(d, phase)
        BY <1>1 DEF Start
    <2>2. /\ phase[d] = "free"
          /\ acceptor' = "listening"
          /\ phase' = [phase EXCEPT ![d] = "accepting"]
          /\ connections' = connections \cup {d}
          /\ UNCHANGED <<owner, stopped, gate, inside, sending, shut>>
        BY <1>1, <2>1 DEF Start, Accept
    <2>3. phase'[d] = "accepting"
        BY <2>2 DEF LifecycleTypes
    <2>4. KeepsAccepting'
        BY <2>3
    <2>5. GateHolds' /\ NobodyMissed' /\ SendsEstablished'
        BY <1>1, <2>2 DEF Start, LifecycleTypes, Due
    <2>6. QED
        BY <2>4, <2>5
<1>2. CASE StartFails
    BY <1>2 DEF StartFails, LifecycleTypes
<1>3. CASE Stop
    <2>1. CASE CloseAcceptor("idle", "stopping") /\ UNCHANGED stopped
        BY <2>1 DEF CloseAcceptor, LifecycleTypes, Due
    <2>2. CASE CloseConnections("stopping", "idle") /\ stopped' = TRUE
        BY <2>2 DEF CloseConnections, LifecycleTypes
    <2>3. QED
        BY <1>3, <2>1, <2>2 DEF Stop
<1>4. CASE Destroy
    BY <1>4 DEF Destroy
<1>5. CASE CloseGate
    BY <1>5 DEF CloseGate
<1>6. CASE StopAtLast
    <2>1. CASE CloseAcceptor("refusing", "closing") /\ UNCHANGED stopped
        BY <2>1 DEF CloseAcceptor, LifecycleTypes
    <2>2. CASE CloseConnections("closing", "destroyed") /\ UNCHANGED stopped
        BY <2>2 DEF CloseConnections, HasSocket, LifecycleTypes
    <2>3. QED
        BY <1>6, <2>1, <2>2 DEF StopAtLast
<1>7. ASSUME NEW c \in Conn, Network(c)
      PROVE Rest'
    BY <1>7 DEF Network, Connected, NotAccepted, Progress, Breaks, Complete, calls, LifecycleTypes, Due
<1>8. ASSUME NEW c \in Conn, TimeOut(c)
      PROVE Rest'
    BY <1>8 DEF TimeOut, calls, LifecycleTypes
<1>9. ASSUME NEW c \in Conn, EnterScope(c)
      PROVE Rest'
    BY <1>9 DEF EnterScope, calls, LifecycleTypes
<1>10. ASSUME NEW c \in Conn, TurnedAway(c)
       PROVE Rest'
    BY <1>10 DEF TurnedAway, HoldItself, Release, calls, LifecycleTypes
<1>11. ASSUME NEW c \in Conn, AcceptNext(c)
       PROVE Rest'
    BY <1>11 DEF AcceptNext, Accept, calls, LifecycleTypes, Due
<1>12. ASSUME NEW c \in Conn, Read(c) \/ Continue(c)
       PROVE Rest'
    BY <1>12 DEF Read, Continue, LeaveScope, calls, LifecycleTypes
<1>13. ASSUME NEW c \in Conn, Ends(c)
       PROVE Rest'
    BY <1>13 DEF Ends, Release, LeaveScope, calls, LifecycleTypes
<1>14. CASE UNCHANGED lifecycleVars
    BY <1>14 DEF lifecycleVars, calls
<1>15. QED
    BY <1>1, <1>2, <1>3, <1>4, <1>5, <1>6, <1>7, <1>8, <1>9, <1>10, <1>11, <1>12,
       <1>13, <1>14 DEF LifecycleNext, Owner, Handler

LEMMA Invariance == LifecycleSpec => []LifecycleInv
<1>1. LifecycleInv /\ [LifecycleNext]_lifecycleVars => LifecycleInv'
    BY InvStep
<1>2. QED
    BY <1>1, InitLifecycle, PTL DEF LifecycleSpec

-----------------------------------------------------------------------------

(***************************************************************************)
(* Whatever the handlers are doing when ~ServerBase() is called, when it   *)
(* is over none is in the server, and unless stop() was called before, no  *)
(* connection waits for a client.                                          *)
(***************************************************************************)
THEOREM DestructorClosesAll == LifecycleSpec => []DestructorCloses
<1>1. LifecycleInv => DestructorCloses
    BY DEF LifecycleInv, GateHolds, NobodyMissed, Established, Waits, DestructorCloses
<1>2. QED
    BY <1>1, Invariance, PTL

(***************************************************************************)
(* However often the server is stopped and started again, and whatever     *)
(* errors accepting ends with, a server that listens has an accept pending *)
(* or due.                                                                 *)
(***************************************************************************)
THEOREM AcceptsForEver == LifecycleSpec => []KeepsAccepting
<1>1. LifecycleInv => KeepsAccepting
    BY DEF LifecycleInv
<1>2. QED
    BY <1>1, Invariance, PTL
=============================================================================
