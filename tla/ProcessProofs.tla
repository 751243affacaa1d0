------------------------------ MODULE ProcessProofs ------------------------------
(***************************************************************************)
(* What holds of the process for any set of venues and of calls.  The      *)
(* Aggregator inside it behaves as its specification says, so that its     *)
(* invariants carry over; ShutdownInOrder is inductive by itself.          *)
(***************************************************************************)
EXTENDS Process, AggregatorProofs

(***************************************************************************)
(* Every step of the process is a step of the Aggregator, or none, by the  *)
(* way Process is written: this carries the theorems about Aggregator over.*)
(***************************************************************************)
LEMMA AggregatorInside == ProcessSpec => Spec
<1>1. ProcessInit => Init
  BY DEF ProcessInit
<1>2. [ProcessNext]_processVars => [Next]_vars
  <2> SUFFICES ASSUME [ProcessNext]_processVars PROVE [Next]_vars
    OBVIOUS
  <2>1. CASE UNCHANGED processVars
    BY <2>1 DEF processVars
  <2>2. ASSUME NEW c \in Connectors, GiveUp(c) PROVE [Next]_vars
    BY <2>2 DEF GiveUp
  <2>3. ASSUME NEW c \in Connectors, NEW msg \in FeedMessages[c], Receive(c, msg)
        PROVE  [Next]_vars
    BY <2>3 DEF Receive, Next
  <2>4. CASE RunTask
    BY <2>4 DEF RunTask, StrandStep, Next
  <2>5. CASE MainStep
    BY <2>5 DEF MainStep, RunReturns, Destruct, ShutdownReturns, JoinReturns
  <2>6. CASE GrpcStep
    BY <2>6 DEF GrpcStep, NoSocket, PortInUse, BuildAndStart, AssignServer, WaitReturns
  <2>7. ASSUME NEW s \in Subscribers, Accept(s) \/ RunCall(s) \/ Hangup(s)
        PROVE  [Next]_vars
    BY <2>7 DEF Accept, RunCall, Hangup, Next
  <2> QED
    BY <2>1, <2>2, <2>3, <2>4, <2>5, <2>6, <2>7 DEF ProcessNext
<1> QED
  BY <1>1, <1>2, PTL DEF ProcessSpec, Spec

-----------------------------------------------------------------------------

LifeTypeOK ==
    /\ up \subseteq Connectors
    /\ main \in {"run", "destructor", "shutdown", "join", "exited", "killed"}
    /\ grpc_server \in {"null", "started", "set", "shutdown"}
    /\ grpc_thread \in {"building", "waiting", "done"}

JoinedThread == main = "exited" => grpc_thread = "done"

LifeInv == LifeTypeOK /\ ShutdownInOrder /\ JoinedThread

\* No step of the Aggregator but an accepted call begins a call.
LEMMA IdleStays ==
  ASSUME Idle,
         \/ \E c \in Connectors : \E msg \in FeedMessages[c] : HandleMessage(c, msg)
         \/ StrandStep
         \/ \E s \in Subscribers : CallStep(s) \/ Cancel(s)
         \/ UNCHANGED vars
  PROVE  Idle'
<1>1. CASE \E c \in Connectors : \E msg \in FeedMessages[c] : HandleMessage(c, msg)
  BY <1>1 DEF Idle, HandleMessage, callVars
<1>2. CASE StrandStep
  BY <1>2 DEF Idle, StrandStep, UpdateConsolidatedBook, BuildBookUpdate, callVars
<1>3. ASSUME NEW s \in Subscribers, CallStep(s) \/ Cancel(s) PROVE FALSE
  BY <1>3 DEF Idle, CallStep, PostBuild, ReturnCancelled, WriteUpdate, WriteFails,
              SkipUpdate, Wake, Cancel
<1>4. CASE UNCHANGED vars
  BY <1>4 DEF Idle, vars
<1> QED
  BY <1>1, <1>2, <1>3, <1>4

LEMMA InitLife == ProcessInit => LifeInv
  BY DEF ProcessInit, Init, Idle, LifeInv, LifeTypeOK, ShutdownInOrder, JoinedThread

LEMMA NextLife == LifeInv /\ [ProcessNext]_processVars => LifeInv'
<1> SUFFICES ASSUME LifeInv, [ProcessNext]_processVars PROVE LifeInv'
  OBVIOUS
<1> USE DEF LifeInv, LifeTypeOK, ShutdownInOrder, JoinedThread
<1>1. ASSUME UNCHANGED lifeVars, Idle => Idle' PROVE LifeInv'
  BY <1>1 DEF lifeVars
<1>2. CASE UNCHANGED processVars
  BY <1>1, <1>2, IdleStays DEF processVars
<1>3. ASSUME NEW c \in Connectors, GiveUp(c) PROVE LifeInv'
  BY <1>3, IdleStays DEF GiveUp
<1>4. ASSUME NEW c \in Connectors, NEW msg \in FeedMessages[c], Receive(c, msg)
      PROVE  LifeInv'
  BY <1>1, <1>4, IdleStays DEF Receive
<1>5. CASE RunTask
  BY <1>1, <1>5, IdleStays DEF RunTask
<1>6. CASE MainStep
  <2>0. Idle => Idle'
    BY <1>6, IdleStays DEF MainStep, RunReturns, Destruct, ShutdownReturns, JoinReturns
  <2>1. CASE RunReturns
    BY <2>0, <2>1 DEF RunReturns
  <2>2. CASE Destruct
    BY <2>0, <2>2 DEF Destruct
  <2>3. CASE ShutdownReturns
    BY <2>0, <2>3 DEF ShutdownReturns
  <2>4. CASE JoinReturns
    BY <2>0, <2>4 DEF JoinReturns
  <2> QED
    BY <1>6, <2>1, <2>2, <2>3, <2>4 DEF MainStep
<1>7. CASE GrpcStep
  <2>0. Idle => Idle'
    BY <1>7, IdleStays DEF GrpcStep, NoSocket, PortInUse, BuildAndStart,
                           AssignServer, WaitReturns
  <2>1. CASE NoSocket
    BY <2>0, <2>1 DEF NoSocket
  <2>2. CASE PortInUse
    BY <2>0, <2>2 DEF PortInUse
  <2>3. CASE BuildAndStart
    BY <2>0, <2>3 DEF BuildAndStart
  <2>4. CASE AssignServer
    BY <2>0, <2>4 DEF AssignServer
  <2>5. CASE WaitReturns
    BY <2>0, <2>5 DEF WaitReturns
  <2> QED
    BY <1>7, <2>1, <2>2, <2>3, <2>4, <2>5 DEF GrpcStep
<1>8. ASSUME NEW s \in Subscribers, Accept(s) PROVE LifeInv'
  BY <1>8 DEF Accept, Alive, lifeVars
<1>9. ASSUME NEW s \in Subscribers, RunCall(s) \/ Hangup(s) PROVE LifeInv'
  BY <1>1, <1>9, IdleStays DEF RunCall, Hangup
<1> QED
  BY <1>2, <1>3, <1>4, <1>5, <1>6, <1>7, <1>8, <1>9 DEF ProcessNext

\* The order of start and shutdown holds in every reachable state.
THEOREM SpecLife == ProcessSpec => []LifeInv
  BY InitLife, NextLife, PTL DEF ProcessSpec

(***************************************************************************)
(* The invariant of the run: the types, those of the Aggregator included,  *)
(* and the order of the shutdown.                                          *)
(***************************************************************************)
THEOREM ProcessInvariant == ProcessSpec => []ProcessInv
<1>1. TypeOK /\ LifeInv => ProcessInv
  BY DEF LifeInv, LifeTypeOK, ProcessInv, ProcessTypeOK
<1> QED
  BY <1>1, AggregatorInside, TypeCorrect, SpecLife, PTL

(***************************************************************************)
(* ~Aggregator() is not over before the last call and the thread of the    *)
(* server are, so that neither uses a destroyed member.                    *)
(***************************************************************************)
THEOREM DestroyedWhenUnused == ProcessSpec => []DestroyedUnused
<1>1. LifeInv => DestroyedUnused
  BY DEF LifeInv, LifeTypeOK, ShutdownInOrder, JoinedThread, DestroyedUnused
<1> QED
  BY <1>1, SpecLife, PTL

(***************************************************************************)
(* What a subscriber is promised holds of the process as well: threads     *)
(* that start and end lose no update, mix no versions and leave no promise *)
(* without its task (main.cpp, Aggregator.cpp:77-204).                     *)
(***************************************************************************)
THEOREM SafeInProcess ==
    ProcessSpec => [](/\ ConsolidatedIsFresh /\ QuantityConserved
                      /\ ViewMatchesVersion /\ PromiseAlive /\ ViewShowsBestLevels)
  BY AggregatorInside, NoUpdateLost, NothingLostInSum, VersionedViews,
     PromisesOutliveTasks, BestLevelsSent, PTL

\* The whole process is an implementation of the abstract feed.
THEOREM FeedInProcess == ProcessSpec => FeedSpec
  BY AggregatorInside, ImplementsFeed

=============================================================================
