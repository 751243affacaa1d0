--------------------------------- MODULE Process ---------------------------------
(***************************************************************************)
(* The life of the aggregator process around the Aggregator: main() calls  *)
(* ioc.run(), which returns once nothing is left to run, and then destroys *)
(* the Aggregator; a thread of its own builds the gRPC server and waits in *)
(* it; the calls it serves post to the strand of an io_context that may no *)
(* longer run.                                                             *)
(*                                                                         *)
(* A connector is up as long as it has an operation, a timer or a handler  *)
(* left (Connector: outstanding, armed and ready are not all empty).       *)
(***************************************************************************)
EXTENDS Aggregator

VARIABLES
    up,             \* connectors that keep ioc.run() busy
    main,           \* where the main thread is
    grpc_server,    \* the server: "null", "started" but not yet assigned to
                    \* grpc_server_, "set", or "shutdown"
    grpc_thread     \* where grpc_thread_ is

lifeVars == <<up, main, grpc_server, grpc_thread>>
processVars == <<vars, lifeVars>>

\* The process has not ended: ~Aggregator() is not over and nobody called exit.
Alive == main \notin {"exited", "killed"}

Idle == \A s \in Subscribers : pc[s] = "idle"

\* Aggregator::start has returned: the connectors have started and so has the
\* thread.
ProcessInit ==
    /\ Init
    /\ up = Connectors
    /\ main = "run"
    /\ grpc_server = "null"
    /\ grpc_thread = "building"

-----------------------------------------------------------------------------
(* ioc.run(), on the main thread *)

Receive(c, msg) ==
    /\ main = "run"
    /\ c \in up
    /\ HandleMessage(c, msg)
    /\ UNCHANGED lifeVars

RunTask ==
    /\ main = "run"
    /\ StrandStep
    /\ UNCHANGED lifeVars

\* The last handler of c returns: a fatal error, or no retry left.
GiveUp(c) ==
    /\ main = "run"
    /\ c \in up
    /\ up' = up \ {c}
    /\ UNCHANGED <<main, grpc_server, grpc_thread>>
    /\ UNCHANGED vars

\* Mutant of RunReturns: ioc.run() leaves posted tasks behind.
RunReturnsEarly ==
    /\ main = "run"
    /\ up = {}
    /\ main' = "destructor"
    /\ UNCHANGED <<up, grpc_server, grpc_thread>>
    /\ UNCHANGED vars

\* No work is left, posted tasks included; main() returns.
RunReturns ==
    /\ main = "run"
    /\ up = {}
    /\ strand_queue = << >>
    /\ main' = "destructor"
    /\ UNCHANGED <<up, grpc_server, grpc_thread>>
    /\ UNCHANGED vars

-----------------------------------------------------------------------------
(* ~Aggregator(), on the main thread *)

\* Mutant of Destruct: join() comes before Shutdown().
DestructJoining ==
    /\ main = "destructor"
    /\ main' = "join"
    /\ UNCHANGED <<up, grpc_server, grpc_thread>>
    /\ UNCHANGED vars

\* if (grpc_server_) Shutdown(): no call is accepted any more.  The pointer is
\* read with no regard to the thread that assigns it.
Destruct ==
    /\ main = "destructor"
    /\ IF grpc_server = "set"
       THEN main' = "shutdown" /\ grpc_server' = "shutdown"
       ELSE main' = "join" /\ UNCHANGED grpc_server
    /\ UNCHANGED <<up, grpc_thread>>
    /\ UNCHANGED vars

\* Mutant of ShutdownReturns: calls in progress are not waited for.
ShutdownReturnsAtOnce ==
    /\ main = "shutdown"
    /\ main' = "join"
    /\ UNCHANGED <<up, grpc_server, grpc_thread>>
    /\ UNCHANGED vars

\* Without a deadline Shutdown() waits for the calls and cancels none.
ShutdownReturns ==
    /\ main = "shutdown"
    /\ Idle
    /\ main' = "join"
    /\ UNCHANGED <<up, grpc_server, grpc_thread>>
    /\ UNCHANGED vars

\* join() returns: the members are destroyed, the process ends.
JoinReturns ==
    /\ main = "join"
    /\ grpc_thread = "done"
    /\ main' = "exited"
    /\ UNCHANGED <<up, grpc_server, grpc_thread>>
    /\ UNCHANGED vars

-----------------------------------------------------------------------------
(* start_grpc_server(), on grpc_thread_ *)

\* socket() fails: the thread returns, there is no server.
NoSocket ==
    /\ Alive
    /\ grpc_thread = "building"
    /\ grpc_server = "null"
    /\ grpc_thread' = "done"
    /\ UNCHANGED <<up, main, grpc_server>>
    /\ UNCHANGED vars

\* The port is in use: exit(1).  If it is taken only after the test, there is
\* no server and Wait() on the null pointer ends the process as well.
PortInUse ==
    /\ Alive
    /\ grpc_thread = "building"
    /\ grpc_server = "null"
    /\ main' = "killed"
    /\ grpc_thread' = "done"
    /\ UNCHANGED <<up, grpc_server>>
    /\ UNCHANGED vars

\* The server accepts calls before BuildAndStart() returns it.
BuildAndStart ==
    /\ Alive
    /\ grpc_thread = "building"
    /\ grpc_server = "null"
    /\ grpc_server' = "started"
    /\ UNCHANGED <<up, main, grpc_thread>>
    /\ UNCHANGED vars

\* grpc_server_ = ..., then Wait().
AssignServer ==
    /\ Alive
    /\ grpc_server = "started"
    /\ grpc_server' = "set"
    /\ grpc_thread' = "waiting"
    /\ UNCHANGED <<up, main>>
    /\ UNCHANGED vars

\* Mutant of WaitReturns: Wait() does not wait for the calls in progress.
WaitReturnsAtOnce ==
    /\ grpc_thread = "waiting"
    /\ grpc_server = "shutdown"
    /\ grpc_thread' = "done"
    /\ UNCHANGED <<up, main, grpc_server>>
    /\ UNCHANGED vars

\* Wait() returns once Shutdown() is complete.
WaitReturns ==
    /\ grpc_thread = "waiting"
    /\ grpc_server = "shutdown"
    /\ main = "join"
    /\ grpc_thread' = "done"
    /\ UNCHANGED <<up, main, grpc_server>>
    /\ UNCHANGED vars

-----------------------------------------------------------------------------
(* The calls, on threads of the gRPC server *)

Accept(s) ==
    /\ Alive
    /\ grpc_server \in {"started", "set"}
    /\ SubscribeBook(s)
    /\ UNCHANGED lifeVars

RunCall(s) ==
    /\ Alive
    /\ CallStep(s)
    /\ UNCHANGED lifeVars

Hangup(s) ==
    /\ Alive
    /\ Cancel(s)
    /\ UNCHANGED lifeVars

-----------------------------------------------------------------------------

MainStep == RunReturns \/ Destruct \/ ShutdownReturns \/ JoinReturns
GrpcStep == NoSocket \/ PortInUse \/ BuildAndStart \/ AssignServer \/ WaitReturns

ProcessNext ==
    \/ \E c \in Connectors : GiveUp(c) \/ \E msg \in FeedMessages[c] : Receive(c, msg)
    \/ RunTask
    \/ MainStep
    \/ GrpcStep
    \/ \E s \in Subscribers : Accept(s) \/ RunCall(s) \/ Hangup(s)

ProcessSpec == ProcessInit /\ [][ProcessNext]_processVars

\* Every thread that can go on does.  Venues and clients owe nothing: a call in a
\* Write that its client does not read may stay there for ever.
ProcessFairness ==
    /\ WF_processVars(RunTask)
    /\ WF_processVars(MainStep)
    /\ WF_processVars(GrpcStep)
    /\ \A s \in Subscribers : WF_processVars(~ Unread(s) /\ RunCall(s))

FairProcess == ProcessSpec /\ ProcessFairness

-----------------------------------------------------------------------------
(* Properties *)

ProcessTypeOK ==
    /\ TypeOK
    /\ up \subseteq Connectors
    /\ main \in {"run", "destructor", "shutdown", "join", "exited", "killed"}
    /\ grpc_server \in {"null", "started", "set", "shutdown"}
    /\ grpc_thread \in {"building", "waiting", "done"}

\* How far the three threads can be apart: calls exist only between the start of
\* the server and the end of Shutdown(), the server is shut down by the
\* destructor alone, and its thread ends after it or without it
\* (Aggregator.cpp:19-26, 134-167).
ShutdownInOrder ==
    /\ grpc_server = "null" => Idle
    /\ grpc_thread = "building" => grpc_server \in {"null", "started"}
    /\ grpc_thread = "waiting" => grpc_server \in {"set", "shutdown"}
    /\ grpc_thread = "done" => grpc_server \in {"null", "shutdown"}
    /\ main = "shutdown" => grpc_server = "shutdown"
    /\ grpc_server = "shutdown" =>
          /\ main \in {"shutdown", "join", "exited"}
          /\ main # "shutdown" => Idle
          /\ grpc_thread = "done" => main # "shutdown"

ProcessInv == ProcessTypeOK /\ ShutdownInOrder

\* The Aggregator is destroyed when no thread uses it any more: neither a call
\* nor the thread of the server, whatever the order in which ioc.run() ends,
\* the server starts and calls come and go (Aggregator.cpp:19-26, 169-204).
DestroyedUnused == main = "exited" => Idle /\ grpc_thread = "done"

\* The call of s is in fut.get(), its promise not set.
Blocked(s) == pc[s] = "wait" /\ fut[s] = {}

\* A call that waits while ioc.run() runs is answered, though every venue be
\* given up in the meantime: the task it posted keeps ioc.run() from returning
\* (Aggregator.cpp:180-186, main.cpp:13).
AnsweredWhileRunning ==
    \A s \in Subscribers : main = "run" /\ Blocked(s) ~> ~ Blocked(s)

\* The destructor ends, unless one call never does, in fut.get() with nobody to
\* run its task or in a Write that its client does not read, or the destructor
\* came before the thread had assigned grpc_server_ and so joins a thread that
\* nobody tells to end (Aggregator.cpp:19-26, 163-166, 186, 195).
CallForEver == \E s \in Subscribers : [] (Blocked(s) \/ Unread(s))
ServerMissed == main = "join" /\ grpc_server \in {"started", "set"}

DestructorEnds ==
    /\ main = "destructor" /\ grpc_server = "set" ~> ~ Alive \/ CallForEver
    /\ main = "destructor" ~> ~ Alive \/ CallForEver \/ [] ServerMissed

\* fut.get() "blocks and waits for completion" (comment in Chinese): it returns
\* (Aggregator.cpp:176, 186).
GetReturns == \A s \in Subscribers : Blocked(s) ~> ~ Blocked(s)

=============================================================================
