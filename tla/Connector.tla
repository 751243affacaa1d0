-------------------------------- MODULE Connector --------------------------------
(***************************************************************************)
(* One market_connector: the chain of asynchronous operations that opens a *)
(* TLS WebSocket to a venue and reads from it, the three timers around it, *)
(* and the reconnection after a failure.                                   *)
(*                                                                         *)
(* All handlers run on the one thread in ioc.run().  An operation that was *)
(* issued is outstanding until the network, or the closing of its socket,  *)
(* completes it; its handler then waits in the queue of the io_context, so *)
(* that other handlers run between the completion and the handler.         *)
(* Nothing but the handlers' own checks tells an operation of an earlier   *)
(* connection attempt from one of the current attempt.                     *)
(***************************************************************************)
EXTENDS Integers, Sequences, FiniteSets, SequencesExt

CONSTANTS
    MaxRetry,           \* MAX_RETRY of fail() (10 in the code)
    HasSubscription,    \* subscription_message() is not empty (all but Binance)
    MaxQueue            \* bound: handlers queued before the network adds one

ASSUME ConnectorAssumption ==
    /\ MaxRetry \in Nat
    /\ HasSubscription \in BOOLEAN
    /\ MaxQueue \in Nat \ {0}

VARIABLES
    stopped,        \* stopped_
    retry_count,    \* retry_count_
    armed,          \* the waits outstanding on the steady_timers
    outstanding,    \* operations issued and not yet completed
    ready,          \* completed ones, their handlers queued in the io_context
    attempt         \* history: how many times start() has run

vars == <<stopped, retry_count, armed, outstanding, ready, attempt>>

\* The operations that carry a connection attempt forward: while it lives, one
\* of them is on its way.
ChainOps == {"resolve", "connect", "ssl_handshake", "ws_handshake", "write", "read"}
Ops      == ChainOps \cup {"ping_write"}
Timers   == {"handshake", "ping", "reconnect"}

\* How an operation can end: "retry" stands for the errors of the list in
\* fail(), "fatal" for every other one.  Resolver errors are not in the list.
\* "aborted" is operation_aborted, which only a closed socket or a cancelled
\* timer gives, and which is in the list.
Errors == {"retry", "fatal", "aborted"}
Outcomes(op) == IF op = "resolve" THEN {"ok", "fatal"} ELSE {"ok", "retry", "fatal"}

Operations == [op : Ops, attempt : Nat]
Waits      == [op : Timers, attempt : Nat]
Handlers   == [op : Ops \cup Timers, attempt : Nat, ec : {"ok"} \cup Errors]

Handler(o, ec) == [op |-> o.op, attempt |-> o.attempt, ec |-> ec]

Without(waits, timers) == {w \in waits : w.op \notin timers}

\* cancel() or expires_after() on a timer queues the handler of the wait it
\* ends.  Those of the handshake and reconnect timers then do nothing and are
\* left out.
Cancelled(waits) ==
    IF \E w \in waits : w.op = "ping"
    THEN <<Handler(CHOOSE w \in waits : w.op = "ping", "aborted")>>
    ELSE << >>

\* Aggregator::start has just called start(): the name is being resolved.
Init ==
    /\ stopped = FALSE
    /\ retry_count = 0
    /\ armed = {}
    /\ outstanding = {[op |-> "resolve", attempt |-> 1]}
    /\ ready = << >>
    /\ attempt = 1

-----------------------------------------------------------------------------
(* The network and the clock *)

Complete(o, ec) ==
    /\ Len(ready) < MaxQueue
    /\ outstanding' = outstanding \ {o}
    /\ ready' = Append(ready, Handler(o, ec))
    /\ UNCHANGED <<stopped, retry_count, armed, attempt>>

Expire(w) ==
    /\ Len(ready) < MaxQueue
    /\ armed' = armed \ {w}
    /\ ready' = Append(ready, Handler(w, "ok"))
    /\ UNCHANGED <<stopped, retry_count, outstanding, attempt>>

-----------------------------------------------------------------------------
(* What the handlers share *)

\* The handler of op is at the front of the queue and runs.
Runs(op) == ready # << >> /\ Head(ready).op = op
Event    == Head(ready)

Issue(op, a) == outstanding' = outstanding \cup {[op |-> op, attempt |-> a]}

ShouldReconnect(ec) == ec \in {"retry", "aborted"}

\* Mutant of MayRetry: one retry too many.
MayRetryOffByOne(ec) == ShouldReconnect(ec) /\ retry_count <= MaxRetry

\* retry_count_++, then give up if it exceeds MAX_RETRY.
MayRetry(ec) == ShouldReconnect(ec) /\ retry_count + 1 <= MaxRetry

\* The first error of an attempt: the connector stops, its handshake and ping
\* timers are cancelled and, unless the error is fatal or the budget is spent,
\* the reconnect timer is set.
FirstError(ec, waits) ==
    /\ stopped' = TRUE
    /\ retry_count' = IF ShouldReconnect(ec) THEN retry_count + 1 ELSE retry_count
    /\ armed' = Without(waits, {"handshake", "ping"}) \cup
           (IF MayRetry(ec) THEN {[op |-> "reconnect", attempt |-> attempt]} ELSE {})
    /\ ready' = Tail(ready) \o Cancelled(waits)

\* Mutant of FoundStopped: a connector found stopped cancels every timer.
FoundStoppedCancelling(waits) ==
    /\ armed' = {}
    /\ ready' = Tail(ready)
    /\ UNCHANGED <<stopped, retry_count>>

\* "Already stopped, no reconnect".
FoundStopped(waits) ==
    /\ armed' = waits
    /\ ready' = Tail(ready)
    /\ UNCHANGED <<stopped, retry_count>>

\* Mutant of Fail: stopped_ is not tested.
FailUntested(ec, waits) ==
    /\ FirstError(ec, waits)
    /\ UNCHANGED attempt

\* fail(ec), called when waits are outstanding.
Fail(ec, waits) ==
    /\ IF stopped THEN FoundStopped(waits) ELSE FirstError(ec, waits)
    /\ UNCHANGED attempt

\* start(): the flag and the timers are reset, a new resolve is issued.  The
\* socket is not closed and what is outstanding on it stays so.
Start ==
    /\ stopped' = FALSE
    /\ armed' = {}
    /\ attempt' = attempt + 1
    /\ Issue("resolve", attempt + 1)
    /\ ready' = Tail(ready) \o Cancelled(armed)
    /\ UNCHANGED retry_count

\* do_ping() of attempt a, called when waits are outstanding: nothing when
\* stopped, else the one ping timer is set anew.
DoPing(a, waits) ==
    IF stopped
    THEN /\ armed' = waits
         /\ ready' = Tail(ready)
    ELSE /\ armed' = Without(waits, {"ping"}) \cup {[op |-> "ping", attempt |-> a]}
         /\ ready' = Tail(ready) \o Cancelled(waits)

-----------------------------------------------------------------------------
(* Handlers, in the order of an attempt *)

FailsIn(op) ==
    /\ Runs(op)
    /\ Event.ec # "ok"
    /\ Fail(Event.ec, armed)
    /\ UNCHANGED outstanding

\* async_connect first closes the socket of ws_ and opens it again, whoever
\* uses it: operations outstanding on it are aborted, in any order.
OnResolve ==
    \/ FailsIn("resolve")
    \/ /\ Runs("resolve")
       /\ Event.ec = "ok"
       /\ LET resolving == {o \in outstanding : o.op = "resolve"}
              onSocket  == outstanding \ resolving
          IN  /\ outstanding' = resolving \cup
                                   {[op |-> "connect", attempt |-> Event.attempt]}
              /\ \E aborted \in SetToSeqs(onSocket) :
                    ready' = Tail(ready) \o
                             [i \in DOMAIN aborted |-> Handler(aborted[i], "aborted")]
       /\ UNCHANGED <<stopped, retry_count, armed, attempt>>

\* Continue an attempt with its next operation, no timer touched.
Continue(op) ==
    /\ Event.ec = "ok"
    /\ Issue(op, Event.attempt)
    /\ ready' = Tail(ready)
    /\ UNCHANGED <<stopped, retry_count, armed, attempt>>

\* A host name that SSL_set_tlsext_host_name refuses is a fatal error of this
\* step, as is a refused connection.
OnConnect ==
    \/ FailsIn("connect")
    \/ Runs("connect") /\ Continue("ssl_handshake")

\* Mutant of OnSslHandshake: the handshake timer is not set.
OnSslHandshakeUnwatched ==
    \/ FailsIn("ssl_handshake")
    \/ Runs("ssl_handshake") /\ Continue("ws_handshake")

\* The handshake timer covers the WebSocket handshake only.
OnSslHandshake ==
    \/ FailsIn("ssl_handshake")
    \/ /\ Runs("ssl_handshake")
       /\ Event.ec = "ok"
       /\ Issue("ws_handshake", Event.attempt)
       /\ armed' = Without(armed, {"handshake"}) \cup
                      {[op |-> "handshake", attempt |-> Event.attempt]}
       /\ ready' = Tail(ready)
       /\ UNCHANGED <<stopped, retry_count, attempt>>

\* Mutant of OnWsHandshake: the first read does not wait for on_write.
OnWsHandshakeReading ==
    /\ Runs("ws_handshake")
    /\ LET waits == Without(armed, {"handshake"}) IN
       \/ /\ Event.ec # "ok"
          /\ Fail(Event.ec, waits)
          /\ UNCHANGED outstanding
       \/ /\ Event.ec = "ok"
          /\ outstanding' = outstanding \cup
                 [op : {"write", "read"}, attempt : {Event.attempt}]
          /\ DoPing(Event.attempt, waits)
          /\ UNCHANGED <<stopped, retry_count, attempt>>

\* The handshake timer is cancelled whatever the result is.  Then subscribe,
\* or read at once, and start the heartbeat; stopped_ is not looked at.
OnWsHandshake ==
    /\ Runs("ws_handshake")
    /\ LET waits == Without(armed, {"handshake"}) IN
       \/ /\ Event.ec # "ok"
          /\ Fail(Event.ec, waits)
          /\ UNCHANGED outstanding
       \/ /\ Event.ec = "ok"
          /\ Issue(IF HasSubscription THEN "write" ELSE "read", Event.attempt)
          /\ DoPing(Event.attempt, waits)
          /\ UNCHANGED <<stopped, retry_count, attempt>>

OnWrite ==
    \/ FailsIn("write")
    \/ Runs("write") /\ Continue("read")

\* Mutant of OnRead: a pong returns without the next read.
OnReadStopping ==
    \/ FailsIn("read")
    \/ Runs("read") /\ Continue("read")
    \/ /\ Runs("read")
       /\ Event.ec = "ok"
       /\ ready' = Tail(ready)
       /\ UNCHANGED <<stopped, retry_count, armed, outstanding, attempt>>

\* A pong is dropped, any other frame goes to handle_message (see Aggregator);
\* either way the next read is issued.
OnRead ==
    \/ FailsIn("read")
    \/ Runs("read") /\ Continue("read")

-----------------------------------------------------------------------------
(* Handlers of the timers and of the heartbeat *)

\* Mutant of OnHandshakeTimer: the timeout is only logged.
OnHandshakeTimerLogging ==
    /\ Runs("handshake")
    /\ ready' = Tail(ready)
    /\ UNCHANGED <<stopped, retry_count, armed, outstanding, attempt>>

\* Not operation_aborted: fail(timed_out), whether or not the handshake ended
\* while this handler was queued.
OnHandshakeTimer ==
    /\ Runs("handshake")
    /\ Fail("retry", armed)
    /\ UNCHANGED outstanding

OnReconnectTimer ==
    /\ Runs("reconnect")
    /\ Event.ec = "ok"
    /\ Start

\* Stopped or cancelled: ws_.async_close, whose handler is empty and which can
\* only make the venue end the connection.  Else a ping is written.
OnPingTimer ==
    /\ Runs("ping")
    /\ ready' = Tail(ready)
    /\ IF stopped \/ Event.ec # "ok"
       THEN UNCHANGED outstanding
       ELSE Issue("ping_write", Event.attempt)
    /\ UNCHANGED <<stopped, retry_count, armed, attempt>>

\* Mutant of OnPingWrite: do_ping is not called again.
OnPingWriteOnce ==
    \/ FailsIn("ping_write")
    \/ /\ Runs("ping_write")
       /\ Event.ec = "ok"
       /\ ready' = Tail(ready)
       /\ UNCHANGED <<stopped, retry_count, armed, outstanding, attempt>>

\* A ping that was written sets the timer for the next one.
OnPingWrite ==
    \/ FailsIn("ping_write")
    \/ /\ Runs("ping_write")
       /\ Event.ec = "ok"
       /\ DoPing(Event.attempt, armed)
       /\ UNCHANGED <<stopped, retry_count, outstanding, attempt>>

-----------------------------------------------------------------------------

RunHandler ==
    \/ OnResolve
    \/ OnConnect
    \/ OnSslHandshake
    \/ OnWsHandshake
    \/ OnWrite
    \/ OnRead
    \/ OnHandshakeTimer
    \/ OnReconnectTimer
    \/ OnPingTimer
    \/ OnPingWrite

Next ==
    \/ RunHandler
    \/ \E o \in outstanding : \E ec \in Outcomes(o.op) : Complete(o, ec)
    \/ \E w \in armed : Expire(w)

Spec == Init /\ [][Next]_vars

\* ioc.run() runs the queued handlers and the timers expire.  The venue and
\* the network may keep any operation outstanding for ever.
Fairness ==
    /\ WF_vars(RunHandler)
    /\ \A t \in Timers : WF_vars(\E w \in armed : w.op = t /\ Expire(w))

FairSpec == Spec /\ Fairness

-----------------------------------------------------------------------------
(* Properties *)

TypeOK ==
    /\ stopped \in BOOLEAN
    /\ retry_count \in 0 .. MaxRetry + 1
    /\ armed \subseteq Waits
    /\ outstanding \subseteq Operations
    /\ ready \in Seq(Handlers)
    /\ attempt \in Nat

Armed(t)       == \E w \in armed : w.op = t
Queued(op, ec) == {i \in DOMAIN ready : ready[i].op = op /\ ready[i].ec = ec}
Reconnecting   == Armed("reconnect") \/ Queued("reconnect", "ok") # {}

\* Every attempt after the first is paid for by one counted retry, and the
\* budget is never exceeded, though handlers of several attempts may fail in
\* the meantime (market_connector.cpp:107-111).
RetryBudget ==
    /\ attempt <= retry_count + 1
    /\ attempt <= MaxRetry + 1

\* At most one reconnection is under way, and only while the connector is
\* stopped: two failures never start two attempts (market_connector.cpp:72-77,
\* 126-131).
ReconnectExclusive ==
    /\ Reconnecting => stopped
    /\ \A i, j \in Queued("reconnect", "ok") : i = j
    /\ Armed("reconnect") => Queued("reconnect", "ok") = {}

\* The chain of attempt a: what of it is outstanding, what is queued.
ChainOutstanding(a) == {o \in outstanding : o.op \in ChainOps /\ o.attempt = a}
ChainQueued(a) ==
    {i \in DOMAIN ready : ready[i].op \in ChainOps /\ ready[i].attempt = a}

\* A connector that is not stopped has its current attempt on the way: no path
\* through the handlers forgets to issue the next operation, and no late
\* handler of an earlier attempt leaves it waiting for nothing
\* (market_connector.cpp:135-254).
ChainAlive ==
    stopped \/ ChainOutstanding(attempt) # {} \/ ChainQueued(attempt) # {}

\* No attempt forks: however completions are ordered, each has at most one
\* operation on its way, so that one connection is never read twice at a time
\* by its own attempt (market_connector.cpp:184-254).
ChainExclusive ==
    \A a \in 1 .. attempt :
        /\ \A o, p \in ChainOutstanding(a) : o = p
        /\ \A i, j \in ChainQueued(a) : i = j
        /\ ChainOutstanding(a) = {} \/ ChainQueued(a) = {}

\* While the current attempt is streaming and not stopped, a heartbeat is on
\* its way too, however the ping chains of several attempts cancel each other
\* (market_connector.cpp:205, 256-291).
Streaming ==
    /\ ~ stopped
    /\ \/ \E o \in ChainOutstanding(attempt) : o.op \in {"write", "read"}
       \/ \E i \in ChainQueued(attempt) : ready[i].op \in {"write", "read"}

HeartbeatCovers ==
    Streaming =>
        \/ Armed("ping")
        \/ Queued("ping", "ok") # {}
        \/ \E o \in outstanding : o.op = "ping_write"
        \/ \E i \in DOMAIN ready : ready[i].op = "ping_write"

\* A WebSocket handshake of the current attempt is watched by the handshake
\* timer, unless an earlier attempt got through its own in the meantime: its
\* handler has cancelled the timer that all attempts share, and it streams beside
\* the handshake (market_connector.cpp:171-186).
EarlierStreaming ==
    \E a \in 1 .. attempt - 1 :
        \/ \E o \in ChainOutstanding(a) : o.op \in {"write", "read"}
        \/ \E i \in ChainQueued(a) : ready[i].op \in {"write", "read"}

Handshaking ==
    /\ ~ stopped
    /\ \E o \in ChainOutstanding(attempt) : o.op = "ws_handshake"

HandshakeGuarded ==
    Handshaking =>
        Armed("handshake") \/ Queued("handshake", "ok") # {} \/ EarlierStreaming

\* start() "resets all state": nothing of an earlier attempt is left to
\* complete on the new one (market_connector.cpp:45, 53).
StartResetsState ==
    [][attempt' > attempt => outstanding = {}]_vars

\* A reconnection that was scheduled takes place.
ReconnectHappens == Reconnecting ~> ~ stopped

\* A venue that never answers the WebSocket handshake does not hold the
\* connector for ever, unless an earlier attempt streams beside it
\* (market_connector.cpp:171-177).
HandshakeEnds == Handshaking ~> ~ Handshaking \/ EarlierStreaming

=============================================================================
