---------------------------- MODULE HeartbeatProofs ----------------------------
(***************************************************************************)
(* Proofs that the timers of a connector do their work, for every retry    *)
(* budget and whatever the network does: a streaming attempt has a         *)
(* heartbeat, and a WebSocket handshake is watched.                        *)
(*                                                                         *)
(* The order of the queue does not matter here, so the argument is about   *)
(* the set of what is pending: QueueRange and QuietRange say how a handler *)
(* changes it, and each handler then has one lemma.                        *)
(***************************************************************************)
EXTENDS ConnectorProofs

-----------------------------------------------------------------------------
(* The inductive invariant *)

\* Outstanding, or completed with its handler queued.
Pending == outstanding \cup Range(ready)

\* Chains belong to attempts that have started.
Started ==
    /\ attempt >= 1
    /\ \A x \in Pending : x.op \in ChainOps => x.attempt \in 1 .. attempt

\* Something will call do_ping() again or fail.
PingAlive ==
    \/ Armed("ping")
    \/ \E h \in Range(ready) : h.op = "ping" /\ h.ec = "ok"
    \/ \E x \in Pending : x.op = "ping_write"

Beats ==
    ~ stopped =>
        \/ PingAlive
        \/ \A x \in Pending : x.attempt = attempt => x.op \notin {"write", "read"}

\* The handshake timer is set, or on_handshake_timer is about to run.
Watched ==
    \/ Armed("handshake")
    \/ \E h \in Range(ready) : h.op = "handshake" /\ h.ec = "ok"

\* An earlier attempt that streams does so until the connector stops, for it ends
\* by fail(): this is why the exception of HandshakeGuarded is inductive.
Guards ==
    ~ stopped =>
        \/ Watched
        \/ \E x \in Pending : x.op \in {"write", "read"} /\ x.attempt # attempt
        \/ \A o \in outstanding : o.attempt = attempt => o.op # "ws_handshake"

TInv == Started /\ Beats /\ Guards

\* No timer is armed before there is a connection.
THEOREM InitTInv == Init => TInv
<1> SUFFICES ASSUME Init PROVE TInv
  OBVIOUS
<1>1. Pending = {[op |-> "resolve", attempt |-> 1]} /\ attempt = 1
  BY DEF Init, Pending, Range
<1>2. outstanding \subseteq Pending
  BY DEF Pending
<1> QED
  BY <1>1, <1>2 DEF TInv, Started, Beats, Guards

-----------------------------------------------------------------------------
(* What a handler does to the set of pending operations *)

LEMMA QueueRange ==
    ASSUME NEW queue \in Seq(Handlers), queue # << >>, NEW extra \in Seq(Handlers)
    PROVE  LET new == Tail(queue) \o extra IN
           /\ Range(new) \subseteq Range(queue) \cup Range(extra)
           /\ Range(queue) \subseteq Range(new) \cup {Head(queue)}
           /\ Range(extra) \subseteq Range(new)
           /\ Head(queue) \in Range(queue)
<1> DEFINE new == Tail(queue) \o extra
           n   == Len(queue) - 1
<1>1. /\ 1 \in DOMAIN queue /\ queue[1] = Head(queue)
      /\ \A i \in DOMAIN new :
            \/ i + 1 \in DOMAIN queue /\ new[i] = queue[i + 1]
            \/ i - n \in DOMAIN extra /\ new[i] = extra[i - n]
      /\ \A j \in DOMAIN queue :
            j = 1 \/ (j - 1 \in DOMAIN new /\ new[j - 1] = queue[j])
      /\ \A k \in DOMAIN extra : k + n \in DOMAIN new /\ new[k + n] = extra[k]
  BY QueueShift
<1> HIDE DEF new, n
<1>2. Range(new) \subseteq Range(queue) \cup Range(extra)
  BY <1>1 DEF Range
<1>3. Range(queue) \subseteq Range(new) \cup {Head(queue)}
  BY <1>1 DEF Range
<1>4. Range(extra) \subseteq Range(new)
  BY <1>1 DEF Range
<1>5. Head(queue) \in Range(queue)
  BY <1>1 DEF Range
<1> QED
  BY <1>2, <1>3, <1>4, <1>5 DEF new

LEMMA QuietRange ==
    ASSUME TypeOK, QuietRun
    PROVE  /\ Range(ready)' \subseteq Range(ready) \cup QuietHandlers
           /\ Range(ready) \subseteq Range(ready)' \cup {Event}
           /\ Event \in Range(ready)
<1>1. PICK extra \in Seq(Handlers) : Quiet(extra) /\ ready' = Tail(ready) \o extra
  BY DEF QuietRun
<1>2. ready \in Seq(Handlers) /\ ready # << >>
  BY DEF TypeOK, QuietRun
<1>3. Range(extra) \subseteq QuietHandlers
  BY <1>1 DEF Quiet, Range
<1>4. Range(ready)' = Range(Tail(ready) \o extra)
  BY <1>1 DEF Range
<1> QED
  BY <1>2, <1>3, <1>4, QueueRange DEF Event

\* A quiet handler that issues operations for its own chain only.
LEMMA StartedKept ==
    ASSUME TypeOK, Started, QuietRun, UNCHANGED attempt,
           \A x \in outstanding' \ outstanding :
               x.op \in ChainOps => Event.op \in ChainOps /\ x.attempt = Event.attempt
    PROVE  Started'
<1>1. \A h \in QuietHandlers : h.op \notin ChainOps
  BY DEF QuietHandlers, ChainOps
<1>2. \A x \in Pending' : x.op \in ChainOps =>
         x \in Pending \/ (Event \in Pending /\ Event.op \in ChainOps
                             /\ x.attempt = Event.attempt)
  BY <1>1, QuietRange DEF Pending
<1> QED
  BY <1>2 DEF Started

\* An earlier attempt that is alive keeps its operation when another handler of
\* a running connector carries on.
LEMMA PendingKept ==
    ASSUME TypeOK, QuietRun, outstanding \subseteq outstanding'
    PROVE  \A x \in Pending : x \in Pending' \/ x = Event
BY QuietRange DEF Pending

-----------------------------------------------------------------------------
(* Each handler preserves the invariant *)

\* A failure leaves the connector stopped, whatever timers it cancels.
LEMMA FailTInv ==
    ASSUME IInv, TInv, FailRun
    PROVE  TInv'
<1>1. stopped' /\ QuietRun /\ UNCHANGED <<outstanding, attempt>>
  BY DEF FailRun
<1>2. Started'
  BY <1>1, StartedKept DEF IInv, TInv
<1> QED
  BY <1>1, <1>2 DEF TInv, Beats, Guards

\* on_connect, on_write and on_read carry their chain on: a read follows a
\* write or a read of the same attempt.
LEMMA ContinueTInv ==
    ASSUME IInv, TInv, NEW op \in {"connect", "write", "read"}, NEW next \in ChainOps,
           Runs(op), Continue(next), next # "ws_handshake",
           next \in {"write", "read"} <=> op \in {"write", "read"}
    PROVE  TInv'
<1> DEFINE o == [op |-> next, attempt |-> Event.attempt]
<1>1. /\ ready # << >> /\ Event.op = op /\ ready' = Tail(ready)
      /\ outstanding' = outstanding \cup {o}
      /\ UNCHANGED <<stopped, retry_count, armed, attempt>>
  BY DEF Runs, Event, Continue, Issue
<1>2. o.op = next /\ o.attempt = Event.attempt
  OBVIOUS
<1> HIDE DEF o
<1>3. TypeOK /\ QuietRun
  BY <1>1, PopQuiet DEF IInv
<1>4. Started'
  BY <1>1, <1>2, <1>3, StartedKept DEF TInv, ChainOps
<1>5. /\ Range(ready)' \subseteq Range(ready) \cup QuietHandlers
      /\ \A x \in Pending : x \in Pending' \/ x = Event
      /\ Event \in Pending
      /\ o \in Pending'
  BY <1>1, <1>3, QuietRange, PendingKept DEF Pending
<1>6. Range(ready) \subseteq Range(ready)' \cup {Event}
  BY <1>3, QuietRange
<1>7. PingAlive => PingAlive'
  BY <1>1, <1>5, <1>6 DEF PingAlive, Armed
<1>8. Watched => Watched'
  BY <1>1, <1>6 DEF Watched, Armed
<1>9. Beats'
  <2>1. ASSUME ~ stopped, \A x \in Pending : x.attempt = attempt => x.op \notin {"write", "read"}
        PROVE  \A x \in Pending' : x.attempt = attempt => x.op \notin {"write", "read"}
    <3>1. Event.attempt = attempt => next \notin {"write", "read"}
      BY <1>1, <1>5, <2>1
    <3>2. \A h \in QuietHandlers : h.op \notin {"write", "read"}
      BY DEF QuietHandlers
    <3>3. \A x \in Pending' : x \in Pending \/ x \in QuietHandlers \/ x = o
      BY <1>1, <1>5 DEF Pending
    <3> QED
      BY <1>2, <2>1, <3>1, <3>2, <3>3
  <2> QED
    BY <1>1, <1>7, <2>1 DEF TInv, Beats
<1>10. Guards'
  <2>1. ASSUME NEW x \in Pending, x.op \in {"write", "read"}, x.attempt # attempt
        PROVE  \E y \in Pending' : y.op \in {"write", "read"} /\ y.attempt # attempt
    BY <1>1, <1>2, <1>5, <2>1
  <2>2. ASSUME \A x \in outstanding : x.attempt = attempt => x.op # "ws_handshake"
        PROVE  \A x \in outstanding' : x.attempt = attempt => x.op # "ws_handshake"
    BY <1>1, <1>2, <2>2
  <2> QED
    BY <1>1, <1>8, <2>1, <2>2 DEF TInv, Guards
<1> QED
  BY <1>4, <1>9, <1>10 DEF TInv

\* The handshake that is now outstanding is watched.
LEMMA SslHandshakeTInv ==
    ASSUME IInv, TInv, OnSslHandshake, ~ FailsIn("ssl_handshake")
    PROVE  TInv'
<1> DEFINE o == [op |-> "ws_handshake", attempt |-> Event.attempt]
           w == [op |-> "handshake", attempt |-> Event.attempt]
<1>1. /\ ready # << >> /\ Event.op = "ssl_handshake" /\ ready' = Tail(ready)
      /\ outstanding' = outstanding \cup {o}
      /\ armed' = Without(armed, {"handshake"}) \cup {w}
      /\ UNCHANGED <<stopped, retry_count, attempt>>
  BY DEF OnSslHandshake, Runs, Event, Issue
<1>2. o.op = "ws_handshake" /\ o.attempt = Event.attempt /\ w.op = "handshake"
  OBVIOUS
<1> HIDE DEF o, w
<1>3. TypeOK /\ QuietRun
  BY <1>1, PopQuiet DEF IInv
<1>4. Started'
  BY <1>1, <1>2, <1>3, StartedKept DEF TInv, ChainOps
<1>5. Guards'
  BY <1>1, <1>2 DEF Guards, Watched, Armed
<1>6. /\ Range(ready)' \subseteq Range(ready) \cup QuietHandlers
      /\ Range(ready) \subseteq Range(ready)' \cup {Event}
      /\ outstanding \subseteq outstanding'
  BY <1>1, <1>3, QuietRange
<1>7. Armed("ping") => Armed("ping")'
  BY <1>1 DEF Armed, Without
<1>8. PingAlive => PingAlive'
  BY <1>1, <1>6, <1>7 DEF PingAlive, Pending
<1>9. \A x \in Pending' : x.op \in {"write", "read"} => x \in Pending
  BY <1>1, <1>2, <1>6 DEF Pending, QuietHandlers
<1>10. Beats'
  BY <1>1, <1>8, <1>9 DEF TInv, Beats
<1> QED
  BY <1>4, <1>5, <1>10 DEF TInv

\* do_ping() leaves a running connector with a ping timer.
LEMMA DoPingArms ==
    ASSUME NEW a, NEW waits, DoPing(a, waits), ~ stopped
    PROVE  Armed("ping")'
<1> DEFINE w == [op |-> "ping", attempt |-> a]
<1>1. w \in armed' /\ w.op = "ping"
  BY DEF DoPing
<1> HIDE DEF w
<1> QED
  BY <1>1 DEF Armed

\* The handshake of an attempt is over: either it was the current one, which has
\* no other on the way, or an earlier attempt is alive.
LEMMA WsHandshakeTInv ==
    ASSUME IInv, TInv, OnWsHandshake, Event.ec = "ok"
    PROVE  TInv'
<1> DEFINE next == IF HasSubscription THEN "write" ELSE "read"
           o    == [op |-> next, attempt |-> Event.attempt]
<1>1. /\ ready # << >> /\ Event.op = "ws_handshake"
      /\ outstanding' = outstanding \cup {o}
      /\ DoPing(Event.attempt, Without(armed, {"handshake"}))
      /\ UNCHANGED <<stopped, retry_count, attempt>>
  BY DEF OnWsHandshake, Runs, Event, Issue
<1>2. /\ o.op \in ChainOps /\ o.op # "ws_handshake" /\ o.attempt = Event.attempt
      /\ o \in Pending' /\ o.op \in {"write", "read"}
  BY <1>1 DEF ChainOps, Pending
<1> HIDE DEF o
<1>3. TypeOK /\ Event \in Handlers
  BY <1>1, EventType DEF IInv
<1>4. QuietRun
  BY <1>1, <1>3, DoPingCase DEF Handlers
<1>5. Started'
  BY <1>1, <1>2, <1>3, <1>4, StartedKept DEF TInv, ChainOps
<1>6. ~ stopped => Armed("ping")'
  BY <1>1, DoPingArms
<1>7. Beats'
  BY <1>1, <1>6 DEF Beats, PingAlive
<1>8. CASE Event.attempt = attempt
  <2>1. PICK c \in Nat : c = attempt
    BY <1>3 DEF IInv, TypeOK
  <2>2. 1 \in ChainQueued(c) /\ ChainSingle(c)
    BY <1>1, <1>3, <1>4, <1>8, <2>1, ChainShift DEF ChainOps, IInv, Chains
  <2>3. ChainOutstanding(c) = {}
    BY <2>2 DEF ChainSingle
  <2>4. \A x \in outstanding' : x.attempt = attempt => x.op # "ws_handshake"
    BY <1>1, <1>2, <2>1, <2>3 DEF ChainOutstanding, ChainOps
  <2> QED
    BY <1>1, <1>5, <1>7, <2>4 DEF TInv, Guards
<1>9. CASE Event.attempt # attempt
  <2>1. Guards'
    BY <1>1, <1>2, <1>9 DEF Guards
  <2> QED
    BY <1>5, <1>7, <2>1 DEF TInv
<1> QED
  BY <1>8, <1>9


\* The socket is closed: what was outstanding on it is pending as aborted.
LEMMA ConnectPending ==
    ASSUME TypeOK, IsFiniteSet(outstanding), ConnectRun
    PROVE  /\ Event \in Range(ready) /\ Event.op = "resolve"
           /\ \A x \in Pending : x # Event =>
                 \E y \in Pending' : y.op = x.op /\ y.attempt = x.attempt
           /\ \A y \in Pending' :
                 \/ y.op = "connect" /\ y.attempt = Event.attempt
                 \/ \E x \in Pending : y.op = x.op /\ y.attempt = x.attempt
           /\ \E y \in Pending' : y.op = "connect" /\ y.attempt = Event.attempt
           /\ Range(ready) \subseteq Range(ready)' \cup {Event}
           /\ \A h \in Range(ready)' : h.ec # "aborted" => h \in Range(ready)
<1> DEFINE onSocket == {o \in outstanding : o.op # "resolve"}
           c        == [op |-> "connect", attempt |-> Event.attempt]
<1>1. PICK aborted \in SetToSeqs(onSocket) :
         ready' = Tail(ready) \o
                  [i \in DOMAIN aborted |-> Handler(aborted[i], "aborted")]
  BY DEF ConnectRun
<1> DEFINE extra == [i \in DOMAIN aborted |-> Handler(aborted[i], "aborted")]
<1>2. /\ TypeOK /\ ready \in Seq(Handlers) /\ ready # << >>
      /\ Event.op = "resolve" /\ Event \in Handlers
      /\ outstanding \subseteq Operations /\ IsFiniteSet(outstanding)
      /\ outstanding' = {o \in outstanding : o.op = "resolve"} \cup {c}
      /\ UNCHANGED <<stopped, retry_count, armed, attempt>>
  BY EventType DEF TypeOK, ConnectRun, Runs, Event
<1>3. c.op = "connect" /\ c.attempt = Event.attempt
  OBVIOUS
<1> HIDE DEF c
<1>4. IsFiniteSet(onSocket) /\ onSocket \subseteq outstanding
  BY <1>2, FS_Subset
<1>5. /\ \A k \in DOMAIN aborted : k \in Nat /\ aborted[k] \in onSocket
      /\ \A o \in onSocket : \E k \in DOMAIN aborted : aborted[k] = o
      /\ \E n \in Nat : DOMAIN aborted = 1 .. n
  BY <1>4, SetToSeqsFacts
<1>6. extra \in Seq(Handlers)
  <2>1. \A k \in DOMAIN aborted : Handler(aborted[k], "aborted") \in Handlers
    BY <1>2, <1>4, <1>5 DEF Handler, Handlers, Operations, Errors
  <2>2. PICK n \in Nat : DOMAIN aborted = 1 .. n
    BY <1>5
  <2>3. extra \in [1 .. n -> Handlers]
    BY <2>1, <2>2
  <2> QED
    BY <2>3
<1>7. Range(extra) = {Handler(o, "aborted") : o \in onSocket}
  BY <1>5 DEF Range
<1>8. ready' = Tail(ready) \o extra
  BY <1>1
<1> HIDE DEF extra
<1>9. /\ Range(ready)' \subseteq Range(ready) \cup Range(extra)
      /\ Range(ready) \subseteq Range(ready)' \cup {Event}
      /\ Range(extra) \subseteq Range(ready)'
      /\ Event \in Range(ready)
  <2>1. Range(ready)' = Range(Tail(ready) \o extra)
    BY <1>8 DEF Range
  <2> QED
    BY <1>2, <1>6, <2>1, QueueRange DEF Event
\* What was pending still is, except for the handler that runs, ...
<1>10. \A x \in Pending : x # Event =>
          \E y \in Pending' : y.op = x.op /\ y.attempt = x.attempt
  <2> SUFFICES ASSUME NEW x \in Pending, x # Event
               PROVE  \E y \in Pending' : y.op = x.op /\ y.attempt = x.attempt
    OBVIOUS
  <2>1. CASE x \in onSocket
    <3>1. Handler(x, "aborted") \in Pending'
      BY <1>7, <1>9, <2>1 DEF Pending
    <3> QED
      BY <3>1 DEF Handler
  <2>2. CASE x \notin onSocket
    BY <1>2, <1>9, <2>2 DEF Pending
  <2> QED
    BY <2>1, <2>2
\* ... and nothing else is but the connection attempt.
<1>11. \A y \in Pending' : \/ y = c
                           \/ \E x \in Pending : y.op = x.op /\ y.attempt = x.attempt
  <2> SUFFICES ASSUME NEW y \in Pending', y # c
               PROVE  \E x \in Pending : y.op = x.op /\ y.attempt = x.attempt
    OBVIOUS
  <2>1. CASE y \in outstanding'
    BY <1>2, <2>1 DEF Pending
  <2>2. CASE y \in Range(ready)
    BY <2>2 DEF Pending
  <2>3. CASE y \in Range(extra)
    <3>1. PICK o \in onSocket : y = Handler(o, "aborted")
      BY <1>7, <2>3
    <3>2. y.op = o.op /\ y.attempt = o.attempt
      BY <3>1 DEF Handler
    <3> QED
      BY <1>4, <3>2 DEF Pending
  <2> QED
    BY <1>9, <2>1, <2>2, <2>3 DEF Pending
<1>12. \A h \in Range(extra) : h.ec = "aborted"
  BY <1>7 DEF Handler
<1>13. c \in Pending'
  BY <1>2 DEF Pending
<1> QED
  BY <1>2, <1>3, <1>9, <1>10, <1>11, <1>12, <1>13

LEMMA ConnectTInv ==
    ASSUME IInv, TInv, ConnectRun
    PROVE  TInv'
<1>1. /\ Event \in Range(ready) /\ Event.op = "resolve"
      /\ \A x \in Pending : x # Event =>
            \E y \in Pending' : y.op = x.op /\ y.attempt = x.attempt
      /\ \A y \in Pending' :
            \/ y.op = "connect" /\ y.attempt = Event.attempt
            \/ \E x \in Pending : y.op = x.op /\ y.attempt = x.attempt
      /\ Range(ready) \subseteq Range(ready)' \cup {Event}
  BY ConnectPending DEF IInv
<1>2. /\ outstanding' = {o \in outstanding : o.op = "resolve"} \cup
                           {[op |-> "connect", attempt |-> Event.attempt]}
      /\ UNCHANGED <<stopped, retry_count, armed, attempt>>
  BY DEF ConnectRun
<1>3. Event \in Pending
  BY <1>1 DEF Pending
<1>4. Started'
  BY <1>1, <1>2, <1>3 DEF TInv, Started, ChainOps
<1>5. PingAlive => PingAlive'
  <2>1. ASSUME NEW x \in Pending, x.op = "ping_write"
        PROVE  \E y \in Pending' : y.op = "ping_write"
    BY <1>1, <2>1
  <2>2. Armed("ping") => Armed("ping")'
    BY <1>2 DEF Armed
  <2>3. ASSUME NEW h \in Range(ready), h.op = "ping"
        PROVE  h \in Range(ready)'
    BY <1>1, <2>3
  <2> QED
    BY <2>1, <2>2, <2>3 DEF PingAlive
<1>6. Beats'
  <2>1. ASSUME \A x \in Pending : x.attempt = attempt => x.op \notin {"write", "read"}
        PROVE  \A y \in Pending' : y.attempt = attempt => y.op \notin {"write", "read"}
    BY <1>1, <2>1
  <2> QED
    BY <1>2, <1>5, <2>1 DEF TInv, Beats
<1>7. \A o \in outstanding' : o.op # "ws_handshake"
  BY <1>2
<1>8. Guards'
  BY <1>7 DEF Guards
<1> QED
  BY <1>4, <1>6, <1>8 DEF TInv

\* The new attempt has only a resolve on its way.
LEMMA StartTInv ==
    ASSUME IInv, TInv, StartRun
    PROVE  TInv'
<1> DEFINE o == [op |-> "resolve", attempt |-> attempt + 1]
<1>1. /\ ready # << >> /\ Event.op = "reconnect"
      /\ attempt' = attempt + 1
      /\ outstanding' = outstanding \cup {o}
      /\ ready' = Tail(ready) \o Cancelled(armed)
  BY DEF StartRun, OnReconnectTimer, Start, Runs, Event, Issue
<1>2. o.op = "resolve" /\ o.attempt = attempt + 1
  OBVIOUS
<1> HIDE DEF o
<1>3. TypeOK /\ QuietRun /\ attempt \in Nat /\ attempt >= 1
  BY <1>1, CancelQuiet DEF IInv, TypeOK, TInv, Started
<1>4. \A x \in Pending' : x.op \in ChainOps => x = o \/ x \in Pending
  BY <1>1, <1>3, QuietRange DEF Pending, QuietHandlers, ChainOps
<1>5. \A x \in Pending : x.op \in ChainOps => x.attempt \in 1 .. attempt
  BY DEF TInv, Started
<1>6. \A x \in Pending' : x.op \in ChainOps =>
         /\ x.attempt \in 1 .. attempt + 1
         /\ x.attempt = attempt + 1 => x.op = "resolve"
  BY <1>2, <1>3, <1>4, <1>5
<1>7. Started'
  BY <1>1, <1>3, <1>6 DEF Started
<1>8. Beats'
  BY <1>1, <1>6 DEF Beats, ChainOps
<1>9. Guards'
  <2>1. outstanding' \subseteq Pending'
    BY DEF Pending
  <2> QED
    BY <1>1, <1>6, <2>1 DEF Guards, ChainOps
<1> QED
  BY <1>7, <1>8, <1>9 DEF TInv

\* A ping is written, or the timer's handler finds the connector stopped, or
\* its wait was cancelled, by a do_ping() that set the timer again.
LEMMA PingTimerTInv ==
    ASSUME IInv, TInv, OnPingTimer
    PROVE  TInv'
<1> DEFINE o == [op |-> "ping_write", attempt |-> Event.attempt]
<1>1. /\ ready # << >> /\ Event.op = "ping" /\ ready' = Tail(ready)
      /\ UNCHANGED <<stopped, retry_count, armed, attempt>>
      /\ \/ UNCHANGED outstanding /\ (stopped \/ Event.ec # "ok")
         \/ outstanding' = outstanding \cup {o}
  BY DEF OnPingTimer, Runs, Event, Issue
<1>2. o.op = "ping_write"
  OBVIOUS
<1> HIDE DEF o
<1>3. TypeOK /\ QuietRun
  BY <1>1, PopQuiet DEF IInv
<1>4. Started'
  BY <1>1, <1>2, <1>3, StartedKept DEF TInv, ChainOps
<1>5. /\ Range(ready)' \subseteq Range(ready) \cup QuietHandlers
      /\ Range(ready) \subseteq Range(ready)' \cup {Event}
      /\ outstanding \subseteq outstanding'
  BY <1>1, <1>3, QuietRange
<1>6. \A x \in Pending' : x \in Pending \/ x.op \in {"ping", "ping_write"}
  BY <1>1, <1>2, <1>5 DEF Pending, QuietHandlers
<1>7. \A x \in Pending : x \in Pending' \/ x.op = "ping"
  BY <1>1, <1>5 DEF Pending
<1>8. ~ stopped /\ PingAlive => PingAlive'
  <2>1. CASE outstanding' = outstanding \cup {o}
    BY <1>2, <2>1 DEF PingAlive, Pending
  <2>2. CASE UNCHANGED outstanding /\ (stopped \/ Event.ec # "ok")
    BY <1>1, <1>5, <1>7, <2>2 DEF PingAlive, Armed
  <2> QED
    BY <1>1, <2>1, <2>2
<1>9. Beats'
  BY <1>1, <1>6, <1>8 DEF TInv, Beats
<1>10. Watched => Watched'
  BY <1>1, <1>5 DEF Watched, Armed
<1>11. \A x \in outstanding' : x \in outstanding \/ x.op = "ping_write"
  BY <1>1, <1>2
<1>12. Guards'
  BY <1>1, <1>7, <1>10, <1>11 DEF TInv, Guards, ChainOps
<1> QED
  BY <1>4, <1>9, <1>12 DEF TInv

LEMMA PingWriteTInv ==
    ASSUME IInv, TInv, OnPingWrite, ~ FailsIn("ping_write")
    PROVE  TInv'
<1>1. /\ ready # << >> /\ Event.op = "ping_write" /\ DoPing(Event.attempt, armed)
      /\ UNCHANGED <<stopped, retry_count, outstanding, attempt>>
  BY DEF OnPingWrite, Runs, Event
<1>2. armed = Without(armed, {})
  BY DEF Without
<1>3. TypeOK /\ Event \in Handlers
  BY <1>1, EventType DEF IInv
<1>4. QuietRun
  BY <1>1, <1>2, <1>3, DoPingCase DEF Handlers
<1>5. Started'
  BY <1>1, <1>3, <1>4, StartedKept DEF TInv
<1>6. ~ stopped => Armed("ping")'
  BY <1>1, DoPingArms
<1>7. Beats'
  BY <1>1, <1>6 DEF Beats, PingAlive
<1>8. /\ Range(ready) \subseteq Range(ready)' \cup {Event}
      /\ \A x \in Pending : x \in Pending' \/ x = Event
  BY <1>1, <1>3, <1>4, QuietRange, PendingKept
<1>9. Armed("handshake") => Armed("handshake")'
  BY <1>1 DEF DoPing, Armed, Without
<1>10. Watched => Watched'
  BY <1>1, <1>8, <1>9 DEF Watched
<1>11. Guards'
  BY <1>1, <1>8, <1>10 DEF TInv, Guards, ChainOps
<1> QED
  BY <1>5, <1>7, <1>11 DEF TInv


\* A completion or an expiry moves an operation into the queue.
LEMMA CompleteTInv ==
    ASSUME IInv, TInv, NEW o \in outstanding, NEW ec \in Outcomes(o.op), Complete(o, ec)
    PROVE  TInv'
<1> DEFINE h == Handler(o, ec)
<1>1. /\ outstanding' = outstanding \ {o} /\ ready' = Append(ready, h)
      /\ UNCHANGED <<stopped, retry_count, armed, attempt>>
  BY DEF Complete
<1>2. /\ ready \in Seq(Handlers) /\ h \in Handlers
      /\ h.op = o.op /\ h.attempt = o.attempt
  BY DEF IInv, TypeOK, Handler, Handlers, Operations, Outcomes, Errors
<1> HIDE DEF h
<1>3. Range(ready)' = Range(ready) \cup {h}
  BY <1>1, <1>2, QueueAppend DEF Range
<1>4. /\ \A x \in Pending : \E y \in Pending' : y.op = x.op /\ y.attempt = x.attempt
      /\ \A y \in Pending' : \E x \in Pending : y.op = x.op /\ y.attempt = x.attempt
  BY <1>1, <1>2, <1>3 DEF Pending
<1>5. Started'
  BY <1>1, <1>4 DEF TInv, Started
<1>6. PingAlive => PingAlive'
  BY <1>1, <1>3, <1>4 DEF PingAlive, Armed
<1>7. Beats'
  BY <1>1, <1>4, <1>6 DEF TInv, Beats
<1>8. Watched => Watched'
  BY <1>1, <1>3 DEF Watched, Armed
<1>9. Guards'
  BY <1>1, <1>4, <1>8 DEF TInv, Guards
<1> QED
  BY <1>5, <1>7, <1>9 DEF TInv

LEMMA ExpireTInv ==
    ASSUME IInv, TInv, NEW w \in armed, Expire(w)
    PROVE  TInv'
<1> DEFINE h == Handler(w, "ok")
<1>1. /\ armed' = armed \ {w} /\ ready' = Append(ready, h)
      /\ UNCHANGED <<stopped, retry_count, outstanding, attempt>>
  BY DEF Expire
<1>2. /\ ready \in Seq(Handlers) /\ h \in Handlers
      /\ h.op = w.op /\ h.ec = "ok" /\ h.op \in Timers
  BY DEF IInv, TypeOK, Handler, Handlers, Waits, Errors
<1> HIDE DEF h
<1>3. Range(ready)' = Range(ready) \cup {h}
  BY <1>1, <1>2, QueueAppend DEF Range
<1>4. Pending' = Pending \cup {h} /\ h.op \notin ChainOps
  BY <1>1, <1>2, <1>3 DEF Pending, Timers, ChainOps
<1>5. Started'
  BY <1>1, <1>4 DEF TInv, Started
<1>6. \A t : Armed(t) => Armed(t)' \/ h.op = t
  BY <1>1, <1>2 DEF Armed
<1>7. PingAlive => PingAlive'
  BY <1>2, <1>3, <1>4, <1>6 DEF PingAlive
<1>8. Beats'
  BY <1>1, <1>4, <1>7 DEF TInv, Beats, ChainOps
<1>9. Watched => Watched'
  BY <1>2, <1>3, <1>6 DEF Watched
<1>10. Guards'
  BY <1>1, <1>4, <1>9 DEF TInv, Guards
<1> QED
  BY <1>5, <1>8, <1>10 DEF TInv

LEMMA RunTInv ==
    ASSUME IInv, TInv, RunHandler
    PROVE  TInv'
<1>1. TypeOK
  BY DEF IInv
<1>2. ASSUME NEW op \in Ops, FailsIn(op) PROVE TInv'
  BY <1>1, <1>2, FailsInCase, FailTInv
<1>3. CASE OnResolve
  <2>1. CASE FailsIn("resolve")
    BY <1>2, <2>1 DEF Ops, ChainOps
  <2>2. CASE ~ FailsIn("resolve")
    <3>1. {o \in outstanding : o.op # "resolve"} =
             outstanding \ {o \in outstanding : o.op = "resolve"}
      OBVIOUS
    <3>2. ConnectRun
      BY <1>3, <2>2, <3>1 DEF OnResolve, ConnectRun
    <3> QED
      BY <3>2, ConnectTInv
  <2> QED
    BY <2>1, <2>2
<1>4. CASE OnConnect \/ OnWrite \/ OnRead
  BY <1>2, <1>4, ContinueTInv DEF OnConnect, OnWrite, OnRead, Ops, ChainOps
<1>5. CASE OnSslHandshake
  BY <1>2, <1>5, SslHandshakeTInv DEF Ops, ChainOps
<1>6. CASE OnWsHandshake
  <2>1. CASE Event.ec = "ok"
    BY <1>6, <2>1, WsHandshakeTInv
  <2>2. CASE Event.ec # "ok"
    <3>1. /\ ready # << >> /\ Event.op # "reconnect" /\ UNCHANGED outstanding
          /\ Fail(Event.ec, Without(armed, {"handshake"}))
      BY <1>6, <2>2 DEF OnWsHandshake, Runs, Event
    <3>2. FailRun
      BY <1>1, <3>1, FailCase
    <3> QED
      BY <3>2, FailTInv
  <2> QED
    BY <2>1, <2>2
<1>7. CASE OnHandshakeTimer
  <2>1. /\ ready # << >> /\ Event.op # "reconnect" /\ UNCHANGED outstanding
        /\ Fail("retry", Without(armed, {}))
    <3>1. armed = Without(armed, {})
      BY DEF Without
    <3> QED
      BY <1>7, <3>1 DEF OnHandshakeTimer, Runs, Event
  <2>2. FailRun
    BY <1>1, <2>1, FailCase
  <2> QED
    BY <2>2, FailTInv
<1>8. CASE OnReconnectTimer
  BY <1>8, StartTInv DEF StartRun
<1>9. CASE OnPingTimer
  BY <1>9, PingTimerTInv
<1>10. CASE OnPingWrite
  BY <1>2, <1>10, PingWriteTInv DEF Ops
<1> QED
  BY <1>3, <1>4, <1>5, <1>6, <1>7, <1>8, <1>9, <1>10 DEF RunHandler

-----------------------------------------------------------------------------
(* Theorems *)

\* No completion, timeout or queued handler leaves the current attempt unwatched.
THEOREM NextTInv == IInv /\ TInv /\ [Next]_vars => TInv'
<1> SUFFICES ASSUME IInv, TInv, [Next]_vars PROVE TInv'
  OBVIOUS
<1>1. CASE RunHandler
  BY <1>1, RunTInv
<1>2. ASSUME NEW o \in outstanding, NEW ec \in Outcomes(o.op), Complete(o, ec)
      PROVE  TInv'
  BY <1>2, CompleteTInv
<1>3. ASSUME NEW w \in armed, Expire(w) PROVE TInv'
  BY <1>3, ExpireTInv
<1>4. CASE UNCHANGED vars
  BY <1>4 DEF vars, TInv, Started, Beats, Guards, PingAlive, Watched, Pending, Armed, Range
<1> QED
  BY <1>1, <1>2, <1>3, <1>4 DEF Next

\* The inductive invariant of the timers holds in every reachable state
\* (market_connector.cpp:171-291).
THEOREM SpecTInv == Spec => []TInv
BY InitTInv, NextTInv, SpecIInv, PTL DEF Spec

\* While the current attempt is subscribing or reading and the connector is not
\* stopped, a ping timer is set, its handler queued, or a ping on its way, for
\* every number of attempts whose ping chains share the one timer
\* (market_connector.cpp:205, 256-291).
THEOREM HeartbeatRuns == Spec => []HeartbeatCovers
<1>1. TInv => HeartbeatCovers
  <2> SUFFICES ASSUME TInv, Streaming PROVE HeartbeatCovers
    BY DEF HeartbeatCovers
  <2>1. ~ stopped /\ \E x \in Pending : x.attempt = attempt /\ x.op \in {"write", "read"}
    BY DEF Streaming, ChainOutstanding, ChainQueued, Pending, Range
  <2>2. PingAlive
    BY <2>1 DEF TInv, Beats
  <2>3. CASE Armed("ping")
    BY <2>3 DEF HeartbeatCovers
  <2>4. CASE \E h \in Range(ready) : h.op = "ping" /\ h.ec = "ok"
    BY <2>4 DEF HeartbeatCovers, Queued, Range
  <2>5. CASE \E x \in Pending : x.op = "ping_write"
    BY <2>5 DEF HeartbeatCovers, Pending, Range
  <2> QED
    BY <2>2, <2>3, <2>4, <2>5 DEF PingAlive
<1> QED
  BY <1>1, SpecTInv, PTL

\* A WebSocket handshake of the current attempt is watched by the handshake
\* timer, or the timeout is about to be handled, unless an earlier attempt got
\* through its handshake and streams beside it: no other order of handlers,
\* aborts and timeouts of any number of attempts disarms the timer they share
\* (market_connector.cpp:171-186).
THEOREM HandshakeWatched == Spec => []HandshakeGuarded
<1>1. TypeOK /\ TInv => HandshakeGuarded
  <2> SUFFICES ASSUME TypeOK, TInv, Handshaking, ~ EarlierStreaming
               PROVE  Armed("handshake") \/ Queued("handshake", "ok") # {}
    BY DEF HandshakeGuarded
  <2>1. /\ ~ stopped
        /\ \E o \in outstanding : o.attempt = attempt /\ o.op = "ws_handshake"
    BY DEF Handshaking, ChainOutstanding
  <2>2. \A x \in Pending : x.op \in {"write", "read"} => x.attempt = attempt
    <3> SUFFICES ASSUME NEW x \in Pending, x.op \in {"write", "read"}, x.attempt # attempt
                 PROVE  FALSE
      OBVIOUS
    <3>1. x.attempt \in 1 .. attempt - 1 /\ x.op \in ChainOps
      BY DEF TypeOK, TInv, Started, ChainOps
    <3>2. x \in ChainOutstanding(x.attempt) \/ \E i \in ChainQueued(x.attempt) : ready[i] = x
      BY <3>1 DEF Pending, Range, ChainOutstanding, ChainQueued
    <3> QED
      BY <3>1, <3>2 DEF EarlierStreaming
  <2>3. Watched
    BY <2>1, <2>2 DEF TInv, Guards
  <2> QED
    BY <2>3 DEF Watched, Queued, Range
<1> QED
  BY <1>1, SpecTInv, TypeCorrect, PTL

=============================================================================
