----------------------------- MODULE ConnectorProofs -----------------------------
(***************************************************************************)
(* Proofs about Connector, for every retry budget, with or without a       *)
(* subscription message, and whatever the network does.                    *)
(*                                                                         *)
(* A handler does one of five things: it fails, it carries its attempt on, *)
(* it works for the heartbeat, it connects, or it starts a new attempt.    *)
(* RunCases says so; each of the five then has one lemma that shows it to  *)
(* preserve the inductive invariant, and so have the network and the clock.*)
(***************************************************************************)
EXTENDS Connector, SequenceTheorems, FiniteSetTheorems, TLAPS

-----------------------------------------------------------------------------
(* The inductive invariant *)

\* The chain of attempt a has not forked.
ChainSingle(a) ==
    /\ \A o, p \in ChainOutstanding(a) : o = p
    /\ \A i, j \in ChainQueued(a) : i = j
    /\ ChainOutstanding(a) = {} \/ ChainQueued(a) = {}

\* Nothing is known of an attempt before it starts.
Unstarted(a) == ChainOutstanding(a) = {} /\ ChainQueued(a) = {}

Chains ==
    /\ \A a \in Nat : ChainSingle(a)
    /\ \A a \in Nat : a > attempt => Unstarted(a)

\* A running connector has paid for its attempt; one that will reconnect has
\* paid for the next.
Budget ==
    /\ attempt <= retry_count + 1
    /\ attempt <= MaxRetry + 1
    /\ ~ stopped => attempt = retry_count + 1 /\ retry_count <= MaxRetry
    /\ Reconnecting => attempt = retry_count /\ retry_count <= MaxRetry

\* The reconnect timer has one wait: it was set in the current attempt.
OneWait == \A w \in armed : w.op = "reconnect" => w.attempt = attempt

IInv ==
    /\ TypeOK
    /\ IsFiniteSet(outstanding)
    /\ Budget
    /\ OneWait
    /\ ReconnectExclusive
    /\ Chains
    /\ ChainAlive

\* The first attempt begins with the resolver's operation.
THEOREM InitIInv == Init => IInv
<1> SUFFICES ASSUME Init PROVE IInv
  OBVIOUS
<1> USE DEF Init
<1>1. TypeOK
  <2>1. outstanding \subseteq Operations
    BY DEF Operations, Ops, ChainOps
  <2>2. retry_count \in 0 .. MaxRetry + 1
    BY ConnectorAssumption
  <2>3. ready \in Seq(Handlers)
    OBVIOUS
  <2> QED
    BY <2>1, <2>2, <2>3 DEF TypeOK
<1>2. IsFiniteSet(outstanding)
  BY FS_Singleton
<1>3. Budget /\ OneWait /\ ReconnectExclusive
  BY ConnectorAssumption
     DEF Budget, OneWait, ReconnectExclusive, Reconnecting, Armed, Queued
<1>4. Chains
  BY DEF Chains, ChainSingle, Unstarted, ChainOutstanding, ChainQueued
<1>5. ChainAlive
  <2>1. [op |-> "resolve", attempt |-> 1] \in ChainOutstanding(attempt)
    BY DEF ChainOutstanding, ChainOps
  <2> QED
    BY <2>1 DEF ChainAlive
<1> QED
  BY <1>1, <1>2, <1>3, <1>4, <1>5 DEF IInv

-----------------------------------------------------------------------------
(* The queue of the io_context *)

\* What the handlers add to the queue, except on_resolve: at most the handler
\* of a cancelled ping timer.
QuietHandlers == [op : {"ping"}, attempt : Nat, ec : {"aborted"}]
Quiet(extra) == extra = << >> \/ \E h \in QuietHandlers : extra = <<h>>

QuietRun ==
    /\ ready # << >>
    /\ \E extra \in Seq(Handlers) : Quiet(extra) /\ ready' = Tail(ready) \o extra

LEMMA CancelledQuiet ==
    ASSUME NEW waits \in SUBSET Waits
    PROVE  Cancelled(waits) \in Seq(Handlers) /\ Quiet(Cancelled(waits))
<1>1. CASE \E w \in waits : w.op = "ping"
  <2> DEFINE w == CHOOSE w \in waits : w.op = "ping"
  <2>1. w \in Waits /\ w.op = "ping"
    BY <1>1
  <2>2. Handler(w, "aborted") \in QuietHandlers \cap Handlers
    BY <2>1 DEF Handler, QuietHandlers, Handlers, Waits, Timers, Errors
  <2>3. Cancelled(waits) = <<Handler(w, "aborted")>>
    BY <1>1 DEF Cancelled
  <2> HIDE DEF w
  <2> QED
    BY <2>2, <2>3 DEF Quiet
<1>2. CASE ~ \E w \in waits : w.op = "ping"
  BY <1>2 DEF Cancelled, Quiet
<1> QED
  BY <1>1, <1>2

LEMMA PopQuiet ==
    ASSUME TypeOK, ready # << >>, ready' = Tail(ready)
    PROVE  QuietRun
<1>1. Tail(ready) \in Seq(Handlers)
  BY DEF TypeOK
<1>2. ready' = Tail(ready) \o << >>
  BY <1>1
<1>3. << >> \in Seq(Handlers) /\ Quiet(<< >>)
  BY DEF Quiet
<1> QED
  BY <1>2, <1>3 DEF QuietRun

LEMMA CancelQuiet ==
    ASSUME TypeOK, ready # << >>, NEW waits \in SUBSET Waits,
           ready' = Tail(ready) \o Cancelled(waits)
    PROVE  QuietRun
BY CancelledQuiet DEF QuietRun

\* The queue after its first handler ran and extra was added.
LEMMA QueueShift ==
    ASSUME NEW queue \in Seq(Handlers), queue # << >>, NEW extra \in Seq(Handlers)
    PROVE  LET new == Tail(queue) \o extra IN
           /\ new \in Seq(Handlers)
           /\ DOMAIN new \subseteq Nat /\ DOMAIN queue \subseteq Nat
           /\ 1 \in DOMAIN queue /\ queue[1] = Head(queue)
           /\ \A i \in DOMAIN new :
                 \/ i + 1 \in DOMAIN queue /\ new[i] = queue[i + 1]
                 \/ /\ i - (Len(queue) - 1) \in DOMAIN extra
                    /\ new[i] = extra[i - (Len(queue) - 1)]
           /\ \A j \in DOMAIN queue :
                 j = 1 \/ (j - 1 \in DOMAIN new /\ new[j - 1] = queue[j])
           /\ \A k \in DOMAIN extra :
                 /\ k + (Len(queue) - 1) \in DOMAIN new
                 /\ new[k + (Len(queue) - 1)] = extra[k]
<1> DEFINE tail == Tail(queue)
           new == tail \o extra
<1>1. /\ tail \in Seq(Handlers)
      /\ Len(queue) \in Nat \ {0}
      /\ Len(tail) = Len(queue) - 1
      /\ \A i \in 1 .. Len(tail) : tail[i] = queue[i + 1]
  OBVIOUS
<1>2. /\ new \in Seq(Handlers)
      /\ Len(new) = Len(tail) + Len(extra)
      /\ \A i \in 1 .. Len(tail) + Len(extra) :
            new[i] = IF i <= Len(tail) THEN tail[i] ELSE extra[i - Len(tail)]
  BY <1>1, ConcatProperties
<1>3. /\ DOMAIN new = 1 .. Len(queue) - 1 + Len(extra)
      /\ DOMAIN queue = 1 .. Len(queue)
      /\ DOMAIN extra = 1 .. Len(extra)
      /\ Len(extra) \in Nat
  BY <1>1, <1>2
<1> HIDE DEF tail, new
<1>4. \A i \in DOMAIN new :
         \/ i + 1 \in DOMAIN queue /\ new[i] = queue[i + 1]
         \/ /\ i - (Len(queue) - 1) \in DOMAIN extra
            /\ new[i] = extra[i - (Len(queue) - 1)]
  <2> TAKE i \in DOMAIN new
  <2>1. i \in 1 .. Len(tail) + Len(extra)
    BY <1>1, <1>3
  <2>2. CASE i <= Len(tail)
    <3>1. new[i] = tail[i]
      BY <1>2, <2>1, <2>2
    <3>2. i \in 1 .. Len(tail) /\ i + 1 \in DOMAIN queue
      BY <1>1, <1>3, <2>1, <2>2
    <3>3. tail[i] = queue[i + 1]
      BY <1>1, <3>2
    <3> QED
      BY <3>1, <3>2, <3>3
  <2>3. CASE i > Len(tail)
    BY <1>1, <1>2, <1>3, <2>1, <2>3
  <2> QED
    BY <1>1, <1>3, <2>1, <2>2, <2>3
<1>5. \A j \in DOMAIN queue :
         j = 1 \/ (j - 1 \in DOMAIN new /\ new[j - 1] = queue[j])
  <2> TAKE j \in DOMAIN queue
  <2> SUFFICES ASSUME j # 1 PROVE j - 1 \in DOMAIN new /\ new[j - 1] = queue[j]
    OBVIOUS
  <2>1. j - 1 \in 1 .. Len(tail) /\ j - 1 \in 1 .. Len(tail) + Len(extra)
    BY <1>1, <1>3
  <2>2. new[j - 1] = tail[j - 1]
    BY <1>1, <1>2, <2>1
  <2>3. tail[j - 1] = queue[(j - 1) + 1]
    BY <1>1, <2>1
  <2>4. (j - 1) + 1 = j
    BY <1>3
  <2> QED
    BY <1>1, <1>3, <2>1, <2>2, <2>3, <2>4
<1>6. \A k \in DOMAIN extra :
         /\ k + (Len(queue) - 1) \in DOMAIN new
         /\ new[k + (Len(queue) - 1)] = extra[k]
  BY <1>1, <1>2, <1>3
<1>7. 1 \in DOMAIN queue /\ queue[1] = Head(queue)
  BY <1>1, <1>3
<1> QED
  BY <1>2, <1>3, <1>4, <1>5, <1>6, <1>7 DEF tail, new

\* The same for a handler that adds at most a cancelled ping.
LEMMA QuietShift ==
    ASSUME TypeOK, QuietRun
    PROVE  /\ ready' \in Seq(Handlers)
           /\ DOMAIN ready' \subseteq Nat /\ DOMAIN ready \subseteq Nat
           /\ 1 \in DOMAIN ready /\ ready[1] = Event /\ Event \in Handlers
           /\ \A i \in DOMAIN ready' :
                 \/ i + 1 \in DOMAIN ready /\ ready'[i] = ready[i + 1]
                 \/ ready'[i] \in QuietHandlers
           /\ \A j \in DOMAIN ready :
                 j = 1 \/ (j - 1 \in DOMAIN ready' /\ ready'[j - 1] = ready[j])
<1>1. PICK extra \in Seq(Handlers) : Quiet(extra) /\ ready' = Tail(ready) \o extra
  BY DEF QuietRun
<1>2. ready \in Seq(Handlers) /\ ready # << >>
  BY DEF TypeOK, QuietRun
<1>3. \A k \in DOMAIN extra : extra[k] \in QuietHandlers
  BY <1>1 DEF Quiet
<1>4. Head(ready) \in Handlers
  BY <1>2
<1> QED
  BY <1>1, <1>2, <1>3, <1>4, QueueShift DEF Event

-----------------------------------------------------------------------------
(* What a handler does *)

\* The timers but for that of the reconnection may have changed.
SameReconnect ==
    /\ armed' \subseteq Waits
    /\ \A w \in Waits : w.op = "reconnect" => (w \in armed' <=> w \in armed)

FailRun ==
    /\ QuietRun
    /\ Event.op # "reconnect"
    /\ UNCHANGED <<outstanding, attempt>>
    /\ \/ stopped /\ SameReconnect /\ UNCHANGED <<stopped, retry_count>>
       \/ /\ ~ stopped /\ stopped' = TRUE
          /\ retry_count' \in {retry_count, retry_count + 1}
          /\ armed' \subseteq Waits
          /\ \A w \in armed' : w.op = "reconnect" => w \in armed \/ w.attempt = attempt
          /\ Armed("reconnect")' =>
                \/ Armed("reconnect")
                \/ retry_count' = retry_count + 1 /\ retry_count' <= MaxRetry

ContinueRun ==
    /\ QuietRun
    /\ Event.op \in ChainOps
    /\ \E op \in ChainOps : Issue(op, Event.attempt)
    /\ SameReconnect
    /\ UNCHANGED <<stopped, retry_count, attempt>>

PingRun ==
    /\ QuietRun
    /\ Event.op \in {"ping", "ping_write"}
    /\ UNCHANGED outstanding \/ Issue("ping_write", Event.attempt)
    /\ SameReconnect
    /\ UNCHANGED <<stopped, retry_count, attempt>>

ConnectRun ==
    /\ Runs("resolve") /\ Event.ec = "ok"
    /\ \E aborted \in SetToSeqs({o \in outstanding : o.op # "resolve"}) :
          ready' = Tail(ready) \o
                   [i \in DOMAIN aborted |-> Handler(aborted[i], "aborted")]
    /\ outstanding' = {o \in outstanding : o.op = "resolve"} \cup
                         {[op |-> "connect", attempt |-> Event.attempt]}
    /\ UNCHANGED <<stopped, retry_count, armed, attempt>>

StartRun == OnReconnectTimer

LEMMA WithoutFacts ==
    ASSUME TypeOK, NEW timers
    PROVE  /\ Without(armed, timers) \subseteq armed
           /\ Without(armed, timers) \subseteq Waits
           /\ "reconnect" \notin timers =>
                 \A w \in armed : w.op = "reconnect" => w \in Without(armed, timers)
BY DEF Without, TypeOK

LEMMA FailCase ==
    ASSUME TypeOK, ready # << >>, Event.op # "reconnect", UNCHANGED outstanding,
           NEW ec, NEW timers \in SUBSET {"handshake", "ping"},
           Fail(ec, Without(armed, timers))
    PROVE  FailRun
<1> DEFINE waits == Without(armed, timers)
<1>1. /\ waits \subseteq Waits /\ waits \subseteq armed
      /\ \A w \in armed : w.op = "reconnect" => w \in waits
  BY WithoutFacts
<1> HIDE DEF waits
<1>2. CASE stopped
  <2>1. FoundStopped(waits)
    BY <1>2 DEF Fail, waits
  <2>2. QuietRun
    BY <2>1, PopQuiet DEF FoundStopped
  <2>3. SameReconnect
    BY <1>1, <2>1 DEF FoundStopped, SameReconnect, Armed
  <2> QED
    BY <1>2, <2>1, <2>2, <2>3 DEF FailRun, Fail, FoundStopped
<1>3. CASE ~ stopped
  <2>1. FirstError(ec, waits)
    BY <1>3 DEF Fail, waits
  <2>2. QuietRun
    BY <1>1, <2>1, CancelQuiet DEF FirstError
  <2>3. retry_count' \in {retry_count, retry_count + 1}
    BY <2>1 DEF FirstError
  <2>4. armed' \subseteq Waits
    BY <1>1, <2>1 DEF FirstError, Without, Waits, Timers, TypeOK
  <2>5. ASSUME Armed("reconnect")'
        PROVE  \/ Armed("reconnect")
               \/ retry_count' = retry_count + 1 /\ retry_count' <= MaxRetry
    <3>1. PICK w \in armed' : w.op = "reconnect"
      BY <2>5 DEF Armed
    <3>2. w \in armed \/ MayRetry(ec)
      BY <1>1, <2>1, <3>1 DEF FirstError, Without
    <3> QED
      BY <2>1, <3>1, <3>2 DEF Armed, MayRetry, FirstError
  <2>6. \A w \in armed' : w.op = "reconnect" => w \in armed \/ w.attempt = attempt
    BY <1>1, <2>1 DEF FirstError, Without
  <2> QED
    BY <1>3, <2>1, <2>2, <2>3, <2>4, <2>5, <2>6 DEF FailRun, Fail, FirstError
<1> QED
  BY <1>2, <1>3

LEMMA FailsInCase ==
    ASSUME TypeOK, NEW op \in Ops, FailsIn(op)
    PROVE  FailRun
<1>1. /\ ready # << >> /\ Event.op = op /\ UNCHANGED outstanding
      /\ Fail(Event.ec, armed)
  BY DEF FailsIn, Runs, Event
<1>2. armed = Without(armed, {})
  BY DEF Without
<1>3. op # "reconnect"
  BY DEF Ops, ChainOps
<1> QED
  BY <1>1, <1>2, <1>3, FailCase

LEMMA ContinueCase ==
    ASSUME TypeOK, NEW op \in ChainOps, NEW next \in ChainOps, Runs(op), Continue(next)
    PROVE  ContinueRun
<1>1. ready # << >> /\ Event.op = op
  BY DEF Runs, Event
<1>2. QuietRun
  BY <1>1, PopQuiet DEF Continue
<1>3. SameReconnect
  BY DEF Continue, SameReconnect, Armed, TypeOK
<1> QED
  BY <1>1, <1>2, <1>3 DEF Continue, ContinueRun

LEMMA DoPingCase ==
    ASSUME TypeOK, ready # << >>, Event.attempt \in Nat,
           NEW timers \in SUBSET {"handshake", "ping"},
           DoPing(Event.attempt, Without(armed, timers))
    PROVE  QuietRun /\ SameReconnect
<1> DEFINE waits == Without(armed, timers)
           ping  == [op |-> "ping", attempt |-> Event.attempt]
<1>1. /\ waits \subseteq Waits /\ waits \subseteq armed
      /\ \A w \in armed : w.op = "reconnect" => w \in waits
  BY WithoutFacts
<1>2. ping \in Waits
  BY DEF Waits, Timers
<1> HIDE DEF waits
<1>3. CASE stopped
  <2>1. armed' = waits /\ ready' = Tail(ready)
    BY <1>3 DEF DoPing, waits
  <2> QED
    BY <1>1, <2>1, PopQuiet DEF SameReconnect, Armed
<1>4. CASE ~ stopped
  <2>1. /\ armed' = Without(waits, {"ping"}) \cup {ping}
        /\ ready' = Tail(ready) \o Cancelled(waits)
    BY <1>4 DEF DoPing, waits
  <2>2. QuietRun
    BY <1>1, <2>1, CancelQuiet
  <2>3. SameReconnect
    BY <1>1, <1>2, <2>1 DEF SameReconnect, Armed, Without
  <2> QED
    BY <2>2, <2>3
<1> QED
  BY <1>3, <1>4

LEMMA EventType == ASSUME TypeOK, ready # << >> PROVE Event \in Handlers
BY DEF TypeOK, Event

\* Every handler does one of the five.
LEMMA RunCases ==
    ASSUME TypeOK, RunHandler
    PROVE  FailRun \/ ContinueRun \/ PingRun \/ ConnectRun \/ StartRun
<1>1. CASE OnResolve
  <2>1. CASE FailsIn("resolve")
    BY <2>1, FailsInCase DEF Ops, ChainOps
  <2>2. CASE ~ FailsIn("resolve")
    <3>1. {o \in outstanding : o.op # "resolve"} =
             outstanding \ {o \in outstanding : o.op = "resolve"}
      OBVIOUS
    <3> QED
      BY <1>1, <2>2, <3>1 DEF OnResolve, ConnectRun
  <2> QED
    BY <2>1, <2>2
<1>2. CASE OnConnect \/ OnWrite \/ OnRead
  BY <1>2, FailsInCase, ContinueCase DEF OnConnect, OnWrite, OnRead, Ops, ChainOps
<1>3. CASE OnSslHandshake
  <2>1. CASE FailsIn("ssl_handshake")
    BY <2>1, FailsInCase DEF Ops, ChainOps
  <2>2. CASE ~ FailsIn("ssl_handshake")
    <3> DEFINE wait == [op |-> "handshake", attempt |-> Event.attempt]
    <3>1. /\ ready # << >> /\ Event.op = "ssl_handshake"
          /\ Issue("ws_handshake", Event.attempt)
          /\ armed' = Without(armed, {"handshake"}) \cup {wait}
          /\ ready' = Tail(ready)
          /\ UNCHANGED <<stopped, retry_count, attempt>>
      BY <1>3, <2>2 DEF OnSslHandshake, Runs, Event
    <3>2. wait \in Waits
      BY <3>1, EventType DEF Waits, Timers, Handlers
    <3>3. SameReconnect
      <4>1. armed' \subseteq Waits
        BY <3>1, <3>2, WithoutFacts
      <4>2. \A w \in armed : w.op = "reconnect" => w \in armed'
        BY <3>1 DEF Without
      <4>3. \A w \in armed' : w.op = "reconnect" => w \in armed
        BY <3>1 DEF Without
      <4> QED
        BY <4>1, <4>2, <4>3 DEF SameReconnect, Armed
    <3>4. QuietRun
      BY <3>1, PopQuiet
    <3> QED
      BY <3>1, <3>3, <3>4 DEF ContinueRun, ChainOps
  <2> QED
    BY <2>1, <2>2
<1>4. CASE OnWsHandshake
  <2>1. ready # << >> /\ Event.op = "ws_handshake" /\ Event.attempt \in Nat
    BY <1>4, EventType DEF OnWsHandshake, Runs, Event, Handlers
  <2>2. CASE Event.ec # "ok"
    <3>1. Fail(Event.ec, Without(armed, {"handshake"})) /\ UNCHANGED outstanding
      BY <1>4, <2>2 DEF OnWsHandshake
    <3> QED
      BY <2>1, <3>1, FailCase
  <2>3. CASE Event.ec = "ok"
    <3>1. /\ DoPing(Event.attempt, Without(armed, {"handshake"}))
          /\ Issue(IF HasSubscription THEN "write" ELSE "read", Event.attempt)
          /\ UNCHANGED <<stopped, retry_count, attempt>>
      BY <1>4, <2>3 DEF OnWsHandshake
    <3>2. QuietRun /\ SameReconnect
      BY <2>1, <3>1, DoPingCase
    <3> QED
      BY <2>1, <3>1, <3>2 DEF ContinueRun, ChainOps
  <2> QED
    BY <2>2, <2>3
<1>5. CASE OnHandshakeTimer
  <2>1. /\ ready # << >> /\ Event.op = "handshake" /\ UNCHANGED outstanding
        /\ Fail("retry", armed)
    BY <1>5 DEF OnHandshakeTimer, Runs, Event
  <2>2. armed = Without(armed, {})
    BY DEF Without
  <2> QED
    BY <2>1, <2>2, FailCase
<1>6. CASE OnReconnectTimer
  BY <1>6 DEF StartRun
<1>7. CASE OnPingTimer
  <2>1. ready # << >> /\ Event.op = "ping" /\ ready' = Tail(ready)
    BY <1>7 DEF OnPingTimer, Runs, Event
  <2>2. QuietRun
    BY <2>1, PopQuiet
  <2>3. SameReconnect
    BY <1>7 DEF OnPingTimer, SameReconnect, Armed, TypeOK
  <2> QED
    BY <1>7, <2>1, <2>2, <2>3 DEF OnPingTimer, PingRun
<1>8. CASE OnPingWrite
  <2>1. CASE FailsIn("ping_write")
    BY <2>1, FailsInCase DEF Ops
  <2>2. CASE ~ FailsIn("ping_write")
    <3>1. /\ ready # << >> /\ Event.op = "ping_write"
          /\ DoPing(Event.attempt, armed)
          /\ UNCHANGED <<stopped, retry_count, outstanding, attempt>>
      BY <1>8, <2>2 DEF OnPingWrite, Runs, Event
    <3>2. armed = Without(armed, {})
      BY DEF Without
    <3>3. Event.attempt \in Nat
      BY <3>1, EventType DEF Handlers
    <3>4. QuietRun /\ SameReconnect
      BY <3>1, <3>2, <3>3, DoPingCase
    <3> QED
      BY <3>1, <3>4 DEF PingRun
  <2> QED
    BY <2>1, <2>2
<1> QED
  BY <1>1, <1>2, <1>3, <1>4, <1>5, <1>6, <1>7, <1>8 DEF RunHandler

-----------------------------------------------------------------------------
(* Chains and the reconnect timer over a quiet run *)

\* Queued handlers of a chain move up by one, none is added.
LEMMA ChainShift ==
    ASSUME TypeOK, QuietRun, NEW a \in Nat
    PROVE  /\ \A i \in ChainQueued(a)' : i \in Nat /\ i + 1 \in ChainQueued(a)
           /\ \A j \in ChainQueued(a) : j = 1 \/ j - 1 \in ChainQueued(a)'
           /\ 1 \in ChainQueued(a) <=> Event.op \in ChainOps /\ Event.attempt = a
<1>1. \A h \in QuietHandlers : h.op \notin ChainOps
  BY DEF QuietHandlers, ChainOps
<1> QED
  BY <1>1, QuietShift DEF ChainQueued

LEMMA ReconnectShift ==
    ASSUME TypeOK, QuietRun
    PROVE  /\ \A i \in Queued("reconnect", "ok")' :
                 i \in Nat /\ i + 1 \in Queued("reconnect", "ok")
           /\ \A j \in Queued("reconnect", "ok") :
                 j = 1 \/ j - 1 \in Queued("reconnect", "ok")'
           /\ 1 \in Queued("reconnect", "ok") <=> Event.op = "reconnect" /\ Event.ec = "ok"
<1>1. \A h \in QuietHandlers : h.op # "reconnect"
  BY DEF QuietHandlers
<1> QED
  BY <1>1, QuietShift DEF Queued

\* Running a handler that issues nothing for a chain forks none.
LEMMA ChainsKept ==
    ASSUME TypeOK, Chains, QuietRun, UNCHANGED attempt,
           \A a \in Nat : ChainOutstanding(a)' = ChainOutstanding(a)
    PROVE  Chains'
<1>1. ASSUME NEW a \in Nat
      PROVE  ChainSingle(a)'
  <2>1. ChainSingle(a)
    BY DEF Chains
  <2>2. \A i \in ChainQueued(a)' : i \in Nat /\ i + 1 \in ChainQueued(a)
    BY ChainShift
  <2>3. \A i, j \in ChainQueued(a)' : i = j
    BY <2>1, <2>2 DEF ChainSingle
  <2>4. ChainQueued(a) = {} => ChainQueued(a)' = {}
    BY <2>2
  <2> QED
    BY <2>1, <2>3, <2>4 DEF ChainSingle
<1>2. ASSUME NEW a \in Nat, a > attempt
      PROVE  Unstarted(a)'
  <2>1. Unstarted(a)
    BY <1>2 DEF Chains
  <2>2. \A i \in ChainQueued(a)' : i + 1 \in ChainQueued(a)
    BY ChainShift
  <2> QED
    BY <2>1, <2>2 DEF Unstarted
<1> QED
  BY <1>1, <1>2 DEF Chains

\* The reconnect timer is not touched and its handler does not run.
LEMMA ReconnectKept ==
    ASSUME TypeOK, Budget, OneWait, ReconnectExclusive, QuietRun,
           Event.op # "reconnect", SameReconnect,
           UNCHANGED <<stopped, retry_count, attempt>>
    PROVE  (Budget /\ OneWait /\ ReconnectExclusive)'
<1>1. /\ \A i \in Queued("reconnect", "ok")' :
            i \in Nat /\ i + 1 \in Queued("reconnect", "ok")
  BY ReconnectShift
<1>2. Queued("reconnect", "ok") = {} => Queued("reconnect", "ok")' = {}
  BY <1>1
<1>3. Armed("reconnect")' <=> Armed("reconnect")
  BY DEF SameReconnect, Armed, TypeOK
<1>4. Reconnecting' => Reconnecting
  BY <1>2, <1>3 DEF Reconnecting
<1>5. Budget'
  BY <1>4 DEF Budget
<1>6. ReconnectExclusive'
  BY <1>1, <1>2, <1>3, <1>4 DEF ReconnectExclusive
<1>7. OneWait'
  BY DEF OneWait, SameReconnect
<1> QED
  BY <1>5, <1>6, <1>7

\* The current attempt stays on its way while another handler runs.
LEMMA AliveKept ==
    ASSUME TypeOK, ChainAlive, QuietRun, outstanding \subseteq outstanding',
           UNCHANGED <<stopped, attempt>>,
           Event.op \notin ChainOps \/ Event.attempt # attempt
    PROVE  ChainAlive'
<1>1. PICK c \in Nat : c = attempt
  BY DEF TypeOK
<1>2. attempt' = c
  BY <1>1
<1>3. 1 \notin ChainQueued(c)
  BY <1>1, ChainShift
<1>4. ChainQueued(c) # {} => ChainQueued(c)' # {}
  BY <1>3, ChainShift
<1>5. ChainOutstanding(c) # {} => ChainOutstanding(c)' # {}
  BY DEF ChainOutstanding
<1>6. stopped \/ ChainOutstanding(c) # {} \/ ChainQueued(c) # {}
  BY <1>1 DEF ChainAlive
<1>7. stopped' \/ ChainOutstanding(c)' # {} \/ ChainQueued(c)' # {}
  BY <1>4, <1>5, <1>6
<1> QED
  BY <1>2, <1>7 DEF ChainAlive, ChainOutstanding, ChainQueued

LEMMA IssueFacts ==
    ASSUME TypeOK, IsFiniteSet(outstanding), NEW op \in Ops, NEW a \in Nat, Issue(op, a)
    PROVE  outstanding' \subseteq Operations /\ IsFiniteSet(outstanding')
<1>1. [op |-> op, attempt |-> a] \in Operations
  BY DEF Operations
<1> QED
  BY <1>1, FS_AddElement DEF Issue, TypeOK

-----------------------------------------------------------------------------
(* Each of the five preserves the invariant *)

LEMMA FailStep ==
    ASSUME IInv, FailRun
    PROVE  IInv'
<1> USE DEF IInv, FailRun
<1>1. ready' \in Seq(Handlers)
  BY QuietShift
<1>2. Chains'
  <2>1. \A a \in Nat : ChainOutstanding(a)' = ChainOutstanding(a)
    BY DEF ChainOutstanding
  <2> QED
    BY <2>1, ChainsKept
<1>3. CASE stopped
  <2>1. SameReconnect /\ UNCHANGED <<stopped, retry_count, outstanding, attempt>>
    BY <1>3
  <2>2. TypeOK'
    BY <1>1, <2>1 DEF TypeOK, SameReconnect
  <2>3. (Budget /\ OneWait /\ ReconnectExclusive)'
    BY <2>1, ReconnectKept
  <2>4. ChainAlive'
    BY <1>3, <2>1 DEF ChainAlive
  <2> QED
    BY <1>2, <2>1, <2>2, <2>3, <2>4
<1>4. CASE ~ stopped
  <2>1. /\ stopped' = TRUE /\ UNCHANGED <<outstanding, attempt>>
        /\ retry_count' \in {retry_count, retry_count + 1}
        /\ armed' \subseteq Waits
    BY <1>4
  <2>2. /\ ~ Reconnecting
        /\ attempt = retry_count + 1 /\ retry_count <= MaxRetry
    BY <1>4 DEF ReconnectExclusive, Budget
  <2>3. MaxRetry \in Nat /\ retry_count \in Nat /\ attempt \in Nat
    BY ConnectorAssumption DEF TypeOK
  <2>4. TypeOK'
    <3>1. retry_count' \in 0 .. MaxRetry + 1
      BY <2>1, <2>2, <2>3
    <3> QED
      BY <1>1, <2>1, <3>1 DEF TypeOK
  <2>5. Queued("reconnect", "ok")' = {}
    BY <2>2, ReconnectShift DEF Reconnecting
  <2>6. Armed("reconnect")' => retry_count' = retry_count + 1 /\ retry_count' <= MaxRetry
    BY <1>4, <2>2 DEF Reconnecting
  <2>7. Budget'
    <3>1. Reconnecting' => retry_count' = retry_count + 1 /\ retry_count' <= MaxRetry
      BY <2>5, <2>6 DEF Reconnecting
    <3>2. /\ attempt' = attempt
          /\ retry_count' = retry_count \/ retry_count' = retry_count + 1
      BY <2>1
    <3> HIDE DEF IInv, FailRun
    <3>3. attempt' <= retry_count' + 1 /\ attempt' <= MaxRetry + 1
      BY <2>2, <2>3, <3>2
    <3> QED
      BY <2>1, <2>2, <3>1, <3>2, <3>3 DEF Budget
  <2>8. ReconnectExclusive'
    BY <2>1, <2>5 DEF ReconnectExclusive
  <2>9. OneWait'
    BY <1>4, <2>1 DEF OneWait
  <2>10. ChainAlive'
    BY <2>1 DEF ChainAlive
  <2> QED
    BY <1>2, <2>1, <2>4, <2>7, <2>8, <2>9, <2>10
<1> QED
  BY <1>3, <1>4

\* The next operation of attempt b, whose last one has just been handled.
LEMMA ContinuedChain ==
    ASSUME IInv, QuietRun, NEW b \in Nat, NEW op \in ChainOps,
           Event.op \in ChainOps, Event.attempt = b, Issue(op, b)
    PROVE  ChainQueued(b)' = {} /\ ChainOutstanding(b)' = {[op |-> op, attempt |-> b]}
<1> DEFINE o == [op |-> op, attempt |-> b]
<1>1. outstanding' = outstanding \cup {o} /\ o.op \in ChainOps /\ o.attempt = b
  BY DEF Issue
<1>2. 1 \in ChainQueued(b)
  BY ChainShift DEF IInv
<1>3. ChainSingle(b)
  BY DEF IInv, Chains
<1>4. \A i \in ChainQueued(b)' : i \in Nat /\ i + 1 \in ChainQueued(b) /\ i \in DOMAIN ready'
  BY ChainShift DEF IInv, ChainQueued
<1>5. \A i \in ChainQueued(b)' : FALSE
  <2>1. ready' \in Seq(Handlers)
    BY QuietShift DEF IInv
  <2> TAKE i \in ChainQueued(b)'
  <2>2. i + 1 = 1 /\ i \in Nat /\ i \in DOMAIN ready'
    BY <1>2, <1>3, <1>4 DEF ChainSingle
  <2> QED
    BY <2>1, <2>2
<1>6. ChainOutstanding(b) = {}
  BY <1>2, <1>3 DEF ChainSingle
<1> HIDE DEF o
<1>7. ChainOutstanding(b)' = {o}
  BY <1>1, <1>6 DEF ChainOutstanding
<1> QED
  BY <1>5, <1>7 DEF o

LEMMA ContinueStep ==
    ASSUME IInv, ContinueRun
    PROVE  IInv'
<1> USE DEF IInv, ContinueRun
<1>1. ready' \in Seq(Handlers) /\ Event \in Handlers
  BY QuietShift
<1>2. PICK b \in Nat : b = Event.attempt
  BY <1>1 DEF Handlers
<1>3. PICK op \in ChainOps : Issue(op, b)
  BY <1>2
<1>4. outstanding' \subseteq Operations /\ IsFiniteSet(outstanding')
  BY <1>3, IssueFacts DEF Ops
<1>5. TypeOK'
  BY <1>1, <1>4 DEF TypeOK, SameReconnect
<1>6. (Budget /\ OneWait /\ ReconnectExclusive)'
  BY ReconnectKept DEF ChainOps
<1>7. ChainQueued(b)' = {} /\ ChainOutstanding(b)' = {[op |-> op, attempt |-> b]}
  BY <1>2, <1>3, ContinuedChain
<1>8. \A a \in Nat \ {b} : ChainOutstanding(a)' = ChainOutstanding(a)
  BY <1>3 DEF ChainOutstanding, Issue
<1>9. Chains'
  <2>1. ASSUME NEW a \in Nat PROVE ChainSingle(a)'
    <3>1. CASE a = b
      <4>1. ChainSingle(b)'
        BY <1>7 DEF ChainSingle
      <4> QED
        BY <3>1, <4>1
    <3>2. CASE a # b
      <4>1. ChainOutstanding(a)' = ChainOutstanding(a)
        BY <1>8, <3>2
      <4>2. \A i \in ChainQueued(a)' : i \in Nat /\ i + 1 \in ChainQueued(a)
        BY ChainShift
      <4>3. ChainSingle(a)
        BY DEF Chains
      <4>4. \A i, j \in ChainQueued(a)' : i = j
        BY <4>2, <4>3 DEF ChainSingle
      <4>5. ChainQueued(a) = {} => ChainQueued(a)' = {}
        BY <4>2
      <4> QED
        BY <4>1, <4>3, <4>4, <4>5 DEF ChainSingle
    <3> QED
      BY <3>1, <3>2
  <2>2. ASSUME NEW a \in Nat, a > attempt PROVE Unstarted(a)'
    <3>1. Unstarted(a)
      BY <2>2 DEF Chains
    <3>2. 1 \in ChainQueued(b)
      BY <1>2, ChainShift
    <3>3. a # b
      BY <3>1, <3>2 DEF Unstarted
    <3>4. \A i \in ChainQueued(a)' : i + 1 \in ChainQueued(a)
      BY ChainShift
    <3> QED
      BY <1>8, <3>1, <3>3, <3>4 DEF Unstarted
  <2> QED
    BY <2>1, <2>2 DEF Chains
<1>10. ChainAlive'
  <2>1. CASE b = attempt
    <3>1. attempt' = b
      BY <2>1
    <3> QED
      BY <1>7, <3>1 DEF ChainAlive, ChainOutstanding
  <2>2. CASE b # attempt
    <3>1. outstanding \subseteq outstanding'
      BY <1>3 DEF Issue
    <3> QED
      BY <1>2, <2>2, <3>1, AliveKept
  <2> QED
    BY <2>1, <2>2
<1> QED
  BY <1>4, <1>5, <1>6, <1>9, <1>10

\* The heartbeat is no part of a chain.
LEMMA PingStep ==
    ASSUME IInv, PingRun
    PROVE  IInv'
<1> USE DEF IInv, PingRun
<1>1. ready' \in Seq(Handlers) /\ Event \in Handlers
  BY QuietShift
<1>2. PICK b \in Nat : b = Event.attempt
  BY <1>1 DEF Handlers
<1>3. /\ outstanding' \subseteq Operations /\ IsFiniteSet(outstanding')
      /\ outstanding \subseteq outstanding'
      /\ \A o \in outstanding' \ outstanding : o.op \notin ChainOps
  <2>1. CASE UNCHANGED outstanding
    BY <2>1 DEF TypeOK
  <2>2. CASE Issue("ping_write", b)
    BY <2>2, IssueFacts DEF Ops, ChainOps, Issue
  <2> QED
    BY <1>2, <2>1, <2>2
<1>4. TypeOK'
  BY <1>1, <1>3 DEF TypeOK, SameReconnect
<1>5. (Budget /\ OneWait /\ ReconnectExclusive)'
  BY ReconnectKept
<1>6. Chains'
  <2>1. \A a \in Nat : ChainOutstanding(a)' = ChainOutstanding(a)
    BY <1>3 DEF ChainOutstanding
  <2> QED
    BY <2>1, ChainsKept
<1>7. ChainAlive'
  BY <1>3, AliveKept DEF ChainOps
<1> QED
  BY <1>3, <1>4, <1>5, <1>6, <1>7

\* What a queue of aborted operations holds, each once.
LEMMA SetToSeqsFacts ==
    ASSUME NEW S, IsFiniteSet(S), NEW seq \in SetToSeqs(S)
    PROVE  /\ \A k \in DOMAIN seq : k \in Nat /\ seq[k] \in S
           /\ \A k, l \in DOMAIN seq : seq[k] = seq[l] => k = l
           /\ \A x \in S : \E k \in DOMAIN seq : seq[k] = x
           /\ \E n \in Nat : DOMAIN seq = 1 .. n
<1> DEFINE n == Cardinality(S)
<1>1. n \in Nat
  BY FS_CardinalityType
<1>2. seq \in [1 .. n -> S] /\ \A i, j \in 1 .. n : i # j => seq[i] # seq[j]
  BY DEF SetToSeqs
<1>3. IsFiniteSet(1 .. n) /\ Cardinality(1 .. n) = n
  BY <1>1, FS_Interval
<1> HIDE DEF n
<1>4. seq \in Injection(1 .. n, S)
  BY <1>2 DEF Injection, IsInjective
<1>5. seq \in Surjection(1 .. n, S)
  BY <1>3, <1>4, FS_Injection DEF n
<1> QED
  BY <1>1, <1>2, <1>5 DEF Surjection

\* Closing the socket moves what is outstanding on it into the queue.
LEMMA ConnectStep ==
    ASSUME IInv, ConnectRun
    PROVE  IInv'
<1> DEFINE onSocket == {o \in outstanding : o.op # "resolve"}
           shift    == Len(ready) - 1
<1>1. PICK aborted \in SetToSeqs(onSocket) :
         ready' = Tail(ready) \o
                  [i \in DOMAIN aborted |-> Handler(aborted[i], "aborted")]
  BY DEF ConnectRun
<1> DEFINE extra == [i \in DOMAIN aborted |-> Handler(aborted[i], "aborted")]
<1>2. /\ ready \in Seq(Handlers) /\ ready # << >> /\ Len(ready) \in Nat
      /\ Event.op = "resolve" /\ Event \in Handlers
      /\ outstanding \subseteq Operations /\ IsFiniteSet(outstanding)
  BY DEF IInv, TypeOK, ConnectRun, Runs, Event
<1>3. PICK b \in Nat : b = Event.attempt
  BY <1>2 DEF Handlers
<1>4. /\ outstanding' = {o \in outstanding : o.op = "resolve"} \cup
                           {[op |-> "connect", attempt |-> b]}
      /\ UNCHANGED <<stopped, retry_count, armed, attempt>>
  BY <1>3 DEF ConnectRun
<1>5. IsFiniteSet(onSocket)
  BY <1>2, FS_Subset
<1>6. /\ \A k \in DOMAIN aborted : k \in Nat /\ aborted[k] \in onSocket
      /\ \A k, l \in DOMAIN aborted : aborted[k] = aborted[l] => k = l
      /\ \A o \in onSocket : \E k \in DOMAIN aborted : aborted[k] = o
      /\ \E n \in Nat : DOMAIN aborted = 1 .. n
  BY <1>5, SetToSeqsFacts
<1>7. /\ extra \in Seq(Handlers) /\ DOMAIN extra = DOMAIN aborted
      /\ \A k \in DOMAIN aborted : extra[k] = Handler(aborted[k], "aborted")
  <2>1. \A k \in DOMAIN aborted : Handler(aborted[k], "aborted") \in Handlers
    BY <1>2, <1>6 DEF Handler, Handlers, Operations, Errors
  <2>2. PICK n \in Nat : DOMAIN aborted = 1 .. n
    BY <1>6
  <2>3. extra \in [1 .. n -> Handlers]
    BY <2>1, <2>2
  <2> QED
    BY <2>2, <2>3
<1>8. ready' = Tail(ready) \o extra
  BY <1>1
<1> HIDE DEF extra
<1>9. /\ ready' \in Seq(Handlers) /\ DOMAIN ready' \subseteq Nat
      /\ DOMAIN ready \subseteq Nat
      /\ 1 \in DOMAIN ready /\ ready[1] = Event
      /\ \A i \in DOMAIN ready' :
            \/ i + 1 \in DOMAIN ready /\ ready'[i] = ready[i + 1]
            \/ /\ i - shift \in DOMAIN aborted
               /\ ready'[i] = Handler(aborted[i - shift], "aborted")
      /\ \A j \in DOMAIN ready :
            j = 1 \/ (j - 1 \in DOMAIN ready' /\ ready'[j - 1] = ready[j])
      /\ \A k \in DOMAIN aborted :
            /\ k + shift \in DOMAIN ready'
            /\ ready'[k + shift] = Handler(aborted[k], "aborted")
  <2> DEFINE new == Tail(ready) \o extra
  <2>1. /\ new \in Seq(Handlers) /\ DOMAIN new \subseteq Nat
        /\ DOMAIN ready \subseteq Nat
        /\ 1 \in DOMAIN ready /\ ready[1] = Head(ready)
        /\ \A i \in DOMAIN new :
              \/ i + 1 \in DOMAIN ready /\ new[i] = ready[i + 1]
              \/ i - shift \in DOMAIN extra /\ new[i] = extra[i - shift]
        /\ \A j \in DOMAIN ready :
              j = 1 \/ (j - 1 \in DOMAIN new /\ new[j - 1] = ready[j])
        /\ \A k \in DOMAIN extra :
              k + shift \in DOMAIN new /\ new[k + shift] = extra[k]
    BY <1>2, <1>7, QueueShift
  <2> HIDE DEF shift, new
  <2>2. ready' = new
    BY <1>8 DEF new
  <2> QED
    BY <1>7, <2>1, <2>2 DEF Event
<1> HIDE DEF shift
<1>10. shift \in Int
  BY <1>2 DEF shift
\* A queued handler of a chain was queued before, or was outstanding.
<1>11. \A a \in Nat : \A i \in ChainQueued(a)' :
          /\ i \in Nat /\ i \in DOMAIN ready'
          /\ \/ i + 1 \in ChainQueued(a)
             \/ /\ i - shift \in DOMAIN aborted
                /\ aborted[i - shift] \in ChainOutstanding(a)
  BY <1>6, <1>9 DEF ChainQueued, ChainOutstanding, Handler
<1>12. \A a \in Nat : \A j \in ChainQueued(a) : j = 1 \/ j - 1 \in ChainQueued(a)'
  BY <1>9 DEF ChainQueued
<1>13. 1 \in ChainQueued(b)
  BY <1>2, <1>3, <1>9 DEF ChainQueued, ChainOps
<1>14. \A a \in Nat : ChainSingle(a)
  BY DEF IInv, Chains
<1>15. TypeOK' /\ IsFiniteSet(outstanding')
  <2>1. [op |-> "connect", attempt |-> b] \in Operations
    BY DEF Operations, Ops, ChainOps
  <2>2. outstanding' \subseteq Operations
    BY <1>2, <1>4, <2>1
  <2>3. IsFiniteSet({o \in outstanding : o.op = "resolve"})
    BY <1>2, FS_Subset
  <2>4. IsFiniteSet(outstanding')
    BY <1>4, <2>3, FS_AddElement
  <2> QED
    BY <1>4, <1>9, <2>2, <2>4 DEF IInv, TypeOK
<1>16. (Budget /\ OneWait /\ ReconnectExclusive)'
  <2>1. \A i \in Queued("reconnect", "ok")' : i \in Nat /\ i + 1 \in Queued("reconnect", "ok")
    BY <1>9 DEF Queued, Handler
  <2>2. Queued("reconnect", "ok") = {} => Queued("reconnect", "ok")' = {}
    BY <2>1
  <2>3. Armed("reconnect")' <=> Armed("reconnect")
    BY <1>4 DEF Armed
  <2>4. Reconnecting' => Reconnecting
    BY <2>2, <2>3 DEF Reconnecting
  <2>5. Budget'
    BY <1>4, <2>4 DEF IInv, Budget
  <2>6. ReconnectExclusive'
    BY <1>4, <2>1, <2>2, <2>3, <2>4 DEF IInv, ReconnectExclusive
  <2>7. OneWait'
    BY <1>4 DEF IInv, OneWait
  <2> QED
    BY <2>5, <2>6, <2>7
<1>17. ChainQueued(b)' = {} /\ ChainOutstanding(b) = {}
  <2>1. ChainOutstanding(b) = {}
    BY <1>13, <1>14 DEF ChainSingle
  <2>2. \A i \in ChainQueued(b)' : FALSE
    <3> TAKE i \in ChainQueued(b)'
    <3>1. i + 1 = 1 /\ i \in DOMAIN ready' /\ i \in Nat
      BY <1>11, <1>13, <1>14, <2>1 DEF ChainSingle
    <3> QED
      BY <1>9, <3>1
  <2> QED
    BY <2>1, <2>2
<1>18. ChainOutstanding(b)' = {[op |-> "connect", attempt |-> b]}
  BY <1>4, <1>17 DEF ChainOutstanding, ChainOps
<1>19. \A a \in Nat \ {b} :
          ChainOutstanding(a)' = {o \in ChainOutstanding(a) : o.op = "resolve"}
  BY <1>4 DEF ChainOutstanding
<1>20. Chains'
  <2>1. ASSUME NEW a \in Nat, a # b PROVE ChainSingle(a)'
    <3>1. ChainSingle(a)
      BY <1>14
    <3>2. CASE ChainOutstanding(a) = {}
      <4>1. ChainOutstanding(a)' = {}
        BY <1>19, <2>1, <3>2
      <4>2. \A i \in ChainQueued(a)' : i \in Nat /\ i + 1 \in ChainQueued(a)
        BY <1>11, <3>2
      <4>3. \A i, j \in ChainQueued(a)' : i = j
        BY <3>1, <4>2 DEF ChainSingle
      <4> QED
        BY <4>1, <4>3 DEF ChainSingle
    <3>3. CASE ChainOutstanding(a) # {}
      <4>1. ChainQueued(a) = {} /\ \A o, p \in ChainOutstanding(a) : o = p
        BY <3>1, <3>3 DEF ChainSingle
      <4>2. \A i \in ChainQueued(a)' :
               /\ i \in Nat /\ i - shift \in DOMAIN aborted
               /\ aborted[i - shift] \in ChainOutstanding(a)
        BY <1>11, <4>1
      <4>3. \A i, j \in ChainQueued(a)' : i = j
        <5> TAKE i, j \in ChainQueued(a)'
        <5>1. i - shift = j - shift
          BY <1>6, <4>1, <4>2
        <5> QED
          BY <1>10, <4>2, <5>1
      <4>4. ASSUME NEW i \in ChainQueued(a)' PROVE ChainOutstanding(a)' = {}
        <5>1. PICK p \in ChainOutstanding(a) : p.op # "resolve"
          BY <1>6, <4>2, <4>4
        <5> QED
          BY <1>19, <2>1, <4>1, <5>1
      <4>5. \A o, p \in ChainOutstanding(a)' : o = p
        BY <1>19, <2>1, <4>1
      <4> QED
        BY <4>3, <4>4, <4>5 DEF ChainSingle
    <3> QED
      BY <3>2, <3>3
  <2>2. ASSUME NEW a \in Nat PROVE ChainSingle(a)'
    <3>1. ChainSingle(b)'
      BY <1>17, <1>18 DEF ChainSingle
    <3> QED
      BY <2>1, <3>1
  <2>3. ASSUME NEW a \in Nat, a > attempt PROVE Unstarted(a)'
    <3>1. Unstarted(a)
      BY <2>3 DEF IInv, Chains
    <3>2. a # b
      BY <1>13, <3>1 DEF Unstarted
    <3> QED
      BY <1>11, <1>19, <3>1, <3>2 DEF Unstarted
  <2> QED
    BY <1>4, <2>2, <2>3 DEF Chains
<1>21. ChainAlive'
  <2>1. PICK c \in Nat : c = attempt /\ c = attempt'
    BY <1>4 DEF IInv, TypeOK
  <2>2. stopped' \/ ChainOutstanding(c)' # {} \/ ChainQueued(c)' # {}
    <3>1. CASE c = b
      BY <1>18, <3>1
    <3>2. CASE c # b
      <4>1. stopped \/ ChainOutstanding(c) # {} \/ ChainQueued(c) # {}
        BY <2>1 DEF IInv, ChainAlive
      <4>2. ASSUME NEW j \in ChainQueued(c) PROVE ChainQueued(c)' # {}
        <5>1. j # 1
          BY <1>3, <1>9, <3>2 DEF ChainQueued
        <5> QED
          BY <1>12, <5>1
      <4>3. ASSUME NEW o \in ChainOutstanding(c)
            PROVE  ChainOutstanding(c)' # {} \/ ChainQueued(c)' # {}
        <5>1. CASE o.op = "resolve"
          BY <1>19, <3>2, <5>1
        <5>2. CASE o.op # "resolve"
          <6>1. PICK k \in DOMAIN aborted : aborted[k] = o
            BY <1>6, <5>2 DEF ChainOutstanding
          <6>2. k + shift \in DOMAIN ready' /\ ready'[k + shift] = Handler(o, "aborted")
            BY <1>9, <6>1
          <6>3. o.op \in ChainOps /\ o.attempt = c
            BY DEF ChainOutstanding
          <6>4. k + shift \in ChainQueued(c)'
            BY <6>2, <6>3 DEF ChainQueued, Handler
          <6> QED
            BY <6>4
        <5> QED
          BY <5>1, <5>2
      <4> QED
        BY <1>4, <4>1, <4>2, <4>3
    <3> QED
      BY <3>1, <3>2
  <2> QED
    BY <2>1, <2>2 DEF ChainAlive, ChainOutstanding, ChainQueued
<1> QED
  BY <1>15, <1>16, <1>20, <1>21 DEF IInv

\* A new attempt: the reconnection that was under way is used up, and what is
\* left of earlier attempts stays.
LEMMA StartStep ==
    ASSUME IInv, StartRun
    PROVE  IInv'
<1>1. /\ ready # << >> /\ Event.op = "reconnect" /\ Event.ec = "ok"
      /\ stopped' = FALSE /\ armed' = {} /\ attempt' = attempt + 1
      /\ Issue("resolve", attempt + 1)
      /\ ready' = Tail(ready) \o Cancelled(armed)
      /\ UNCHANGED retry_count
  BY DEF StartRun, OnReconnectTimer, Start, Runs, Event
<1>2. TypeOK /\ attempt \in Nat /\ retry_count \in Nat /\ MaxRetry \in Nat
  BY ConnectorAssumption DEF IInv, TypeOK
<1>3. QuietRun
  BY <1>1, <1>2, CancelQuiet DEF TypeOK
<1>4. ready' \in Seq(Handlers) /\ Event.op \notin ChainOps
  BY <1>1, <1>2, <1>3, QuietShift DEF ChainOps
<1>5. PICK c \in Nat : c = attempt + 1
  BY <1>2
<1>6. attempt' = c /\ Issue("resolve", c)
  BY <1>1, <1>5
<1>7. outstanding' \subseteq Operations /\ IsFiniteSet(outstanding')
  BY <1>2, <1>6, IssueFacts DEF IInv, Ops, ChainOps
<1>8. TypeOK'
  BY <1>1, <1>2, <1>4, <1>6, <1>7 DEF TypeOK
<1>9. 1 \in Queued("reconnect", "ok")
  BY <1>1, <1>2, <1>3, ReconnectShift
<1>10. attempt = retry_count /\ retry_count <= MaxRetry
  BY <1>9 DEF IInv, Budget, Reconnecting
<1>11. ~ Reconnecting'
  <2>1. \A i \in Queued("reconnect", "ok")' : FALSE
    <3> TAKE i \in Queued("reconnect", "ok")'
    <3>1. i \in Nat /\ i + 1 = 1 /\ i \in DOMAIN ready'
      BY <1>2, <1>3, <1>9, ReconnectShift DEF IInv, ReconnectExclusive, Queued
    <3> QED
      BY <1>4, <3>1
  <2> QED
    BY <1>1, <2>1 DEF Reconnecting, Armed
<1>12. Budget'
  BY <1>1, <1>2, <1>10, <1>11 DEF Budget
<1>13. OneWait' /\ ReconnectExclusive'
  BY <1>1, <1>11 DEF OneWait, ReconnectExclusive, Reconnecting
<1>14. \A a \in Nat : \A i \in ChainQueued(a)' : i \in Nat /\ i + 1 \in ChainQueued(a)
  BY <1>2, <1>3, ChainShift
<1>15. ChainOutstanding(c)' = ChainOutstanding(c) \cup {[op |-> "resolve", attempt |-> c]}
  BY <1>6 DEF ChainOutstanding, Issue, ChainOps
<1>16. \A a \in Nat \ {c} : ChainOutstanding(a)' = ChainOutstanding(a)
  BY <1>6 DEF ChainOutstanding, Issue
<1>17. \A a \in Nat : a > attempt => Unstarted(a)
  BY DEF IInv, Chains
<1>18. Unstarted(c)
  BY <1>2, <1>5, <1>17
<1>19. Chains'
  <2>1. ASSUME NEW a \in Nat, a # c PROVE ChainSingle(a)'
    <3>1. ChainSingle(a)
      BY DEF IInv, Chains
    <3>2. \A i, j \in ChainQueued(a)' : i = j
      BY <1>14, <3>1 DEF ChainSingle
    <3>3. ChainQueued(a) = {} => ChainQueued(a)' = {}
      BY <1>14
    <3> QED
      BY <1>16, <2>1, <3>1, <3>2, <3>3 DEF ChainSingle
  <2>2. ChainSingle(c)'
    <3>1. ChainQueued(c)' = {}
      BY <1>14, <1>18 DEF Unstarted
    <3>2. \A o, p \in ChainOutstanding(c)' : o = p
      BY <1>15, <1>18 DEF Unstarted
    <3> QED
      BY <3>1, <3>2 DEF ChainSingle
  <2>3. ASSUME NEW a \in Nat, a > c PROVE Unstarted(a)'
    <3>1. a # c /\ Unstarted(a)
      BY <1>2, <1>5, <1>17, <2>3
    <3> QED
      BY <1>14, <1>16, <3>1 DEF Unstarted
  <2>4. \A a \in Nat : ChainSingle(a)'
    BY <2>1, <2>2
  <2> QED
    BY <1>6, <2>3, <2>4 DEF Chains
<1>20. ChainAlive'
  BY <1>6, <1>15 DEF ChainAlive, ChainOutstanding
<1> QED
  BY <1>7, <1>8, <1>12, <1>13, <1>19, <1>20 DEF IInv

-----------------------------------------------------------------------------
(* The network and the clock preserve the invariant *)

LEMMA QueueAppend ==
    ASSUME ready \in Seq(Handlers), NEW h \in Handlers, ready' = Append(ready, h)
    PROVE  LET last == Len(ready) + 1 IN
           /\ ready' \in Seq(Handlers)
           /\ DOMAIN ready' = DOMAIN ready \cup {last} /\ last \notin DOMAIN ready
           /\ ready'[last] = h
           /\ \A i \in DOMAIN ready : ready'[i] = ready[i]
BY AppendProperties

LEMMA CompleteStep ==
    ASSUME IInv, NEW o \in outstanding, NEW ec \in Outcomes(o.op), Complete(o, ec)
    PROVE  IInv'
<1> DEFINE h    == Handler(o, ec)
           last == Len(ready) + 1
<1>1. /\ outstanding' = outstanding \ {o} /\ ready' = Append(ready, h)
      /\ UNCHANGED <<stopped, retry_count, armed, attempt>>
  BY DEF Complete
<1>2. /\ TypeOK /\ IsFiniteSet(outstanding) /\ ready \in Seq(Handlers)
      /\ o \in Operations
  BY DEF IInv, TypeOK
<1>3. h \in Handlers /\ h.op = o.op /\ h.attempt = o.attempt /\ o.op \in Ops
  BY <1>2 DEF Handler, Handlers, Operations, Outcomes, Errors
<1> HIDE DEF h
<1>4. /\ ready' \in Seq(Handlers)
      /\ DOMAIN ready' = DOMAIN ready \cup {last} /\ last \notin DOMAIN ready
      /\ ready'[last] = h
      /\ \A i \in DOMAIN ready : ready'[i] = ready[i]
  BY <1>1, <1>2, <1>3, QueueAppend
<1> HIDE DEF last
<1>5. TypeOK' /\ IsFiniteSet(outstanding')
  BY <1>1, <1>2, <1>4, FS_RemoveElement DEF TypeOK
<1>6. Queued("reconnect", "ok")' = Queued("reconnect", "ok")
  BY <1>3, <1>4 DEF Queued, Ops, ChainOps
<1>7. Armed("reconnect")' <=> Armed("reconnect")
  BY <1>1 DEF Armed
<1>8. (Budget /\ OneWait /\ ReconnectExclusive)'
  BY <1>1, <1>6, <1>7 DEF IInv, Budget, OneWait, ReconnectExclusive, Reconnecting
<1>9. \A a \in Nat :
         IF o.op \in ChainOps /\ o.attempt = a
         THEN /\ ChainQueued(a)' = ChainQueued(a) \cup {last}
              /\ ChainOutstanding(a)' = ChainOutstanding(a) \ {o}
              /\ o \in ChainOutstanding(a)
         ELSE /\ ChainQueued(a)' = ChainQueued(a)
              /\ ChainOutstanding(a)' = ChainOutstanding(a)
  BY <1>1, <1>3, <1>4 DEF ChainQueued, ChainOutstanding
<1>10. Chains'
  <2>1. ASSUME NEW a \in Nat PROVE ChainSingle(a)'
    <3>1. ChainSingle(a)
      BY DEF IInv, Chains
    <3> QED
      BY <1>9, <3>1 DEF ChainSingle
  <2>2. ASSUME NEW a \in Nat, a > attempt PROVE Unstarted(a)'
    <3>1. Unstarted(a)
      BY <2>2 DEF IInv, Chains
    <3> QED
      BY <1>9, <3>1 DEF Unstarted
  <2> QED
    BY <1>1, <2>1, <2>2 DEF Chains
<1>11. ChainAlive'
  <2>1. PICK c \in Nat : c = attempt /\ c = attempt'
    BY <1>1, <1>2 DEF TypeOK
  <2>2. stopped \/ ChainOutstanding(c) # {} \/ ChainQueued(c) # {}
    BY <2>1 DEF IInv, ChainAlive
  <2>3. stopped' \/ ChainOutstanding(c)' # {} \/ ChainQueued(c)' # {}
    BY <1>1, <1>9, <2>2
  <2> QED
    BY <2>1, <2>3 DEF ChainAlive, ChainOutstanding, ChainQueued
<1> QED
  BY <1>5, <1>8, <1>10, <1>11 DEF IInv

LEMMA ExpireStep ==
    ASSUME IInv, NEW w \in armed, Expire(w)
    PROVE  IInv'
<1> DEFINE h    == Handler(w, "ok")
           last == Len(ready) + 1
<1>1. /\ armed' = armed \ {w} /\ ready' = Append(ready, h)
      /\ UNCHANGED <<stopped, retry_count, outstanding, attempt>>
  BY DEF Expire
<1>2. TypeOK /\ ready \in Seq(Handlers) /\ w \in Waits
  BY DEF IInv, TypeOK
<1>3. /\ h \in Handlers /\ h.op = w.op /\ h.ec = "ok"
      /\ w.op \in Timers /\ w.op \notin ChainOps
  BY <1>2 DEF Handler, Handlers, Waits, Timers, ChainOps
<1> HIDE DEF h
<1>4. /\ ready' \in Seq(Handlers)
      /\ DOMAIN ready' = DOMAIN ready \cup {last} /\ last \notin DOMAIN ready
      /\ ready'[last] = h
      /\ \A i \in DOMAIN ready : ready'[i] = ready[i]
  BY <1>1, <1>2, <1>3, QueueAppend
<1> HIDE DEF last
<1>5. TypeOK'
  BY <1>1, <1>2, <1>4 DEF TypeOK
<1>6. \A a \in Nat : /\ ChainQueued(a)' = ChainQueued(a)
                     /\ ChainOutstanding(a)' = ChainOutstanding(a)
  BY <1>1, <1>3, <1>4 DEF ChainQueued, ChainOutstanding
<1>7. Chains'
  BY <1>1, <1>6 DEF IInv, Chains, ChainSingle, Unstarted
<1>8. ChainAlive'
  <2>1. PICK c \in Nat : c = attempt /\ c = attempt'
    BY <1>1, <1>2 DEF TypeOK
  <2> QED
    BY <1>1, <1>6, <2>1 DEF IInv, ChainAlive, ChainOutstanding, ChainQueued
<1>9. IF w.op = "reconnect"
      THEN /\ Queued("reconnect", "ok")' = Queued("reconnect", "ok") \cup {last}
           /\ Armed("reconnect")
      ELSE Queued("reconnect", "ok")' = Queued("reconnect", "ok")
  BY <1>3, <1>4 DEF Queued, Armed
<1>10. Armed("reconnect")' => Armed("reconnect")
  BY <1>1 DEF Armed
<1>11. Reconnecting' => Reconnecting
  BY <1>9, <1>10 DEF Reconnecting
<1>12. OneWait' /\ (w.op = "reconnect" => ~ Armed("reconnect")')
  <2>1. \A x \in armed : x.op = "reconnect" => x.attempt = attempt
    BY DEF IInv, OneWait
  <2>2. \A x, y \in Waits : x.op = y.op /\ x.attempt = y.attempt => x = y
    BY DEF Waits
  <2> QED
    BY <1>1, <1>2, <2>1, <2>2 DEF OneWait, Armed, TypeOK
<1>13. Budget'
  BY <1>1, <1>11 DEF IInv, Budget
<1>14. ReconnectExclusive'
  BY <1>1, <1>9, <1>10, <1>11, <1>12 DEF IInv, ReconnectExclusive
<1> QED
  BY <1>1, <1>5, <1>7, <1>8, <1>12, <1>13, <1>14 DEF IInv

LEMMA StutterStep ==
    ASSUME IInv, UNCHANGED vars
    PROVE  IInv'
BY DEF vars, IInv, TypeOK, Budget, OneWait, ReconnectExclusive, Reconnecting, Armed, Queued,
       Chains, ChainSingle, Unstarted, ChainAlive, ChainOutstanding, ChainQueued

-----------------------------------------------------------------------------
(* Theorems *)

\* No completion, timeout or queued handler breaks the invariant.
THEOREM NextIInv == IInv /\ [Next]_vars => IInv'
<1> SUFFICES ASSUME IInv, [Next]_vars PROVE IInv'
  OBVIOUS
<1>1. CASE RunHandler
  <2>1. FailRun \/ ContinueRun \/ PingRun \/ ConnectRun \/ StartRun
    BY <1>1, RunCases DEF IInv
  <2> QED
    BY <2>1, FailStep, ContinueStep, PingStep, ConnectStep, StartStep
<1>2. ASSUME NEW o \in outstanding, NEW ec \in Outcomes(o.op), Complete(o, ec)
      PROVE  IInv'
  BY <1>2, CompleteStep
<1>3. ASSUME NEW w \in armed, Expire(w)
      PROVE  IInv'
  BY <1>3, ExpireStep
<1>4. CASE UNCHANGED vars
  BY <1>4, StutterStep
<1> QED
  BY <1>1, <1>2, <1>3, <1>4 DEF Next

\* The inductive invariant holds in every reachable state
\* (market_connector.cpp:41-324).
THEOREM SpecIInv == Spec => []IInv
BY InitIInv, NextIInv, PTL DEF Spec

\* The state has its type and the retry counter never passes MAX_RETRY + 1
\* (market_connector.cpp:105-111).
THEOREM TypeCorrect == Spec => []TypeOK
<1>1. IInv => TypeOK
  BY DEF IInv
<1> QED
  BY <1>1, SpecIInv, PTL

\* start() runs at most once for each counted retry, and at most MAX_RETRY
\* times after the first (market_connector.cpp:107-131).
THEOREM RetriesBounded == Spec => []RetryBudget
<1>1. IInv => RetryBudget
  BY DEF IInv, Budget, RetryBudget
<1> QED
  BY <1>1, SpecIInv, PTL

\* However many operations of however many attempts fail, one reconnection is
\* under way at most, and only while stopped_ is set
\* (market_connector.cpp:68-77, 118-131).
THEOREM OneReconnection == Spec => []ReconnectExclusive
<1>1. IInv => ReconnectExclusive
  BY DEF IInv
<1> QED
  BY <1>1, SpecIInv, PTL

\* A connector that is not stopped always has the next operation of its
\* current attempt on the way (market_connector.cpp:135-254).
THEOREM NeverIdle == Spec => []ChainAlive
<1>1. IInv => ChainAlive
  BY DEF IInv
<1> QED
  BY <1>1, SpecIInv, PTL

\* No attempt, current or earlier, ever has two operations on the way
\* (market_connector.cpp:135-254).
THEOREM NoFork == Spec => []ChainExclusive
<1>1. IInv => ChainExclusive
  BY DEF IInv, TypeOK, Chains, ChainSingle, ChainExclusive
<1> QED
  BY <1>1, SpecIInv, PTL

=============================================================================
