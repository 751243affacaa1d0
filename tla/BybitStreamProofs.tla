--------------------------- MODULE BybitStreamProofs ---------------------------
(***************************************************************************)
(* Proofs about BybitStream, for every set of prices, quantities and       *)
(* changes and every retry budget: the local book with the frames on their *)
(* way is the book of the venue unless a frame was lost, and that is never *)
(* so in a connection that could go on unnoticed.                          *)
(***************************************************************************)
EXTENDS BybitStream, HeartbeatProofs, OrderBookProofs

-----------------------------------------------------------------------------
(* Frames read one after the other *)

\* FoldLeft is a recursive function on the sets of positions; FoldExists says
\* that there is one, which its definition by CHOOSE does not.
LEMMA FoldIsIter ==
    ASSUME NEW b \in Book, NEW s \in Seq(Message)
    PROVE  \E iter :
      /\ iter = [T \in SUBSET (DOMAIN s) |->
              IF T = {} THEN b ELSE ParseBybit(iter[T \ {Max(T)}], s[Max(T)])]
      /\ FoldLeft(ParseBybit, b, s) = iter[DOMAIN s]
<1> DEFINE S == DOMAIN s
           Eqn(f) == f = [T \in SUBSET S |->
              IF T = {} THEN b ELSE ParseBybit(f[T \ {Max(T)}], s[Max(T)])]
           iter == CHOOSE f : Eqn(f)
<1>1. FoldLeft(ParseBybit, b, s) = iter[DOMAIN s]
  BY DEF FoldLeft, MapThenFoldSet
<1>2. \E f : Eqn(f)
  <2> DEFINE pick == [T \in SUBSET S |-> Max(T)]
             step == [i \in S |-> [y \in Book |-> ParseBybit(y, s[i])]]
  <2>1. IsFiniteSet(S) /\ S \in SUBSET Int
    <3>1. S = 1 .. Len(s) /\ Len(s) \in Nat
      OBVIOUS
    <3> QED
      BY <3>1, FS_Interval
  <2>2. ASSUME NEW T \in SUBSET S, T # {} PROVE Max(T) \in T
    BY <2>1, <2>2, FS_Subset, MaxFacts
  <2>3. \A T \in SUBSET S : T # {} => pick[T] \in T
    BY <2>2
  <2>4. step \in [S -> [Book -> Book]]
    <3>1. \A i \in S : s[i] \in Message
      OBVIOUS
    <3> QED
      BY <3>1, ParseBybitType
  <2>5. PICK g : FoldOf(S, Book, b, pick, step, g)
    <3>1. FoldArgs(S, Book, b, pick, step)
      BY <2>1, <2>3, <2>4 DEF FoldArgs
    <3> HIDE DEF S, pick, step
    <3> QED
      BY <3>1, FoldExists
  <2>6. ASSUME NEW T \in SUBSET S, T # {}
        PROVE  g[T] = ParseBybit(g[T \ {Max(T)}], s[Max(T)])
    <3>1. pick[T] = Max(T) /\ Max(T) \in S
      BY <2>2, <2>6
    <3>2. g[T \ {Max(T)}] \in Book
      BY <2>5 DEF FoldOf
    <3>3. g[T] = step[pick[T]][g[T \ {pick[T]}]]
      BY <2>5, <2>6 DEF FoldOf
    <3> QED
      BY <3>1, <3>2, <3>3
  <2>7. Eqn(g)
    BY <2>5, <2>6 DEF FoldOf
  <2> QED
    BY <2>7
<1>3. Eqn(iter)
  <2> HIDE DEF Eqn
  <2> QED
  BY <1>2
<1> QED
  BY <1>1, <1>3

\* P[k] is what the first k frames of s make of the book b.
Reads(b, s, P) ==
    /\ P \in [0 .. Len(s) -> Book]
    /\ P[0] = b
    /\ \A k \in 1 .. Len(s) : P[k] = ParseBybit(P[k - 1], s[k])

LEMMA FoldReads ==
    ASSUME NEW b \in Book, NEW s \in Seq(Message)
    PROVE  \E P : Reads(b, s, P) /\ FoldLeft(ParseBybit, b, s) = P[Len(s)]
<1> DEFINE n == Len(s)
<1>1. PICK iter :
      /\ iter = [T \in SUBSET (DOMAIN s) |->
              IF T = {} THEN b ELSE ParseBybit(iter[T \ {Max(T)}], s[Max(T)])]
      /\ FoldLeft(ParseBybit, b, s) = iter[DOMAIN s]
  BY FoldIsIter
<1>2. DOMAIN s = 1 .. n /\ n \in Nat /\ \A k \in 1 .. n : s[k] \in Message
  OBVIOUS
<1> HIDE DEF n
<1> DEFINE P == [k \in 0 .. n |-> iter[1 .. k]]
<1>3. P[0] = b
  <2>1. 1 .. 0 = {} /\ 0 \in 0 .. n /\ {} \in SUBSET (DOMAIN s)
    BY <1>2
  <2> QED
    BY <1>1, <2>1
<1>4. ASSUME NEW k \in 1 .. n
      PROVE  P[k] = ParseBybit(P[k - 1], s[k])
  <2>1. /\ k \in 1 .. k /\ 1 .. k \in SUBSET Int /\ \A y \in 1 .. k : k >= y
        /\ 1 .. k \in SUBSET (1 .. n) /\ (1 .. k) \ {k} = 1 .. k - 1
        /\ k \in 0 .. n /\ k - 1 \in 0 .. n
    BY <1>2
  <2>2. Max(1 .. k) = k
    BY <2>1, MaxIs
  <2>3. iter[1 .. k] = ParseBybit(iter[(1 .. k) \ {k}], s[k])
    BY <1>1, <1>2, <2>1, <2>2
  <2> QED
    BY <2>1, <2>3
<1>5. \A k \in 0 .. n : P[k] \in Book
  <2> DEFINE T == {k \in 0 .. n : P[k] \in Book}
  <2> HIDE DEF P
  <2>1. 0 \in T
    BY <1>2, <1>3
  <2>2. ASSUME NEW k \in 0 .. n - 1, k \in T PROVE k + 1 \in T
    <3>1. k + 1 \in 1 .. n /\ k + 1 \in 0 .. n /\ (k + 1) - 1 = k
      BY <1>2
    <3>2. P[k + 1] = ParseBybit(P[k], s[k + 1])
      BY <1>4, <3>1
    <3> QED
      BY <1>2, <2>2, <3>1, <3>2, ParseBybitType
  <2> HIDE DEF T
  <2>3. \A k \in 0 .. n : k \in T
    BY <1>2, <2>1, <2>2, IntervalInduction
  <2> QED
    BY <2>3 DEF T
<1>6. n \in 0 .. n /\ P[n] = iter[1 .. n]
  BY <1>2
<1>7. P \in [0 .. n -> Book]
  BY <1>5
<1> HIDE DEF P
<1> QED
  BY <1>1, <1>2, <1>3, <1>4, <1>6, <1>7 DEF Reads, n

\* Whatever describes the reading frame by frame gives the fold.
LEMMA ReadsUnique ==
    ASSUME NEW b \in Book, NEW s \in Seq(Message), NEW P, Reads(b, s, P)
    PROVE  FoldLeft(ParseBybit, b, s) = P[Len(s)] /\ P[Len(s)] \in Book
<1> DEFINE n == Len(s)
<1>1. PICK Q : Reads(b, s, Q) /\ FoldLeft(ParseBybit, b, s) = Q[n]
  BY FoldReads
<1>2. n \in Nat
  OBVIOUS
<1> DEFINE T == {k \in 0 .. n : P[k] = Q[k]}
<1>3. 0 \in T
  BY <1>1, <1>2 DEF Reads
<1>4. ASSUME NEW k \in 0 .. n - 1, k \in T PROVE k + 1 \in T
  <2>1. k + 1 \in 1 .. n /\ k + 1 \in 0 .. n /\ (k + 1) - 1 = k
    BY <1>2
  <2> HIDE DEF n
  <2>2. /\ P[k + 1] = ParseBybit(P[k], s[k + 1])
        /\ Q[k + 1] = ParseBybit(Q[k], s[k + 1])
    BY <1>1, <2>1 DEF Reads, n
  <2> QED
    BY <1>4, <2>1, <2>2
<1> HIDE DEF T, n
<1>5. n \in T
  <2>1. n \in 0 .. n
    BY <1>2
  <2> QED
    BY <1>2, <1>3, <1>4, <2>1, IntervalInduction
<1>6. P[n] = Q[n] /\ P[n] \in Book
  BY <1>5 DEF T, Reads, n
<1> QED
  BY <1>1, <1>6 DEF n

LEMMA FoldType ==
    ASSUME NEW b \in Book, NEW s \in Seq(Message)
    PROVE  FoldLeft(ParseBybit, b, s) \in Book
BY FoldReads, ReadsUnique

LEMMA FoldAppend ==
    ASSUME NEW b \in Book, NEW s \in Seq(Message), NEW m \in Message
    PROVE  FoldLeft(ParseBybit, b, Append(s, m)) =
              ParseBybit(FoldLeft(ParseBybit, b, s), m)
<1> DEFINE n == Len(s)
           t == Append(s, m)
<1>1. PICK P : Reads(b, s, P)
  BY FoldReads
<1>2. FoldLeft(ParseBybit, b, s) = P[n] /\ P[n] \in Book
  BY <1>1, ReadsUnique
<1>3. /\ n \in Nat /\ t \in Seq(Message) /\ Len(t) = n + 1 /\ t[n + 1] = m
      /\ \A k \in 1 .. n : t[k] = s[k]
  OBVIOUS
<1> DEFINE Q == [k \in 0 .. n + 1 |-> IF k = n + 1 THEN ParseBybit(P[n], m) ELSE P[k]]
<1>4. Reads(b, t, Q)
  <2> HIDE DEF t
  <2>1. P \in [0 .. n -> Book] /\ P[0] = b
    BY <1>1 DEF Reads
  <2>2. \A k \in 1 .. n : P[k] = ParseBybit(P[k - 1], s[k])
    BY <1>1 DEF Reads
  <2> HIDE DEF n
  <2>3. \A k \in 0 .. n + 1 : Q[k] \in Book
    BY <1>2, <1>3, <2>1, ParseBybitType
  <2>4. ASSUME NEW k \in 1 .. n + 1 PROVE Q[k] = ParseBybit(Q[k - 1], t[k])
    <3>1. k \in 0 .. n + 1 /\ k - 1 \in 0 .. n + 1 /\ k - 1 # n + 1
      BY <1>3
    <3>2. CASE k = n + 1
      <4>1. Q[k] = ParseBybit(P[n], m) /\ Q[k - 1] = P[k - 1] /\ k - 1 = n
        BY <1>3, <3>1, <3>2
      <4> QED
        BY <1>3, <3>2, <4>1
    <3>3. CASE k # n + 1
      <4>1. k \in 1 .. n /\ Q[k] = P[k] /\ Q[k - 1] = P[k - 1]
        BY <1>3, <3>1, <3>3
      <4> HIDE DEF Q
      <4> QED
        BY <1>3, <2>2, <4>1
    <3> QED
      BY <3>2, <3>3
  <2>5. Q[0] = b /\ Q \in [0 .. n + 1 -> Book]
    BY <1>3, <2>1, <2>3
  <2> HIDE DEF Q
  <2> QED
    BY <1>3, <2>4, <2>5 DEF Reads
<1>5. FoldLeft(ParseBybit, b, t) = Q[n + 1]
  <2> HIDE DEF t, Q
  <2> QED
    BY <1>3, <1>4, ReadsUnique
<1>6. Q[n + 1] = ParseBybit(P[n], m)
  BY <1>3
<1> QED
  BY <1>2, <1>5, <1>6

LEMMA FoldCons ==
    ASSUME NEW b \in Book, NEW s \in Seq(Message), NEW m \in Message
    PROVE  FoldLeft(ParseBybit, b, <<m>> \o s) =
              FoldLeft(ParseBybit, ParseBybit(b, m), s)
<1> DEFINE n == Len(s)
           t == <<m>> \o s
           c == ParseBybit(b, m)
<1>1. c \in Book
  BY ParseBybitType
<1>2. PICK P : Reads(c, s, P)
  BY <1>1, FoldReads
<1>3. FoldLeft(ParseBybit, c, s) = P[n]
  BY <1>1, <1>2, ReadsUnique
<1>4. /\ n \in Nat /\ t \in Seq(Message) /\ Len(t) = n + 1 /\ t[1] = m
      /\ \A k \in 2 .. n + 1 : t[k] = s[k - 1]
  OBVIOUS
<1> DEFINE Q == [k \in 0 .. n + 1 |-> IF k = 0 THEN b ELSE P[k - 1]]
<1>5. Reads(b, t, Q)
  <2>1. P \in [0 .. n -> Book] /\ P[0] = c
    BY <1>2 DEF Reads
  <2>2. \A k \in 1 .. n : P[k] = ParseBybit(P[k - 1], s[k])
    BY <1>2 DEF Reads
  <2> HIDE DEF n, t
  <2>3. \A k \in 0 .. n + 1 : Q[k] \in Book
    BY <1>4, <2>1
  <2>4. ASSUME NEW k \in 1 .. n + 1 PROVE Q[k] = ParseBybit(Q[k - 1], t[k])
    <3>1. k \in 0 .. n + 1 /\ k - 1 \in 0 .. n + 1 /\ Q[k] = P[k - 1]
      BY <1>4
    <3>2. CASE k = 1
      <4>1. Q[k - 1] = b /\ Q[k] = P[0]
        BY <1>4, <3>1, <3>2
      <4> QED
        BY <1>4, <2>1, <3>2, <4>1 DEF c
    <3>3. CASE k # 1
      <4>1. k - 1 \in 1 .. n /\ Q[k - 1] = P[(k - 1) - 1] /\ k \in 2 .. n + 1
        BY <1>4, <3>1, <3>3
      <4> HIDE DEF Q
      <4> QED
        BY <1>4, <2>2, <3>1, <4>1
    <3> QED
      BY <3>2, <3>3
  <2>5. Q[0] = b /\ Q \in [0 .. n + 1 -> Book]
    BY <1>4, <2>3
  <2> HIDE DEF Q
  <2> QED
    BY <1>4, <2>4, <2>5 DEF Reads
<1>6. FoldLeft(ParseBybit, b, t) = Q[n + 1]
  <2> HIDE DEF t, Q
  <2> QED
    BY <1>4, <1>5, ReadsUnique
<1>7. Q[n + 1] = P[n]
  BY <1>4
<1> QED
  BY <1>3, <1>6, <1>7

\* The fold as one operator, with what the steps need of it.
ReadAll(b, s) == FoldLeft(ParseBybit, b, s)

LEMMA EmptyFrames == << >> \in Seq(Message)
OBVIOUS

LEMMA ReadNone ==
    ASSUME NEW b \in Book
    PROVE  ReadAll(b, << >>) = b
<1>1. PICK P : Reads(b, << >>, P)
  BY EmptyFrames, FoldReads
<1>2. P[0] = b /\ Len(<< >>) = 0
  BY <1>1 DEF Reads
<1> QED
  BY <1>1, <1>2, EmptyFrames, ReadsUnique DEF ReadAll

LEMMA ReadType ==
    ASSUME NEW b \in Book, NEW s \in Seq(Message)
    PROVE  ReadAll(b, s) \in Book
BY FoldType DEF ReadAll

LEMMA ReadAppend ==
    ASSUME NEW b \in Book, NEW s \in Seq(Message), NEW m \in Message
    PROVE  ReadAll(b, Append(s, m)) = ParseBybit(ReadAll(b, s), m)
BY FoldAppend DEF ReadAll

LEMMA ReadCons ==
    ASSUME NEW b \in Book, NEW s \in Seq(Message), NEW m \in Message
    PROVE  ReadAll(b, <<m>> \o s) = ReadAll(ParseBybit(b, m), s)
BY FoldCons DEF ReadAll

-----------------------------------------------------------------------------
(* The inductive invariant *)

\* The connector runs, and only its current attempt has operations on the way.
Alone == ~ stopped /\ \A x \in Pending : x.op \in ChainOps => x.attempt = attempt

\* A handler of on_read is queued that will take a frame.
FrameReady == \E h \in Range(ready) : h.op = "read" /\ h.ec = "ok"

\* No level of the venue has quantity 0, so that its snapshot names them all.
NoEmptyLevel(book) ==
    /\ \A p \in DOMAIN book.bids : book.bids[p] > 0
    /\ \A p \in DOMAIN book.asks : book.asks[p] > 0

OneFrame == Alone => Len(buffer) = IF FrameReady THEN 1 ELSE 0

Tracks == subscriber # 0 /\ ~ lost => ReadAll(local_book, buffer \o wire) = venue

Noticed == subscriber = attempt /\ lost => ~ Alone

SInv ==
    /\ StreamTypeOK
    /\ NoEmptyLevel(venue)
    /\ OneFrame
    /\ Tracks
    /\ Noticed

-----------------------------------------------------------------------------
(* The connector inside *)

LEMMA StepInside ==
    ASSUME [StreamNext]_allVars
    PROVE  [Next]_vars
<1>1. CASE ConnectionReplaced
  BY <1>1 DEF ConnectionReplaced, Next, RunHandler
<1>2. CASE FrameHandled
  BY <1>2 DEF FrameHandled, Next, RunHandler
<1>3. CASE OtherHandler
  BY <1>3 DEF OtherHandler, Next
<1>4. ASSUME NEW o \in outstanding, SubscriptionCompletes(o) \/ ReadCompletes(o)
      PROVE  Next
  <2>1. Complete(o, "ok") /\ "ok" \in Outcomes(o.op)
    BY <1>4 DEF SubscriptionCompletes, ReadCompletes, Outcomes
  <2> QED
    BY <2>1 DEF Next
<1>5. ASSUME NEW o \in outstanding, NEW ec \in Outcomes(o.op), OtherCompletes(o, ec)
      PROVE  Next
  BY <1>5 DEF OtherCompletes, Next
<1>6. ASSUME NEW w \in armed, TimerExpires(w)
      PROVE  Next
  BY <1>6 DEF TimerExpires, Next
<1>7. ASSUME NEW ch \in Changes, VenueChanges(ch)
      PROVE  UNCHANGED vars
  BY <1>7 DEF VenueChanges
<1>8. CASE UNCHANGED allVars
  BY <1>8 DEF allVars
<1> QED
  BY <1>1, <1>2, <1>3, <1>4, <1>5, <1>6, <1>7, <1>8 DEF StreamNext, HandlerStep

\* The frames, the buffer and the book do not disturb the connector: whatever
\* is proved of Connector holds of the connector of Bybit
\* (bybit_connector.cpp:7-93 overrides parse_message only).
LEMMA ConnectorInside == StreamSpec => Spec
<1>1. StreamInit => Init
  BY DEF StreamInit
<1> QED
  BY <1>1, StepInside, PTL DEF StreamSpec, Spec

\* An earlier attempt that is alive stays alive until the connector stops, and a
\* stopped connector runs again only in a new attempt.
LEMMA AloneBefore ==
    ASSUME IInv, TInv, [Next]_vars, Alone', attempt' = attempt
    PROVE  Alone
<1> USE DEF Alone
<1>1. TypeOK /\ IsFiniteSet(outstanding) /\ attempt \in Nat
  BY DEF IInv, TypeOK
<1>2. CASE RunHandler
  <2>1. CASE FailRun
    BY <2>1 DEF FailRun
  <2>2. CASE ContinueRun
    <3>1. PICK op \in ChainOps : Issue(op, Event.attempt)
      BY <2>2 DEF ContinueRun
    <3>2. [op |-> op, attempt |-> Event.attempt] \in Pending' /\ outstanding \subseteq outstanding'
      BY <3>1 DEF Issue, Pending
    <3>3. Event.attempt = attempt
      BY <3>1, <3>2
    <3>4. \A x \in Pending : x \in Pending' \/ x = Event
      BY <1>1, <2>2, <3>2, PendingKept DEF ContinueRun
    <3> QED
      BY <2>2, <3>3, <3>4 DEF ContinueRun
  <2>3. CASE PingRun
    <3>1. outstanding \subseteq outstanding'
      BY <2>3 DEF PingRun, Issue
    <3>2. \A x \in Pending : x \in Pending' \/ x = Event
      BY <1>1, <2>3, <3>1, PendingKept DEF PingRun
    <3> QED
      BY <2>3, <3>2 DEF PingRun, ChainOps
  <2>4. CASE ConnectRun
    <3>1. /\ \A x \in Pending : x # Event =>
               \E y \in Pending' : y.op = x.op /\ y.attempt = x.attempt
          /\ \E y \in Pending' : y.op = "connect" /\ y.attempt = Event.attempt
      BY <1>1, <2>4, ConnectPending
    <3>2. Event.attempt = attempt /\ ~ stopped
      BY <2>4, <3>1 DEF ConnectRun, ChainOps
    <3> QED
      BY <3>1, <3>2
  <2>5. CASE StartRun
    BY <1>1, <2>5 DEF StartRun, OnReconnectTimer, Start
  <2> QED
    BY <1>1, <1>2, <2>1, <2>2, <2>3, <2>4, <2>5, RunCases
<1>3. ASSUME NEW o \in outstanding, NEW ec \in Outcomes(o.op), Complete(o, ec)
      PROVE  Alone
  <2> DEFINE h == Handler(o, ec)
  <2>1. /\ outstanding' = outstanding \ {o} /\ ready' = Append(ready, h)
        /\ UNCHANGED <<stopped, attempt>>
    BY <1>3 DEF Complete
  <2>2. ready \in Seq(Handlers) /\ h \in Handlers /\ h.op = o.op /\ h.attempt = o.attempt
    BY <1>1 DEF TypeOK, Handler, Handlers, Operations, Outcomes, Errors
  <2> HIDE DEF h
  <2>3. Range(ready)' = Range(ready) \cup {h}
    BY <2>1, <2>2, QueueAppend DEF Range
  <2>4. \A x \in Pending : \E y \in Pending' : y.op = x.op /\ y.attempt = x.attempt
    BY <2>1, <2>2, <2>3 DEF Pending
  <2> QED
    BY <2>1, <2>4
<1>4. ASSUME NEW w \in armed, Expire(w)
      PROVE  Alone
  <2> DEFINE h == Handler(w, "ok")
  <2>1. /\ ready' = Append(ready, h) /\ UNCHANGED <<stopped, outstanding, attempt>>
    BY <1>4 DEF Expire
  <2>2. ready \in Seq(Handlers) /\ h \in Handlers
    BY <1>1 DEF TypeOK, Handler, Handlers, Waits, Errors
  <2> HIDE DEF h
  <2>3. Range(ready)' = Range(ready) \cup {h}
    BY <2>1, <2>2, QueueAppend DEF Range
  <2> QED
    BY <2>1, <2>3 DEF Pending
<1>5. CASE UNCHANGED vars
  BY <1>5 DEF vars, Pending, Range
<1> QED
  BY <1>2, <1>3, <1>4, <1>5 DEF Next

\* A new attempt begins alone with nothing read, and is not served yet.
LEMMA NewAttempt ==
    ASSUME IInv, TInv, [Next]_vars, attempt' # attempt
    PROVE  attempt' = attempt + 1 /\ (Alone' => ~ FrameReady')
<1>1. StartRun
  <2>1. RunHandler
    BY DEF Next, vars, Complete, Expire
  <2> QED
    BY <2>1, RunCases DEF IInv, FailRun, ContinueRun, PingRun, ConnectRun
<1>2. /\ ready # << >> /\ attempt' = attempt + 1
      /\ ready' = Tail(ready) \o Cancelled(armed)
  BY <1>1 DEF StartRun, OnReconnectTimer, Start, Runs
<1>3. TypeOK /\ QuietRun /\ attempt \in Nat
  BY <1>2, CancelQuiet DEF IInv, TypeOK
<1>4. \A h \in Range(ready)' : h.op = "read" => h \in Pending
  BY <1>3, QuietRange DEF QuietHandlers, Pending
<1>5. \A x \in Pending : x.op = "read" => x.attempt <= attempt
  BY <1>3 DEF TInv, Started, ChainOps
<1>6. \A h \in Range(ready)' : h.op = "read" => h.attempt # attempt'
  BY <1>2, <1>3, <1>4, <1>5
<1> QED
  BY <1>2, <1>6 DEF Alone, FrameReady, Pending, ChainOps

\* A handler other than that of a frame leaves those of frames as they are.
LEMMA FrameReadyKept ==
    ASSUME IInv, RunHandler, Event.op # "read" \/ Event.ec # "ok"
    PROVE  FrameReady' <=> FrameReady
<1>1. TypeOK /\ IsFiniteSet(outstanding)
  BY DEF IInv
<1>2. CASE QuietRun
  BY <1>1, <1>2, QuietRange DEF FrameReady, QuietHandlers
<1>3. CASE ConnectRun
  BY <1>1, <1>3, ConnectPending DEF FrameReady
<1>4. CASE StartRun
  <2>1. ready # << >> /\ ready' = Tail(ready) \o Cancelled(armed)
    BY <1>4 DEF StartRun, OnReconnectTimer, Start, Runs
  <2>2. QuietRun
    BY <1>1, <2>1, CancelQuiet DEF TypeOK
  <2> QED
    BY <1>2, <2>2
<1> QED
  BY <1>1, <1>2, <1>3, <1>4, RunCases DEF FailRun, ContinueRun, PingRun

\* An attempt that is alone has one operation on the way: a read that completes
\* finds no other queued, ...
LEMMA ReadOutstandingAlone ==
    ASSUME IInv, Alone, NEW o \in outstanding, o.op = "read"
    PROVE  ~ FrameReady /\ o.attempt = attempt
<1>1. PICK c \in Nat : c = attempt
  BY DEF IInv, TypeOK
<1>2. o \in ChainOutstanding(c)
  BY <1>1 DEF Alone, Pending, ChainOutstanding, ChainOps
<1>3. ChainQueued(c) = {}
  BY <1>1, <1>2 DEF IInv, Chains, ChainSingle
<1>4. \A i \in DOMAIN ready : ready[i].op # "read"
  <2> SUFFICES ASSUME NEW i \in DOMAIN ready, ready[i].op = "read" PROVE FALSE
    OBVIOUS
  <2>1. ready[i].attempt = c
    BY <1>1 DEF Alone, Pending, Range, ChainOps
  <2> QED
    BY <1>3, <2>1 DEF ChainQueued, ChainOps
<1> QED
  BY <1>1, <1>2, <1>4 DEF FrameReady, Range, ChainOutstanding

\* ... and one that is handled leaves none.
LEMMA FrameTaken ==
    ASSUME IInv, TInv, OnRead, Event.ec = "ok", Alone'
    PROVE  FrameReady /\ ~ FrameReady' /\ attempt' = attempt
<1>1. /\ ready # << >> /\ Event.op = "read" /\ ready' = Tail(ready)
      /\ Issue("read", Event.attempt) /\ UNCHANGED <<stopped, attempt>>
  BY DEF OnRead, FailsIn, Runs, Continue, Event
<1>2. TypeOK /\ QuietRun
  BY <1>1, PopQuiet DEF IInv
<1>3. PICK b \in Nat : b = Event.attempt
  BY <1>1, EventType DEF IInv, Handlers
<1>4. ChainQueued(b)' = {}
  BY <1>1, <1>2, <1>3, ContinuedChain DEF ChainOps
<1>5. b = attempt'
  <2>1. [op |-> "read", attempt |-> b] \in Pending'
    BY <1>1, <1>3 DEF Issue, Pending
  <2> QED
    BY <2>1 DEF Alone, ChainOps
<1>6. \A i \in DOMAIN ready' : ready'[i].op # "read"
  <2> SUFFICES ASSUME NEW i \in DOMAIN ready', ready'[i].op = "read" PROVE FALSE
    OBVIOUS
  <2>1. ready'[i].attempt = b
    BY <1>5 DEF Alone, Pending, Range, ChainOps
  <2> QED
    BY <1>4, <2>1 DEF ChainQueued, ChainOps
<1>7. Event \in Range(ready)
  BY <1>2, QuietRange
<1> QED
  BY <1>1, <1>6, <1>7 DEF FrameReady, Range

-----------------------------------------------------------------------------
(* What the venue sends *)

LEMMA OneLevelType ==
    ASSUME NEW side, NEW ch \in Changes
    PROVE  OneLevel(side, ch) \in Side
<1>1. ch.price \in Price /\ ch.quantity \in Quantity
  BY StreamAssumption
<1>2. [p \in {ch.price} |-> ch.quantity] \in Side
  BY <1>1, SideIntro
<1> QED
  BY <1>2, EmptyBookType DEF OneLevel, EmptyBook, Book

LEMMA MessageTypes ==
    /\ \A book \in Book : Snapshot(book) \in Message
    /\ \A ch \in Changes : Delta(ch) \in Message
    /\ NoFrame \in Message
BY OneLevelType, EmptyBookType
   DEF Snapshot, Delta, NoFrame, Message, Book, EmptyBook

LEMMA PositiveOfPositive ==
    ASSUME NEW side \in Side, \A p \in DOMAIN side : side[p] > 0
    PROVE  Positive(side) = side
<1>1. {p \in DOMAIN side : side[p] > 0} = DOMAIN side
  OBVIOUS
<1>2. side = [p \in DOMAIN side |-> side[p]]
  BY DEF Side
<1> QED
  BY <1>1, <1>2 DEF Positive

\* A snapshot makes any local book that of the venue.
LEMMA SnapshotRead ==
    ASSUME NEW book \in Book, NEW b \in Book, NoEmptyLevel(b)
    PROVE  ParseBybit(book, Snapshot(b)) = b
<1>1. b.bids \in Side /\ b.asks \in Side /\ b = [bids |-> b.bids, asks |-> b.asks]
  BY DEF Book
<1>2. Positive(b.bids) = b.bids /\ Positive(b.asks) = b.asks
  BY <1>1, PositiveOfPositive DEF NoEmptyLevel
<1>3. /\ Snapshot(b).kind = "snapshot" /\ Snapshot(b).bad = "none"
      /\ Snapshot(b).bids = b.bids /\ Snapshot(b).asks = b.asks
  BY DEF Snapshot
<1>4. Replaced(Snapshot(b)) = b
  BY <1>1, <1>3 DEF Replaced
<1>5. BybitSnapshot(Snapshot(b)) = b
  BY <1>1, <1>2, <1>4 DEF BybitSnapshot
<1> QED
  BY <1>3, <1>5 DEF ParseBybit

\* The side of the venue that a change sets.
NewSide(side, ch) ==
    LET prices == IF ch.quantity = 0 THEN DOMAIN side \ {ch.price}
                  ELSE DOMAIN side \cup {ch.price}
    IN  [p \in prices |-> IF p = ch.price THEN ch.quantity ELSE side[p]]

LEMMA NewSideFacts ==
    ASSUME NEW side \in Side, NEW ch \in Changes, \A p \in DOMAIN side : side[p] > 0
    PROVE  /\ NewSide(side, ch) \in Side
           /\ \A p \in DOMAIN NewSide(side, ch) : NewSide(side, ch)[p] > 0
           /\ Overlaid(side, [p \in {ch.price} |-> ch.quantity]) = NewSide(side, ch)
           /\ Overlaid(side, EmptySide) = side
<1> DEFINE price == ch.price
           qty   == ch.quantity
           prices == IF qty = 0 THEN DOMAIN side \ {price} ELSE DOMAIN side \cup {price}
           new    == [p \in prices |-> IF p = price THEN qty ELSE side[p]]
           levels == [p \in {price} |-> qty]
<1>1. price \in Price /\ qty \in Quantity /\ Quantity \subseteq Nat
  BY StreamAssumption, BookAssumption
<1>2. /\ DOMAIN side \in SUBSET Price /\ side \in [DOMAIN side -> Quantity]
  BY SideElim
<1>3. NewSide(side, ch) = new
  BY DEF NewSide
<1> HIDE DEF price, qty
<1>4. prices \in SUBSET Price /\ new \in [prices -> Quantity]
  BY <1>1, <1>2
<1>5. new \in Side
  <2> HIDE DEF prices, new
  <2> QED
    BY <1>4, SideIntro
<1>6. \A p \in DOMAIN new : new[p] > 0
  <2> SUFFICES ASSUME NEW p \in prices PROVE new[p] > 0
    OBVIOUS
  <2>1. new[p] = IF p = price THEN qty ELSE side[p]
    OBVIOUS
  <2>2. CASE p = price
    <3>1. qty # 0
      BY <2>2
    <3>2. qty \in Nat
      BY <1>1
    <3>3. new[p] = qty
      BY <2>1, <2>2
    <3> HIDE DEF new
    <3> QED
      BY <3>1, <3>2, <3>3
  <2>3. CASE p # price
    BY <2>1, <2>3
  <2> QED
    BY <2>2, <2>3
<1>7. Overlaid(side, levels) = new
  <2>1. {p \in DOMAIN levels : levels[p] = 0} = IF qty = 0 THEN {price} ELSE {}
    <3>1. DOMAIN levels = {price} /\ levels[price] = qty
      OBVIOUS
    <3> HIDE DEF levels
    <3> QED
      BY <3>1
  <2>2. (DOMAIN side \cup DOMAIN levels) \ {p \in DOMAIN levels : levels[p] = 0} = prices
    <3>1. DOMAIN levels = {price}
      OBVIOUS
    <3> HIDE DEF levels
    <3> QED
      BY <2>1, <3>1
  <2>3. \A p : (IF p \in DOMAIN levels THEN levels[p] ELSE side[p]) =
                  IF p = price THEN qty ELSE side[p]
    OBVIOUS
  <2> HIDE DEF levels, prices
  <2> QED
    BY <2>2, <2>3 DEF Overlaid
<1>8. Overlaid(side, EmptySide) = side
  <2>1. DOMAIN EmptySide = {}
    BY DEF EmptySide
  <2>2. side = [p \in DOMAIN side |-> side[p]]
    BY <1>2
  <2>3. (DOMAIN side \cup DOMAIN EmptySide) \
           {p \in DOMAIN EmptySide : EmptySide[p] = 0} = DOMAIN side
    BY <2>1
  <2> QED
    BY <2>1, <2>2, <2>3 DEF Overlaid
<1> QED
  BY <1>3, <1>5, <1>6, <1>7, <1>8 DEF price, qty

\* One side of a book replaced.
LEMMA BidsReplaced ==
    ASSUME NEW b \in Book, NEW v, NEW s, s = "bids"
    PROVE  [b EXCEPT ![s] = v] = [bids |-> v, asks |-> b.asks]
<1>1. DOMAIN b = {"bids", "asks"}
  BY DEF Book
<1>2. [b EXCEPT ![s] = v] = [x \in DOMAIN b |-> IF x = s THEN v ELSE b[x]]
  OBVIOUS
<1>3. [bids |-> v, asks |-> b.asks] =
         [x \in {"bids", "asks"} |-> IF x = "bids" THEN v ELSE b["asks"]]
  OBVIOUS
<1> QED
  BY <1>1, <1>2, <1>3

LEMMA AsksReplaced ==
    ASSUME NEW b \in Book, NEW v, NEW s, s = "asks"
    PROVE  [b EXCEPT ![s] = v] = [bids |-> b.bids, asks |-> v]
<1>1. DOMAIN b = {"bids", "asks"}
  BY DEF Book
<1>2. [b EXCEPT ![s] = v] = [x \in DOMAIN b |-> IF x = s THEN v ELSE b[x]]
  OBVIOUS
<1>3. [bids |-> b.bids, asks |-> v] =
         [x \in {"bids", "asks"} |-> IF x = "asks" THEN v ELSE b["bids"]]
  OBVIOUS
<1> QED
  BY <1>1, <1>2, <1>3

\* A delta takes the book of the venue before the change to the one after it.
LEMMA ChangeRead ==
    ASSUME NEW b \in Book, NoEmptyLevel(b), NEW ch \in Changes
    PROVE  LET new == [b EXCEPT ![ch.side] = NewSide(b[ch.side], ch)] IN
           /\ new \in Book
           /\ NoEmptyLevel(new)
           /\ ParseBybit(b, Delta(ch)) = new
<1> DEFINE new == [b EXCEPT ![ch.side] = NewSide(b[ch.side], ch)]
           msg == Delta(ch)
<1>1. ch.side \in {"bids", "asks"}
  BY StreamAssumption
<1>2. b.bids \in Side /\ b.asks \in Side /\ b = [bids |-> b.bids, asks |-> b.asks]
  BY DEF Book
<1>3. /\ msg.kind = "delta" /\ msg.bad = "none"
      /\ msg.bids = OneLevel("bids", ch) /\ msg.asks = OneLevel("asks", ch)
  BY DEF Delta
<1> HIDE DEF msg
<1>4. ParseBybit(b, msg) =
         [bids |-> Overlaid(b.bids, OneLevel("bids", ch)),
          asks |-> Overlaid(b.asks, OneLevel("asks", ch))]
  BY <1>3 DEF ParseBybit, BybitDelta
<1>5. CASE ch.side = "bids"
  <2>1. new = [bids |-> NewSide(b.bids, ch), asks |-> b.asks]
    BY <1>5, BidsReplaced
  <2>2. /\ Overlaid(b.bids, OneLevel("bids", ch)) = NewSide(b.bids, ch)
        /\ Overlaid(b.asks, OneLevel("asks", ch)) = b.asks
    BY <1>2, <1>5, NewSideFacts DEF OneLevel, NoEmptyLevel
  <2>3. /\ NewSide(b.bids, ch) \in Side
        /\ \A p \in DOMAIN NewSide(b.bids, ch) : NewSide(b.bids, ch)[p] > 0
    BY <1>2, NewSideFacts DEF NoEmptyLevel
  <2> QED
    BY <1>2, <1>4, <2>1, <2>2, <2>3 DEF Book, NoEmptyLevel, msg
<1>6. CASE ch.side = "asks"
  <2>1. new = [bids |-> b.bids, asks |-> NewSide(b.asks, ch)]
    BY <1>6, AsksReplaced
  <2>2. /\ Overlaid(b.asks, OneLevel("asks", ch)) = NewSide(b.asks, ch)
        /\ Overlaid(b.bids, OneLevel("bids", ch)) = b.bids
    BY <1>2, <1>6, NewSideFacts DEF OneLevel, NoEmptyLevel
  <2>3. /\ NewSide(b.asks, ch) \in Side
        /\ \A p \in DOMAIN NewSide(b.asks, ch) : NewSide(b.asks, ch)[p] > 0
    BY <1>2, NewSideFacts DEF NoEmptyLevel
  <2> QED
    BY <1>2, <1>4, <2>1, <2>2, <2>3 DEF Book, NoEmptyLevel, msg
<1> QED
  BY <1>1, <1>5, <1>6

-----------------------------------------------------------------------------
(* The initial state and the steps of the venue and the network *)

\* Before the first connection venue, frames and book are empty.
THEOREM InitSInv == StreamInit => SInv
<1> SUFFICES ASSUME StreamInit PROVE SInv
  OBVIOUS
<1> USE DEF StreamInit
<1>1. StreamTypeOK
  <2>1. TypeOK /\ 0 \in 0 .. attempt /\ 0 \in 0 .. MaxChanges
    BY InitIInv, StreamAssumption DEF Init, IInv
  <2> QED
    BY <2>1, EmptyFrames, EmptyBookType DEF StreamTypeOK
<1>2. NoEmptyLevel(venue)
  BY DEF NoEmptyLevel, EmptyBook, EmptySide
<1>3. OneFrame
  BY DEF OneFrame, FrameReady, Range, Init
<1>4. Tracks /\ Noticed
  BY DEF Tracks, Noticed
<1> QED
  BY <1>1, <1>2, <1>3, <1>4 DEF SInv

\* The connector and what it issued; both hold at both ends of a step below.
LEMMA QueueStep ==
    ASSUME TypeOK, NEW o, NEW ec, o.op # "read" \/ ec # "ok",
           ready' = Append(ready, Handler(o, ec)), Handler(o, ec) \in Handlers
    PROVE  FrameReady' <=> FrameReady
<1> DEFINE h == Handler(o, ec)
<1>1. h.op # "read" \/ h.ec # "ok"
  BY DEF Handler
<1> HIDE DEF h
<1>2. Range(ready)' = Range(ready) \cup {h}
  BY QueueAppend DEF Range, TypeOK, h
<1> QED
  BY <1>1, <1>2 DEF FrameReady

LEMMA HandlerType ==
    ASSUME TypeOK
    PROVE  /\ \A o \in outstanding : \A ec \in Outcomes(o.op) : Handler(o, ec) \in Handlers
           /\ \A w \in armed : Handler(w, "ok") \in Handlers
BY DEF TypeOK, Handler, Handlers, Operations, Waits, Outcomes, Errors

LEMMA SubscriptionStep ==
    ASSUME IInv, TInv, SInv, IInv', [Next]_vars,
           NEW o \in outstanding, SubscriptionCompletes(o)
    PROVE  SInv'
<1>1. /\ o.op = "write" /\ Complete(o, "ok") /\ subscriber' = o.attempt
      /\ wire' = Append(wire, Snapshot(venue)) /\ lost' = FALSE
      /\ UNCHANGED <<venue, changes, buffer, local_book, attempt>>
  BY DEF SubscriptionCompletes, Complete
<1>2. StreamTypeOK /\ TypeOK /\ NoEmptyLevel(venue)
  BY DEF SInv, StreamTypeOK
<1>3. Snapshot(venue) \in Message
  BY <1>2, MessageTypes DEF StreamTypeOK
<1>4. StreamTypeOK'
  <2>1. o.attempt \in 1 .. attempt /\ attempt \in Nat
    BY <1>1, <1>2 DEF TInv, Started, Pending, ChainOps, TypeOK
  <2>2. Append(wire, Snapshot(venue)) \in Seq(Message)
    BY <1>2, <1>3 DEF StreamTypeOK
  <2>3. subscriber' \in 0 .. attempt'
    BY <1>1, <2>1
  <2> QED
    BY <1>1, <1>2, <2>2, <2>3 DEF StreamTypeOK, IInv
<1>5. FrameReady' <=> FrameReady
  <2>1. Handler(o, "ok") \in Handlers
    BY <1>1, <1>2, HandlerType DEF Outcomes
  <2> QED
    BY <1>1, <1>2, <2>1, QueueStep DEF Complete
<1>6. OneFrame'
  <2>1. Alone' => Alone
    BY <1>1, AloneBefore
  <2> QED
    BY <1>1, <1>5, <2>1 DEF SInv, OneFrame
<1>7. Tracks'
  <2>1. buffer \o Append(wire, Snapshot(venue)) = Append(buffer \o wire, Snapshot(venue))
    BY <1>2, <1>3 DEF StreamTypeOK
  <2>2. ReadAll(local_book, Append(buffer \o wire, Snapshot(venue))) = venue
    <3>1. buffer \o wire \in Seq(Message) /\ local_book \in Book /\ venue \in Book
      BY <1>2 DEF StreamTypeOK
    <3>2. ReadAll(local_book, Append(buffer \o wire, Snapshot(venue))) =
             ParseBybit(ReadAll(local_book, buffer \o wire), Snapshot(venue))
      BY <1>3, <3>1, ReadAppend
    <3>3. ReadAll(local_book, buffer \o wire) \in Book
      BY <3>1, ReadType
    <3> QED
      BY <1>2, <3>1, <3>2, <3>3, SnapshotRead
  <2> QED
    BY <1>1, <2>1, <2>2 DEF Tracks
<1> QED
  BY <1>1, <1>2, <1>4, <1>6, <1>7 DEF SInv, Noticed

LEMMA ReadStep ==
    ASSUME IInv, TInv, SInv, IInv', [Next]_vars,
           NEW o \in outstanding, ReadCompletes(o)
    PROVE  SInv'
<1>1. /\ o.op = "read" /\ wire # << >> /\ Complete(o, "ok")
      /\ buffer' = Append(buffer, Head(wire)) /\ wire' = Tail(wire)
      /\ UNCHANGED <<venue, changes, subscriber, local_book, lost, attempt>>
  BY DEF ReadCompletes, Complete
<1>2. StreamTypeOK /\ TypeOK /\ NoEmptyLevel(venue)
  BY DEF SInv, StreamTypeOK
<1>3. /\ Head(wire) \in Message /\ Tail(wire) \in Seq(Message)
      /\ Append(buffer, Head(wire)) \in Seq(Message)
      /\ Len(Append(buffer, Head(wire))) = Len(buffer) + 1
  BY <1>1, <1>2 DEF StreamTypeOK
<1>4. StreamTypeOK'
  BY <1>1, <1>2, <1>3 DEF StreamTypeOK, IInv
<1>5. FrameReady'
  <2> DEFINE h == Handler(o, "ok")
  <2>1. h \in Handlers /\ h.op = "read" /\ h.ec = "ok"
    BY <1>1, <1>2, HandlerType DEF Outcomes, Handler
  <2> HIDE DEF h
  <2>2. Range(ready)' = Range(ready) \cup {h}
    BY <1>1, <1>2, <2>1, QueueAppend DEF Range, TypeOK, Complete, h
  <2> QED
    BY <2>1, <2>2 DEF FrameReady
<1>6. Alone' => Alone
  BY <1>1, AloneBefore
<1>7. OneFrame'
  <2>1. Alone => Len(buffer) = 0
    BY <1>1, ReadOutstandingAlone DEF SInv, OneFrame
  <2> QED
    BY <1>1, <1>3, <1>5, <1>6, <2>1 DEF OneFrame
<1>8. Tracks' /\ Noticed'
  <2>1. Append(buffer, Head(wire)) \o Tail(wire) = buffer \o wire
    BY <1>1, <1>2 DEF StreamTypeOK
  <2> QED
    BY <1>1, <1>6, <2>1 DEF SInv, Tracks, Noticed
<1> QED
  BY <1>1, <1>2, <1>4, <1>7, <1>8 DEF SInv

\* Other steps of the network leave the frames alone.
LEMMA QuietStreamStep ==
    ASSUME IInv, TInv, SInv, IInv', [Next]_vars, UNCHANGED streamVars,
           UNCHANGED attempt, FrameReady' <=> FrameReady
    PROVE  SInv'
<1>1. StreamTypeOK'
  BY DEF SInv, StreamTypeOK, streamVars, IInv
<1>2. Alone' => Alone
  BY AloneBefore
<1>3. OneFrame' /\ Tracks' /\ Noticed' /\ NoEmptyLevel(venue)'
  BY <1>2 DEF SInv, OneFrame, Tracks, Noticed, streamVars
<1> QED
  BY <1>1, <1>3 DEF SInv

LEMMA ChangeStep ==
    ASSUME IInv, TInv, SInv, NEW ch \in Changes, VenueChanges(ch)
    PROVE  SInv'
<1> DEFINE side == NewSide(venue[ch.side], ch)
<1>1. /\ venue' = [venue EXCEPT ![ch.side] = side]
      /\ changes < MaxChanges /\ changes' = changes + 1
      /\ wire' = IF subscriber = 0 THEN wire ELSE Append(wire, Delta(ch))
      /\ UNCHANGED <<subscriber, buffer, local_book, lost>> /\ UNCHANGED vars
  BY DEF VenueChanges, NewSide
<1>2. StreamTypeOK /\ NoEmptyLevel(venue)
  BY DEF SInv
<1>3. Delta(ch) \in Message
  BY MessageTypes
<1>4. venue' \in Book /\ NoEmptyLevel(venue') /\ ParseBybit(venue, Delta(ch)) = venue'
  BY <1>1, <1>2, ChangeRead DEF StreamTypeOK
<1>5. StreamTypeOK'
  <2>1. changes' \in 0 .. MaxChanges
    BY <1>1, <1>2, StreamAssumption DEF StreamTypeOK
  <2>2. wire' \in Seq(Message)
    BY <1>1, <1>2, <1>3 DEF StreamTypeOK
  <2>3. TypeOK'
    BY <1>1, <1>2 DEF StreamTypeOK, TypeOK, vars
  <2> QED
    BY <1>1, <1>2, <1>4, <2>1, <2>2, <2>3 DEF StreamTypeOK, vars
<1>6. (Alone' <=> Alone) /\ (FrameReady' <=> FrameReady) /\ attempt' = attempt
  BY <1>1 DEF vars, Alone, FrameReady, Pending, Range
<1>7. OneFrame' /\ Noticed'
  BY <1>1, <1>6 DEF SInv, OneFrame, Noticed
<1>8. Tracks'
  <2> SUFFICES ASSUME subscriber # 0, ~ lost
               PROVE  ReadAll(local_book', buffer' \o wire') = venue'
    BY <1>1 DEF Tracks
  <2>1. ReadAll(local_book, buffer \o wire) = venue
    BY DEF SInv, Tracks
  <2>3. wire' = Append(wire, Delta(ch))
    BY <1>1
  <2>4. /\ buffer \o wire \in Seq(Message) /\ local_book \in Book
        /\ buffer \o Append(wire, Delta(ch)) = Append(buffer \o wire, Delta(ch))
    BY <1>2, <1>3 DEF StreamTypeOK
  <2>5. ReadAll(local_book, Append(buffer \o wire, Delta(ch))) =
           ParseBybit(ReadAll(local_book, buffer \o wire), Delta(ch))
    BY <1>3, <2>4, ReadAppend
  <2>6. local_book' = local_book /\ buffer' \o wire' = Append(buffer \o wire, Delta(ch))
    BY <1>1, <2>3, <2>4
  <2> QED
    BY <1>4, <2>1, <2>5, <2>6
<1> QED
  BY <1>4, <1>5, <1>7, <1>8 DEF SInv

-----------------------------------------------------------------------------
(* The steps of the handlers *)

LEMMA ReplaceStep ==
    ASSUME IInv, TInv, SInv, IInv', [Next]_vars, ConnectionReplaced
    PROVE  SInv'
<1>1. /\ OnResolve /\ Event.op = "resolve" /\ Event.ec = "ok" /\ ready # << >>
      /\ subscriber' = 0 /\ wire' = << >> /\ lost' = FALSE
      /\ UNCHANGED <<venue, changes, buffer, local_book>>
  BY DEF ConnectionReplaced, Runs, Event
<1>2. UNCHANGED attempt
  BY <1>1 DEF OnResolve, FailsIn, Event
<1>3. attempt \in Nat /\ attempt >= 1
  BY DEF IInv, TypeOK, TInv, Started
<1>4. StreamTypeOK'
  <2>1. 0 \in 0 .. attempt'
    BY <1>2, <1>3
  <2> QED
    BY <1>1, <2>1, EmptyFrames DEF SInv, StreamTypeOK, IInv
<1>5. OneFrame'
  <2>1. Alone' => Alone
    BY <1>2, AloneBefore
  <2>2. FrameReady' <=> FrameReady
    BY <1>1, FrameReadyKept DEF RunHandler
  <2> QED
    BY <1>1, <2>1, <2>2 DEF SInv, OneFrame
<1>6. Tracks' /\ Noticed'
  BY <1>1 DEF Tracks, Noticed
<1> QED
  BY <1>1, <1>4, <1>5, <1>6 DEF SInv

LEMMA FrameStep ==
    ASSUME IInv, TInv, SInv, IInv', [Next]_vars, FrameHandled
    PROVE  SInv'
<1>1. /\ OnRead /\ Event.ec = "ok" /\ UNCHANGED attempt
      /\ local_book' = IF Len(buffer) = 1 THEN ParseBybit(local_book, buffer[1])
                       ELSE local_book
      /\ buffer' = << >> /\ lost' = (lost \/ Len(buffer) > 1)
      /\ UNCHANGED <<venue, changes, subscriber, wire>>
  BY DEF FrameHandled, OnRead, FailsIn, Continue
<1>2. StreamTypeOK
  BY DEF SInv
<1>3. Len(buffer) = 1 => buffer[1] \in Message /\ buffer \o wire = <<buffer[1]>> \o wire
  <2> SUFFICES ASSUME Len(buffer) = 1
               PROVE  buffer[1] \in Message /\ buffer = <<buffer[1]>>
    OBVIOUS
  <2>1. buffer \in Seq(Message)
    BY <1>2 DEF StreamTypeOK
  <2>2. buffer[1] \in Message
    BY <2>1
  <2>3. <<buffer[1]>> \in Seq(Message) /\ Len(<<buffer[1]>>) = 1
    BY <2>2
  <2> QED
    BY <2>1, <2>2, <2>3, SeqEqual
<1>4. StreamTypeOK'
  <2>1. local_book' \in Book
    BY <1>1, <1>2, <1>3, ParseBybitType DEF StreamTypeOK
  <2> QED
    BY <1>1, <1>2, <2>1, EmptyFrames DEF StreamTypeOK, IInv
<1>5. Alone' => Alone /\ Len(buffer) = 1 /\ ~ FrameReady'
  BY <1>1, AloneBefore, FrameTaken DEF SInv, OneFrame
<1>6. OneFrame' /\ Noticed'
  <2>1. OneFrame'
    BY <1>1, <1>5 DEF OneFrame
  <2>2. ~ (1 > 1)
    OBVIOUS
  <2>3. lost' /\ Alone' => lost /\ Alone
    BY <1>1, <1>5, <2>2, Zenon
  <2>4. Noticed'
    BY <1>1, <2>3 DEF SInv, Noticed
  <2> QED
    BY <2>1, <2>4
<1>7. Tracks'
  <2> SUFFICES ASSUME subscriber # 0, ~ lost'
               PROVE  ReadAll(local_book', buffer' \o wire') = venue'
    BY <1>1 DEF Tracks
  <2>1. ~ lost /\ ~ (Len(buffer) > 1)
    BY <1>1
  <2>2. ReadAll(local_book, buffer \o wire) = venue
    BY <2>1 DEF SInv, Tracks
  <2>3. /\ wire \in Seq(Message) /\ local_book \in Book
        /\ buffer \in Seq(Message) /\ Len(buffer) \in Nat
    BY <1>2 DEF StreamTypeOK
  <2>4. << >> \o wire = wire
    BY <2>3
  <2>5. CASE Len(buffer) = 1
    <3>1. ReadAll(local_book, <<buffer[1]>> \o wire) =
             ReadAll(ParseBybit(local_book, buffer[1]), wire)
      BY <1>3, <2>3, <2>5, ReadCons
    <3> QED
      BY <1>1, <1>3, <2>2, <2>4, <2>5, <3>1
  <2>6. CASE Len(buffer) = 0
    <3>1. buffer = << >>
      BY <2>3, <2>6
    <3> QED
      BY <1>1, <2>2, <2>6, <3>1
  <2>7. Len(buffer) = 0 \/ Len(buffer) = 1
    <3>1. PICK n \in Nat : n = Len(buffer)
      BY <2>3
    <3> QED
      BY <2>1, <3>1
  <2> QED
    BY <2>5, <2>6, <2>7, Zenon
<1> QED
  BY <1>1, <1>4, <1>6, <1>7 DEF SInv

\* Only a failure or a new attempt consumes the buffer: the connector has then
\* stopped, or its current attempt is not served yet.
LEMMA OtherStep ==
    ASSUME IInv, TInv, SInv, IInv', [Next]_vars, OtherHandler
    PROVE  SInv'
<1>1. /\ RunHandler
      /\ Event.op # "read" \/ Event.ec # "ok"
      /\ buffer' = IF BufferConsumed THEN << >> ELSE buffer
      /\ \/ UNCHANGED wire
         \/ /\ BufferConsumed /\ wire # << >>
            /\ wire' = <<NoFrame>> \o Tail(wire)
      /\ lost' = (lost \/ wire' # wire \/ (buffer # << >> /\ buffer' = << >>))
      /\ UNCHANGED <<venue, changes, subscriber, local_book>>
  BY DEF OtherHandler
<1>2. StreamTypeOK /\ attempt \in Nat /\ attempt' \in Nat
  BY DEF SInv, IInv, TypeOK
<1>3. attempt' = attempt \/ attempt' = attempt + 1
  BY NewAttempt
<1>4. StreamTypeOK'
  <2>1. wire' \in Seq(Message)
    <3>1. wire # << >> => <<NoFrame>> \o Tail(wire) \in Seq(Message)
      BY <1>2, MessageTypes DEF StreamTypeOK
    <3> QED
      BY <1>1, <1>2, <3>1 DEF StreamTypeOK
  <2>2. buffer' \in Seq(Message)
    BY <1>1, <1>2, EmptyFrames DEF StreamTypeOK
  <2>3. subscriber' \in 0 .. attempt'
    BY <1>1, <1>2, <1>3 DEF StreamTypeOK
  <2> QED
    BY <1>1, <1>2, <2>1, <2>2, <2>3 DEF StreamTypeOK, IInv
<1>8. Tracks'
  <2> SUFFICES ASSUME subscriber # 0, ~ lost'
               PROVE  ReadAll(local_book', buffer' \o wire') = venue'
    BY <1>1 DEF Tracks
  <2>1. ~ lost /\ wire' = wire /\ buffer' = buffer
    BY <1>1
  <2>2. ReadAll(local_book, buffer \o wire) = venue
    BY <2>1 DEF SInv, Tracks
  <2> QED
    BY <1>1, <2>1, <2>2
<1>5. CASE attempt' # attempt
  <2>1. buffer' = << >> /\ (Alone' => ~ FrameReady')
    BY <1>1, <1>5, NewAttempt DEF BufferConsumed
  <2>2. subscriber' # attempt'
    BY <1>1, <1>2, <1>3, <1>5 DEF StreamTypeOK
  <2> QED
    BY <1>1, <1>4, <1>8, <2>1, <2>2 DEF SInv, OneFrame, Noticed
<1>6. CASE attempt' = attempt /\ BufferConsumed
  BY <1>1, <1>4, <1>6, <1>8 DEF SInv, OneFrame, Noticed, Alone, BufferConsumed
<1>7. CASE attempt' = attempt /\ ~ BufferConsumed
  <2>0. lost' = lost
    <3>1. wire' = wire /\ buffer' = buffer /\ lost \in BOOLEAN
      BY <1>1, <1>2, <1>7 DEF StreamTypeOK
    <3>2. lost' <=> lost
      BY <1>1, <3>1
    <3> QED
      BY <1>1, <1>2, <3>1, <3>2 DEF StreamTypeOK
  <2>1. UNCHANGED streamVars
    BY <1>1, <1>7, <2>0 DEF streamVars
  <2>2. FrameReady' <=> FrameReady
    BY <1>1, FrameReadyKept
  <2> QED
    BY <1>7, <2>1, <2>2, QuietStreamStep
<1> QED
  BY <1>5, <1>6, <1>7

-----------------------------------------------------------------------------
(* The theorems *)

\* No handler, failure, reconnection or change of the venue breaks the agreement
\* of the local book with the venue's.
THEOREM NextSInv == IInv /\ TInv /\ SInv /\ [StreamNext]_allVars => SInv'
<1> SUFFICES ASSUME IInv, TInv, SInv, [StreamNext]_allVars PROVE SInv'
  OBVIOUS
<1>1. [Next]_vars
  BY StepInside
<1>2. IInv' /\ TypeOK
  BY <1>1, NextIInv DEF IInv
<1>3. CASE HandlerStep
  BY <1>1, <1>2, <1>3, ReplaceStep, FrameStep, OtherStep DEF HandlerStep
<1>4. ASSUME NEW o \in outstanding, SubscriptionCompletes(o) \/ ReadCompletes(o)
      PROVE  SInv'
  BY <1>1, <1>2, <1>4, SubscriptionStep, ReadStep
<1>5. ASSUME NEW o \in outstanding, NEW ec \in Outcomes(o.op), OtherCompletes(o, ec)
      PROVE  SInv'
  <2>1. /\ Complete(o, ec) /\ UNCHANGED streamVars /\ UNCHANGED attempt
        /\ o.op # "read" \/ ec # "ok"
    BY <1>5 DEF OtherCompletes, Complete
  <2>2. FrameReady' <=> FrameReady
    BY <1>2, <2>1, HandlerType, QueueStep DEF Complete
  <2> QED
    BY <1>1, <1>2, <2>1, <2>2, QuietStreamStep
<1>6. ASSUME NEW w \in armed, TimerExpires(w)
      PROVE  SInv'
  <2>1. Expire(w) /\ UNCHANGED streamVars /\ UNCHANGED attempt /\ w.op # "read"
    BY <1>2, <1>6 DEF TimerExpires, Expire, TypeOK, Waits, Timers
  <2>2. FrameReady' <=> FrameReady
    BY <1>2, <2>1, HandlerType, QueueStep DEF Expire
  <2> QED
    BY <1>1, <1>2, <2>1, <2>2, QuietStreamStep
<1>7. ASSUME NEW ch \in Changes, VenueChanges(ch)
      PROVE  SInv'
  BY <1>7, ChangeStep
<1>8. CASE UNCHANGED allVars
  <2>1. UNCHANGED streamVars /\ UNCHANGED attempt /\ (FrameReady' <=> FrameReady)
    BY <1>8 DEF allVars, vars, FrameReady, Range
  <2> QED
    BY <1>1, <1>2, <2>1, QuietStreamStep
<1> QED
  BY <1>3, <1>4, <1>5, <1>6, <1>7, <1>8 DEF StreamNext

\* What was proved of Connector holds of the connector inside, and with it the
\* invariant of the stream.
THEOREM SpecSInv == StreamSpec => [](IInv /\ TInv /\ SInv)
<1>1. StreamSpec => [](IInv /\ TInv)
  BY ConnectorInside, SpecIInv, SpecTInv, PTL
<1>2. StreamInit => SInv
  BY InitSInv
<1>3. IInv /\ TInv /\ SInv /\ [StreamNext]_allVars => SInv'
  BY NextSInv
<1> QED
  BY <1>1, <1>2, <1>3, PTL DEF StreamSpec

\* The state has its type: the venue serves no attempt that was never made, and
\* the local book is a book (bybit_connector.cpp:54-93).
THEOREM StreamTypeCorrect == StreamSpec => []StreamTypeOK
<1>1. SInv => StreamTypeOK
  BY DEF SInv
<1> QED
  BY <1>1, SpecSInv, PTL

\* An attempt with no earlier one beside it is what the invariant calls alone.
LEMMA AloneOtherwise ==
    ASSUME IInv, TInv, ~ stopped, ~ EarlierAlive
    PROVE  Alone
<1> SUFFICES ASSUME NEW x \in Pending, x.op \in ChainOps, x.attempt # attempt
             PROVE  FALSE
  BY DEF Alone
<1>1. x.attempt \in 1 .. attempt - 1 /\ attempt \in Nat
  BY DEF TInv, Started, IInv, TypeOK
<1>2. CASE x \in outstanding
  BY <1>1, <1>2 DEF EarlierAlive, ChainOutstanding
<1>3. CASE x \in Range(ready)
  <2>1. PICK i \in DOMAIN ready : x = ready[i]
    BY <1>3 DEF Range
  <2> QED
    BY <1>1, <2>1 DEF EarlierAlive, ChainQueued
<1> QED
  BY <1>2, <1>3 DEF Pending

\* A local book that is read from a connection alone is, with the frames on
\* their way, the book of the venue, whatever failed or reconnected before
\* (bybit_connector.cpp:54-93, market_connector.cpp:51, 86, 238-253).
THEOREM BookTracks == StreamSpec => []BookTracksVenue
<1>1. IInv /\ TInv /\ SInv => BookTracksVenue
  <2> SUFFICES ASSUME IInv, TInv, SInv, Established PROVE BookAhead = venue
    BY DEF BookTracksVenue
  <2>1. Alone /\ subscriber = attempt
    BY AloneOtherwise DEF Established
  <2>2. ~ lost
    BY <2>1 DEF SInv, Noticed
  <2>3. subscriber # 0
    BY <2>1 DEF IInv, TypeOK, TInv, Started
  <2> QED
    BY <2>2, <2>3 DEF SInv, Tracks, ReadAll, BookAhead
<1> QED
  BY <1>1, SpecSInv, PTL

\* Whatever fail() and start() do to the buffer under a queued handler, the book
\* of a connection that lost no frame is exact, and one that did has stopped or
\* has an earlier attempt beside it (market_connector.cpp:51, 86, 238-239).
THEOREM LossIsNoticed == StreamSpec => []LossNoticed
<1>1. IInv /\ TInv /\ SInv => LossNoticed
  <2> SUFFICES ASSUME IInv, TInv, SInv PROVE LossNoticed
    OBVIOUS
  <2>1. subscriber # 0 /\ ~ lost => BookAhead = venue
    BY DEF SInv, Tracks, ReadAll, BookAhead
  <2>2. subscriber = attempt /\ lost => stopped \/ EarlierAlive
    BY AloneOtherwise DEF SInv, Noticed
  <2> QED
    BY <2>1, <2>2 DEF LossNoticed
<1> QED
  BY <1>1, SpecSInv, PTL

=============================================================================
