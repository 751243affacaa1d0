------------------------------ MODULE ClientProofs ------------------------------
(***************************************************************************)
(* The loop of a client, for any books, any number of failures and any     *)
(* number of lives of the server.  A client is never taken back: the       *)
(* invariant orders everything that has been sent - the frame on the       *)
(* screen, those that wait in the stream and whatever an open call may be  *)
(* sent next come one after the other.  And state and call keep their      *)
(* types, with no more attempts than MaxFailures failures leave.           *)
(***************************************************************************)
EXTENDS Client, OrderBookProofs

\* f is not newer than g: of an earlier life of the server, or of the same one
\* and of no later version.
NotAfter(f, g) == f.life < g.life \/ (f.life = g.life /\ f.version <= g.version)

\* f was published before a server in this state: in an earlier life, or in this
\* one before it came to its current book.
Before(f, state, lives, books) ==
    /\ f.life <= lives
    /\ state = "up" /\ f.life = lives => f.version <= Len(books)

FrameTypes ==
    /\ life \in Nat
    /\ feeds \in Nat
    /\ published \in Seq(Book)
    /\ sent \in Nat
    /\ joined \in Nat
    /\ stream \in Seq(Frames)
    /\ screen # NoFrame => screen \in Frames

OpenCall == call = "open" => server = "up"

StreamOrdered ==
    /\ \A i \in DOMAIN stream : Before(stream[i], server, life, published)
    /\ \A i, j \in DOMAIN stream : i < j => NotAfter(stream[i], stream[j])

ScreenFirst ==
    screen # NoFrame =>
        /\ Before(screen, server, life, published)
        /\ \A i \in DOMAIN stream : NotAfter(screen, stream[i])

\* f is not newer than anything that a call in this state may be sent: than the
\* last update of the call, or than the book of the moment when it was made.
NotAhead(f, lives, last, first) ==
    f.life = lives => f.version <= last \/ f.version <= first

CallAhead ==
    call = "open" =>
        /\ \A i \in DOMAIN stream : NotAhead(stream[i], life, sent, joined)
        /\ screen # NoFrame => NotAhead(screen, life, sent, joined)

OrderInv == FrameTypes /\ OpenCall /\ StreamOrdered /\ ScreenFirst /\ CallAhead

-----------------------------------------------------------------------------

LEMMA FrameFacts ==
    ASSUME NEW f \in Frames
    PROVE  f.life \in Nat /\ f.version \in Nat
BY DEF Frames

LEMMA EmptyFacts ==
    ASSUME NEW S
    PROVE  << >> \in Seq(S)
OBVIOUS

\* A prefix of the stream is what a broken call leaves.
LEMMA PrefixFacts ==
    ASSUME NEW frames \in Seq(Frames), NEW n \in 0 .. Len(frames)
    PROVE  /\ SubSeq(frames, 1, n) \in Seq(Frames)
           /\ DOMAIN SubSeq(frames, 1, n) \subseteq DOMAIN frames
           /\ \A i \in DOMAIN SubSeq(frames, 1, n) : SubSeq(frames, 1, n)[i] = frames[i]
OBVIOUS

LEMMA TailFacts ==
    ASSUME NEW frames \in Seq(Frames), frames # << >>
    PROVE  /\ Tail(frames) \in Seq(Frames)
           /\ 1 \in DOMAIN frames /\ Head(frames) = frames[1]
           /\ Head(frames) \in Frames
           /\ \A i \in DOMAIN Tail(frames) :
                 /\ i \in Nat /\ i >= 1
                 /\ i + 1 \in DOMAIN frames
                 /\ Tail(frames)[i] = frames[i + 1]
OBVIOUS

LEMMA AppendFacts ==
    ASSUME NEW frames \in Seq(Frames), NEW f \in Frames
    PROVE  /\ Append(frames, f) \in Seq(Frames)
           /\ DOMAIN Append(frames, f) = DOMAIN frames \cup {Len(frames) + 1}
           /\ \A i \in DOMAIN frames :
                 i \in Nat /\ i < Len(frames) + 1 /\ Append(frames, f)[i] = frames[i]
           /\ Append(frames, f)[Len(frames) + 1] = f
OBVIOUS

\* Nothing has been sent.
THEOREM InitOrder == Init => OrderInv
BY DEF Init, OrderInv, FrameTypes, OpenCall, StreamOrdered, ScreenFirst, CallAhead

-----------------------------------------------------------------------------
(* The steps of the server and of the network *)

\* What was published stays so while the server counts on, ends or starts anew.
LEMMA BeforeStays ==
    ASSUME NEW f \in Frames, Before(f, server, life, published),
           life \in Nat, published \in Seq(Book),
           \/ life' = life + 1
           \/ life' = life /\ server' = "down"
           \/ life' = life /\ server' = server /\ Len(published') \in Nat
              /\ Len(published') >= Len(published)
    PROVE  Before(f, server', life', published')
BY FrameFacts DEF Before

\* What arrives in order, with frames lost from its end, is still in order.
LEMMA SuffixLost ==
    ASSUME OrderInv, FrameTypes', OpenCall', CallAhead', screen' = screen,
           \/ life' = life + 1
           \/ life' = life /\ server' = "down"
           \/ life' = life /\ server' = server /\ Len(published') >= Len(published),
           \A i \in DOMAIN stream' : i \in DOMAIN stream /\ stream'[i] = stream[i]
    PROVE  OrderInv'
<1> USE DEF OrderInv
<1>1. ASSUME NEW f \in Frames, Before(f, server, life, published)
      PROVE  Before(f, server', life', published')
  <2>1. life \in Nat /\ published \in Seq(Book) /\ Len(published') \in Nat
    BY DEF FrameTypes
  <2> QED
    BY <1>1, <2>1, BeforeStays
<1>2. \A i \in DOMAIN stream : stream[i] \in Frames
  BY DEF FrameTypes
<1>3. StreamOrdered'
  <2>1. \A i \in DOMAIN stream' : Before(stream'[i], server', life', published')
    BY <1>1, <1>2 DEF StreamOrdered
  <2>2. \A i, j \in DOMAIN stream' : i < j => NotAfter(stream'[i], stream'[j])
    BY DEF StreamOrdered
  <2> QED
    BY <2>1, <2>2 DEF StreamOrdered, NotAfter
<1>4. ScreenFirst'
  <2> SUFFICES ASSUME screen # NoFrame PROVE ScreenFirst'
    BY DEF ScreenFirst
  <2>1. Before(screen', server', life', published')
    BY <1>1 DEF ScreenFirst, FrameTypes
  <2>2. \A i \in DOMAIN stream' : NotAfter(screen', stream'[i])
    BY DEF ScreenFirst
  <2> QED
    BY <2>1, <2>2 DEF ScreenFirst, NotAfter
<1> QED
  BY <1>3, <1>4

LEMMA ServerStep ==
    ASSUME OrderInv,
           UNCHANGED <<stream, screen, sent, joined>>,
           life' \in Nat, feeds' \in Nat, published' \in Seq(Book), OpenCall',
           call' # "open" \/ UNCHANGED <<call, life>>,
           \/ life' = life + 1
           \/ life' = life /\ server' = "down"
           \/ life' = life /\ server' = server /\ Len(published') >= Len(published)
    PROVE  OrderInv'
<1>1. FrameTypes'
  BY DEF OrderInv, FrameTypes
<1>2. CallAhead'
  BY DEF OrderInv, CallAhead
<1> QED
  BY <1>1, <1>2, SuffixLost

\* A call breaks, on its own or with the server.
LEMMA BreakStep ==
    ASSUME OrderInv, Break, UNCHANGED clientVars, UNCHANGED <<life, feeds>>,
           \/ UNCHANGED <<server, published>>
           \/ server' = "down" /\ published' = << >>
    PROVE  OrderInv'
<1> USE DEF clientVars
<1>1. PICK n \in 0 .. Len(stream) : stream' = SubSeq(stream, 1, n)
  BY DEF Break
<1>2. /\ stream' \in Seq(Frames)
      /\ \A i \in DOMAIN stream' : i \in DOMAIN stream /\ stream'[i] = stream[i]
  BY <1>1, PrefixFacts DEF OrderInv, FrameTypes
<1>3. FrameTypes' /\ OpenCall' /\ CallAhead'
  <2>1. published' \in Seq(Book)
    BY EmptyFacts DEF OrderInv, FrameTypes
  <2> QED
    BY <1>2, <2>1 DEF OrderInv, FrameTypes, OpenCall, CallAhead, Break
<1>4. \/ life' = life /\ server' = "down"
      \/ life' = life /\ server' = server /\ Len(published') >= Len(published)
  BY DEF OrderInv, FrameTypes
<1> QED
  BY <1>2, <1>3, <1>4, SuffixLost

LEMMA SendStep == OrderInv /\ Send => OrderInv'
<1> SUFFICES ASSUME OrderInv, Send PROVE OrderInv'
  OBVIOUS
<1> USE DEF OrderInv
<1>0. PICK v \in sent + 1 .. version :
         v >= joined /\ sent' = v /\ stream' = Append(stream, Frame(v))
  BY DEF Send
<1> DEFINE f == Frame(v)
           last == Len(stream) + 1
<1>1. /\ life \in Nat /\ published \in Seq(Book) /\ sent \in Nat /\ joined \in Nat
      /\ stream \in Seq(Frames)
      /\ v \in Nat /\ v > sent /\ v <= Len(published) /\ call = "open" /\ server = "up"
      /\ UNCHANGED <<server, life, published, feeds, screen, call>>
      /\ stream' = Append(stream, f) /\ sent' = v /\ joined' = 0
  BY <1>0 DEF Send, FrameTypes, OpenCall, version, serverVars, clientVars
<1>2. published[v] \in Book
  BY <1>1
<1>3. f \in Frames /\ f.life = life /\ f.version = v
  BY <1>1, <1>2 DEF Frame, Frames
<1>4. /\ stream' \in Seq(Frames)
      /\ DOMAIN stream' = DOMAIN stream \cup {last}
      /\ \A i \in DOMAIN stream : i < last /\ i \in Nat /\ stream'[i] = stream[i]
      /\ stream'[last] = f
  BY <1>1, <1>3, AppendFacts
<1>5. \A g \in Frames :
        Before(g, server, life, published) /\ NotAhead(g, life, sent, joined) =>
            /\ Before(g, server', life', published')
            /\ NotAhead(g, life', sent', joined')
            /\ NotAfter(g, f)
  BY <1>0, <1>1, <1>3, FrameFacts DEF Before, NotAfter, NotAhead
<1>6. Before(f, server', life', published') /\ NotAhead(f, life', sent', joined')
  BY <1>1, <1>3 DEF Before, NotAhead
<1>7. \A i \in DOMAIN stream :
        stream[i] \in Frames /\ NotAhead(stream[i], life, sent, joined)
  BY <1>1 DEF CallAhead
<1>8. StreamOrdered'
  <2>1. \A i \in DOMAIN stream' : Before(stream'[i], server', life', published')
    BY <1>4, <1>5, <1>6, <1>7 DEF StreamOrdered
  <2>2. \A i, j \in DOMAIN stream' : i < j => NotAfter(stream'[i], stream'[j])
    <3> SUFFICES ASSUME NEW i \in DOMAIN stream', NEW j \in DOMAIN stream', i < j
                 PROVE  NotAfter(stream'[i], stream'[j])
      OBVIOUS
    <3>1. i \in DOMAIN stream
      BY <1>1, <1>4
    <3>2. CASE j \in DOMAIN stream
      BY <1>4, <3>1, <3>2 DEF StreamOrdered
    <3>3. CASE j = last
      BY <1>4, <1>5, <1>7, <3>1, <3>3 DEF StreamOrdered
    <3> QED
      BY <1>4, <3>2, <3>3
  <2> QED
    BY <2>1, <2>2 DEF StreamOrdered, NotAfter
<1>9. ScreenFirst'
  BY <1>1, <1>4, <1>5 DEF ScreenFirst, FrameTypes, CallAhead, NotAfter
<1>10. FrameTypes' /\ OpenCall'
  BY <1>1, <1>4 DEF FrameTypes, OpenCall
<1>11. CallAhead'
  <2>1. \A i \in DOMAIN stream' : NotAhead(stream'[i], life', sent', joined')
    BY <1>4, <1>5, <1>6, <1>7 DEF StreamOrdered
  <2>2. screen' # NoFrame => NotAhead(screen', life', sent', joined')
    BY <1>1, <1>5 DEF ScreenFirst, FrameTypes, CallAhead
  <2> QED
    BY <2>1, <2>2 DEF CallAhead
<1> QED
  BY <1>8, <1>9, <1>10, <1>11

-----------------------------------------------------------------------------
(* The steps of the client *)

\* The first frame of the stream is read, and shown or skipped.
LEMMA ReadStep ==
    ASSUME OrderInv, stream # << >>, stream' = Tail(stream),
           UNCHANGED <<life, feeds, published, server, sent, joined, call>>,
           screen' = screen \/ screen' = Head(stream)
    PROVE  OrderInv'
<1> USE DEF OrderInv
<1>1. stream \in Seq(Frames)
  BY DEF FrameTypes
<1>2. /\ stream' \in Seq(Frames)
      /\ Head(stream) = stream[1] /\ 1 \in DOMAIN stream /\ Head(stream) \in Frames
      /\ \A i \in DOMAIN stream' :
            /\ i \in Nat /\ i >= 1
            /\ i + 1 \in DOMAIN stream /\ stream'[i] = stream[i + 1]
  BY <1>1, TailFacts
<1>3. FrameTypes' /\ OpenCall'
  BY <1>2 DEF FrameTypes, OpenCall
<1>4. StreamOrdered'
  <2>1. \A i \in DOMAIN stream' : Before(stream'[i], server', life', published')
    BY <1>2 DEF StreamOrdered, Before
  <2>2. \A i, j \in DOMAIN stream' : i < j => NotAfter(stream'[i], stream'[j])
    BY <1>2 DEF StreamOrdered
  <2> QED
    BY <2>1, <2>2 DEF StreamOrdered, NotAfter
<1>5. ScreenFirst'
  <2>1. CASE screen' = screen
    BY <1>2, <2>1 DEF ScreenFirst, Before, NotAfter
  <2>2. CASE screen' = Head(stream)
    <3>1. Before(screen', server', life', published')
      BY <1>2, <2>2 DEF StreamOrdered, Before
    <3>2. \A i \in DOMAIN stream' : NotAfter(stream[1], stream'[i])
      BY <1>2 DEF StreamOrdered
    <3> QED
      BY <1>2, <2>2, <3>1, <3>2 DEF ScreenFirst, NotAfter
  <2> QED
    BY <2>1, <2>2
<1>6. CallAhead'
  BY <1>2 DEF CallAhead
<1> QED
  BY <1>3, <1>4, <1>5, <1>6

\* A new call starts with an empty stream; between calls nothing moves.
LEMMA CallStep ==
    ASSUME OrderInv, stream' = << >> \/ stream' = stream,
           UNCHANGED <<life, feeds, published, server, screen>>,
           sent' \in Nat, joined' \in Nat, OpenCall',
           \/ call' # "open"
           \/ stream' = << >> /\ joined' = version
           \/ UNCHANGED <<call, sent, joined>>
    PROVE  OrderInv'
<1>1. FrameTypes'
  <2>1. stream' \in Seq(Frames)
    BY EmptyFacts DEF OrderInv, FrameTypes
  <2> QED
    BY <2>1 DEF OrderInv, FrameTypes
<1>2. Len(published') >= Len(published)
  BY DEF OrderInv, FrameTypes
<1>3. \A i \in DOMAIN stream' : i \in DOMAIN stream /\ stream'[i] = stream[i]
  OBVIOUS
<1>4. CallAhead'
  <2>1. CASE call' = "open" /\ stream' = << >> /\ joined' = version
    <3>1. server = "up"
      BY <2>1 DEF OpenCall
    <3>2. screen # NoFrame /\ screen.life = life => screen.version <= version
      BY <3>1 DEF OrderInv, ScreenFirst, Before, version
    <3>3. screen # NoFrame => NotAhead(screen, life, sent', joined')
      BY <2>1, <3>2 DEF NotAhead
    <3> QED
      BY <2>1, <3>3 DEF CallAhead
  <2>2. CASE UNCHANGED <<call, sent, joined>>
    BY <2>2 DEF OrderInv, CallAhead
  <2> QED
    BY <2>1, <2>2 DEF CallAhead
<1> QED
  BY <1>1, <1>2, <1>3, <1>4, SuffixLost

-----------------------------------------------------------------------------

\* No step of server, network or client puts a frame before an older one.
THEOREM NextOrder == OrderInv /\ [Next]_vars => OrderInv'
<1> SUFFICES ASSUME OrderInv, [Next]_vars PROVE OrderInv'
  OBVIOUS
<1> USE DEF serverVars, callVars, clientVars
<1>0. /\ life \in Nat /\ feeds \in Nat /\ published \in Seq(Book) /\ sent \in Nat
      /\ joined \in Nat /\ version \in Nat /\ OpenCall
  BY DEF OrderInv, FrameTypes, version
<1>1. ASSUME NEW n \in DOMAIN FeedBooks, NEW book \in FeedBooks[n], Publish(book)
      PROVE  OrderInv'
  <2>1. book \in Book /\ published' = Append(published, book)
    BY <1>0, <1>1, ClientAssumption DEF Publish
  <2>2. published' \in Seq(Book) /\ Len(published') >= Len(published)
    BY <1>0, <2>1
  <2> QED
    BY <1>0, <1>1, <2>2, ServerStep DEF Publish, OpenCall
<1>2. CASE Send
  BY <1>2, SendStep
<1>3. CASE Crash
  <2>1. CASE Break
    BY <1>3, <2>1, BreakStep DEF Crash
  <2>2. CASE call # "open" /\ UNCHANGED callVars
    BY <1>0, <1>3, <2>2, ServerStep DEF Crash, OpenCall
  <2> QED
    BY <1>3, <2>1, <2>2 DEF Crash
<1>4. CASE Restart
  BY <1>0, <1>4, ServerStep DEF Restart, OpenCall
<1>5. CASE BreakStream
  BY <1>5, BreakStep DEF BreakStream
<1>6. CASE Subscribe
  BY <1>0, <1>6, CallStep DEF Subscribe, OpenCall
<1>7. CASE ReadUpdate \/ ReadPastEnd
  BY <1>7, ReadStep DEF ReadUpdate, ReadPastEnd
<1>8. CASE ReadFails \/ Wake
  BY <1>0, <1>8, CallStep DEF ReadFails, Wake, OpenCall
<1>9. CASE UNCHANGED vars
  BY <1>0, <1>9, CallStep DEF vars, OpenCall
<1> QED
  BY <1>1, <1>2, <1>3, <1>4, <1>5, <1>6, <1>7, <1>8, <1>9 DEF Next, Run

\* The order of all that was sent is an invariant.
THEOREM SpecOrder == Spec => []OrderInv
BY InitOrder, NextOrder, PTL DEF Spec

-----------------------------------------------------------------------------

\* Only reading changes the screen, and what is read comes after it.
LEMMA StepForward ==
    ASSUME OrderInv, [Next]_vars, screen # NoFrame
    PROVE  NotAfter(screen, screen')
<1> USE DEF serverVars, callVars, clientVars
<1>1. CASE screen' = screen
  <2>1. screen \in Frames
    BY DEF OrderInv, FrameTypes
  <2> QED
    BY <1>1, <2>1, FrameFacts DEF NotAfter
<1>2. CASE stream # << >> /\ screen' = Head(stream)
  <2>1. 1 \in DOMAIN stream /\ Head(stream) = stream[1]
    BY <1>2, TailFacts DEF OrderInv, FrameTypes
  <2> QED
    BY <1>2, <2>1 DEF OrderInv, ScreenFirst
<1>3. screen' = screen \/ (stream # << >> /\ screen' = Head(stream))
  BY DEF Next, vars, Publish, Send, Crash, Restart, BreakStream, Run, Subscribe,
         ReadUpdate, ReadPastEnd, ReadFails, Wake
<1> QED
  BY <1>1, <1>2, <1>3

\* NeverBackwards: whatever fails, a client is never taken back to an older book
\* of the same life of the server, nor to an earlier life (client_bbo.cpp:37-55).
THEOREM NotTakenBack == Spec => NeverBackwards
<1>1. OrderInv /\ [Next]_vars =>
        [screen # NoFrame =>
            \/ screen'.life > screen.life
            \/ screen'.life = screen.life /\ screen'.version >= screen.version]_vars
  <2> SUFFICES ASSUME OrderInv, [Next]_vars, screen # NoFrame
               PROVE  \/ screen'.life > screen.life
                      \/ screen'.life = screen.life /\ screen'.version >= screen.version
    OBVIOUS
  <2>1. screen \in Frames /\ OrderInv'
    BY NextOrder DEF OrderInv, FrameTypes
  <2> QED
    BY <2>1, StepForward DEF NotAfter
<1> QED
  BY <1>1, SpecOrder, PTL DEF Spec, NeverBackwards

-----------------------------------------------------------------------------
(* The backoff *)

\* 2 ^ n counts the subsets of a set of n: what the provers know of powers.
LEMMA PowerType ==
    ASSUME NEW n \in Nat
    PROVE  2 ^ n \in Nat
<1>1. IsFiniteSet(1 .. n) /\ Cardinality(1 .. n) = n
  BY FS_Interval
<1>2. IsFiniteSet(SUBSET (1 .. n)) /\ Cardinality(SUBSET (1 .. n)) = 2 ^ n
  BY <1>1, FS_SUBSET
<1> QED
  BY <1>2, FS_CardinalityType

\* Every delay is a number of milliseconds, never less than none.
LEMMA DelaysType ==
    ASSUME NEW n \in Nat
    PROVE  Delays(n + 1) \subseteq Nat
<1>1. InitialBackoff \in Nat /\ MaxBackoff \in Nat /\ IntMax \in Nat
  BY ClientAssumption
<1>2. Converted(n + 1) \subseteq Int
  <2>1. PICK p \in Nat : p = 2 ^ ((n + 1) - 1)
    <3>1. (n + 1) - 1 = n
      OBVIOUS
    <3> QED
      BY <3>1, PowerType
  <2>2. Converted(n + 1) = IF InitialBackoff <= IntMax \div p
                           THEN {InitialBackoff * p} ELSE {-IntMax - 1, IntMax}
    BY <2>1 DEF Converted
  <2>3. InitialBackoff * p \in Int /\ -IntMax - 1 \in Int
    BY <1>1
  <2> QED
    BY <1>1, <2>2, <2>3
<1>3. ASSUME NEW ms \in Int
      PROVE  Max({Min({ms, MaxBackoff}), 0}) \in Nat
  <2> DEFINE low == IF ms <= MaxBackoff THEN ms ELSE MaxBackoff
             top == IF low >= 0 THEN low ELSE 0
  <2>1. low \in {ms, MaxBackoff} /\ low \in Int /\ \A y \in {ms, MaxBackoff} : low <= y
    BY <1>1
  <2>2. \A x \in {ms, MaxBackoff} : (\A y \in {ms, MaxBackoff} : x <= y) => x = low
    BY <1>1
  <2>3. Min({ms, MaxBackoff}) = low
    <3> HIDE DEF low
    <3> QED
      BY <2>1, <2>2 DEF Min
  <2> HIDE DEF low
  <2>4. top \in {low, 0} /\ top \in Nat /\ \A y \in {low, 0} : top >= y
    BY <2>1
  <2>5. {low, 0} \in SUBSET Int
    BY <2>1
  <2> HIDE DEF top
  <2>6. Max({low, 0}) = top
    BY <2>4, <2>5, MaxIs
  <2> QED
    BY <2>3, <2>4, <2>6
<1>4. \A m \in Nat : (m * 8) \div 10 \in Nat /\ (m * 10) \div 10 \in Nat /\ (m * 12) \div 10 \in Nat
  OBVIOUS
<1> SUFFICES ASSUME NEW d \in Delays(n + 1) PROVE d \in Nat
  OBVIOUS
<1> DEFINE wait(ms, jitter) == (Max({Min({ms, MaxBackoff}), 0}) * jitter) \div 10
<1>5. PICK ms \in Converted(n + 1), jitter \in {8, 10, 12} : d = wait(ms, jitter)
  <2>1. Delays(n + 1) = {wait(ms, jitter) : ms \in Converted(n + 1), jitter \in {8, 10, 12}}
    BY DEF Delays
  <2> HIDE DEF wait
  <2> QED
    BY <2>1
<1>6. PICK m \in Nat : m = Max({Min({ms, MaxBackoff}), 0})
  BY <1>2, <1>3
<1> QED
  BY <1>4, <1>5, <1>6

-----------------------------------------------------------------------------
(* Types *)

\* What keeps the bounds: a server that is down has a life left, and a client
\* that will find its call broken has a failure left.
Spare ==
    /\ server = "down" => life < MaxLives
    /\ call = "broken" /\ phase = "read" => retry_count < MaxFailures

ClientInv == OrderInv /\ ClientTypeOK /\ Spare

\* The first state has its types.
THEOREM InitClient == Init => ClientInv
<1> SUFFICES ASSUME Init PROVE ClientInv
  OBVIOUS
<1>1. MaxLives \in Nat \ {0} /\ MaxFailures \in Nat /\ Len(FeedBooks) \in Nat
  BY ClientAssumption
<1>2. OrderInv
  BY InitOrder
<1>3. << >> \in Seq(Book) /\ << >> \in Seq(Frames) /\ Len(<< >>) = 0
  BY EmptyFacts
<1>4. ClientTypeOK
  BY <1>1, <1>3 DEF Init, ClientTypeOK, version
<1>5. Spare
  BY <1>1 DEF Init, Spare
<1> QED
  BY <1>2, <1>4, <1>5 DEF ClientInv

\* No step breaks types, order or the number of attempts that are left.
THEOREM NextClient == ClientInv /\ [Next]_vars => ClientInv'
<1> SUFFICES ASSUME ClientInv, [Next]_vars PROVE ClientInv'
  OBVIOUS
<1>0. OrderInv'
  BY NextOrder DEF ClientInv
<1> USE DEF ClientInv, serverVars, callVars, clientVars
<1>a. /\ server \in {"up", "down"} /\ life \in 0 .. MaxLives
      /\ published \in Seq(Book)
      /\ feeds \in version .. Len(FeedBooks)
      /\ sent \in Nat /\ joined \in Nat
      /\ call \in {"none", "open", "broken"}
      /\ stream \in Seq(Frames)
      /\ kind \in Kinds /\ phase \in {"subscribe", "read", "sleep", "dead"}
      /\ retry_count \in 0 .. MaxFailures /\ delay \in Nat
      /\ call = "open" => server = "up" /\ sent <= version /\ joined <= version
      /\ version = Len(published) /\ version' = Len(published')
      /\ version \in Nat
  BY DEF ClientTypeOK, version
<1>b. MaxLives \in Nat \ {0} /\ MaxFailures \in Nat /\ Len(FeedBooks) \in Nat
  BY ClientAssumption
<1> DEFINE Server == /\ server' \in {"up", "down"} /\ life' \in 0 .. MaxLives
                     /\ feeds' \in version' .. Len(FeedBooks)
           Call   == /\ call' \in {"none", "open", "broken"}
                     /\ call' = "open" =>
                           server' = "up" /\ sent' <= version' /\ joined' <= version'
           Reader == /\ kind' \in Kinds /\ phase' \in {"subscribe", "read", "sleep", "dead"}
                     /\ retry_count' \in 0 .. MaxFailures /\ delay' \in Nat
<1>c. ASSUME Server, Call, Reader, Spare'
      PROVE  ClientInv'
  <2>1. ClientTypeOK'
    BY <1>0, <1>c DEF OrderInv, FrameTypes, ClientTypeOK
  <2> QED
    BY <1>0, <1>c, <2>1
<1>1. ASSUME NEW n \in DOMAIN FeedBooks, NEW book \in FeedBooks[n], Publish(book)
      PROVE  ClientInv'
  <2>1. Len(published') = Len(published) + 1
    BY <1>1, <1>a DEF Publish
  <2>2. Server /\ Call /\ Reader
    BY <1>1, <1>a, <1>b, <2>1 DEF Publish
  <2>3. Spare'
    BY <1>1 DEF Publish, Spare
  <2> QED
    BY <1>c, <2>2, <2>3
<1>2. CASE Send
  <2>1. UNCHANGED <<server, life, published, feeds, call, kind, phase, retry_count, delay>>
        /\ sent' \in Nat /\ sent' <= version /\ joined' = 0 /\ version' = version
    BY <1>2, <1>a DEF Send
  <2>2. Server /\ Call /\ Reader
    BY <1>a, <1>b, <2>1
  <2>3. Spare'
    BY <2>1 DEF Spare
  <2> QED
    BY <1>c, <2>2, <2>3
<1>3. CASE Crash
  <2>1. /\ server' = "down" /\ life' = life /\ life < MaxLives /\ retry_count < MaxFailures
        /\ feeds' = feeds /\ Len(published') = 0
        /\ UNCHANGED <<kind, phase, retry_count, delay>>
        /\ call' = "broken" \/ (call # "open" /\ call' = call)
    BY <1>3 DEF Crash, Break
  <2>2. Server /\ Call /\ Reader
    BY <1>a, <1>b, <2>1
  <2>3. Spare'
    BY <2>1 DEF Spare
  <2> QED
    BY <1>c, <2>2, <2>3
<1>4. CASE Restart
  <2>1. /\ server = "down" /\ server' = "up" /\ life' = life + 1
        /\ UNCHANGED <<published, feeds, call, sent, joined, kind, phase, retry_count, delay>>
        /\ version' = version
    BY <1>4, <1>a DEF Restart
  <2>2. Server /\ Call /\ Reader
    BY <1>a, <1>b, <2>1 DEF Spare
  <2>3. Spare'
    BY <2>1 DEF Spare
  <2> QED
    BY <1>c, <2>2, <2>3
<1>5. CASE BreakStream
  <2>1. /\ retry_count < MaxFailures /\ call' = "broken"
        /\ UNCHANGED <<server, life, published, feeds, kind, phase, retry_count, delay>>
        /\ version' = version
    BY <1>5, <1>a DEF BreakStream, Break
  <2>2. Server /\ Call /\ Reader
    BY <1>a, <1>b, <2>1
  <2>3. Spare'
    BY <2>1 DEF Spare
  <2> QED
    BY <1>c, <2>2, <2>3
<1>6. CASE Subscribe
  <2>1. /\ server = "up" \/ retry_count < MaxFailures
        /\ call' = IF server = "up" THEN "open" ELSE "broken"
        /\ sent' = 0 /\ joined' = version /\ phase' = "read"
        /\ UNCHANGED <<server, life, published, feeds, kind, retry_count, delay>>
        /\ version' = version
    BY <1>6, <1>a DEF Subscribe
  <2>2. Server /\ Call /\ Reader
    BY <1>a, <1>b, <2>1
  <2>3. Spare'
    BY <2>1 DEF Spare
  <2> QED
    BY <1>c, <2>2, <2>3
<1>7. CASE ReadUpdate \/ ReadPastEnd
  <2>1. /\ phase = "read"
        /\ phase' = phase \/ phase' = "dead"
        /\ retry_count' = retry_count \/ retry_count' = 0
        /\ UNCHANGED <<server, life, published, feeds, call, sent, joined, kind, delay>>
        /\ version' = version
    BY <1>7, <1>a DEF ReadUpdate, ReadPastEnd
  <2>2. Server /\ Call /\ Reader
    BY <1>a, <1>b, <2>1
  <2>3. Spare'
    BY <1>a, <1>b, <2>1 DEF Spare
  <2> QED
    BY <1>c, <2>2, <2>3
<1>8. CASE ReadFails
  <2>1. /\ phase = "read" /\ call = "broken" /\ phase' = "sleep"
        /\ retry_count' = retry_count + 1
        /\ delay' \in Delays(retry_count + 1)
        /\ UNCHANGED <<server, life, published, feeds, call, sent, joined, kind>>
        /\ version' = version
    BY <1>8, <1>a DEF ReadFails
  <2>2. delay' \in Nat
    BY <1>a, <2>1, DelaysType
  <2>3. Server /\ Call /\ Reader
    BY <1>a, <1>b, <2>1, <2>2 DEF Spare
  <2>4. Spare'
    BY <2>1 DEF Spare
  <2> QED
    BY <1>c, <2>3, <2>4
<1>9. CASE Wake \/ UNCHANGED vars
  <2>1. /\ UNCHANGED <<server, life, published, feeds, sent, joined, kind, retry_count>>
        /\ delay' = 0 \/ delay' = delay
        /\ \/ call' = "none" /\ phase' = "subscribe"
           \/ call' = call /\ phase' = phase
        /\ version' = version
    BY <1>9, <1>a DEF Wake, vars
  <2>2. Server /\ Call /\ Reader
    BY <1>a, <1>b, <2>1
  <2>3. Spare'
    BY <2>1 DEF Spare
  <2> QED
    BY <1>c, <2>2, <2>3
<1> QED
  BY <1>1, <1>2, <1>3, <1>4, <1>5, <1>6, <1>7, <1>8, <1>9 DEF Next, Run

\* The invariant holds of client, network and server in every reachable state.
THEOREM SpecClient == Spec => []ClientInv
BY InitClient, NextClient, PTL DEF Spec

\* ClientTypeOK: the state of a client and of the server it talks to keeps its
\* types, no call is open that a living server has not taken, and a client
\* waits for some time or none, also where the backoff overflows
\* (client_bbo.cpp:28-160).
THEOREM ClientTypeCorrect == Spec => []ClientTypeOK
BY SpecClient, PTL DEF ClientInv

=============================================================================
