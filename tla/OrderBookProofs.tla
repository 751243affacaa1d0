---------------------------- MODULE OrderBookProofs ----------------------------
(***************************************************************************)
(* Facts about books, for every set of prices and quantities, that the     *)
(* proofs about Aggregator and BybitStream need.                           *)
(*                                                                         *)
(* Sums and folds are recursive functions.  What they compute is proved by *)
(* induction, stated over sets instead of predicates, so that a first-     *)
(* order prover can use it: a set of naturals that holds 0 and the         *)
(* successor of each member up to n holds 0 .. n.                          *)
(***************************************************************************)
EXTENDS OrderBook, SequenceTheorems, FiniteSetTheorems, WellFoundedInduction, TLAPS

-----------------------------------------------------------------------------
(* Induction *)

NatLess == {ss \in Nat \X Nat : ss[1] < ss[2]}

LEMMA LessWellFounded == IsWellFoundedOn(NatLess, Nat)
BY NatLessThanWellFounded DEF OpToRel, NatLess

LEMMA LeastNat ==
    ASSUME NEW T \in SUBSET Nat, T # {}
    PROVE  \E n \in T : \A m \in T : n <= m
<1>1. PICK n \in T : \A m \in T : ~ (<<m, n>> \in NatLess)
  BY LessWellFounded, WFMin
<1>2. \A m \in Nat : m < n => <<m, n>> \in NatLess
  BY DEF NatLess
<1>3. \A m \in T : ~ (m < n)
  BY <1>1, <1>2
<1> QED
  BY <1>3

LEMMA IntervalInduction ==
    ASSUME NEW n \in Nat, NEW T, 0 \in T, \A k \in 0 .. n - 1 : k \in T => k + 1 \in T
    PROVE  \A k \in 0 .. n : k \in T
<1> DEFINE missing == {k \in 0 .. n : k \notin T}
<1>1. CASE missing = {}
  BY <1>1
<1>2. CASE missing # {}
  <2>1. missing \in SUBSET Nat
    OBVIOUS
  <2>2. PICK k \in missing : \A j \in missing : k <= j
    <3> HIDE DEF missing
    <3> QED
      BY <1>2, <2>1, LeastNat
  <2>3. k \in 0 .. n /\ k # 0
    BY <2>2
  <2>4. k - 1 \in 0 .. n - 1 /\ ~ (k <= k - 1) /\ (k - 1) + 1 = k
    BY <2>3
  <2>5. k - 1 \in T
    BY <2>2, <2>4
  <2>6. k \in T
    BY <2>4, <2>5
  <2> QED
    BY <2>2, <2>6
<1> QED
  BY <1>1, <1>2

LEMMA LeastSubset ==
    ASSUME NEW S, IsFiniteSet(S), NEW T, T \subseteq SUBSET S, T # {}
    PROVE  \E A \in T : \A B \in SUBSET A : B # A => B \notin T
<1>1. IsWellFoundedOn(StrictSubsetOrdering(S), SUBSET S)
  BY FS_StrictSubsetOrderingWellFounded, FS_FiniteSubsetsOfFinite
<1>2. PICK A \in T : \A B \in T : ~ (<<B, A>> \in StrictSubsetOrdering(S))
  BY <1>1, WFMin
<1>3. ASSUME NEW B \in SUBSET A, B # A
      PROVE  B \notin T
  <2>1. A \in SUBSET S /\ B \in SUBSET S
    OBVIOUS
  <2>2. <<B, A>> \in StrictSubsetOrdering(S)
    BY <1>3, <2>1 DEF StrictSubsetOrdering
  <2> QED
    BY <1>2, <2>2
<1> QED
  BY <1>3

LEMMA MaxExists ==
    ASSUME NEW S \in SUBSET Int, IsFiniteSet(S), S # {}
    PROVE  \E x \in S : \A y \in S : x >= y
<1> DEFINE HasMax(A) == \E x \in A : \A y \in A : x >= y
           T == {A \in SUBSET S : A # {} /\ ~ HasMax(A)}
<1>1. CASE T = {}
  BY <1>1
<1>2. CASE T # {}
  <2>0. T \subseteq SUBSET S
    OBVIOUS
  <2>1. PICK A \in T : \A B \in SUBSET A : B # A => B \notin T
    <3> HIDE DEF T
    <3> QED
      BY <1>2, <2>0, LeastSubset
  <2>2. PICK a \in A : TRUE
    BY <2>1
  <2>3. CASE A \ {a} = {}
    <3>1. a \in Int /\ \A y \in A : y = a
      BY <2>1, <2>2, <2>3
    <3>2. HasMax(A)
      BY <2>2, <3>1
    <3> QED
      BY <2>1, <3>2
  <2>4. CASE A \ {a} # {}
    <3>1. HasMax(A \ {a})
      <4>1. A \ {a} \notin T
        <5> HIDE DEF T
        <5> QED
          BY <2>1, <2>2
      <4>2. A \ {a} \in SUBSET S
        BY <2>1
      <4> HIDE DEF HasMax
      <4> QED
        BY <2>4, <4>1, <4>2
    <3>2. PICK x \in A \ {a} : \A y \in A \ {a} : x >= y
      BY <3>1
    <3>3. x \in Int /\ a \in Int /\ A \subseteq Int
      BY <2>1, <2>2, <3>2
    <3>4. CASE x >= a
      <4>1. HasMax(A)
        BY <3>2, <3>3, <3>4
      <4> QED
        BY <2>1, <4>1
    <3>5. CASE ~ (x >= a)
      <4>1. \A y \in A : a >= y
        BY <3>2, <3>3, <3>5
      <4>2. HasMax(A)
        BY <2>2, <4>1
      <4> QED
        BY <2>1, <4>2
    <3> QED
      BY <3>4, <3>5
  <2> QED
    BY <2>3, <2>4
<1> QED
  BY <1>1, <1>2

LEMMA MaxFacts ==
    ASSUME NEW S \in SUBSET Int, IsFiniteSet(S), S # {}
    PROVE  Max(S) \in S /\ \A y \in S : Max(S) >= y
BY MaxExists DEF Max

LEMMA MaxIs ==
    ASSUME NEW S \in SUBSET Int, NEW m \in S, \A y \in S : m >= y
    PROVE  Max(S) = m
<1>1. \A x \in S : (\A y \in S : x >= y) => x = m
  OBVIOUS
<1> QED
  BY <1>1 DEF Max

\* The fold of base over S with values in B: pick[T] is the member of T that is
\* folded last, step[x] what folding x does.
FoldArgs(S, B, base, pick, step) ==
    /\ IsFiniteSet(S)
    /\ base \in B
    /\ \A T \in SUBSET S : T # {} => pick[T] \in T
    /\ step \in [S -> [B -> B]]

FoldOf(S, B, base, pick, step, g) ==
    /\ g \in [SUBSET S -> B]
    /\ \A T \in SUBSET S :
          g[T] = IF T = {} THEN base ELSE step[pick[T]][g[T \ {pick[T]}]]

LEMMA FoldExists ==
    ASSUME NEW S, NEW B, NEW base, NEW pick, NEW step,
           FoldArgs(S, B, base, pick, step)
    PROVE  \E g : FoldOf(S, B, base, pick, step, g)
<1> USE DEF FoldArgs
<1> DEFINE Next(g, T) == IF T = {} THEN base ELSE step[pick[T]][g[T \ {pick[T]}]]
           Upto(g, k) == \A T \in SUBSET S : Cardinality(T) <= k => g[T] = Next(g, T)
           Ok(k) == \E g \in [SUBSET S -> B] : Upto(g, k)
           n == Cardinality(S)
<1>1. ASSUME NEW T \in SUBSET S
      PROVE  /\ Cardinality(T) \in Nat /\ n \in Nat /\ Cardinality(T) <= n
             /\ Cardinality(T) = 0 <=> T = {}
             /\ T # {} => /\ T \ {pick[T]} \in SUBSET S
                          /\ Cardinality(T \ {pick[T]}) = Cardinality(T) - 1
  <2>1. IsFiniteSet(T) /\ Cardinality(T) <= n
    BY FS_Subset
  <2>2. Cardinality(T) \in Nat /\ n \in Nat
    BY <2>1, FS_CardinalityType
  <2>3. Cardinality(T) = 0 <=> T = {}
    BY <2>1, FS_EmptySet
  <2>4. ASSUME T # {} PROVE Cardinality(T \ {pick[T]}) = Cardinality(T) - 1
    <3>1. pick[T] \in T
      BY <2>4
    <3> QED
      BY <2>1, <3>1, FS_RemoveElement
  <2> QED
    BY <2>1, <2>2, <2>3, <2>4
<1>2. \A g \in [SUBSET S -> B] : \A T \in SUBSET S : Next(g, T) \in B
  OBVIOUS
<1>3. Ok(0)
  <2> DEFINE h == [T \in SUBSET S |-> base]
  <2>1. ASSUME NEW T \in SUBSET S, Cardinality(T) <= 0 PROVE T = {}
    <3>1. Cardinality(T) \in Nat
      BY <1>1
    <3>2. Cardinality(T) = 0
      BY <2>1, <3>1
    <3> QED
      BY <1>1, <3>2
  <2>2. Upto(h, 0)
    BY <2>1
  <2>3. h \in [SUBSET S -> B]
    OBVIOUS
  <2> QED
    BY <2>2, <2>3
<1>4. ASSUME NEW k \in 0 .. n - 1, Ok(k)
      PROVE  Ok(k + 1)
  <2>1. PICK g \in [SUBSET S -> B] : Upto(g, k)
    BY <1>4
  <2>0. k \in Nat
    OBVIOUS
  <2> HIDE DEF Next, n
  <2> DEFINE h == [T \in SUBSET S |-> Next(g, T)]
  <2>2. h \in [SUBSET S -> B]
    BY <1>2
  <2>3. ASSUME NEW T \in SUBSET S, Cardinality(T) <= k + 1
        PROVE  h[T] = Next(h, T)
    <3>1. CASE T = {}
      BY <3>1 DEF Next
    <3>2. CASE T # {}
      <4>1. T \ {pick[T]} \in SUBSET S /\ Cardinality(T \ {pick[T]}) <= k
        BY <1>1, <2>0, <2>3, <3>2
      <4>2. h[T \ {pick[T]}] = g[T \ {pick[T]}]
        BY <2>1, <4>1
      <4> HIDE DEF h
      <4>3. Next(h, T) = Next(g, T)
        BY <3>2, <4>2 DEF Next
      <4> QED
        BY <4>3 DEF h
    <3> QED
      BY <3>1, <3>2
  <2> HIDE DEF h
  <2>4. Upto(h, k + 1)
    BY <2>3
  <2> QED
    BY <2>2, <2>4
<1>5. Ok(n)
  <2>1. n \in Nat
    BY <1>1
  <2> DEFINE T == {k \in 0 .. n : Ok(k)}
  <2> HIDE DEF Ok, n
  <2>2. 0 \in T
    BY <1>3, <2>1
  <2>3. \A k \in 0 .. n - 1 : k \in T => k + 1 \in T
    BY <1>4, <2>1
  <2> HIDE DEF T
  <2>4. n \in T
    BY <2>1, <2>2, <2>3, IntervalInduction
  <2> QED
    BY <2>4 DEF T
<1>6. PICK g \in [SUBSET S -> B] : Upto(g, n)
  BY <1>5
<1>7. \A T \in SUBSET S : g[T] = Next(g, T)
  <2> HIDE DEF n, Next
  <2> QED
    BY <1>1, <1>6
<1> QED
  BY <1>6, <1>7 DEF FoldOf

-----------------------------------------------------------------------------
(* Books *)

LEMMA EmptyBookType == EmptyBook \in Book
<1>1. EmptySide \in [{} -> Quantity]
  BY DEF EmptySide
<1>2. EmptySide \in Side
  BY <1>1 DEF Side
<1> QED
  BY <1>2 DEF EmptyBook, Book

\* Any assignment of quantities to some of the prices is a side.
LEMMA SideIntro ==
    ASSUME NEW S \in SUBSET Price, NEW f \in [S -> Quantity]
    PROVE  f \in Side
BY DEF Side

LEMMA SideElim ==
    ASSUME NEW side \in Side
    PROVE  /\ DOMAIN side \in SUBSET Price
           /\ side \in [DOMAIN side -> Quantity]
BY DEF Side

LEMMA PositiveType ==
    ASSUME NEW levels \in Side
    PROVE  Positive(levels) \in Side
<1> DEFINE S == {p \in DOMAIN levels : levels[p] > 0}
<1>1. S \in SUBSET Price
  BY SideElim
<1>2. Positive(levels) \in [S -> Quantity]
  BY SideElim DEF Positive
<1> QED
  BY <1>1, <1>2, SideIntro

LEMMA OverlaidType ==
    ASSUME NEW side \in Side, NEW levels \in Side
    PROVE  Overlaid(side, levels) \in Side
<1> DEFINE erased == {p \in DOMAIN levels : levels[p] = 0}
           kept   == (DOMAIN side \cup DOMAIN levels) \ erased
<1>1. kept \in SUBSET Price
  BY SideElim
<1>2. Overlaid(side, levels) \in [kept -> Quantity]
  BY SideElim DEF Overlaid
<1> QED
  BY <1>1, <1>2, SideIntro

LEMMA ReplacedType == ASSUME NEW msg \in Message PROVE Replaced(msg) \in Book
BY EmptyBookType DEF Replaced, Message, Book, EmptyBook

LEMMA ParseBybitType ==
    ASSUME NEW book \in Book, NEW msg \in Message
    PROVE  ParseBybit(book, msg) \in Book
<1>1. /\ msg.kind \in {"snapshot", "delta", "other"}
      /\ msg.bids \in Side /\ msg.asks \in Side
  BY DEF Message
<1>2. book.bids \in Side /\ book.asks \in Side
  BY DEF Book
<1>3. BybitSnapshot(msg) \in Book
  BY ReplacedType, PositiveType DEF BybitSnapshot, Book
<1>4. BybitDelta(book, msg) \in Book
  BY <1>1, <1>2, OverlaidType DEF BybitDelta, Book
<1> QED
  BY <1>1, <1>3, <1>4 DEF ParseBybit

\* Whatever the venue sends, parse_message leaves a book.
LEMMA ParseType ==
    ASSUME NEW exchange \in Exchanges, NEW book \in Book, NEW msg \in Message
    PROVE  Parse(exchange, book, msg) \in Book
BY ReplacedType, ParseBybitType
   DEF Parse, Exchanges, ParseBinance, ParseOkx, ParseBitget

LEMMA MergeSideDomain ==
    ASSUME NEW sides, \A c \in DOMAIN sides : DOMAIN sides[c] \subseteq Price
    PROVE  DOMAIN MergeSide(sides) \subseteq Price
BY DEF MergeSide

\* The sum of local books has levels only at prices of the venues.
LEMMA MergeDomain ==
    ASSUME NEW venues, NEW books \in [venues -> Book]
    PROVE  /\ DOMAIN Merge(books).bids \subseteq Price
           /\ DOMAIN Merge(books).asks \subseteq Price
<1>1. \A c \in venues : /\ DOMAIN books[c].bids \subseteq Price
                        /\ DOMAIN books[c].asks \subseteq Price
  BY SideElim DEF Book
<1> DEFINE bids == [c \in DOMAIN books |-> books[c].bids]
           asks == [c \in DOMAIN books |-> books[c].asks]
<1>2. DOMAIN MergeSide(bids) \subseteq Price
  BY <1>1, MergeSideDomain
<1>3. DOMAIN MergeSide(asks) \subseteq Price
  BY <1>1, MergeSideDomain
<1> QED
  BY <1>2, <1>3 DEF Merge

\* Nothing is quoted before the first frame, so nothing is summed.
LEMMA MergeOfEmpty ==
    ASSUME NEW venues
    PROVE  Merge([c \in venues |-> EmptyBook]) = EmptyBook
<1> DEFINE books == [c \in venues |-> EmptyBook]
           none  == [c \in venues |-> EmptySide]
<1>1. UNION {DOMAIN none[c] : c \in DOMAIN none} = {}
  BY DEF EmptySide
<1>2. MergeSide(none) = EmptySide
  BY <1>1 DEF MergeSide, EmptySide
<1>3. /\ [c \in DOMAIN books |-> books[c].bids] = none
      /\ [c \in DOMAIN books |-> books[c].asks] = none
  BY DEF EmptyBook
<1> QED
  BY <1>2, <1>3 DEF Merge, EmptyBook

-----------------------------------------------------------------------------
(* Places in an order *)

\* R orders S.
Orders(R, S) ==
    /\ \A p \in S : <<p, p>> \notin R
    /\ \A p, q, r \in S : <<p, q>> \in R /\ <<q, r>> \in R => <<p, r>> \in R
    /\ \A p, q \in S : p = q \/ <<p, q>> \in R \/ <<q, p>> \in R

Preceding(R, S, p) == {q \in S : <<q, p>> \in R}

\* t lists S in the order R.
Lists(t, R, S) ==
    /\ t \in [1 .. Cardinality(S) -> S]
    /\ \A i, j \in 1 .. Cardinality(S) : i < j => <<t[i], t[j]>> \in R
    /\ \A p \in S : \E i \in 1 .. Cardinality(S) : t[i] = p

\* Each place of an order is taken once.
LEMMA PlaceFacts ==
    ASSUME NEW S, IsFiniteSet(S), NEW R, Orders(R, S)
    PROVE  /\ \A p \in S : Cardinality(Preceding(R, S, p)) \in 0 .. Cardinality(S) - 1
           /\ \A p, q \in S : <<p, q>> \in R =>
                 Cardinality(Preceding(R, S, p)) < Cardinality(Preceding(R, S, q))
           /\ \A k \in 0 .. Cardinality(S) - 1 :
                 \E p \in S : Cardinality(Preceding(R, S, p)) = k
<1> DEFINE rank(p) == Cardinality(Preceding(R, S, p))
           n == Cardinality(S)
<1>0. n \in Nat
  BY FS_CardinalityType
<1>1. ASSUME NEW p \in S
      PROVE  IsFiniteSet(Preceding(R, S, p)) /\ rank(p) \in 0 .. n - 1
  <2>1. Preceding(R, S, p) \in SUBSET (S \ {p})
    BY DEF Preceding, Orders
  <2>2. IsFiniteSet(S \ {p}) /\ Cardinality(S \ {p}) = n - 1
    BY FS_RemoveElement
  <2>3. IsFiniteSet(Preceding(R, S, p)) /\ rank(p) <= n - 1
    BY <2>1, <2>2, FS_Subset
  <2>4. rank(p) \in Nat
    BY <2>3, FS_CardinalityType
  <2> QED
    BY <1>0, <2>3, <2>4
<1>2. ASSUME NEW p \in S, NEW q \in S, <<p, q>> \in R
      PROVE  rank(p) < rank(q)
  <2>1. Preceding(R, S, p) \in SUBSET Preceding(R, S, q)
    BY <1>2 DEF Preceding, Orders
  <2>2. Preceding(R, S, p) # Preceding(R, S, q)
    BY <1>2 DEF Preceding, Orders
  <2>3. rank(p) <= rank(q) /\ rank(p) # rank(q)
    BY <1>1, <2>1, <2>2, FS_Subset
  <2>4. rank(p) \in 0 .. n - 1 /\ rank(q) \in 0 .. n - 1
    BY <1>1
  <2> HIDE DEF rank
  <2> QED
    BY <1>0, <2>3, <2>4
<1>3. ASSUME NEW k \in 0 .. n - 1
      PROVE  \E p \in S : rank(p) = k
  <2> DEFINE f == [p \in S |-> rank(p)]
  <2>1. f \in [S -> 0 .. n - 1]
    BY <1>1
  <2>2. \A p, q \in S : f[p] = f[q] => p = q
    <3> SUFFICES ASSUME NEW p \in S, NEW q \in S, p # q PROVE f[p] # f[q]
      OBVIOUS
    <3>1. rank(p) < rank(q) \/ rank(q) < rank(p)
      BY <1>2 DEF Orders
    <3>2. rank(p) \in 0 .. n - 1 /\ rank(q) \in 0 .. n - 1
      BY <1>1
    <3> HIDE DEF rank
    <3> QED
      BY <1>0, <3>1, <3>2
  <2> HIDE DEF f
  <2>3. f \in Injection(S, 0 .. n - 1)
    BY <2>1, <2>2 DEF Injection, IsInjective
  <2>4. IsFiniteSet(0 .. n - 1) /\ Cardinality(0 .. n - 1) = n
    <3> HIDE DEF n
    <3>1. PICK m \in Int : m = n - 1
      BY <1>0
    <3>2. IsFiniteSet(0 .. m) /\ Cardinality(0 .. m) = IF 0 > m THEN 0 ELSE m - 0 + 1
      BY FS_Interval
    <3> QED
      BY <1>0, <3>1, <3>2
  <2>5. f \in Surjection(S, 0 .. n - 1)
    BY <2>3, <2>4, FS_Injection
  <2>6. \E p \in S : f[p] = k
    BY <2>5 DEF Surjection
  <2> QED
    BY <2>6 DEF f
<1> QED
  BY <1>1, <1>2, <1>3

LEMMA PlacesList ==
    ASSUME NEW S, IsFiniteSet(S), NEW R, Orders(R, S), NEW t \in [1 .. Cardinality(S) -> S],
           \A i \in 1 .. Cardinality(S) : Cardinality(Preceding(R, S, t[i])) = i - 1
    PROVE  Lists(t, R, S)
<1> DEFINE rank(p) == Cardinality(Preceding(R, S, p))
           n == Cardinality(S)
<1>1. n \in Nat
  BY FS_CardinalityType
<1>2. /\ \A p \in S : rank(p) \in 0 .. n - 1
      /\ \A p, q \in S : <<p, q>> \in R => rank(p) < rank(q)
      /\ \A k \in 0 .. n - 1 : \E p \in S : rank(p) = k
  BY PlaceFacts
<1>3. ASSUME NEW i \in 1 .. n
      PROVE  t[i] \in S /\ rank(t[i]) = i - 1
  OBVIOUS
<1> HIDE DEF rank, n
<1>4. \A p, q \in S : p = q \/ <<p, q>> \in R \/ <<q, p>> \in R
  BY DEF Orders
<1>5. ASSUME NEW i \in 1 .. n, NEW j \in 1 .. n, i < j
      PROVE  <<t[i], t[j]>> \in R
  <2>0. rank(t[i]) = i - 1 /\ rank(t[j]) = j - 1
    BY <1>3
  <2>1. ~ (rank(t[j]) < rank(t[i])) /\ t[i] # t[j]
    BY <1>1, <1>5, <2>0
  <2> QED
    BY <1>2, <1>3, <1>4, <2>1
<1>6. ASSUME NEW p \in S
      PROVE  \E i \in 1 .. n : t[i] = p
  <2>1. rank(p) \in 0 .. n - 1
    BY <1>2
  <2>2. rank(p) + 1 \in 1 .. n /\ (rank(p) + 1) - 1 = rank(p)
    BY <1>1, <2>1
  <2>3. t[rank(p) + 1] \in S /\ rank(t[rank(p) + 1]) = rank(p)
    BY <1>3, <2>2
  <2>4. ~ (rank(p) < rank(p))
    BY <2>1
  <2>5. t[rank(p) + 1] = p
    BY <1>2, <1>4, <2>3, <2>4
  <2> QED
    BY <2>2, <2>5
<1>7. t \in [1 .. n -> S]
  BY <1>3 DEF n
<1> QED
  BY <1>5, <1>6, <1>7 DEF Lists, n

\* The bids of an update go down from the highest price, its asks up from the
\* lowest.
Higher(S) == {pq \in S \X S : pq[1] > pq[2]}
Lower(S)  == {pq \in S \X S : pq[1] < pq[2]}

LEMMA PriceOrder ==
    ASSUME NEW S, S \subseteq Int
    PROVE  /\ \A p, q \in S : <<p, q>> \in Higher(S) <=> p > q
           /\ \A p, q \in S : <<p, q>> \in Lower(S) <=> p < q
           /\ \A p, q \in S : (p = q \/ <<q, p>> \in Higher(S)) <=> p <= q
           /\ \A p, q \in S : (p = q \/ <<q, p>> \in Lower(S)) <=> p >= q
<1>1. \A p \in S : p \in Int
  OBVIOUS
<1>2. /\ \A p, q \in S : <<p, q>> \in Higher(S) <=> p > q
      /\ \A p, q \in S : <<p, q>> \in Lower(S) <=> p < q
  BY DEF Higher, Lower
<1>3. \A p, q \in Int : (p = q \/ q > p <=> p <= q) /\ (p = q \/ q < p <=> p >= q)
  OBVIOUS
<1> QED
  BY <1>1, <1>2, <1>3

LEMMA DescendingLists ==
    ASSUME NEW S \in SUBSET Int, IsFiniteSet(S)
    PROVE  Lists(Descending(S), Higher(S), S)
<1> DEFINE R == Higher(S)
<1>1. Orders(R, S)
  BY DEF Orders, Higher
<1>2. ASSUME NEW p \in S PROVE Preceding(R, S, p) = {q \in S : q > p}
  BY DEF Preceding, Higher
<1>3. ASSUME NEW i \in 1 .. Cardinality(S)
      PROVE  /\ Descending(S)[i] \in S
             /\ Cardinality(Preceding(R, S, Descending(S)[i])) = i - 1
  <2>1. i - 1 \in 0 .. Cardinality(S) - 1
    BY FS_CardinalityType
  <2>2. PICK p \in S : Cardinality(Preceding(R, S, p)) = i - 1
    <3> HIDE DEF R
    <3> QED
      BY <1>1, <2>1, PlaceFacts
  <2>3. Cardinality({q \in S : q > p}) = i - 1
    BY <1>2, <2>2
  <2>4. Descending(S)[i] = CHOOSE x \in S : Cardinality({q \in S : q > x}) = i - 1
    BY DEF Descending
  <2>5. Descending(S)[i] \in S /\ Cardinality({q \in S : q > Descending(S)[i]}) = i - 1
    BY <2>3, <2>4
  <2> QED
    BY <1>2, <2>5
<1>4. Descending(S) \in [1 .. Cardinality(S) -> S]
  BY <1>3 DEF Descending
<1> HIDE DEF R
<1> QED
  BY <1>1, <1>3, <1>4, PlacesList DEF R

LEMMA AscendingLists ==
    ASSUME NEW S \in SUBSET Int, IsFiniteSet(S)
    PROVE  Lists(Ascending(S), Lower(S), S)
<1> DEFINE R == Lower(S)
<1>1. Orders(R, S)
  BY DEF Orders, Lower
<1>2. ASSUME NEW p \in S PROVE Preceding(R, S, p) = {q \in S : q < p}
  BY DEF Preceding, Lower
<1>3. ASSUME NEW i \in 1 .. Cardinality(S)
      PROVE  /\ Ascending(S)[i] \in S
             /\ Cardinality(Preceding(R, S, Ascending(S)[i])) = i - 1
  <2>1. i - 1 \in 0 .. Cardinality(S) - 1
    BY FS_CardinalityType
  <2>2. PICK p \in S : Cardinality(Preceding(R, S, p)) = i - 1
    <3> HIDE DEF R
    <3> QED
      BY <1>1, <2>1, PlaceFacts
  <2>3. Cardinality({q \in S : q < p}) = i - 1
    BY <1>2, <2>2
  <2>4. Ascending(S)[i] = CHOOSE x \in S : Cardinality({q \in S : q < x}) = i - 1
    BY DEF Ascending
  <2>5. Ascending(S)[i] \in S /\ Cardinality({q \in S : q < Ascending(S)[i]}) = i - 1
    BY <2>3, <2>4
  <2> QED
    BY <1>2, <2>5
<1>4. Ascending(S) \in [1 .. Cardinality(S) -> S]
  BY <1>3 DEF Ascending
<1> HIDE DEF R
<1> QED
  BY <1>1, <1>3, <1>4, PlacesList DEF R
LEMMA MinOfTwo ==
    ASSUME NEW a \in Nat, NEW b \in Nat
    PROVE  Min({a, b}) = IF a <= b THEN a ELSE b
<1> DEFINE m == IF a <= b THEN a ELSE b
<1>1. m \in {a, b} /\ \A y \in {a, b} : m <= y
  OBVIOUS
<1>2. \A x \in {a, b} : (\A y \in {a, b} : x <= y) => x = m
  OBVIOUS
<1> QED
  BY <1>1, <1>2 DEF Min

\* levels shows the side, best level first in the order R, up to the depth.
Shows(levels, side, R) ==
    LET priced == {levels[i].price : i \in DOMAIN levels}
    IN  /\ priced \subseteq DOMAIN side
        /\ Len(levels) = Cardinality(priced)
        /\ \A i, j \in DOMAIN levels : i < j => <<levels[i].price, levels[j].price>> \in R
        /\ \A i \in DOMAIN levels : levels[i].quantity = side[levels[i].price]
        /\ \A p \in DOMAIN side \ priced :
              /\ Len(levels) = MaxDepth
              /\ \A q \in priced : <<q, p>> \in R

\* What the cut at MaxDepth leaves of a side.
LEMMA BestLevelsAre ==
    ASSUME NEW side, IsFiniteSet(DOMAIN side), NEW R, NEW t, Lists(t, R, DOMAIN side)
    PROVE  LET n == Cardinality(DOMAIN side)
               k == IF MaxDepth <= n THEN MaxDepth ELSE n
           IN  /\ k \in 0 .. n /\ n \in Nat
               /\ BestLevels(side, t) =
                     [i \in 1 .. k |-> [price |-> t[i], quantity |-> side[t[i]]]]
<1> DEFINE n == Cardinality(DOMAIN side)
           k == IF MaxDepth <= n THEN MaxDepth ELSE n
<1>1. n \in Nat /\ MaxDepth \in Nat
  BY FS_CardinalityType, BookAssumption
<1>2. Len(t) = n
  <2>1. DOMAIN t = 1 .. n
    BY DEF Lists
  <2> HIDE DEF n
  <2> QED
    BY <1>1, <2>1
<1>3. Min({MaxDepth, Len(t)}) = k
  BY <1>1, <1>2, MinOfTwo
<1>4. k \in 0 .. n
  <2> HIDE DEF n
  <2> QED
    BY <1>1
<1> HIDE DEF k
<1> QED
  BY <1>1, <1>3, <1>4 DEF BestLevels, k

LEMMA BestLevelsShow ==
    ASSUME NEW side, IsFiniteSet(DOMAIN side), NEW R, Orders(R, DOMAIN side),
           NEW t, Lists(t, R, DOMAIN side)
    PROVE  Shows(BestLevels(side, t), side, R)
<1> DEFINE S == DOMAIN side
           n == Cardinality(S)
           k == IF MaxDepth <= n THEN MaxDepth ELSE n
           levels == BestLevels(side, t)
           priced == {levels[i].price : i \in DOMAIN levels}
<1>1. /\ k \in 0 .. n /\ n \in Nat
      /\ levels = [i \in 1 .. k |-> [price |-> t[i], quantity |-> side[t[i]]]]
  BY BestLevelsAre
<1>2. MaxDepth \in Nat
  BY BookAssumption
<1>3. /\ \A i \in 1 .. n : t[i] \in S
      /\ \A i, j \in 1 .. n : i < j => <<t[i], t[j]>> \in R
      /\ \A p \in S : \E i \in 1 .. n : t[i] = p
  BY DEF Lists
<1>4. /\ DOMAIN levels = 1 .. k
      /\ \A i \in 1 .. k : levels[i].price = t[i] /\ levels[i].quantity = side[t[i]]
  <2> HIDE DEF levels, k
  <2> QED
    BY <1>1
<1>5. k \in Nat /\ \A i \in 1 .. k : i \in 1 .. n
  <2> HIDE DEF levels, k, n
  <2> QED
    BY <1>1
<1>6. k # n => k = MaxDepth
  OBVIOUS
<1> HIDE DEF levels, k, n
<1>7. Len(levels) = k
  BY <1>4, <1>5
<1>8. priced = {t[i] : i \in 1 .. k}
  BY <1>4
<1>9. \A i, j \in 1 .. k : t[i] = t[j] => i = j
  <2> SUFFICES ASSUME NEW i \in 1 .. k, NEW j \in 1 .. k, i < j PROVE t[i] # t[j]
    BY <1>5
  <2>1. <<t[i], t[j]>> \in R /\ t[j] \in S
    BY <1>3, <1>5
  <2> QED
    BY <2>1 DEF Orders
<1>10. Cardinality(priced) = k
  <2> DEFINE f == [i \in 1 .. k |-> t[i]]
  <2>1. f \in [1 .. k -> priced]
    BY <1>8
  <2>2. f \in Injection(1 .. k, priced) /\ f \in Surjection(1 .. k, priced)
    BY <1>8, <1>9, <2>1 DEF Injection, Surjection, IsInjective
  <2>3. ExistsBijection(1 .. k, priced)
    BY <2>2 DEF ExistsBijection, Bijection
  <2> HIDE DEF priced
  <2> QED
    BY <1>5, <2>3, FS_CountingElements
<1>11. priced \subseteq S
  BY <1>3, <1>5, <1>8
<1>12. \A i, j \in DOMAIN levels : i < j => <<levels[i].price, levels[j].price>> \in R
  <2> SUFFICES ASSUME NEW i \in 1 .. k, NEW j \in 1 .. k, i < j
               PROVE  <<levels[i].price, levels[j].price>> \in R
    BY <1>4
  <2>1. <<t[i], t[j]>> \in R
    BY <1>3, <1>5
  <2>2. levels[i].price = t[i] /\ levels[j].price = t[j]
    BY <1>4
  <2> QED
    BY <2>1, <2>2
<1>13. \A i \in DOMAIN levels : levels[i].quantity = side[levels[i].price]
  BY <1>4
<1>14. ASSUME NEW p \in S, p \notin priced
       PROVE  k = MaxDepth /\ \A q \in priced : <<q, p>> \in R
  <2>1. PICK j \in 1 .. n : t[j] = p
    BY <1>3
  <2>2. j \notin 1 .. k
    BY <1>8, <1>14, <2>1
  <2>3. k = MaxDepth
    BY <1>1, <1>6, <2>2
  <2>4. \A i \in 1 .. k : i < j
    BY <1>1, <1>5, <2>2
  <2>5. \A i \in 1 .. k : <<t[i], t[j]>> \in R
    BY <1>3, <1>5, <2>4
  <2> QED
    BY <1>8, <2>1, <2>3, <2>5
<1> QED
  BY <1>7, <1>10, <1>11, <1>12, <1>13, <1>14 DEF Shows, levels

-----------------------------------------------------------------------------
(* Sums *)

\* g sums f over the subsets of S, in whatever order.
Sums(f, S, g) ==
    /\ g \in [SUBSET S -> Int]
    /\ g[{}] = 0
    /\ \A T \in SUBSET S : \A x \in T : g[T] = f[x] + g[T \ {x}]

\* A sum taken in the order of pick is one in any order.
LEMMA AnyOrder ==
    ASSUME NEW S, IsFiniteSet(S), NEW f \in [S -> Int], NEW g \in [SUBSET S -> Int],
           NEW pick, g[{}] = 0,
           \A T \in SUBSET S : T # {} =>
               pick[T] \in T /\ g[T] = f[pick[T]] + g[T \ {pick[T]}]
    PROVE  Sums(f, S, g)
<1> DEFINE Ok(T) == \A x \in T : g[T] = f[x] + g[T \ {x}]
           wrong == {T \in SUBSET S : ~ Ok(T)}
<1>1. wrong \subseteq SUBSET S
  OBVIOUS
<1>2. wrong = {}
  <2> SUFFICES ASSUME wrong # {} PROVE FALSE
    OBVIOUS
  <2>1. PICK T \in wrong : \A B \in SUBSET T : B # T => B \notin wrong
    <3> HIDE DEF wrong
    <3> QED
      BY <1>1, LeastSubset
  <2>2. PICK x \in T : g[T] # f[x] + g[T \ {x}]
    BY <2>1
  <2>3. T \in SUBSET S /\ T # {}
    BY <2>1, <2>2
  <2> DEFINE y == pick[T]
  <2>4. y \in T /\ g[T] = f[y] + g[T \ {y}] /\ x # y
    BY <2>2, <2>3
  <2>5. T \ {y} \in SUBSET S /\ T \ {x} \in SUBSET S /\ (T \ {y}) \ {x} \in SUBSET S
    BY <2>3
  <2>6. Ok(T \ {y}) /\ Ok(T \ {x})
    <3>1. T \ {y} \notin wrong /\ T \ {x} \notin wrong
      <4> HIDE DEF wrong, y
      <4> QED
        BY <2>1, <2>2, <2>4
    <3> HIDE DEF Ok, y
    <3> QED
      BY <2>5, <3>1
  <2> HIDE DEF y
  <2>7. /\ g[T \ {y}] = f[x] + g[(T \ {y}) \ {x}]
        /\ g[T \ {x}] = f[y] + g[(T \ {x}) \ {y}]
        /\ (T \ {y}) \ {x} = (T \ {x}) \ {y}
    BY <2>2, <2>4, <2>6
  <2>8. /\ f[x] \in Int /\ f[y] \in Int
        /\ g[(T \ {y}) \ {x}] \in Int
    BY <2>2, <2>3, <2>4, <2>5
  <2>9. g[T] = f[x] + g[T \ {x}]
    <3>1. \A k, l, n \in Int : k + (l + n) = l + (k + n)
      OBVIOUS
    <3> DEFINE rest == g[(T \ {y}) \ {x}]
    <3>2. g[T] = f[y] + (f[x] + rest) /\ g[T \ {x}] = f[y] + rest
      BY <2>4, <2>7
    <3>3. rest \in Int
      BY <2>8
    <3> HIDE DEF rest
    <3>4. f[y] + (f[x] + rest) = f[x] + (f[y] + rest)
      BY <2>8, <3>1, <3>3
    <3> QED
      BY <3>2, <3>4
  <2> QED
    BY <2>2, <2>9
<1>3. \A T \in SUBSET S : Ok(T)
  <2> HIDE DEF Ok
  <2> QED
    BY <1>2
<1> QED
  BY <1>3 DEF Sums

\* SumFunction is such a sum: FoldExists says that its recursive function is
\* there.
LEMMA SumIs ==
    ASSUME NEW S, IsFiniteSet(S), NEW f \in [S -> Int]
    PROVE  \E g : Sums(f, S, g) /\ SumFunction(f) = g[S]
<1> DEFINE Eqn(h) == h = [T \in SUBSET S |->
              IF T = {} THEN 0
              ELSE f[CHOOSE x \in T : TRUE] + h[T \ {CHOOSE x \in T : TRUE}]]
           iter == CHOOSE h : Eqn(h)
           pick == [T \in SUBSET S |-> CHOOSE x \in T : TRUE]
           step == [x \in S |-> [n \in Int |-> f[x] + n]]
<1>1. SumFunction(f) = iter[S]
  BY DEF SumFunction, SumFunctionOnSet, FoldFunctionOnSet, MapThenFoldSet
<1>2. \A T \in SUBSET S : T # {} => pick[T] \in T
  OBVIOUS
<1>3. PICK g : FoldOf(S, Int, 0, pick, step, g)
  <2>1. step \in [S -> [Int -> Int]]
    OBVIOUS
  <2>2. FoldArgs(S, Int, 0, pick, step)
    BY <1>2, <2>1 DEF FoldArgs
  <2> HIDE DEF pick, step
  <2> QED
    BY <2>2, FoldExists
<1>4. /\ g \in [SUBSET S -> Int] /\ g[{}] = 0
      /\ \A T \in SUBSET S : T # {} => g[T] = f[pick[T]] + g[T \ {pick[T]}]
  <2>1. g \in [SUBSET S -> Int] /\ g[{}] = 0
    BY <1>3 DEF FoldOf
  <2>2. ASSUME NEW T \in SUBSET S, T # {}
        PROVE  g[T] = f[pick[T]] + g[T \ {pick[T]}]
    <3>1. g[T] = step[pick[T]][g[T \ {pick[T]}]]
      BY <1>3, <2>2 DEF FoldOf
    <3>2. pick[T] \in S /\ g[T \ {pick[T]}] \in Int
      <4> HIDE DEF pick
      <4> QED
        BY <1>2, <2>1, <2>2
    <3> HIDE DEF pick
    <3> QED
      BY <3>1, <3>2
  <2> HIDE DEF pick
  <2> QED
    BY <2>1, <2>2
<1>5. Eqn(g)
  BY <1>4
<1>6. Eqn(iter)
  <2> HIDE DEF Eqn
  <2> QED
    BY <1>5
<1> HIDE DEF iter
<1>7. /\ iter[{}] = 0 /\ iter = [T \in SUBSET S |-> iter[T]]
      /\ \A T \in SUBSET S : T # {} => iter[T] = f[pick[T]] + iter[T \ {pick[T]}]
  BY <1>6
<1>8. \A T \in SUBSET S : iter[T] \in Int
  <2> DEFINE wrong == {T \in SUBSET S : iter[T] \notin Int}
  <2> SUFFICES ASSUME wrong # {} PROVE FALSE
    OBVIOUS
  <2>1. PICK T \in wrong : \A B \in SUBSET T : B # T => B \notin wrong
    <3>1. wrong \subseteq SUBSET S
      OBVIOUS
    <3> HIDE DEF wrong
    <3> QED
      BY <3>1, LeastSubset
  <2>2. T \in SUBSET S /\ iter[T] \notin Int /\ T # {}
    <3>1. T \in SUBSET S /\ iter[T] \notin Int
      BY <2>1
    <3>2. 0 \in Int
      OBVIOUS
    <3> QED
      BY <1>7, <3>1, <3>2
  <2> DEFINE y == pick[T]
  <2>3. y \in T /\ iter[T] = f[y] + iter[T \ {y}]
    BY <1>2, <1>7, <2>2
  <2> HIDE DEF y
  <2>4. T \ {y} \notin wrong
    <3> HIDE DEF wrong
    <3> QED
      BY <2>1, <2>3
  <2>5. iter[T \ {y}] \in Int /\ f[y] \in Int
    BY <2>2, <2>3, <2>4
  <2> QED
    BY <2>2, <2>3, <2>5
<1>9. iter \in [SUBSET S -> Int]
  BY <1>7, <1>8
<1> HIDE DEF pick
<1>10. Sums(f, S, iter)
  BY <1>2, <1>7, <1>9, AnyOrder
<1> QED
  BY <1>1, <1>10

\* There is one sum.
LEMMA OneSum ==
    ASSUME NEW S, IsFiniteSet(S), NEW f \in [S -> Int], NEW g, NEW h,
           Sums(f, S, g), Sums(f, S, h)
    PROVE  \A T \in SUBSET S : g[T] = h[T]
<1> DEFINE wrong == {T \in SUBSET S : g[T] # h[T]}
<1> SUFFICES ASSUME wrong # {} PROVE FALSE
  OBVIOUS
<1>1. PICK T \in wrong : \A B \in SUBSET T : B # T => B \notin wrong
  <2>1. wrong \subseteq SUBSET S
    OBVIOUS
  <2> HIDE DEF wrong
  <2> QED
    BY <2>1, LeastSubset
<1>2. T \in SUBSET S /\ g[T] # h[T]
  BY <1>1
<1>3. T # {}
  BY <1>2 DEF Sums
<1>4. PICK x \in T : TRUE
  BY <1>3
<1>5. T \ {x} \notin wrong
  <2> HIDE DEF wrong
  <2> QED
    BY <1>1, <1>4
<1>6. g[T \ {x}] = h[T \ {x}]
  BY <1>2, <1>5
<1>7. g[T] = f[x] + g[T \ {x}] /\ h[T] = f[x] + h[T \ {x}]
  BY <1>2, <1>4 DEF Sums
<1> QED
  BY <1>2, <1>6, <1>7

\* What the sum of f is, of whatever can be summed.
LEMMA SumFrom ==
    ASSUME NEW S, IsFiniteSet(S), NEW f \in [S -> Int], NEW g, Sums(f, S, g)
    PROVE  SumFunction(f) = g[S]
<1>1. PICK h : Sums(f, S, h) /\ SumFunction(f) = h[S]
  BY SumIs
<1>2. S \in SUBSET S
  OBVIOUS
<1>3. g[S] = h[S]
  BY <1>1, <1>2, OneSum
<1> QED
  BY <1>1, <1>3

LEMMA SumType ==
    ASSUME NEW S, IsFiniteSet(S), NEW f \in [S -> Int]
    PROVE  SumFunction(f) \in Int
<1>1. PICK g : Sums(f, S, g) /\ SumFunction(f) = g[S]
  BY SumIs
<1>2. S \in SUBSET S
  OBVIOUS
<1> QED
  BY <1>1, <1>2 DEF Sums

\* f is e on U and 0 on the rest of S.
Extends(S, f, U, e) ==
    /\ f \in [S -> Int] /\ U \subseteq S /\ e \in [U -> Int]
    /\ \A x \in S : f[x] = IF x \in U THEN e[x] ELSE 0

\* Values of 0 add nothing.
LEMMA SumOfSupport ==
    ASSUME NEW S, IsFiniteSet(S), NEW f, NEW U, NEW e, Extends(S, f, U, e)
    PROVE  SumFunction(f) = SumFunction(e)
<1> f \in [S -> Int] /\ U \in SUBSET S /\ e \in [U -> Int]
  BY DEF Extends
<1> \A x \in S : f[x] = IF x \in U THEN e[x] ELSE 0
  BY DEF Extends
<1>1. IsFiniteSet(U)
  BY FS_Subset
<1>2. PICK g : Sums(e, U, g) /\ SumFunction(e) = g[U]
  BY <1>1, SumIs
<1> DEFINE h == [T \in SUBSET S |-> g[T \cap U]]
<1>3. Sums(f, S, h)
  <2>1. g \in [SUBSET U -> Int] /\ g[{}] = 0
    BY <1>2 DEF Sums
  <2>2. h \in [SUBSET S -> Int] /\ h[{}] = 0
    BY <2>1
  <2>3. ASSUME NEW T \in SUBSET S, NEW x \in T
        PROVE  h[T] = f[x] + h[T \ {x}]
    <3>1. h[T] = g[T \cap U] /\ h[T \ {x}] = g[(T \ {x}) \cap U]
      OBVIOUS
    <3>2. CASE x \in U
      <4>1. (T \ {x}) \cap U = (T \cap U) \ {x} /\ T \cap U \in SUBSET U /\ x \in T \cap U
        BY <3>2
      <4>2. g[T \cap U] = e[x] + g[(T \cap U) \ {x}]
        BY <1>2, <4>1 DEF Sums
      <4> QED
        BY <3>1, <3>2, <4>1, <4>2
    <3>3. CASE x \notin U
      <4>1. (T \ {x}) \cap U = T \cap U /\ g[T \cap U] \in Int
        BY <2>1, <3>3
      <4>2. f[x] = 0
        BY <3>3
      <4> HIDE DEF h
      <4> QED
        BY <3>1, <4>1, <4>2
    <3> QED
      BY <3>2, <3>3
  <2> HIDE DEF h
  <2> QED
    BY <2>2, <2>3 DEF Sums
<1>4. SumFunction(f) = h[S]
  <2> HIDE DEF h
  <2> QED
    BY <1>3, SumFrom
<1>5. h[S] = g[U]
  <2>1. S \cap U = U
    OBVIOUS
  <2> QED
    BY <2>1
<1> QED
  BY <1>2, <1>4, <1>5

\* f is the sum of e and k, value by value.
Adds(S, e, k, f) ==
    /\ e \in [S -> Int] /\ k \in [S -> Int]
    /\ f = [x \in S |-> e[x] + k[x]]

LEMMA SumOfSums ==
    ASSUME NEW S, IsFiniteSet(S), NEW e, NEW f, NEW ef, Adds(S, e, f, ef)
    PROVE  SumFunction(ef) = SumFunction(e) + SumFunction(f)
<1> e \in [S -> Int] /\ f \in [S -> Int] /\ ef = [x \in S |-> e[x] + f[x]]
  BY DEF Adds
<1>1. PICK g : Sums(e, S, g) /\ SumFunction(e) = g[S]
  BY SumIs
<1>2. PICK h : Sums(f, S, h) /\ SumFunction(f) = h[S]
  BY SumIs
<1> DEFINE gh == [T \in SUBSET S |-> g[T] + h[T]]
<1>3. ef \in [S -> Int]
  OBVIOUS
<1>4. Sums(ef, S, gh)
  <2>1. g \in [SUBSET S -> Int] /\ h \in [SUBSET S -> Int] /\ g[{}] = 0 /\ h[{}] = 0
    BY <1>1, <1>2 DEF Sums
  <2>2. gh \in [SUBSET S -> Int] /\ gh[{}] = 0
    BY <2>1
  <2>3. ASSUME NEW T \in SUBSET S, NEW x \in T
        PROVE  gh[T] = ef[x] + gh[T \ {x}]
    <3>1. g[T] = e[x] + g[T \ {x}] /\ h[T] = f[x] + h[T \ {x}]
      BY <1>1, <1>2 DEF Sums
    <3>2. e[x] \in Int /\ f[x] \in Int /\ g[T \ {x}] \in Int /\ h[T \ {x}] \in Int
      BY <2>1
    <3>3. gh[T] = g[T] + h[T] /\ gh[T \ {x}] = g[T \ {x}] + h[T \ {x}] /\ ef[x] = e[x] + f[x]
      OBVIOUS
    <3> HIDE DEF gh
    <3> QED
      BY <3>1, <3>2, <3>3
  <2> HIDE DEF gh
  <2> QED
    BY <2>2, <2>3 DEF Sums
<1>5. SumFunction(ef) = gh[S]
  <2> HIDE DEF gh
  <2> QED
    BY <1>3, <1>4, SumFrom
<1>6. gh[S] = g[S] + h[S]
  OBVIOUS
<1> QED
  BY <1>1, <1>2, <1>5, <1>6

\* A table is summed by rows or by columns.
LEMMA SumOfTable ==
    ASSUME NEW C, IsFiniteSet(C), NEW S, IsFiniteSet(S), NEW m \in [C -> [S -> Int]]
    PROVE  SumFunction([x \in S |-> SumFunction([c \in C |-> m[c][x]])]) =
              SumFunction([c \in C |-> SumFunction(m[c])])
<1> DEFINE column(x) == [c \in C |-> m[c][x]]
           rows == [c \in C |-> SumFunction(m[c])]
<1>1. rows \in [C -> Int]
  <2>1. \A c \in C : SumFunction(m[c]) \in Int
    BY SumType
  <2> QED
    BY <2>1
<1>2. \A x \in S : column(x) \in [C -> Int]
  OBVIOUS
<1> DEFINE part == [x \in S |-> CHOOSE g : Sums(column(x), C, g)]
<1>3. \A x \in S : /\ Sums(column(x), C, part[x])
                   /\ SumFunction(column(x)) = part[x][C]
  <2> SUFFICES ASSUME NEW x \in S
               PROVE  /\ Sums(column(x), C, part[x])
                      /\ SumFunction(column(x)) = part[x][C]
    OBVIOUS
  <2>1. column(x) \in [C -> Int]
    BY <1>2
  <2> HIDE DEF column
  <2>2. \E g : Sums(column(x), C, g)
    BY <2>1, SumIs
  <2>3. Sums(column(x), C, part[x])
    BY <2>2
  <2> HIDE DEF part
  <2> QED
    BY <2>1, <2>3, SumFrom
<1> HIDE DEF part
\* The sum over a set D of rows, column by column.
<1> DEFINE line(D) == [x \in S |-> part[x][D]]
           h == [D \in SUBSET C |-> SumFunction(line(D))]
<1>4. ASSUME NEW D \in SUBSET C
      PROVE  line(D) \in [S -> Int]
  BY <1>3 DEF Sums
<1>5. Sums(rows, C, h)
  <2>1. \A D \in SUBSET C : SumFunction(line(D)) \in Int
    BY <1>4, SumType
  <2>2. h \in [SUBSET C -> Int]
    BY <2>1
  <2>3. h[{}] = 0
    <3> DEFINE none == [x \in {} |-> 0]
    <3>1. none \in [{} -> Int] /\ {} \in SUBSET S /\ {} \in SUBSET C
      OBVIOUS
    <3>2. \A x \in S : line({})[x] = IF x \in {} THEN none[x] ELSE 0
      BY <1>3 DEF Sums
    <3>3. line({}) \in [S -> Int]
      BY <1>4, <3>1
    <3>4. SumFunction(line({})) = SumFunction(none)
      <4>1. Extends(S, line({}), {}, none)
        BY <3>1, <3>2, <3>3 DEF Extends
      <4> HIDE DEF none, line, h, column, rows
      <4> QED
        BY <4>1, SumOfSupport
    <3> HIDE DEF none, line
    <3>5. PICK g : Sums(none, {}, g) /\ SumFunction(none) = g[{}]
      BY <3>1, SumIs, FS_EmptySet
    <3>6. SumFunction(none) = 0
      BY <3>5 DEF Sums
    <3> QED
      BY <3>1, <3>4, <3>6
  <2>4. ASSUME NEW D \in SUBSET C, NEW c \in D
        PROVE  h[D] = rows[c] + h[D \ {c}]
    <3>1. D \ {c} \in SUBSET C
      OBVIOUS
    <3>2. line(D) = [x \in S |-> m[c][x] + line(D \ {c})[x]]
      <4>1. \A x \in S : part[x][D] = column(x)[c] + part[x][D \ {c}]
        BY <1>3 DEF Sums
      <4> QED
        BY <4>1
    <3>3. m[c] \in [S -> Int] /\ line(D \ {c}) \in [S -> Int]
      BY <1>4, <3>1
    <3> HIDE DEF line
    <3>4. SumFunction(line(D)) = SumFunction(m[c]) + SumFunction(line(D \ {c}))
      <4>1. Adds(S, m[c], line(D \ {c}), line(D))
        BY <3>2, <3>3 DEF Adds
      <4> HIDE DEF h, column, rows
      <4> QED
        BY <4>1, SumOfSums
    <3> QED
      BY <3>1, <3>4
  <2> HIDE DEF h, rows
  <2> QED
    BY <2>2, <2>3, <2>4 DEF Sums
<1>6. SumFunction(rows) = h[C]
  <2> HIDE DEF h, rows
  <2> QED
    BY <1>1, <1>5, SumFrom
<1>7. h[C] = SumFunction(line(C))
  OBVIOUS
<1>8. line(C) = [x \in S |-> SumFunction(column(x))]
  BY <1>3
<1> QED
  BY <1>6, <1>7, <1>8

\* t names each member of N once, by a member of W.
Names(W, t, N) ==
    /\ t \in [W -> N]
    /\ \A i, j \in W : t[i] = t[j] => i = j
    /\ \A p \in N : \E i \in W : t[i] = p

\* f is e under the names of t.
Renames(W, t, N, e, f) ==
    /\ Names(W, t, N)
    /\ e \in [N -> Int]
    /\ f = [i \in W |-> e[t[i]]]

\* A sum does not depend on the names of its terms.
LEMMA SumRenamed ==
    ASSUME NEW W, IsFiniteSet(W), NEW N, IsFiniteSet(N),
           NEW t, NEW e, NEW f, Renames(W, t, N, e, f)
    PROVE  SumFunction(f) = SumFunction(e)
<1>1. /\ t \in [W -> N]
      /\ \A i, j \in W : t[i] = t[j] => i = j
      /\ \A p \in N : \E i \in W : t[i] = p
      /\ e \in [N -> Int]
      /\ f = [i \in W |-> e[t[i]]]
  BY DEF Renames, Names
<1>2. PICK g : Sums(e, N, g) /\ SumFunction(e) = g[N]
  BY <1>1, SumIs
<1> DEFINE img(T) == {t[i] : i \in T}
           h == [T \in SUBSET W |-> g[img(T)]]
<1>3. g \in [SUBSET N -> Int] /\ g[{}] = 0
  BY <1>2 DEF Sums
<1>4. \A T \in SUBSET W : img(T) \in SUBSET N
  BY <1>1
<1>5. h \in [SUBSET W -> Int]
  <2> HIDE DEF img
  <2> QED
    BY <1>3, <1>4
<1>6. h[{}] = 0
  <2>1. img({}) = {} /\ {} \in SUBSET W
    OBVIOUS
  <2> HIDE DEF img
  <2> QED
    BY <1>3, <2>1
<1>7. ASSUME NEW T \in SUBSET W, NEW x \in T
      PROVE  h[T] = f[x] + h[T \ {x}]
  <2>1. img(T \ {x}) = img(T) \ {t[x]} /\ t[x] \in img(T)
    BY <1>1
  <2>2. img(T) \in SUBSET N
    BY <1>4
  <2>3. h[T] = g[img(T)] /\ h[T \ {x}] = g[img(T \ {x})]
    OBVIOUS
  <2>4. f[x] = e[t[x]]
    BY <1>1
  <2> HIDE DEF img, h
  <2>5. g[img(T)] = e[t[x]] + g[img(T) \ {t[x]}]
    BY <1>2, <2>1, <2>2 DEF Sums
  <2> QED
    BY <2>1, <2>3, <2>4, <2>5
<1>8. f \in [W -> Int]
  BY <1>1
<1>9. Sums(f, W, h)
  <2> HIDE DEF h
  <2> QED
    BY <1>5, <1>6, <1>7 DEF Sums
<1>10. SumFunction(f) = h[W]
  <2> HIDE DEF h
  <2> QED
    BY <1>8, <1>9, SumFrom
<1>11. img(W) = N
  BY <1>1
<1>12. h[W] = g[N]
  <2> HIDE DEF img
  <2> QED
    BY <1>11
<1> QED
  BY <1>2, <1>10, <1>12

=============================================================================
