-------------------------- MODULE ClientViewsProofs --------------------------
(***************************************************************************)
(* What the clients print, for any book of two sides: best bid and offer,  *)
(* top list and warning of client_bbo, the rows of client_price_bands and  *)
(* of client_volume_bands.  A book is shown through an update, which is    *)
(* the first levels of each side in the order of its map; the rest of the  *)
(* argument is about such a list of levels.                                *)
(***************************************************************************)
EXTENDS ClientProofs

-----------------------------------------------------------------------------
(* One side of an update *)

\* levels are the first k levels of the side in the order R.
Cut(levels, side, R, k) ==
    /\ k \in Nat /\ k <= MaxDepth /\ k <= Cardinality(DOMAIN side)
    /\ k < Cardinality(DOMAIN side) => k = MaxDepth
    /\ levels = [i \in 1 .. k |-> levels[i]] /\ Len(levels) = k
    /\ \A i \in 1 .. k : /\ levels[i].price \in DOMAIN side
                         /\ levels[i].quantity = side[levels[i].price]
    /\ \A i, j \in 1 .. k : i < j => <<levels[i].price, levels[j].price>> \in R
    /\ \A p \in DOMAIN side :
          \/ \E i \in 1 .. k : levels[i].price = p
          \/ /\ k < Cardinality(DOMAIN side)
             /\ \A i \in 1 .. k : <<levels[i].price, p>> \in R

LEMMA BestLevelsCut ==
    ASSUME NEW side, IsFiniteSet(DOMAIN side), NEW R,
           NEW t, Lists(t, R, DOMAIN side)
    PROVE  \E k : Cut(BestLevels(side, t), side, R, k)
<1> DEFINE S == DOMAIN side
           n == Cardinality(S)
           k == IF MaxDepth <= n THEN MaxDepth ELSE n
           levels == BestLevels(side, t)
<1>1. /\ k \in 0 .. n /\ n \in Nat
      /\ levels = [i \in 1 .. k |-> [price |-> t[i], quantity |-> side[t[i]]]]
  BY BestLevelsAre
<1>2. MaxDepth \in Nat
  BY BookAssumption
<1>3. /\ \A i \in 1 .. n : t[i] \in S
      /\ \A i, j \in 1 .. n : i < j => <<t[i], t[j]>> \in R
      /\ \A p \in S : \E i \in 1 .. n : t[i] = p
  BY DEF Lists
<1>4. /\ DOMAIN levels = 1 .. k
      /\ \A i \in 1 .. k : levels[i].price = t[i] /\ levels[i].quantity = side[t[i]]
  <2> HIDE DEF levels, k
  <2> QED
    BY <1>1
<1>5. /\ k \in Nat /\ k <= n /\ k <= MaxDepth /\ (k < n => k = MaxDepth)
  <2> HIDE DEF levels, n
  <2> QED
    BY <1>1, <1>2
<1> HIDE DEF levels, k, n
<1>6. Len(levels) = k
  BY <1>4, <1>5
<1>6a. levels = [i \in 1 .. k |-> levels[i]]
  <2>1. levels = [i \in 1 .. k |-> [price |-> t[i], quantity |-> side[t[i]]]]
    BY <1>1 DEF levels
  <2> QED
    BY <2>1
<1>7. \A i \in 1 .. k : i \in 1 .. n
  BY <1>1, <1>5
<1>8. \A i \in 1 .. k : /\ levels[i].price \in S
                        /\ levels[i].quantity = side[levels[i].price]
  BY <1>3, <1>4, <1>7
<1>9. \A i, j \in 1 .. k : i < j => <<levels[i].price, levels[j].price>> \in R
  <2> SUFFICES ASSUME NEW i \in 1 .. k, NEW j \in 1 .. k, i < j
               PROVE  <<levels[i].price, levels[j].price>> \in R
    OBVIOUS
  <2>1. <<t[i], t[j]>> \in R
    BY <1>3, <1>7
  <2> QED
    BY <1>4, <2>1
<1>10. ASSUME NEW p \in S, ~ \E i \in 1 .. k : levels[i].price = p
       PROVE  k < n /\ \A i \in 1 .. k : <<levels[i].price, p>> \in R
  <2>1. PICK j \in 1 .. n : t[j] = p
    BY <1>3
  <2>2. j \notin 1 .. k
    BY <1>4, <1>10, <2>1
  <2>3. k < n /\ \A i \in 1 .. k : i < j
    BY <1>1, <1>5, <2>2
  <2>4. \A i \in 1 .. k : <<t[i], t[j]>> \in R
    BY <1>3, <1>7, <2>3
  <2> QED
    BY <1>4, <2>1, <2>3, <2>4
<1> QED
  BY <1>5, <1>6, <1>6a, <1>8, <1>9, <1>10 DEF Cut, levels, n

\* Both sides of the update built from a book.
LEMMA UpdateCut ==
    ASSUME NEW book \in Book
    PROVE  /\ \E k : Cut(BuildUpdate(book).bids, book.bids, Higher(DOMAIN book.bids), k)
           /\ \E k : Cut(BuildUpdate(book).asks, book.asks, Lower(DOMAIN book.asks), k)
<1> DEFINE B == DOMAIN book.bids
           A == DOMAIN book.asks
<1>1. /\ B \in SUBSET Int /\ IsFiniteSet(B)
      /\ A \in SUBSET Int /\ IsFiniteSet(A)
  <2>1. book.bids \in Side /\ book.asks \in Side
    BY DEF Book
  <2>2. B \in SUBSET Price /\ A \in SUBSET Price /\ Price \subseteq Int /\ IsFiniteSet(Price)
    BY <2>1, SideElim, BookAssumption
  <2> HIDE DEF A, B
  <2> QED
    BY <2>2, FS_Subset
<1>2. Lists(Descending(B), Higher(B), B) /\ Lists(Ascending(A), Lower(A), A)
  BY <1>1, DescendingLists, AscendingLists
<1>3. /\ BuildUpdate(book).bids = BestLevels(book.bids, Descending(B))
      /\ BuildUpdate(book).asks = BestLevels(book.asks, Ascending(A))
  BY DEF BuildUpdate
<1> QED
  BY <1>1, <1>2, <1>3, BestLevelsCut

\* The first level is the best one.
LEMMA BestFirst ==
    ASSUME NEW levels, NEW side, NEW R, NEW k, Cut(levels, side, R, k), levels # << >>
    PROVE  /\ k >= 1 /\ levels[1].price \in DOMAIN side
           /\ \A p \in DOMAIN side : p = levels[1].price \/ <<levels[1].price, p>> \in R
<1>1. k \in Nat /\ levels = [i \in 1 .. k |-> levels[i]]
  BY DEF Cut
<1>2. k >= 1
  <2> SUFFICES ASSUME k = 0 PROVE levels = << >>
    BY <1>1
  <2>1. 1 .. k = {}
    OBVIOUS
  <2> QED
    BY <1>1, <2>1
<1>3. 1 \in 1 .. k
  BY <1>1, <1>2
<1>4. levels[1].price \in DOMAIN side
  BY <1>3 DEF Cut
<1>5. ASSUME NEW p \in DOMAIN side
      PROVE  p = levels[1].price \/ <<levels[1].price, p>> \in R
  <2>1. CASE \E i \in 1 .. k : levels[i].price = p
    <3>1. PICK i \in 1 .. k : levels[i].price = p
      BY <2>1
    <3>2. i = 1 \/ 1 < i
      BY <1>1
    <3> QED
      BY <1>3, <3>1, <3>2 DEF Cut
  <2>2. CASE \A i \in 1 .. k : <<levels[i].price, p>> \in R
    BY <1>3, <2>2
  <2> QED
    BY <2>1, <2>2 DEF Cut
<1> QED
  BY <1>2, <1>4, <1>5

\* The prices of the first m levels.
Firsts(levels, m) == {levels[i].price : i \in 1 .. m}

\* The first m levels, for an m within the depth, are m prices and none of the
\* others comes before them.
LEMMA TopRows ==
    ASSUME NEW levels, NEW side, NEW R, NEW k, Cut(levels, side, R, k),
           Orders(R, DOMAIN side), NEW m \in 0 .. k,
           NEW rows, rows = Firsts(levels, m)
    PROVE  /\ rows \subseteq DOMAIN side
           /\ Cardinality(rows) = m
           /\ \A p \in DOMAIN side \ rows : \A q \in rows : <<q, p>> \in R
<1> USE DEF Firsts
<1> DEFINE f == [i \in 1 .. m |-> levels[i].price]
<1>1. /\ k \in Nat /\ m \in Nat /\ \A i \in 1 .. m : i \in 1 .. k
      /\ \A i \in 1 .. k : levels[i].price \in DOMAIN side
      /\ \A i, j \in 1 .. k : i < j => <<levels[i].price, levels[j].price>> \in R
  BY DEF Cut
<1>2. rows \subseteq DOMAIN side
  BY <1>1
<1>3. \A i, j \in 1 .. m : levels[i].price = levels[j].price => i = j
  <2> SUFFICES ASSUME NEW i \in 1 .. m, NEW j \in 1 .. m, i < j
               PROVE  levels[i].price # levels[j].price
    BY <1>1
  <2>1. <<levels[i].price, levels[j].price>> \in R /\ levels[j].price \in DOMAIN side
    BY <1>1
  <2> QED
    BY <2>1 DEF Orders
<1>4. Cardinality(rows) = m
  <2>1. f \in Injection(1 .. m, rows) /\ f \in Surjection(1 .. m, rows)
    BY <1>3 DEF Injection, Surjection, IsInjective
  <2>2. ExistsBijection(1 .. m, rows)
    BY <2>1 DEF ExistsBijection, Bijection
  <2> QED
    BY <1>1, <2>2, FS_CountingElements
<1>5. ASSUME NEW p \in DOMAIN side \ rows, NEW i \in 1 .. m
      PROVE  <<levels[i].price, p>> \in R
  <2>1. CASE \E j \in 1 .. k : levels[j].price = p
    <3>1. PICK j \in 1 .. k : levels[j].price = p
      BY <2>1
    <3>2. j \notin 1 .. m
      BY <1>5, <3>1
    <3>3. i < j /\ i \in 1 .. k
      BY <1>1, <3>2
    <3> QED
      BY <1>1, <3>1, <3>3
  <2>2. CASE \A j \in 1 .. k : <<levels[j].price, p>> \in R
    BY <1>1, <2>2
  <2> QED
    BY <2>1, <2>2 DEF Cut
<1> QED
  BY <1>2, <1>4, <1>5

\* What TopOfBookMatches says of a book and the update that shows it.
ShowsTop(book, update) ==
    LET top  == TopBids(update)
        rows == {top[n].price : n \in DOMAIN top}
    IN  /\ \A p \in DOMAIN book.bids : p <= BestBid(update).price
        /\ \A p \in DOMAIN book.asks : p >= BestAsk(update).price
        /\ (CrossedWarning(update) # {}) =
              (\E p \in DOMAIN book.bids, q \in DOMAIN book.asks : p > q)
        /\ rows \subseteq DOMAIN book.bids
        /\ Cardinality(rows) = Min({TopLevels, Cardinality(DOMAIN book.bids)})
        /\ \A p \in DOMAIN book.bids \ rows : \A q \in rows : p < q

LEMMA TopOfBook ==
    ASSUME NEW book \in Book, TwoSided(BuildUpdate(book))
    PROVE  ShowsTop(book, BuildUpdate(book))
<1> DEFINE update == BuildUpdate(book)
           B == DOMAIN book.bids
           A == DOMAIN book.asks
           top  == TopBids(update)
           rows == {top[n].price : n \in DOMAIN top}
           n == Cardinality(B)
<1>1. B \in SUBSET Int /\ A \in SUBSET Int /\ IsFiniteSet(B)
  <2>1. book.bids \in Side /\ book.asks \in Side
    BY DEF Book
  <2>2. B \in SUBSET Price /\ A \in SUBSET Price /\ Price \subseteq Int /\ IsFiniteSet(Price)
    BY <2>1, SideElim, BookAssumption
  <2> HIDE DEF A, B
  <2> QED
    BY <2>2, FS_Subset
<1>2. PICK k : Cut(update.bids, book.bids, Higher(B), k)
  BY UpdateCut
<1>3. PICK l : Cut(update.asks, book.asks, Lower(A), l)
  BY UpdateCut
<1>4. update.bids # << >> /\ update.asks # << >>
  BY DEF TwoSided
<1> DEFINE bid == update.bids[1].price
           ask == update.asks[1].price
<1>5. /\ bid \in B
      /\ \A p \in B : p = bid \/ <<bid, p>> \in Higher(B)
  <2> HIDE DEF update
  <2> QED
    BY <1>2, <1>4, BestFirst
<1>6. /\ ask \in A
      /\ \A p \in A : p = ask \/ <<ask, p>> \in Lower(A)
  <2> HIDE DEF update
  <2> QED
    BY <1>3, <1>4, BestFirst
<1>7. /\ \A p, q : <<p, q>> \in Higher(B) => p > q /\ q < p /\ q <= p
      /\ \A p, q : <<p, q>> \in Lower(A) => p < q /\ q >= p
  <2>1. \A p, q \in Int : (p > q => q < p /\ q <= p) /\ (p < q => q >= p)
    OBVIOUS
  <2> HIDE DEF A, B
  <2> QED
    BY <1>1, <2>1 DEF Higher, Lower
<1>8. BestBid(update).price = bid /\ BestAsk(update).price = ask
  BY DEF BestBid, BestAsk
<1> HIDE DEF bid, ask, A, B
<1>9. \A p \in B : p <= bid
  <2>1. \A p \in B : p <= p
    BY <1>1
  <2> QED
    BY <1>5, <1>7, <2>1
<1>10. \A p \in A : p >= ask
  <2>1. \A p \in A : p >= p
    BY <1>1
  <2> QED
    BY <1>6, <1>7, <2>1
<1>11. (CrossedWarning(update) # {}) = (\E p \in B, q \in A : p > q)
  <2>1. CrossedWarning(update) # {} <=> bid > ask
    <3>1. CrossedWarning(update) = {x \in {bid - ask} : x > 0}
      BY <1>8 DEF CrossedWarning
    <3>2. bid - ask > 0 <=> bid > ask
      BY <1>1, <1>5, <1>6
    <3> QED
      BY <3>1, <3>2
  <2>2. ASSUME NEW p \in B, NEW q \in A, p > q PROVE bid > ask
    <3>1. p \in Int /\ q \in Int /\ bid \in Int /\ ask \in Int
      BY <1>1, <1>5, <1>6
    <3>2. p <= bid /\ q >= ask
      BY <1>9, <1>10
    <3> QED
      BY <2>2, <3>1, <3>2
  <2>3. (\E p \in B, q \in A : p > q) <=> bid > ask
    <3>1. bid > ask => \E p \in B, q \in A : p > q
      BY <1>5, <1>6
    <3> QED
      BY <2>2, <3>1
  <2> QED
    BY <2>1, <2>3
<1> DEFINE m == Min({TopLevels, Len(update.bids)})
<1>12. /\ k \in Nat /\ n \in Nat /\ Len(update.bids) = k /\ k <= n
       /\ k < n => k = MaxDepth
  BY <1>1, <1>2, FS_CardinalityType DEF Cut, B
<1>13. m \in 0 .. k /\ m = Min({TopLevels, n})
  <2>1. TopLevels \in Nat /\ TopLevels <= MaxDepth /\ MaxDepth \in Nat
    BY ClientAssumption, BookAssumption
  <2>2. m = IF TopLevels <= k THEN TopLevels ELSE k
    BY <1>12, <2>1, MinOfTwo
  <2>3. Min({TopLevels, n}) = IF TopLevels <= n THEN TopLevels ELSE n
    BY <1>12, <2>1, MinOfTwo
  <2> HIDE DEF m, n, update
  <2> QED
    BY <1>12, <2>1, <2>2, <2>3
<1>14. rows = Firsts(update.bids, m)
  <2>1. top = [i \in 1 .. m |-> update.bids[i]]
    BY DEF TopBids
  <2> HIDE DEF top, m, update
  <2> QED
    BY <2>1 DEF Firsts
<1>15. Orders(Higher(B), B)
  BY <1>1 DEF Orders, Higher
<1>16. /\ rows \subseteq B /\ Cardinality(rows) = m
       /\ \A p \in B \ rows : \A q \in rows : <<q, p>> \in Higher(B)
  <2> HIDE DEF rows, m, update
  <2>1. PICK side, R : side = book.bids /\ R = Higher(B)
    OBVIOUS
  <2>2. B = DOMAIN side
    BY <2>1 DEF B
  <2>3. Cut(update.bids, side, R, k) /\ Orders(R, DOMAIN side)
    BY <1>2, <1>15, <2>1, <2>2
  <2>4. /\ rows \subseteq DOMAIN side /\ Cardinality(rows) = m
        /\ \A p \in DOMAIN side \ rows : \A q \in rows : <<q, p>> \in R
    BY <1>13, <1>14, <2>3, TopRows
  <2> QED
    BY <2>1, <2>2, <2>4
<1>17. \A p \in B \ rows : \A q \in rows : p < q
  <2> HIDE DEF rows, m, update
  <2> QED
    BY <1>7, <1>16
<1> HIDE DEF m, update, rows
<1> QED
  BY <1>8, <1>9, <1>10, <1>11, <1>13, <1>16, <1>17 DEF ShowsTop, update, rows, A, B
-----------------------------------------------------------------------------
(* The rows of client_price_bands *)

\* levels are all the levels of the side, in the order R.
AllLevels(levels, side, R, n) ==
    /\ Cut(levels, side, R, n)
    /\ n = Cardinality(DOMAIN side)
    /\ side \in [DOMAIN side -> Int]
    /\ Orders(R, DOMAIN side)

\* Nothing that comes before a price inside is outside.
Closed(inside, side, R) ==
    \A p, q \in DOMAIN side : <<p, q>> \in R /\ q \in inside => p \in inside

\* The walk that stops at the first level outside meets every level inside, and
\* stops at the last one.
LEMMA RowWalk ==
    ASSUME NEW levels, NEW side, NEW R, NEW n, AllLevels(levels, side, R, n),
           NEW inside, Closed(inside, side, R),
           NEW near, near = {p \in DOMAIN side : p \in inside}
    PROVE  /\ BandRow(levels, inside).volume = SumFunction([p \in near |-> side[p]])
           /\ BandRow(levels, inside).closest =
                 {p \in near : \A q \in near : p = q \/ <<q, p>> \in R}
<1> DEFINE walked == {i \in 1 .. n : levels[i].price \in inside}
           t == [i \in walked |-> levels[i].price]
           e == [p \in near |-> side[p]]
           f == [i \in walked |-> levels[i].quantity]
<1>1. /\ n \in Nat /\ levels = [i \in 1 .. n |-> levels[i]]
      /\ \A i \in 1 .. n : levels[i].price \in DOMAIN side
      /\ \A i \in 1 .. n : levels[i].quantity = side[levels[i].price]
      /\ \A i, j \in 1 .. n : i < j => <<levels[i].price, levels[j].price>> \in R
      /\ \A p \in DOMAIN side : \E i \in 1 .. n : levels[i].price = p
  <2>1. ~ (n < n)
    BY DEF AllLevels, Cut
  <2> QED
    BY <2>1 DEF AllLevels, Cut
<1>2. DOMAIN levels = 1 .. n
  BY <1>1
<1>3. \A i \in 1 .. n : levels[i].price \in inside =>
         \A j \in 1 .. i : levels[j].price \in inside
  <2> SUFFICES ASSUME NEW i \in 1 .. n, levels[i].price \in inside, NEW j \in 1 .. i
               PROVE  levels[j].price \in inside
    OBVIOUS
  <2>1. j \in 1 .. n /\ (j = i \/ j < i)
    BY <1>1
  <2>2. CASE j < i
    BY <1>1, <2>1, <2>2 DEF Closed
  <2> QED
    BY <2>1, <2>2
<1>4. walked = {i \in DOMAIN levels : \A j \in 1 .. i : levels[j].price \in inside}
  <2>1. \A i \in 1 .. n : i \in 1 .. i
    BY <1>1
  <2> QED
    BY <1>2, <1>3, <2>1
<1>5. /\ BandRow(levels, inside).volume = SumFunction(f)
      /\ BandRow(levels, inside).closest =
            {levels[i].price : i \in {i \in walked : i + 1 \notin walked}}
  <2> HIDE DEF walked
  <2> QED
    BY <1>4 DEF BandRow
<1>6. /\ \A p, q \in DOMAIN side : <<p, q>> \in R => p # q
      /\ \A p, q \in DOMAIN side : <<p, q>> \in R => <<q, p>> \notin R
  BY DEF AllLevels, Orders
<1>7. IsFiniteSet(walked) /\ IsFiniteSet(near)
  <2>1. IsFiniteSet(1 .. n)
    BY <1>1, FS_Interval
  <2>2. IsFiniteSet(walked)
    <3>1. walked \in SUBSET (1 .. n)
      OBVIOUS
    <3> QED
      BY <2>1, <3>1, FS_Subset
  <2>3. near \subseteq {levels[i].price : i \in walked}
    BY <1>1
  <2>4. IsFiniteSet({levels[i].price : i \in walked})
    <3> DEFINE g == [i \in walked |-> levels[i].price]
    <3>1. g \in Surjection(walked, {levels[i].price : i \in walked})
      BY DEF Surjection
    <3> QED
      BY <2>2, <3>1, FS_Surjection
  <2>5. IsFiniteSet(near)
    <3> HIDE DEF walked
    <3> QED
      BY <2>3, <2>4, FS_Subset
  <2> QED
    BY <2>2, <2>5
<1>8. SumFunction(f) = SumFunction(e)
  <2>1. t \in [walked -> near]
    BY <1>1
  <2>2. ASSUME NEW i \in walked, NEW j \in walked, t[i] = t[j] PROVE i = j
    <3>1. ~ (i < j) /\ ~ (j < i)
      BY <1>1, <1>6, <2>2
    <3> QED
      BY <1>1, <3>1
  <2>3. \A p \in near : \E i \in walked : t[i] = p
    BY <1>1
  <2>4. e \in [near -> Int]
    BY DEF AllLevels
  <2>5. f = [i \in walked |-> e[t[i]]]
    BY <1>1, <2>1
  <2> HIDE DEF walked, t, e, f
  <2>6. Renames(walked, t, near, e, f)
    BY <2>1, <2>2, <2>3, <2>4, <2>5 DEF Renames, Names
  <2> QED
    BY <1>7, <2>6, SumRenamed
<1> DEFINE last == {p \in near : \A q \in near : p = q \/ <<q, p>> \in R}
<1>9. ASSUME NEW i \in walked, i + 1 \notin walked
      PROVE  levels[i].price \in last
  <2>1. levels[i].price \in near
    BY <1>1
  <2>2. ASSUME NEW q \in near
        PROVE  levels[i].price = q \/ <<q, levels[i].price>> \in R
    <3>1. PICK j \in 1 .. n : levels[j].price = q
      BY <1>1
    <3>2. ~ (i < j)
      <4> SUFFICES ASSUME i < j PROVE i + 1 \in walked
        BY <1>9
      <4>1. i + 1 \in 1 .. n /\ i + 1 \in 1 .. j
        BY <1>1
      <4> QED
        BY <1>3, <3>1, <4>1
    <3>3. j = i \/ j < i
      BY <1>1, <3>2
    <3> QED
      BY <1>1, <3>1, <3>3
  <2> QED
    BY <2>1, <2>2
<1>10. ASSUME NEW p \in last
       PROVE  \E i \in walked : i + 1 \notin walked /\ levels[i].price = p
  <2>1. PICK i \in walked : levels[i].price = p
    BY <1>1
  <2>2. i + 1 \notin walked
    <3> SUFFICES ASSUME i + 1 \in walked PROVE FALSE
      OBVIOUS
    <3>1. <<p, levels[i + 1].price>> \in R
      <4>1. i \in 1 .. n /\ i + 1 \in 1 .. n /\ i < i + 1
        BY <1>1
      <4> HIDE DEF walked
      <4> QED
        BY <1>1, <2>1, <4>1
    <3>2. levels[i + 1].price \in near /\ p \in DOMAIN side
      BY <1>1
    <3>3. p = levels[i + 1].price \/ <<levels[i + 1].price, p>> \in R
      BY <3>2
    <3> QED
      BY <1>6, <3>1, <3>2, <3>3
  <2> QED
    BY <2>1, <2>2
<1>11. {levels[i].price : i \in {i \in walked : i + 1 \notin walked}} = last
  <2> HIDE DEF walked, last
  <2> QED
    BY <1>9, <1>10
<1> QED
  BY <1>5, <1>8, <1>11

\* The update shows the whole book: no side is longer than the depth.
Fits(book) ==
    /\ Cardinality(DOMAIN book.bids) <= MaxDepth
    /\ Cardinality(DOMAIN book.asks) <= MaxDepth

LEMMA WholeBook ==
    ASSUME NEW book \in Book, Fits(book)
    PROVE  /\ \E n : AllLevels(BuildUpdate(book).bids, book.bids, Higher(DOMAIN book.bids), n)
           /\ \E n : AllLevels(BuildUpdate(book).asks, book.asks, Lower(DOMAIN book.asks), n)
<1> DEFINE B == DOMAIN book.bids
           A == DOMAIN book.asks
<1>1. /\ B \in SUBSET Int /\ IsFiniteSet(B) /\ book.bids \in [B -> Int]
      /\ A \in SUBSET Int /\ IsFiniteSet(A) /\ book.asks \in [A -> Int]
  <2>1. book.bids \in Side /\ book.asks \in Side
    BY DEF Book
  <2>2. /\ B \in SUBSET Price /\ book.bids \in [B -> Quantity]
        /\ A \in SUBSET Price /\ book.asks \in [A -> Quantity]
        /\ Price \subseteq Int /\ IsFiniteSet(Price) /\ Quantity \subseteq Int
    BY <2>1, SideElim, BookAssumption
  <2> HIDE DEF A, B
  <2> QED
    BY <2>2, FS_Subset
<1>2. Orders(Higher(B), B) /\ Orders(Lower(A), A)
  <2> HIDE DEF A, B
  <2> QED
    BY <1>1 DEF Orders, Higher, Lower
<1>3. Cardinality(B) \in Nat /\ Cardinality(A) \in Nat /\ MaxDepth \in Nat
  BY <1>1, FS_CardinalityType, BookAssumption
<1>4. PICK k : Cut(BuildUpdate(book).bids, book.bids, Higher(B), k)
  BY UpdateCut
<1>5. PICK l : Cut(BuildUpdate(book).asks, book.asks, Lower(A), l)
  BY UpdateCut
<1>6. k = Cardinality(B)
  BY <1>3, <1>4 DEF Cut, Fits
<1>7. l = Cardinality(A)
  BY <1>3, <1>5 DEF Cut, Fits
<1>8. AllLevels(BuildUpdate(book).bids, book.bids, Higher(B), k)
  BY <1>1, <1>2, <1>4, <1>6 DEF AllLevels
<1>9. AllLevels(BuildUpdate(book).asks, book.asks, Lower(A), l)
  BY <1>1, <1>2, <1>5, <1>7 DEF AllLevels
<1> QED
  BY <1>8, <1>9

\* Best bid and best ask are the ends of the maps.
LEMMA BestAreEnds ==
    ASSUME NEW book \in Book, TwoSided(BuildUpdate(book))
    PROVE  /\ Max(DOMAIN book.bids) = BestBid(BuildUpdate(book)).price
           /\ Min(DOMAIN book.asks) = BestAsk(BuildUpdate(book)).price
           /\ Max(DOMAIN book.bids) \in Int /\ Min(DOMAIN book.asks) \in Int
<1> DEFINE B == DOMAIN book.bids
           A == DOMAIN book.asks
           bid == BestBid(BuildUpdate(book)).price
           ask == BestAsk(BuildUpdate(book)).price
<1>1. B \subseteq Int /\ A \subseteq Int
  <2>1. book.bids \in Side /\ book.asks \in Side
    BY DEF Book
  <2>2. B \in SUBSET Price /\ A \in SUBSET Price /\ Price \subseteq Int
    BY <2>1, SideElim, BookAssumption
  <2> QED
    BY <2>2
<1>2. PICK k : Cut(BuildUpdate(book).bids, book.bids, Higher(B), k)
  BY UpdateCut
<1>3. PICK l : Cut(BuildUpdate(book).asks, book.asks, Lower(A), l)
  BY UpdateCut
<1>4. bid \in B /\ \A p \in B : p = bid \/ <<bid, p>> \in Higher(B)
  BY <1>2, BestFirst DEF TwoSided, BestBid
<1>5. ask \in A /\ \A p \in A : p = ask \/ <<ask, p>> \in Lower(A)
  BY <1>3, BestFirst DEF TwoSided, BestAsk
<1> HIDE DEF A, B, bid, ask
<1>6. \A p \in B : bid >= p
  <2>1. \A p \in B : p <= bid
    BY <1>1, <1>4, PriceOrder
  <2> QED
    BY <1>1, <1>4, <2>1
<1>7. \A p \in A : ask <= p
  <2>1. \A p \in A : p >= ask
    BY <1>1, <1>5, PriceOrder
  <2> QED
    BY <1>1, <1>5, <2>1
<1>8. Max(B) = bid
  <2>1. B \in SUBSET Int
    BY <1>1
  <2> QED
    BY <1>4, <1>6, <2>1, MaxIs
<1>9. Min(A) = ask
  <2>1. \A x \in A : (\A y \in A : x <= y) => x = ask
    BY <1>1, <1>5, <1>7
  <2> QED
    BY <1>5, <1>7, <2>1 DEF Min
<1> QED
  BY <1>1, <1>4, <1>5, <1>8, <1>9 DEF A, B, bid, ask

LEMMA PriceBandsOfBook ==
    ASSUME NEW book \in Book, TwoSided(BuildUpdate(book)), Fits(book)
    PROVE  PriceBandsMatch(book, PriceBands(BuildUpdate(book)))
<1> DEFINE update == BuildUpdate(book)
           B == DOMAIN book.bids
           A == DOMAIN book.asks
           twice_mid == Max(B) + Min(A)
<1>1. /\ B \subseteq Int /\ A \subseteq Int
      /\ \A p \in B : p \in Price /\ p \in Int
      /\ \A p \in A : p \in Price /\ p \in Int
  <2>1. book.bids \in Side /\ book.asks \in Side
    BY DEF Book
  <2>2. B \in SUBSET Price /\ A \in SUBSET Price /\ Price \subseteq Int
    BY <2>1, SideElim, BookAssumption
  <2> QED
    BY <2>2
<1>2. /\ twice_mid = BestBid(update).price + BestAsk(update).price
      /\ twice_mid \in Int
  BY BestAreEnds
<1>3. \A k \in DOMAIN BpsLevels : BpsLevels[k] \in Int
  BY DEF BpsLevels
<1>4. PICK n : AllLevels(update.bids, book.bids, Higher(B), n)
  BY WholeBook
<1>5. PICK m : AllLevels(update.asks, book.asks, Lower(A), m)
  BY WholeBook
<1> HIDE DEF update, B, A, twice_mid
<1>6. ASSUME NEW k \in DOMAIN BpsLevels
      PROVE  LET row  == PriceBands(update)[k]
                 near == {p \in B : 20000 * p >= twice_mid * (10000 - BpsLevels[k])}
                 far  == {p \in A : 20000 * p <= twice_mid * (10000 + BpsLevels[k])}
             IN  /\ row.bid.volume = SumFunction([p \in near |-> book.bids[p]])
                 /\ row.bid.closest = {p \in near : \A q \in near : p <= q}
                 /\ row.ask.volume = SumFunction([p \in far |-> book.asks[p]])
                 /\ row.ask.closest = {p \in far : \A q \in far : p >= q}
  <2> DEFINE low  == twice_mid * (10000 - BpsLevels[k])
             high == twice_mid * (10000 + BpsLevels[k])
             inBid == {p \in Price : 20000 * p >= low}
             inAsk == {p \in Price : 20000 * p <= high}
             near == {p \in B : 20000 * p >= low}
             far  == {p \in A : 20000 * p <= high}
  <2>1. low \in Int /\ high \in Int
    BY <1>2, <1>3
  <2>2. /\ PriceBands(update)[k].bid = BandRow(update.bids, inBid)
        /\ PriceBands(update)[k].ask = BandRow(update.asks, inAsk)
    BY <1>2 DEF PriceBands
  <2> HIDE DEF low, high
  <2>3. near = {p \in B : p \in inBid} /\ far = {p \in A : p \in inAsk}
    <3>1. \A p \in B : p \in inBid <=> 20000 * p >= low
      BY <1>1
    <3>2. \A p \in A : p \in inAsk <=> 20000 * p <= high
      BY <1>1
    <3> HIDE DEF inBid, inAsk
    <3>3. near = {p \in B : p \in inBid}
      BY <3>1
    <3>4. far = {p \in A : p \in inAsk}
      BY <3>2
    <3> QED
      BY <3>3, <3>4
  <2>4. Closed(inBid, book.bids, Higher(B))
    <3>1. \A p, q \in Int : p > q /\ 20000 * q >= low => 20000 * p >= low
      BY <2>1
    <3>2. \A p, q \in B : <<p, q>> \in Higher(B) => p > q
      BY <1>1, PriceOrder
    <3>3. \A p \in B : p \in inBid <=> 20000 * p >= low
      BY <1>1
    <3>4. \A p, q \in B : <<p, q>> \in Higher(B) /\ q \in inBid => p \in inBid
      BY <1>1, <3>1, <3>2, <3>3
    <3> HIDE DEF inBid
    <3> QED
      BY <3>4 DEF Closed, B
  <2>5. Closed(inAsk, book.asks, Lower(A))
    <3>1. \A p, q \in Int : p < q /\ 20000 * q <= high => 20000 * p <= high
      BY <2>1
    <3>2. \A p, q \in A : <<p, q>> \in Lower(A) => p < q
      BY <1>1, PriceOrder
    <3>3. \A p \in A : p \in inAsk <=> 20000 * p <= high
      BY <1>1
    <3>4. \A p, q \in A : <<p, q>> \in Lower(A) /\ q \in inAsk => p \in inAsk
      BY <1>1, <3>1, <3>2, <3>3
    <3> HIDE DEF inAsk
    <3> QED
      BY <3>4 DEF Closed, A
  <2>6. near \subseteq B /\ far \subseteq A
    OBVIOUS
  <2> HIDE DEF inBid, inAsk, near, far
  <2>7. /\ BandRow(update.bids, inBid).volume = SumFunction([p \in near |-> book.bids[p]])
        /\ BandRow(update.bids, inBid).closest =
              {p \in near : \A q \in near : p = q \/ <<q, p>> \in Higher(B)}
    BY <1>4, <2>3, <2>4, RowWalk DEF B
  <2>8. /\ BandRow(update.asks, inAsk).volume = SumFunction([p \in far |-> book.asks[p]])
        /\ BandRow(update.asks, inAsk).closest =
              {p \in far : \A q \in far : p = q \/ <<q, p>> \in Lower(A)}
    BY <1>5, <2>3, <2>5, RowWalk DEF A
  <2>9. \A p, q \in near : (p = q \/ <<q, p>> \in Higher(B)) <=> p <= q
    BY <1>1, <2>6, PriceOrder
  <2>10. \A p, q \in far : (p = q \/ <<q, p>> \in Lower(A)) <=> p >= q
    BY <1>1, <2>6, PriceOrder
  <2>11. /\ BandRow(update.bids, inBid).closest = {p \in near : \A q \in near : p <= q}
         /\ BandRow(update.asks, inAsk).closest = {p \in far : \A q \in far : p >= q}
    BY <2>7, <2>8, <2>9, <2>10
  <2> QED
    BY <2>2, <2>7, <2>8, <2>11 DEF near, far, low, high
<1> QED
  BY <1>6 DEF PriceBandsMatch, Volume, update, B, A, twice_mid

-----------------------------------------------------------------------------
(* The rows of client_volume_bands *)

Rows == [reached : BOOLEAN, price : Int, cum : Int]
Accs == [cum : Int, last : Int, rows : {rows \in Seq(Rows) : Len(rows) <= 7}]
Level(level) == level.price \in Int /\ level.quantity \in Int
Start == [cum |-> 0, last |-> 0, rows |-> << >>]

\* The bands that the level brings in reach of cum, after the first r.
Met(r, cum) == {k \in r + 1 .. Len(Bands) : \A j \in r + 1 .. k : cum >= Bands[j]}

LEMMA BandFacts ==
    /\ Len(Bands) = 7 /\ DOMAIN Bands = 1 .. 7
    /\ \A k \in 1 .. 7 : Bands[k] \in Int
    /\ \A j, k \in 1 .. 7 : j <= k => Bands[j] <= Bands[k]
<1>1. Len(Bands) = 7 /\ DOMAIN Bands = 1 .. 7
  BY DEF Bands
<1>2. /\ Bands[1] = 10000 /\ Bands[2] = 100000 /\ Bands[3] = 1000000
      /\ Bands[4] = 5000000 /\ Bands[5] = 10000000 /\ Bands[6] = 25000000
      /\ Bands[7] = 50000000
  BY DEF Bands
<1>3. \A k \in 1 .. 7 : k = 1 \/ k = 2 \/ k = 3 \/ k = 4 \/ k = 5 \/ k = 6 \/ k = 7
  OBVIOUS
<1> QED
  BY <1>1, <1>2, <1>3

\* Bands go up, so the bands met are those within reach, and follow the first r.
LEMMA MetIs ==
    ASSUME NEW r \in 0 .. 7, NEW cum \in Int
    PROVE  /\ \A k \in r + 1 .. 7 : k \in Met(r, cum) <=> cum >= Bands[k]
           /\ Cardinality(Met(r, cum)) \in 0 .. 7 - r
           /\ Met(r, cum) = r + 1 .. r + Cardinality(Met(r, cum))
<1> DEFINE M == Met(r, cum)
<1>1. ASSUME NEW k \in r + 1 .. 7
      PROVE  k \in M <=> cum >= Bands[k]
  <2>1. k \in M <=> \A j \in r + 1 .. k : cum >= Bands[j]
    BY BandFacts DEF Met
  <2>2. k \in r + 1 .. k /\ \A j \in r + 1 .. k : j \in 1 .. 7 /\ j <= k /\ k \in 1 .. 7
    OBVIOUS
  <2>3. \A j \in r + 1 .. k : Bands[j] <= Bands[k] /\ Bands[j] \in Int /\ Bands[k] \in Int
    BY <2>2, BandFacts
  <2> QED
    BY <2>1, <2>2, <2>3
<1>2. M \subseteq r + 1 .. 7
  BY BandFacts DEF Met
<1>3. \A k \in M : \A j \in r + 1 .. k : j \in M
  BY BandFacts DEF Met
<1> HIDE DEF M
<1>4. CASE M = {}
  <2>1. Cardinality(M) = 0 /\ r + 1 .. r + 0 = {} /\ 0 \in 0 .. 7 - r
    BY <1>4, FS_EmptySet
  <2> QED
    BY <1>1, <1>4, <2>1 DEF M
<1>5. CASE M # {}
  <2>1. IsFiniteSet(M) /\ M \in SUBSET Int
    <3>1. PICK top \in Int : top = 7
      OBVIOUS
    <3>2. PICK low \in Int : low = 1
      OBVIOUS
    <3>3. IsFiniteSet(low .. top)
      BY FS_Interval
    <3>4. M \subseteq low .. top /\ M \in SUBSET Int
      BY <1>2, <3>1, <3>2
    <3> QED
      BY <3>3, <3>4, FS_Subset
  <2>2. PICK x \in M : \A y \in M : x >= y
    BY <1>5, <2>1, MaxFacts
  <2>3. x \in r + 1 .. 7 /\ x \in Int
    BY <1>2
  <2>4. M = r + 1 .. x
    <3>1. \A y \in M : y \in r + 1 .. x
      BY <1>2, <2>2, <2>3
    <3>2. \A y \in r + 1 .. x : y \in M
      BY <1>3, <2>2
    <3> QED
      BY <3>1, <3>2
  <2>5. PICK low \in Int : low = r + 1
    OBVIOUS
  <2>6. Cardinality(low .. x) = IF low > x THEN 0 ELSE x - low + 1
    BY <2>3, FS_Interval
  <2>7. Cardinality(M) = x - r
    BY <2>3, <2>4, <2>5, <2>6
  <2>8. x - r \in 0 .. 7 - r /\ r + (x - r) = x
    BY <2>3
  <2> QED
    BY <1>1, <2>4, <2>7, <2>8 DEF M
<1> QED
  BY <1>4, <1>5

\* The row that is printed for each band met.
RowAt(level, cum) == [reached |-> TRUE, price |-> level.price, cum |-> cum]

LEMMA Joined ==
    ASSUME NEW S, NEW s \in Seq(S), NEW t \in Seq(S)
    PROVE  /\ s \o t \in Seq(S) /\ Len(s \o t) = Len(s) + Len(t)
           /\ \A b \in 1 .. Len(s) : (s \o t)[b] = s[b]
           /\ \A b \in Len(s) + 1 .. Len(s) + Len(t) : (s \o t)[b] = t[b - Len(s)]
OBVIOUS

\* What one level adds.
LEMMA WalkIs ==
    ASSUME NEW acc \in Accs, NEW level, Level(level)
    PROVE  LET cum == acc.cum + level.quantity * level.price
               r   == Len(acc.rows)
               m   == Cardinality(Met(r, cum))
               new == Walk(acc, level)
           IN  /\ new \in Accs
               /\ new.cum = cum /\ new.last = level.price
               /\ r \in 0 .. 7 /\ m \in 0 .. 7 - r
               /\ Len(new.rows) = r + m
               /\ \A b \in 1 .. r : new.rows[b] = acc.rows[b]
               /\ \A b \in r + 1 .. r + m : new.rows[b] = RowAt(level, cum)
<1> DEFINE cum == acc.cum + level.quantity * level.price
           r   == Len(acc.rows)
           m   == Cardinality(Met(r, cum))
           more == [k \in 1 .. m |-> RowAt(level, cum)]
           new == Walk(acc, level)
<1>1. cum \in Int /\ level.price \in Int /\ acc.rows \in Seq(Rows) /\ r \in 0 .. 7
  <2>1. /\ acc.cum \in Int /\ level.price \in Int /\ level.quantity \in Int
        /\ acc.rows \in Seq(Rows) /\ Len(acc.rows) <= 7
    BY DEF Accs, Level
  <2>2. Len(acc.rows) \in Nat
    BY <2>1
  <2>3. r \in 0 .. 7
    <3>1. PICK rows \in Seq(Rows) : rows = acc.rows
      BY <2>1
    <3>2. Len(rows) \in Nat /\ Len(rows) <= 7
      BY <2>1, <3>1
    <3>3. PICK l \in Nat : l = Len(rows)
      BY <3>2
    <3>4. l <= 7
      BY <3>2, <3>3
    <3>5. l \in 0 .. 7
      BY <3>4
    <3> QED
      BY <3>1, <3>3, <3>5
  <2>4. \A a, b, c \in Int : a + b * c \in Int
    OBVIOUS
  <2> QED
    BY <2>1, <2>3, <2>4
<1>2. m \in 0 .. 7 - r
  <2> HIDE DEF cum, r
  <2> QED
    BY <1>1, MetIs
<1>3. new = [cum |-> cum, last |-> level.price, rows |-> acc.rows \o more]
  BY DEF Walk, Met, RowAt
<1>4. RowAt(level, cum) \in Rows
  BY <1>1 DEF RowAt, Rows
<1> HIDE DEF cum, m, new
<1>5. more \in Seq(Rows) /\ Len(more) = m /\ \A k \in 1 .. m : more[k] = RowAt(level, cum)
  <2>1. m \in Nat
    BY <1>1, <1>2
  <2> QED
    BY <1>4, <2>1
<1> HIDE DEF more, r
<1>6. /\ acc.rows \o more \in Seq(Rows)
      /\ Len(acc.rows \o more) = r + m
      /\ \A b \in 1 .. r : (acc.rows \o more)[b] = acc.rows[b]
      /\ \A b \in r + 1 .. r + m : (acc.rows \o more)[b] = more[b - r]
  <2>1. PICK rows \in Seq(Rows) : rows = acc.rows
    BY <1>1
  <2>2. PICK add \in Seq(Rows) : add = more
    BY <1>5
  <2>3. Len(rows) = r /\ Len(add) = m
    BY <1>5, <2>1, <2>2 DEF r
  <2>4. /\ rows \o add \in Seq(Rows) /\ Len(rows \o add) = Len(rows) + Len(add)
        /\ \A b \in 1 .. Len(rows) : (rows \o add)[b] = rows[b]
        /\ \A b \in Len(rows) + 1 .. Len(rows) + Len(add) :
               (rows \o add)[b] = add[b - Len(rows)]
    BY Joined
  <2> QED
    BY <2>1, <2>2, <2>3, <2>4
<1>7. \A b \in r + 1 .. r + m : b - r \in 1 .. m
  BY <1>1, <1>2
<1>8. new \in Accs /\ new.cum = cum /\ new.last = level.price /\ new.rows = acc.rows \o more
  <2>1. acc.rows \o more \in {rows \in Seq(Rows) : Len(rows) <= 7}
    BY <1>1, <1>2, <1>6
  <2> QED
    BY <1>1, <1>3, <2>1 DEF Accs
<1> QED
  BY <1>1, <1>2, <1>5, <1>6, <1>7, <1>8 DEF cum, r, m, new

\* A list of n levels.
LevelList(levels, n) ==
    n \in Nat /\ DOMAIN levels = 1 .. n /\ \A i \in 1 .. n : Level(levels[i])

LEMMA StartType == Start \in Accs
<1>1. << >> \in Seq(Rows) /\ Len(<< >>) <= 7
  OBVIOUS
<1> QED
  BY <1>1 DEF Start, Accs

\* P[k] is what the first k levels make of Start.
Walks(levels, n, P) ==
    /\ P \in [0 .. n -> Accs]
    /\ P[0] = Start
    /\ \A k \in 1 .. n : P[k] = Walk(P[k - 1], levels[k])

LEMMA FoldWalks ==
    ASSUME NEW levels, NEW n, LevelList(levels, n)
    PROVE  \E P : Walks(levels, n, P) /\ FoldLeft(Walk, Start, levels) = P[n]
<1> DEFINE S == 1 .. n
           Eqn(f) == f = [T \in SUBSET S |->
              IF T = {} THEN Start ELSE Walk(f[T \ {Max(T)}], levels[Max(T)])]
           iter == CHOOSE f : Eqn(f)
<1>1. n \in Nat /\ DOMAIN levels = S /\ \A i \in S : Level(levels[i])
  BY DEF LevelList
<1>2. FoldLeft(Walk, Start, levels) = iter[S]
  BY <1>1 DEF FoldLeft, MapThenFoldSet
<1>3. IsFiniteSet(S) /\ S \in SUBSET Int
  BY <1>1, FS_Interval
<1> DEFINE pick == [T \in SUBSET S |-> Max(T)]
           step == [i \in S |-> [acc \in Accs |-> Walk(acc, levels[i])]]
<1>4. ASSUME NEW T \in SUBSET S, T # {} PROVE Max(T) \in T
  BY <1>3, <1>4, FS_Subset, MaxFacts
<1>5. ASSUME NEW i \in S, NEW acc \in Accs PROVE Walk(acc, levels[i]) \in Accs
  BY <1>1, WalkIs
<1> HIDE DEF S
<1>6. PICK g : FoldOf(S, Accs, Start, pick, step, g)
  <2>1. \A T \in SUBSET S : T # {} => pick[T] \in T
    BY <1>4
  <2>2. step \in [S -> [Accs -> Accs]]
    BY <1>5
  <2>3. FoldArgs(S, Accs, Start, pick, step)
    BY <1>3, <2>1, <2>2, StartType DEF FoldArgs
  <2> HIDE DEF pick, step
  <2> QED
    BY <2>3, FoldExists
<1>7. ASSUME NEW T \in SUBSET S, T # {}
      PROVE  g[T] = Walk(g[T \ {Max(T)}], levels[Max(T)])
  <2>1. pick[T] = Max(T) /\ Max(T) \in S
    BY <1>4, <1>7
  <2>2. g[T \ {Max(T)}] \in Accs
    BY <1>6 DEF FoldOf
  <2>3. g[T] = step[pick[T]][g[T \ {pick[T]}]]
    BY <1>6, <1>7 DEF FoldOf
  <2> QED
    BY <2>1, <2>2, <2>3
<1>8. Eqn(g)
  BY <1>6, <1>7 DEF FoldOf
<1>9. Eqn(iter)
  <2> HIDE DEF Eqn
  <2> QED
    BY <1>8
<1> HIDE DEF iter
<1>10. /\ iter[{}] = Start
       /\ \A T \in SUBSET S : T # {} => iter[T] = Walk(iter[T \ {Max(T)}], levels[Max(T)])
  BY <1>9
<1> DEFINE P == [k \in 0 .. n |-> iter[1 .. k]]
<1>11. P[0] = Start
  <2>1. 1 .. 0 = {} /\ 0 \in 0 .. n
    BY <1>1
  <2> QED
    BY <1>10, <2>1
<1>12. ASSUME NEW k \in 1 .. n
       PROVE  P[k] = Walk(P[k - 1], levels[k])
  <2>1. /\ k \in 1 .. k /\ 1 .. k \in SUBSET Int /\ \A y \in 1 .. k : k >= y
        /\ 1 .. k \in SUBSET S /\ (1 .. k) \ {k} = 1 .. k - 1
        /\ k \in 0 .. n /\ k - 1 \in 0 .. n
    BY <1>1 DEF S
  <2>2. Max(1 .. k) = k
    BY <2>1, MaxIs
  <2>3. iter[1 .. k] = Walk(iter[(1 .. k) \ {k}], levels[k])
    BY <1>10, <2>1, <2>2
  <2> QED
    BY <2>1, <2>3
<1>13. \A k \in 0 .. n : P[k] \in Accs
  <2> DEFINE T == {k \in 0 .. n : P[k] \in Accs}
  <2> HIDE DEF P
  <2>1. 0 \in T
    BY <1>1, <1>11, StartType
  <2>2. ASSUME NEW k \in 0 .. n - 1, k \in T PROVE k + 1 \in T
    <3>1. k + 1 \in 1 .. n /\ k + 1 \in 0 .. n /\ (k + 1) - 1 = k /\ k + 1 \in S
      BY <1>1 DEF S
    <3>2. P[k + 1] = Walk(P[k], levels[k + 1])
      BY <1>12, <3>1
    <3> QED
      BY <1>5, <2>2, <3>1, <3>2
  <2> HIDE DEF T
  <2>3. \A k \in 0 .. n : k \in T
    BY <1>1, <2>1, <2>2, IntervalInduction
  <2> QED
    BY <2>3 DEF T
<1>14. n \in 0 .. n /\ P[n] = iter[S]
  BY <1>1 DEF S
<1>15. P \in [0 .. n -> Accs]
  BY <1>13
<1> HIDE DEF P
<1> QED
  BY <1>2, <1>11, <1>12, <1>14, <1>15 DEF Walks

\* The state of the walk after i levels, C[j] being the notional value of the
\* first j: every band is printed with the first level that brings it in reach.
FirstReach(C, b, j) == C[j] >= Bands[b] /\ \A l \in 1 .. j - 1 : C[l] < Bands[b]

Walked(acc, levels, C, i) ==
    /\ acc.cum = C[i]
    /\ i > 0 => acc.last = levels[i].price
    /\ \A b \in 1 .. Len(acc.rows) :
          \E j \in 1 .. i : acc.rows[b] = RowAt(levels[j], C[j]) /\ FirstReach(C, b, j)
    /\ \A b \in Len(acc.rows) + 1 .. 7 : \A l \in 1 .. i : C[l] < Bands[b]

\* C adds up the levels.
Cumulates(C, levels, n) ==
    /\ C \in [0 .. n -> Int] /\ C[0] = 0
    /\ \A i \in 1 .. n : C[i] = C[i - 1] + levels[i].quantity * levels[i].price

LEMMA WalkedStep ==
    ASSUME NEW levels, NEW n, LevelList(levels, n),
           NEW C, Cumulates(C, levels, n),
           NEW i \in 0 .. n - 1, NEW acc \in Accs, Walked(acc, levels, C, i)
    PROVE  Walked(Walk(acc, levels[i + 1]), levels, C, i + 1)
<1> DEFINE level == levels[i + 1]
           cum == C[i + 1]
           r   == Len(acc.rows)
           m   == Cardinality(Met(r, cum))
           new == Walk(acc, level)
<1>1. n \in Nat /\ i \in Nat /\ i + 1 \in 1 .. n /\ (i + 1) - 1 = i /\ i + 1 > 0
  BY DEF LevelList
<1>2. Level(level) /\ cum = acc.cum + level.quantity * level.price
  BY <1>1 DEF LevelList, Cumulates, Walked
<1>3. \A l \in 0 .. n : C[l] \in Int
  BY DEF Cumulates
<1> HIDE DEF level, cum
<1>4. /\ new.cum = cum /\ new.last = level.price
      /\ r \in 0 .. 7 /\ m \in 0 .. 7 - r
      /\ Len(new.rows) = r + m
      /\ \A b \in 1 .. r : new.rows[b] = acc.rows[b]
      /\ \A b \in r + 1 .. r + m : new.rows[b] = RowAt(level, cum)
  BY <1>2, WalkIs
<1>5. cum \in Int
  BY <1>1, <1>3 DEF cum
<1>6. \A b \in r + 1 .. 7 : b \in r + 1 .. r + m <=> cum >= Bands[b]
  BY <1>4, <1>5, MetIs
<1>7. \A b \in 1 .. 7 : Bands[b] \in Int
  BY BandFacts
<1>8. /\ \A b \in 1 .. r :
          \E j \in 1 .. i : acc.rows[b] = RowAt(levels[j], C[j]) /\ FirstReach(C, b, j)
      /\ \A b \in r + 1 .. 7 : \A l \in 1 .. i : C[l] < Bands[b]
  BY DEF Walked
<1> HIDE DEF r, m, new
<1>9. ASSUME NEW b \in 1 .. r + m
      PROVE  \E j \in 1 .. i + 1 : new.rows[b] = RowAt(levels[j], C[j]) /\ FirstReach(C, b, j)
  <2>1. CASE b \in 1 .. r
    <3>1. PICK j \in 1 .. i : acc.rows[b] = RowAt(levels[j], C[j]) /\ FirstReach(C, b, j)
      BY <1>8, <2>1
    <3>2. j \in 1 .. i + 1
      BY <1>1
    <3> QED
      BY <1>4, <2>1, <3>1, <3>2
  <2>2. CASE b \in r + 1 .. r + m
    <3>1. b \in r + 1 .. 7
      BY <1>4, <2>2
    <3>2. C[i + 1] >= Bands[b]
      BY <1>6, <2>2, <3>1 DEF cum
    <3>3. \A l \in 1 .. (i + 1) - 1 : C[l] < Bands[b]
      BY <1>1, <1>8, <3>1
    <3>4. new.rows[b] = RowAt(levels[i + 1], C[i + 1]) /\ i + 1 \in 1 .. i + 1
      BY <1>1, <1>4, <2>2 DEF level, cum
    <3> QED
      BY <3>2, <3>3, <3>4 DEF FirstReach
  <2> QED
    BY <1>4, <2>1, <2>2
<1>10. ASSUME NEW b \in r + m + 1 .. 7, NEW l \in 1 .. i + 1
       PROVE  C[l] < Bands[b]
  <2>1. b \in r + 1 .. 7 /\ b \notin r + 1 .. r + m /\ b \in 1 .. 7
    BY <1>4
  <2>2. CASE l = i + 1
    <3>1. ~ (cum >= Bands[b])
      BY <1>6, <2>1
    <3> QED
      BY <1>5, <1>7, <2>1, <2>2, <3>1 DEF cum
  <2>3. CASE l \in 1 .. i
    BY <1>8, <2>1, <2>3
  <2> QED
    BY <1>1, <2>2, <2>3
<1> QED
  BY <1>1, <1>4, <1>9, <1>10 DEF Walked, level, cum, new

LEMMA WalkedAll ==
    ASSUME NEW levels, NEW n, LevelList(levels, n), NEW C, Cumulates(C, levels, n)
    PROVE  \E end \in Accs : /\ FoldLeft(Walk, Start, levels) = end
                             /\ Walked(end, levels, C, n)
<1>1. PICK P : Walks(levels, n, P) /\ FoldLeft(Walk, Start, levels) = P[n]
  BY FoldWalks
<1>2. n \in Nat
  BY DEF LevelList
<1> DEFINE T == {k \in 0 .. n : Walked(P[k], levels, C, k)}
<1>3. 0 \in T
  <2>1. Walked(Start, levels, C, 0)
    <3>1. Start.cum = 0 /\ Start.rows = << >> /\ Len(<< >>) = 0
      BY DEF Start
    <3>2. C[0] = 0
      BY DEF Cumulates
    <3> QED
      BY <3>1, <3>2 DEF Walked
  <2> QED
    BY <1>1, <1>2, <2>1 DEF Walks
<1>4. ASSUME NEW k \in 0 .. n - 1, k \in T PROVE k + 1 \in T
  <2>1. k \in 0 .. n /\ k + 1 \in 0 .. n /\ k + 1 \in 1 .. n /\ (k + 1) - 1 = k
    BY <1>2
  <2>2. P[k] \in Accs /\ P[k + 1] = Walk(P[k], levels[k + 1])
    BY <1>1, <2>1 DEF Walks
  <2>3. Walked(P[k], levels, C, k)
    BY <1>4
  <2>4. Walked(P[k + 1], levels, C, k + 1)
    BY <2>2, <2>3, WalkedStep
  <2> QED
    BY <2>1, <2>4
<1> HIDE DEF T
<1>5. n \in T /\ n \in 0 .. n
  BY <1>2, <1>3, <1>4, IntervalInduction
<1>6. P[n] \in Accs /\ Walked(P[n], levels, C, n)
  BY <1>1, <1>5 DEF T, Walks
<1> QED
  BY <1>1, <1>6

\* The notional value of some of the levels of a side.
LEMMA NotionalIs ==
    ASSUME NEW S, IsFiniteSet(S), NEW side, NEW f \in [S -> Int],
           \A p \in S : f[p] = p * side[p],
           NEW g, Sums(f, S, g), NEW U \in SUBSET S
    PROVE  Notional(side, U) = g[U]
<1> DEFINE e == [p \in U |-> p * side[p]]
           h == [T \in SUBSET U |-> g[T]]
<1>1. IsFiniteSet(U)
  BY FS_Subset
<1>2. e \in [U -> Int] /\ \A p \in U : e[p] = f[p]
  <2>1. \A p \in U : e[p] = f[p] /\ f[p] \in Int
    OBVIOUS
  <2> QED
    BY <2>1
<1>3. Sums(e, U, h)
  <2>1. /\ g \in [SUBSET S -> Int] /\ g[{}] = 0
        /\ \A T \in SUBSET S : \A x \in T : g[T] = f[x] + g[T \ {x}]
    BY DEF Sums
  <2>2. h \in [SUBSET U -> Int] /\ h[{}] = 0
    BY <2>1
  <2>3. ASSUME NEW T \in SUBSET U, NEW x \in T PROVE h[T] = e[x] + h[T \ {x}]
    <3>1. T \in SUBSET S /\ x \in U /\ T \ {x} \in SUBSET U
      OBVIOUS
    <3>2. g[T] = f[x] + g[T \ {x}]
      BY <2>1, <3>1
    <3> HIDE DEF e
    <3> QED
      BY <1>2, <3>1, <3>2
  <2> HIDE DEF e, h
  <2> QED
    BY <2>2, <2>3 DEF Sums
<1>4. Notional(side, U) = SumFunction(e)
  BY DEF Notional
<1>5. SumFunction(e) = h[U]
  <2> HIDE DEF e, h
  <2> QED
    BY <1>1, <1>2, <1>3, SumFrom
<1> QED
  BY <1>4, <1>5

\* The levels of a side, added up in order.
LEMMA Cumulated ==
    ASSUME NEW levels, NEW side, NEW R, NEW n, AllLevels(levels, side, R, n),
           DOMAIN side \subseteq Int, IsFiniteSet(DOMAIN side)
    PROVE  \E C : /\ Cumulates(C, levels, n)
                  /\ \A i \in 0 .. n : C[i] = Notional(side, Firsts(levels, i))
<1> DEFINE S == DOMAIN side
           f == [p \in S |-> p * side[p]]
<1>1. /\ n \in Nat
      /\ \A i \in 1 .. n : levels[i].price \in S
      /\ \A i \in 1 .. n : levels[i].quantity = side[levels[i].price]
      /\ \A i, j \in 1 .. n : i < j => <<levels[i].price, levels[j].price>> \in R
      /\ \A p \in S : side[p] \in Int
      /\ \A p \in S : <<p, p>> \notin R
  BY DEF AllLevels, Cut, Orders
<1>2. f \in [S -> Int]
  <2>1. \A a, b \in Int : a * b \in Int
    OBVIOUS
  <2>2. \A p \in S : p \in Int /\ side[p] \in Int
    BY <1>1
  <2>3. \A p \in S : p * side[p] \in Int
    BY <2>1, <2>2
  <2> QED
    BY <2>3
<1>3. \A p \in S : f[p] = p * side[p]
  OBVIOUS
<1> HIDE DEF f
<1>4. PICK g : Sums(f, S, g)
  BY <1>2, SumIs
<1> DEFINE C == [i \in 0 .. n |-> g[Firsts(levels, i)]]
<1>5. \A i \in 0 .. n : Firsts(levels, i) \in SUBSET S
  BY <1>1 DEF Firsts
<1>6. C \in [0 .. n -> Int]
  BY <1>4, <1>5 DEF Sums
<1>7. C[0] = 0
  <2>1. Firsts(levels, 0) = {} /\ 0 \in 0 .. n
    BY <1>1 DEF Firsts
  <2> QED
    BY <1>4, <2>1 DEF Sums
<1>8. ASSUME NEW i \in 1 .. n
      PROVE  C[i] = C[i - 1] + levels[i].quantity * levels[i].price
  <2> DEFINE p == levels[i].price
  <2>1. i \in 0 .. n /\ i - 1 \in 0 .. n /\ p \in S /\ levels[i].quantity = side[p]
    BY <1>1
  <2>2. p \in Firsts(levels, i)
    BY <1>1 DEF Firsts
  <2>3. Firsts(levels, i) \ {p} = Firsts(levels, i - 1)
    <3>1. ASSUME NEW j \in 1 .. i - 1 PROVE levels[j].price # p /\ j \in 1 .. i
      <4>1. j \in 1 .. n /\ j < i /\ j \in 1 .. i
        BY <1>1
      <4>2. <<levels[j].price, p>> \in R
        BY <1>1, <4>1
      <4> QED
        BY <1>1, <2>1, <4>1, <4>2
    <3>2. \A j \in 1 .. i : j = i \/ j \in 1 .. i - 1
      BY <1>1
    <3>3. \A q \in Firsts(levels, i) \ {p} : q \in Firsts(levels, i - 1)
      BY <3>2 DEF Firsts
    <3>4. \A q \in Firsts(levels, i - 1) : q \in Firsts(levels, i) \ {p}
      BY <3>1 DEF Firsts
    <3> HIDE DEF p
    <3> QED
      BY <3>3, <3>4
  <2> HIDE DEF p
  <2>4. g[Firsts(levels, i)] = f[p] + g[Firsts(levels, i - 1)]
    BY <1>4, <1>5, <2>1, <2>2, <2>3 DEF Sums
  <2>5. C[i] = g[Firsts(levels, i)] /\ C[i - 1] = g[Firsts(levels, i - 1)]
    BY <2>1
  <2>6. f[p] = p * side[p] /\ p \in Int /\ side[p] \in Int /\ C[i - 1] \in Int
    BY <1>1, <1>3, <1>6, <2>1
  <2>7. \A a, b, c \in Int : a * b + c = c + b * a
    OBVIOUS
  <2> HIDE DEF C
  <2>8. C[i] = p * side[p] + C[i - 1]
    BY <2>4, <2>5, <2>6
  <2>9. p * side[p] + C[i - 1] = C[i - 1] + side[p] * p
    BY <2>6, <2>7
  <2> QED
    BY <2>1, <2>8, <2>9 DEF p
<1>9. ASSUME NEW i \in 0 .. n PROVE C[i] = Notional(side, Firsts(levels, i))
  <2>1. PICK U \in SUBSET S : U = Firsts(levels, i)
    BY <1>5
  <2>2. Notional(side, U) = g[U]
    BY <1>2, <1>3, <1>4, NotionalIs
  <2> QED
    BY <2>1, <2>2
<1> HIDE DEF C
<1>10. Cumulates(C, levels, n)
  BY <1>6, <1>7, <1>8 DEF Cumulates
<1> QED
  BY <1>9, <1>10

\* What is up to a level: the level and all before it.
UpTo(upTo, S, R) ==
    \A p \in S : upTo[p] = {q \in S : q = p \/ <<q, p>> \in R}

\* Every row names the first level with which its band is reached.
LEMMA RowsOfSide ==
    ASSUME NEW levels, NEW side, NEW R, NEW n, AllLevels(levels, side, R, n), n # 0,
           DOMAIN side \subseteq Int, IsFiniteSet(DOMAIN side),
           NEW upTo, UpTo(upTo, DOMAIN side, R), NEW k \in 1 .. 7
    PROVE  VolumeBandMatches(VolumeBands(levels)[k], Bands[k], side, upTo)
<1> DEFINE S == DOMAIN side
<1>1. /\ n \in Nat /\ levels = [i \in 1 .. n |-> levels[i]]
      /\ \A i \in 1 .. n : levels[i].price \in S
      /\ \A i \in 1 .. n : levels[i].quantity = side[levels[i].price]
      /\ \A i, j \in 1 .. n : i < j => <<levels[i].price, levels[j].price>> \in R
      /\ \A p \in S : \E i \in 1 .. n : levels[i].price = p
  <2>1. ~ (n < n)
    BY DEF AllLevels, Cut
  <2> QED
    BY <2>1 DEF AllLevels, Cut
<1>2. /\ \A p \in S : <<p, p>> \notin R /\ side[p] \in Int
      /\ \A p, q \in S : <<p, q>> \in R => <<q, p>> \notin R
  BY DEF AllLevels, Orders
<1>3. LevelList(levels, n)
  <2>1. \A i \in 1 .. n : Level(levels[i])
    BY <1>1, <1>2 DEF Level
  <2> QED
    BY <1>1, <2>1 DEF LevelList
<1>4. PICK C : /\ Cumulates(C, levels, n)
               /\ \A i \in 0 .. n : C[i] = Notional(side, Firsts(levels, i))
  BY Cumulated
<1>5. PICK end \in Accs : /\ FoldLeft(Walk, Start, levels) = end
                          /\ Walked(end, levels, C, n)
  BY <1>3, <1>4, WalkedAll
<1> DEFINE r == Len(end.rows)
           row == VolumeBands(levels)[k]
           filled == {p \in S : Notional(side, upTo[p]) >= Bands[k]}
<1>6. row = IF k <= r THEN end.rows[k]
            ELSE [reached |-> FALSE, price |-> end.last, cum |-> end.cum]
  BY <1>5, BandFacts DEF VolumeBands, Start
<1>7. \A i \in 1 .. n : C[i] \in Int /\ i \in 0 .. n
  BY <1>1, <1>4 DEF Cumulates
<1>8. Bands[k] \in Int
  BY BandFacts
<1>9. \A i \in 1 .. n : upTo[levels[i].price] = Firsts(levels, i)
  <2> SUFFICES ASSUME NEW i \in 1 .. n PROVE upTo[levels[i].price] = Firsts(levels, i)
    OBVIOUS
  <2> DEFINE p == levels[i].price
  <2>1. p \in S /\ upTo[p] = {q \in S : q = p \/ <<q, p>> \in R}
    BY <1>1 DEF UpTo
  <2>2. ASSUME NEW q \in upTo[p] PROVE q \in Firsts(levels, i)
    <3>1. q \in S /\ (q = p \/ <<q, p>> \in R)
      BY <2>1
    <3>2. PICK j \in 1 .. n : levels[j].price = q
      BY <1>1, <3>1
    <3>3. ~ (i < j)
      BY <1>1, <1>2, <2>1, <3>1, <3>2
    <3>4. j \in 1 .. i
      BY <1>1, <3>3
    <3> QED
      BY <3>2, <3>4 DEF Firsts
  <2>3. ASSUME NEW q \in Firsts(levels, i) PROVE q \in upTo[p]
    <3>1. PICK j \in 1 .. i : levels[j].price = q
      BY DEF Firsts
    <3>2. j \in 1 .. n /\ (j = i \/ j < i)
      BY <1>1
    <3>3. q \in S /\ (q = p \/ <<q, p>> \in R)
      BY <1>1, <3>1, <3>2
    <3> QED
      BY <2>1, <3>3
  <2> QED
    BY <2>2, <2>3
<1>10. \A i \in 1 .. n : C[i] = Notional(side, upTo[levels[i].price])
  BY <1>4, <1>7, <1>9
<1>11. \A i \in 1 .. n : levels[i].price \in filled <=> C[i] >= Bands[k]
  <2>1. \A p \in S : p \in filled <=> Notional(side, upTo[p]) >= Bands[k]
    OBVIOUS
  <2> HIDE DEF filled
  <2> QED
    BY <1>1, <1>10, <2>1
<1>12. filled \subseteq S
  OBVIOUS
<1>13. /\ end.cum = C[n] /\ end.last = levels[n].price
       /\ \A b \in 1 .. r :
             \E j \in 1 .. n : end.rows[b] = RowAt(levels[j], C[j]) /\ FirstReach(C, b, j)
       /\ \A b \in r + 1 .. 7 : \A l \in 1 .. n : C[l] < Bands[b]
  BY <1>1, <1>5 DEF Walked
<1>14. r \in Nat
  BY DEF Accs
<1> HIDE DEF r, row, filled, S
<1>15. CASE k <= r
  <2>1. k \in 1 .. r
    BY <1>14, <1>15
  <2>2. PICK j \in 1 .. n : end.rows[k] = RowAt(levels[j], C[j]) /\ FirstReach(C, k, j)
    BY <1>13, <2>1
  <2>3. row.reached = TRUE /\ row.price = levels[j].price /\ row.cum = C[j]
    BY <1>6, <1>15, <2>2 DEF RowAt
  <2>4. row.price \in filled
    BY <1>11, <2>2, <2>3 DEF FirstReach
  <2>5. row.cum = Notional(side, upTo[row.price])
    BY <1>10, <2>3
  <2>6. ASSUME NEW p \in filled PROVE upTo[row.price] \subseteq upTo[p]
    <3>1. PICK i \in 1 .. n : levels[i].price = p
      BY <1>1, <1>12
    <3>2. C[i] >= Bands[k]
      BY <1>11, <3>1
    <3>3. ~ (i < j)
      <4> SUFFICES ASSUME i < j PROVE FALSE
        OBVIOUS
      <4>1. i \in 1 .. j - 1
        BY <1>1
      <4>2. C[i] < Bands[k]
        BY <2>2, <4>1 DEF FirstReach
      <4> QED
        BY <1>7, <1>8, <3>2, <4>2
    <3>4. \A l \in 1 .. j : l \in 1 .. i
      BY <1>1, <3>3
    <3>5. Firsts(levels, j) \subseteq Firsts(levels, i)
      BY <3>4 DEF Firsts
    <3> QED
      BY <1>9, <2>3, <3>1, <3>5
  <2>7. row.price \in S /\ filled # {}
    BY <1>12, <2>4
  <2> QED
    BY <2>3, <2>4, <2>5, <2>6, <2>7 DEF VolumeBandMatches, filled, row, S
<1>16. CASE ~ (k <= r)
  <2>1. k \in r + 1 .. 7
    BY <1>14, <1>16
  <2>2. \A l \in 1 .. n : C[l] < Bands[k]
    BY <1>13, <2>1
  <2>3. row.reached = FALSE /\ row.price = levels[n].price /\ row.cum = C[n]
    BY <1>6, <1>13, <1>16
  <2>4. n \in 1 .. n
    BY <1>1
  <2>5. row.price \in S /\ row.cum = Notional(side, upTo[row.price])
    BY <1>1, <1>10, <2>3, <2>4
  <2>6. filled = {}
    <3> SUFFICES ASSUME NEW p \in filled PROVE FALSE
      OBVIOUS
    <3>1. PICK i \in 1 .. n : levels[i].price = p
      BY <1>1, <1>12
    <3> QED
      BY <1>7, <1>8, <1>11, <2>2, <3>1
  <2>7. upTo[row.price] = S
    <3>1. Firsts(levels, n) = S
      <4>1. \A p \in S : p \in Firsts(levels, n)
        BY <1>1 DEF Firsts
      <4>2. \A p \in Firsts(levels, n) : p \in S
        BY <1>1 DEF Firsts
      <4> QED
        BY <4>1, <4>2
    <3> QED
      BY <1>9, <2>3, <2>4, <3>1
  <2> QED
    BY <2>3, <2>5, <2>6, <2>7 DEF VolumeBandMatches, filled, row, S
<1> QED
  BY <1>15, <1>16

LEMMA VolumeBandsOfBook ==
    ASSUME NEW book \in Book, TwoSided(BuildUpdate(book)), Fits(book)
    PROVE  VolumeBandsMatch(book, VolumeBands(BuildUpdate(book).bids),
                            VolumeBands(BuildUpdate(book).asks))
<1> DEFINE update == BuildUpdate(book)
           B == DOMAIN book.bids
           A == DOMAIN book.asks
           toBid == [p \in B |-> {q \in B : q >= p}]
           toAsk == [p \in A |-> {q \in A : q <= p}]
<1>1. /\ B \subseteq Int /\ A \subseteq Int
      /\ IsFiniteSet(B) /\ IsFiniteSet(A)
  <2>1. book.bids \in Side /\ book.asks \in Side
    BY DEF Book
  <2>2. /\ B \in SUBSET Price /\ A \in SUBSET Price
        /\ Price \subseteq Int /\ IsFiniteSet(Price)
    BY <2>1, SideElim, BookAssumption
  <2> QED
    BY <2>2, FS_Subset
<1>2. PICK n : AllLevels(update.bids, book.bids, Higher(B), n)
  BY WholeBook
<1>3. PICK m : AllLevels(update.asks, book.asks, Lower(A), m)
  BY WholeBook
<1>4. n # 0 /\ m # 0
  <2>1. \A levels : levels = [i \in 1 .. 0 |-> levels[i]] => levels = << >>
    OBVIOUS
  <2>2. update.bids = [i \in 1 .. n |-> update.bids[i]] /\ update.asks = [i \in 1 .. m |-> update.asks[i]]
    BY <1>2, <1>3 DEF AllLevels, Cut
  <2> QED
    BY <2>1, <2>2 DEF TwoSided
<1> HIDE DEF update
<1>5. UpTo(toBid, B, Higher(B))
  <2>1. \A p, q \in B : (q = p \/ <<q, p>> \in Higher(B)) <=> q >= p
    BY <1>1, PriceOrder
  <2> HIDE DEF B
  <2> QED
    BY <2>1 DEF UpTo
<1>6. UpTo(toAsk, A, Lower(A))
  <2>1. \A p, q \in A : (q = p \/ <<q, p>> \in Lower(A)) <=> q <= p
    BY <1>1, PriceOrder
  <2> HIDE DEF A
  <2> QED
    BY <2>1 DEF UpTo
<1> HIDE DEF toBid, toAsk
<1>7. ASSUME NEW k \in 1 .. 7
      PROVE  /\ VolumeBandMatches(VolumeBands(update.bids)[k], Bands[k], book.bids, toBid)
             /\ VolumeBandMatches(VolumeBands(update.asks)[k], Bands[k], book.asks, toAsk)
  <2>1. VolumeBandMatches(VolumeBands(update.bids)[k], Bands[k], book.bids, toBid)
    BY <1>1, <1>2, <1>4, <1>5, RowsOfSide
  <2>2. VolumeBandMatches(VolumeBands(update.asks)[k], Bands[k], book.asks, toAsk)
    BY <1>1, <1>3, <1>4, <1>6, RowsOfSide
  <2> QED
    BY <2>1, <2>2
<1> QED
  BY <1>7, BandFacts DEF VolumeBandsMatch, update, B, A, toBid, toAsk

-----------------------------------------------------------------------------
(* The screen *)

\* No client shows an update without bids or without asks.
ShownTwoSided == screen # NoFrame => TwoSided(Update(screen))

\* Only an update with both sides gets to the screen: every client skips others.
THEOREM NextTwoSided == ShownTwoSided /\ [Next]_vars => ShownTwoSided'
<1> SUFFICES ASSUME ShownTwoSided, [Next]_vars PROVE ShownTwoSided'
  OBVIOUS
<1> USE DEF serverVars, callVars, clientVars
<1>1. screen' = screen \/ TwoSided(Update(screen'))
  BY DEF Next, vars, Publish, Send, Crash, Restart, BreakStream, Run, Subscribe,
         ReadUpdate, ReadPastEnd, ReadFails, Wake
<1> QED
  BY <1>1 DEF ShownTwoSided

\* What is shown has a best bid and a best ask (client_bbo.cpp:56-58).
THEOREM SpecTwoSided == Spec => []ShownTwoSided
<1>1. Init => ShownTwoSided
  BY DEF Init, ShownTwoSided
<1> QED
  BY <1>1, NextTwoSided, PTL DEF Spec

LEMMA ScreenBook ==
    ASSUME ClientInv, ShownTwoSided, screen # NoFrame
    PROVE  /\ screen.book \in Book
           /\ Update(screen) = BuildUpdate(screen.book)
           /\ TwoSided(BuildUpdate(screen.book))
BY DEF ClientInv, OrderInv, FrameTypes, Frames, ShownTwoSided, Update

\* TopOfBookMatches: whatever the book, its depth and the cut of the update,
\* client_bbo prints the best bid and the best ask of it, lists the best bids
\* and warns of a crossed book exactly when it is one (client_bbo.cpp:60-127).
THEOREM TopOfBookShown == Spec => []TopOfBookMatches
<1>1. ClientInv /\ ShownTwoSided => TopOfBookMatches
  <2> SUFFICES ASSUME ClientInv, ShownTwoSided, screen # NoFrame PROVE TopOfBookMatches
    BY DEF TopOfBookMatches
  <2>1. ShowsTop(screen.book, Update(screen))
    BY ScreenBook, TopOfBook
  <2> QED
    BY <2>1 DEF TopOfBookMatches, ShowsTop
<1> QED
  BY <1>1, SpecClient, SpecTwoSided, PTL

\* The update on the screen shows its whole book.
ScreenFits == screen # NoFrame => Fits(screen.book)

\* PriceBandsMatchBook: of any book no longer than the depth of an update,
\* every row of client_price_bands sums exactly the levels within its distance
\* of the mid price and names the farthest (client_price_bands.cpp:62-128).
THEOREM PriceBandsShown == Spec => [](ScreenFits => PriceBandsMatchBook)
<1>1. ClientInv /\ ShownTwoSided => (ScreenFits => PriceBandsMatchBook)
  BY ScreenBook, PriceBandsOfBook DEF ScreenFits, PriceBandsMatchBook
<1> QED
  BY <1>1, SpecClient, SpecTwoSided, PTL

\* VolumeBandsMatchBook: of any book no longer than the depth of an update,
\* every row of client_volume_bands names the first level with which the
\* notional value reaches the band, or says truly that the side does not
\* (client_volume_bands.cpp:70-115).
THEOREM VolumeBandsShown == Spec => [](ScreenFits => VolumeBandsMatchBook)
<1>1. ClientInv /\ ShownTwoSided => (ScreenFits => VolumeBandsMatchBook)
  BY ScreenBook, VolumeBandsOfBook DEF ScreenFits, VolumeBandsMatchBook
<1> QED
  BY <1>1, SpecClient, SpecTwoSided, PTL

=============================================================================
