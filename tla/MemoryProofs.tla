---------------------------- MODULE MemoryProofs ----------------------------
(***************************************************************************)
(* Proofs about Memory, for any number of processes, pages, frames and     *)
(* block sizes: what bitmap_scan finds, that the page tables, the address  *)
(* bitmaps and the pool agree, that the free lists are the free blocks,    *)
(* and that what a process holds stays its own.                            *)
(***************************************************************************)
EXTENDS Memory, TLAPS, WellFoundedInduction, FiniteSetTheorems

(***************************************************************************)
(* What the operations on lists do to membership and order, for lists of   *)
(* any length                                                              *)
(***************************************************************************)
\* The first of a set of indices, which bitmap_scan and list_traversal find
LEMMA Least ==
    ASSUME NEW S \in SUBSET Nat, S # {}
    PROVE  \E m \in S : \A k \in S : m <= k
<1> DEFINE R == OpToRel(<, Nat)
<1>1. IsWellFoundedOn(R, Nat)
  BY NatLessThanWellFounded
<1>2. ASSUME NEW x \in Nat, NEW y \in Nat, x < y PROVE <<x, y>> \in R
  BY <1>2 DEF OpToRel
<1> HIDE DEF R
<1>3. S \subseteq Nat
  OBVIOUS
<1>4. \E x \in S : \A y \in S : ~(<<y, x>> \in R)
  BY <1>1, <1>3, WFMin
<1>5. PICK x \in S : \A y \in S : ~(<<y, x>> \in R)
  BY <1>4
<1>6. \A k \in S : ~(k < x)
  BY <1>2, <1>3, <1>5
<1>7. \A k \in S : x <= k
  BY <1>3, <1>6
<1>. QED  BY <1>7

\* list_append: what it does to membership
LEMMA AppendFacts ==
    ASSUME NEW S, NEW list \in Seq(S), NEW t \in S
    PROVE  /\ Append(list, t) \in Seq(S)
           /\ Append(list, t) # <<>>
           /\ \A u : Find(Append(list, t), u) <=> Find(list, u) \/ u = t
           /\ NoDup(list) /\ ~Find(list, t) => NoDup(Append(list, t))
<1>1. /\ Append(list, t) \in Seq(S)
      /\ Len(Append(list, t)) = Len(list) + 1
      /\ Append(list, t)[Len(list) + 1] = t
      /\ \A i \in 1..Len(list) : Append(list, t)[i] = list[i]
  OBVIOUS
<1>2. Append(list, t) # <<>>
  BY <1>1
<1>3. ASSUME NEW u PROVE Find(Append(list, t), u) <=> Find(list, u) \/ u = t
  BY <1>1 DEF Find
<1>4. NoDup(list) /\ ~Find(list, t) => NoDup(Append(list, t))
  BY <1>1 DEF Find, NoDup
<1>. QED  BY <1>1, <1>2, <1>3, <1>4

\* list_pop
LEMMA PopFacts ==
    ASSUME NEW S, NEW list \in Seq(S), list # <<>>
    PROVE  /\ Head(list) \in S
           /\ Tail(list) \in Seq(S)
           /\ Find(list, Head(list))
           /\ NoDup(list) => /\ NoDup(Tail(list))
                             /\ \A u : Find(Tail(list), u) <=>
                                       Find(list, u) /\ u # Head(list)
<1>1. /\ Head(list) = list[1]
      /\ Len(list) \in Nat /\ Len(list) >= 1
      /\ Head(list) \in S
      /\ Tail(list) \in Seq(S)
      /\ Len(Tail(list)) = Len(list) - 1
      /\ \A i \in 1..Len(list) - 1 : Tail(list)[i] = list[i + 1]
  OBVIOUS
<1>2. Find(list, Head(list))
  BY <1>1 DEF Find
<1>3. ASSUME NoDup(list) PROVE NoDup(Tail(list))
  BY <1>1, <1>3 DEF NoDup
<1>4. ASSUME NoDup(list), NEW u
      PROVE  Find(Tail(list), u) <=> Find(list, u) /\ u # Head(list)
  <2>1. ASSUME Find(Tail(list), u) PROVE Find(list, u) /\ u # Head(list)
    BY <1>1, <1>4, <2>1 DEF Find, NoDup
  <2>2. ASSUME Find(list, u), u # Head(list) PROVE Find(Tail(list), u)
    <3>1. PICK i \in 1..Len(list) : list[i] = u
      BY <2>2 DEF Find
    <3>2. i - 1 \in 1..Len(Tail(list)) /\ Tail(list)[i - 1] = u
      BY <1>1, <2>2, <3>1
    <3>. QED  BY <3>2 DEF Find
  <2>. QED  BY <2>1, <2>2
<1>. QED  BY <1>1, <1>2, <1>3, <1>4

\* list_init
LEMMA EmptyFacts ==
    ASSUME NEW S
    PROVE  <<>> \in Seq(S) /\ NoDup(<<>>) /\ \A u : ~Find(<<>>, u)
BY DEF NoDup, Find

-----------------------------------------------------------------------------
\* A nonempty set of numbers has its Lowest as a member.
LEMMA LowestIn ==
    ASSUME NEW S \in SUBSET Nat, S # {}
    PROVE  Lowest(S) \in S /\ \A k \in S : Lowest(S) <= k
<1>1. \E m \in S : \A k \in S : m <= k
  BY Least
<1>. QED  BY <1>1 DEF Lowest

\* A lower bound that is a member is the Lowest.
LEMMA LowestIs ==
    ASSUME NEW S \in SUBSET Nat, NEW n \in S, \A k \in S : n <= k
    PROVE  Lowest(S) = n
<1>1. Lowest(S) \in S /\ \A k \in S : Lowest(S) <= k
  BY LowestIn
<1>2. Lowest(S) <= n /\ n <= Lowest(S) /\ Lowest(S) \in Nat /\ n \in Nat
  BY <1>1
<1>. QED  BY <1>2

\* How many numbers a range from 1 has.
LEMMA CountUpTo ==
    ASSUME NEW n \in Nat
    PROVE  Cardinality(1..n) = n
<1>1. 1 \in Int /\ n \in Int
  OBVIOUS
<1>2. Cardinality(1..n) = IF 1 > n THEN 0 ELSE n - 1 + 1
  BY <1>1, FS_Interval
<1>. QED  BY <1>2

\* Which byte of a bitmap holds bit a
LEMMA ByteOf ==
    ASSUME NEW a \in Nat, NEW b \in Nat \ {0}
    PROVE  /\ a \div b \in Nat
           /\ (a \div b) * b <= a /\ a < (a \div b) * b + b
OBVIOUS

\* A bitmap whose length is a multiple of a byte consists of whole bytes.
LEMMA WholeBytes ==
    ASSUME NEW a \in Nat, NEW b \in Nat \ {0}, a % b = 0
    PROVE  a \div b \in Nat /\ a = (a \div b) * b
OBVIOUS

\* Bytes lie one after the other.
LEMMA ByteBelow ==
    ASSUME NEW q \in Nat, NEW m \in Nat, NEW b \in Nat \ {0}
    PROVE  /\ q * b \in Nat
           /\ q < m => q * b + b <= m * b
           /\ q * b < m * b => q < m
OBVIOUS

\* The search for a byte that is not full and then for its clear bit (bitmap.c:24)
\* ends at the first clear bit of the map.
LEMMA FirstFreeIs ==
    ASSUME NEW used, NEW len \in Nat, len % ByteBits = 0, (0..len - 1) \ used # {}
    PROVE  /\ FirstFree(used, len) \in (0..len - 1) \ used
           /\ \A k \in (0..len - 1) \ used : FirstFree(used, len) <= k
<1> DEFINE B == ByteBits
           Clear == (0..len - 1) \ used
           f == Lowest(Clear)
           q == f \div B
           m == len \div B
           Bytes == {b \in 0..m - 1 : ~(Run(b * B, B) \subseteq used)}
           In == Run(q * B, B) \ used
<1>1. B \in Nat \ {0}
  BY MemoryAssumption
<1>2. f \in Clear /\ \A k \in Clear : f <= k
  <2>1. Clear \in SUBSET Nat /\ Clear # {}
    OBVIOUS
  <2>. QED  BY <2>1, LowestIn
<1> HIDE DEF f
<1>3. q \in Nat /\ q * B \in Nat /\ q * B <= f /\ f < q * B + B
  BY <1>1, <1>2, ByteOf, ByteBelow
<1>4. m \in Nat /\ len = m * B
  BY <1>1, WholeBytes
<1> HIDE DEF q, m, B
<1>5. q < m
  BY <1>1, <1>2, <1>3, <1>4, ByteBelow
<1>6. q * B + B <= len
  BY <1>1, <1>3, <1>4, <1>5, ByteBelow
<1>7. q \in Bytes
  BY <1>1, <1>2, <1>3, <1>4, <1>5 DEF Run
<1>8. ASSUME NEW b \in Bytes PROVE q <= b
  <2>1. PICK k \in Run(b * B, B) : k \notin used
    OBVIOUS
  <2>2. b \in Nat /\ b < m /\ b * B \in Nat /\ b * B + B <= len
    BY <1>1, <1>4, ByteBelow
  <2>3. k \in Clear /\ k < b * B + B
    BY <1>1, <2>1, <2>2 DEF Run
  <2>4. CASE b < q
    <3>1. b * B + B <= q * B
      BY <1>1, <1>3, <2>2, <2>4, ByteBelow
    <3>. QED  BY <1>1, <1>2, <1>3, <2>2, <2>3, <3>1
  <2>. QED  BY <1>3, <2>2, <2>4
<1>9. Lowest(Bytes) = q
  <2>1. Bytes \in SUBSET Nat
    BY <1>4
  <2>. QED  BY <1>7, <1>8, <2>1, LowestIs
<1>10. Lowest(In) = f
  <2>1. In \in SUBSET Nat /\ f \in In
    BY <1>1, <1>2, <1>3 DEF Run
  <2>2. \A k \in In : f <= k
    BY <1>1, <1>2, <1>3, <1>6 DEF Run
  <2>. QED  BY <2>1, <2>2, LowestIs
<1>11. FirstFree(used, len) = f
  BY <1>9, <1>10 DEF FirstFree, m, B
<1>. QED  BY <1>2, <1>11

\* The number that bitmap_scan has counted at bit k: the free bits in a row that
\* end there, back to start.
Ending(used, start, k, c) ==
    /\ c \in 0..k - start + 1
    /\ \A i \in start..k : i > k - c => i \notin used
    /\ k - c >= start => k - c \in used

\* The count is determined by the map.
LEMMA EndingUnique ==
    ASSUME NEW used, NEW start \in Nat, NEW k \in Nat, NEW c, NEW d,
           Ending(used, start, k, c), Ending(used, start, k, d)
    PROVE  c = d
<1>1. c \in Int /\ d \in Int /\ c >= 0 /\ d >= 0
  BY DEF Ending
<1>2. CASE c < d
  BY <1>1, <1>2 DEF Ending
<1>3. CASE d < c
  BY <1>1, <1>3 DEF Ending
<1>. QED  BY <1>1, <1>2, <1>3

\* The count begins with 1 at the free bit that was found.
LEMMA EndingStart ==
    ASSUME NEW used, NEW start \in Nat \ used
    PROVE  Ending(used, start, start, 1)
BY DEF Ending

\* A free bit adds one, a used bit sets the count back to 0 (bitmap.c:53).
LEMMA EndingStep ==
    ASSUME NEW used, NEW start \in Nat, NEW k \in Nat, k > start, NEW c,
           Ending(used, start, k - 1, c)
    PROVE  Ending(used, start, k, IF k \in used THEN 0 ELSE c + 1)
<1>1. c \in Int /\ c >= 0 /\ c <= k - start
  BY DEF Ending
<1>2. CASE k \in used
  BY <1>1, <1>2 DEF Ending
<1>3. CASE k \notin used
  <2>1. k - (c + 1) = (k - 1) - c /\ c + 1 \in 0..k - start + 1
    BY <1>1
  <2>2. ASSUME NEW i \in start..k, i > k - (c + 1) PROVE i \notin used
    <3>1. CASE i = k
      BY <1>3, <3>1
    <3>2. CASE i # k
      <4>1. i \in start..(k - 1) /\ i > (k - 1) - c
        BY <2>1, <2>2, <3>2
      <4>. QED  BY <4>1 DEF Ending
    <3>. QED  BY <3>1, <3>2
  <2>3. k - (c + 1) >= start => k - (c + 1) \in used
    BY <2>1 DEF Ending
  <2>. QED  BY <1>3, <2>1, <2>2, <2>3 DEF Ending
<1>. QED  BY <1>2, <1>3

\* Every bit after the start has a count: the first without one would follow one
\* that has it.
LEMMA EndingExists ==
    ASSUME NEW used, NEW start \in Nat \ used, NEW len \in Nat
    PROVE  \A k \in start..len : \E c : Ending(used, start, k, c)
<1> DEFINE Bad == {k \in start..len : ~\E c : Ending(used, start, k, c)}
<1> SUFFICES ASSUME Bad # {} PROVE FALSE
  OBVIOUS
<1>1. PICK b \in Bad : \A k \in Bad : b <= k
  <2>1. Bad \in SUBSET Nat
    OBVIOUS
  <2>. QED  BY <2>1, Least
<1>2. b # start
  BY <1>1, EndingStart
<1>3. b \in Nat /\ b > start /\ b - 1 \in start..len /\ b - 1 \notin Bad
  BY <1>1, <1>2
<1>4. PICK c : Ending(used, start, b - 1, c)
  BY <1>3
<1>. QED  BY <1>1, <1>3, <1>4, EndingStep

\* The recursive function in bitmap_scan counts what it should.
IsCount(used, start, len, f) ==
    f = [k \in start..len |-> IF k = start THEN 1 ELSE IF k \in used THEN 0 ELSE f[k - 1] + 1]

\* What the loop of bitmap_scan keeps in count is the length of the free run that
\* ends at the bit it looks at.
LEMMA CountIs ==
    ASSUME NEW used, NEW start \in Nat \ used, NEW len \in Nat, NEW count,
           IsCount(used, start, len, count)
    PROVE  \A k \in start..len : Ending(used, start, k, count[k])
<1> DEFINE Bad == {k \in start..len : ~Ending(used, start, k, count[k])}
<1> SUFFICES ASSUME Bad # {} PROVE FALSE
  OBVIOUS
<1>1. PICK b \in Bad : \A k \in Bad : b <= k
  <2>1. Bad \in SUBSET Nat
    OBVIOUS
  <2>. QED  BY <2>1, Least
<1>2. b # start
  BY <1>1, EndingStart DEF IsCount
<1>3. b \in Nat /\ b > start /\ b - 1 \in start..len /\ b - 1 \notin Bad
  BY <1>1, <1>2
<1>4. Ending(used, start, b - 1, count[b - 1])
  BY <1>3
<1>5. count[b] = IF b \in used THEN 0 ELSE count[b - 1] + 1
  BY <1>1, <1>2 DEF IsCount
<1>6. Ending(used, start, b, count[b])
  BY <1>3, <1>4, <1>5, EndingStep
<1>. QED  BY <1>1, <1>6

\* The recursive function of bitmap_scan exists.
LEMMA CountExists ==
    ASSUME NEW used, NEW start \in Nat \ used, NEW len \in Nat
    PROVE  \E g : IsCount(used, start, len, g)
<1> DEFINE at(k) == CHOOSE c : Ending(used, start, k, c)
           g == [k \in start..len |-> at(k)]
<1>1. \A k \in start..len : Ending(used, start, k, at(k))
  BY EndingExists
<1> HIDE DEF at
<1>2. \A k \in start..len : g[k] = IF k = start THEN 1 ELSE IF k \in used THEN 0 ELSE g[k - 1] + 1
  <2> SUFFICES ASSUME NEW k \in start..len
               PROVE  at(k) = IF k = start THEN 1 ELSE IF k \in used THEN 0 ELSE g[k - 1] + 1
    OBVIOUS
  <2>1. CASE k = start
    BY <1>1, <2>1, EndingStart, EndingUnique
  <2>2. CASE k # start
    <3>1. k \in Nat /\ k > start /\ k - 1 \in start..len
      BY <2>2
    <3>2. Ending(used, start, k, IF k \in used THEN 0 ELSE at(k - 1) + 1)
      BY <1>1, <3>1, EndingStep
    <3>3. at(k) = IF k \in used THEN 0 ELSE at(k - 1) + 1
      BY <1>1, <3>1, <3>2, EndingUnique
    <3>. QED  BY <2>2, <3>1, <3>3
  <2>. QED  BY <2>1, <2>2
<1>3. g = [k \in start..len |-> g[k]]
  OBVIOUS
<1> HIDE DEF g
<1>4. IsCount(used, start, len, g)
  BY <1>2, <1>3 DEF IsCount
<1>. QED  BY <1>4

\* What bitmap_scan returns for a map whose last bit is set, whatever the bit
\* behind it is.
Starts(used, len, cnt) == {v \in 0..len - 1 - cnt : Run(v, cnt) \cap used = {}}

\* bitmap_scan answers with the first run of cnt free bits or with -1, in a map with
\* a free bit whose last bit is used.
LEMMA ScanIs ==
    ASSUME NEW used, NEW len \in Nat \ {0}, len % ByteBits = 0, (0..len - 1) \ used # {},
           len - 1 \in used, NEW cnt \in Nat \ {0}
    PROVE  bitmap_scan(used, len, cnt) =
              IF Starts(used, len, cnt) = {} THEN -1 ELSE Lowest(Starts(used, len, cnt))
<1> DEFINE start == FirstFree(used, len)
           count == CHOOSE f : IsCount(used, start, len, f)
           ends == {k \in start + 1..len : count[k] = cnt}
           S == Starts(used, len, cnt)
<1>1. bitmap_scan(used, len, cnt) =
         IF cnt = 1 THEN start ELSE IF ends = {} THEN -1 ELSE Lowest(ends) - cnt + 1
  BY DEF bitmap_scan, IsCount
<1>2. start \in (0..len - 1) \ used /\ \A k \in (0..len - 1) \ used : start <= k
  BY FirstFreeIs
<1> HIDE DEF start
<1>3. IsCount(used, start, len, count)
  <2>1. start \in Nat \ used /\ len \in Nat
    BY <1>2
  <2>. QED  BY <2>1, CountExists
<1> HIDE DEF count
<1>4. \A k \in start..len : Ending(used, start, k, count[k])
  BY <1>2, <1>3, CountIs
<1>5. S \in SUBSET Nat /\ \A v \in S : start <= v
  BY <1>2 DEF Starts, Run
<1>6. CASE cnt = 1
  <2>1. start \in S
    BY <1>2, <1>6 DEF Starts, Run
  <2>2. Lowest(S) = start
    BY <1>5, <2>1, LowestIs
  <2>. QED  BY <1>1, <1>6, <2>1, <2>2
<1>7. CASE cnt # 1
  <2>1. ends \in SUBSET Nat
    BY <1>2
  <2>2. ASSUME NEW k \in ends PROVE k - cnt + 1 \in S
    <3>1. k \in start..len /\ Ending(used, start, k, cnt) /\ k \in Int
      BY <1>2, <1>4
    <3>2. k # len - 1 /\ k # len
      BY <1>2, <1>7, <3>1 DEF Ending
    <3>. QED  BY <1>2, <3>1, <3>2 DEF Ending, Starts, Run
  <2>3. CASE S = {}
    BY <1>1, <1>7, <2>2, <2>3
  <2>4. CASE S # {}
    <3> DEFINE v == Lowest(S)
               k == v + cnt - 1
    <3>1. v \in S /\ \A w \in S : v <= w
      BY <1>5, <2>4, LowestIn
    <3> HIDE DEF v
    <3>2. /\ v \in Nat /\ start <= v /\ v + cnt <= len - 1
          /\ \A i \in v..k : i \notin used
      BY <1>5, <3>1 DEF Starts, Run
    <3>3. k \in Nat /\ k \in start + 1..len /\ k \in start..len
      BY <1>2, <1>7, <3>2
    <3>4. Ending(used, start, k, count[k])
      BY <1>4, <3>3
    <3> DEFINE c == count[k]
    <3>5. c \in Int /\ c >= 0
      BY <3>4 DEF Ending
    <3> HIDE DEF c
    <3>6. ~(c < cnt)
      <4>1. SUFFICES ASSUME c < cnt PROVE FALSE
        OBVIOUS
      <4>2. k - c \in v..k /\ k - c >= start
        BY <1>2, <3>2, <3>5, <4>1
      <4>. QED  BY <3>2, <3>4, <4>2 DEF Ending, c
    <3>7. ~(c > cnt)
      <4>1. SUFFICES ASSUME c > cnt PROVE FALSE
        OBVIOUS
      <4>2. c <= k - start + 1 /\ \A i \in start..k : i > k - c => i \notin used
        BY <3>4 DEF Ending, c
      <4>3. v - 1 \in Nat /\ v - 1 >= start
        BY <1>2, <3>2, <3>3, <3>5, <4>1, <4>2
      <4>4. \A i \in v - 1..k : i \notin used
        BY <1>2, <3>2, <3>3, <3>5, <4>1, <4>2, <4>3
      <4>5. v - 1 \in S
        BY <3>2, <4>3, <4>4 DEF Starts, Run
      <4>. QED  BY <3>1, <3>2, <4>5
    <3>8. k \in ends
      BY <3>3, <3>5, <3>6, <3>7 DEF c
    <3>9. ASSUME NEW j \in ends PROVE k <= j
      <4>1. j - cnt + 1 \in S /\ j \in Nat
        BY <2>1, <2>2
      <4>. QED  BY <3>1, <3>2, <4>1
    <3>10. Lowest(ends) = k
      BY <2>1, <3>8, <3>9, LowestIs
    <3>. QED  BY <1>1, <1>7, <2>4, <3>2, <3>8, <3>10 DEF v
  <2>. QED  BY <2>3, <2>4
<1>. QED  BY <1>6, <1>7

-----------------------------------------------------------------------------
\* The number of members of S below n
Rank(S, n) == Cardinality({m \in S : m < n})

\* Ranks in a finite set are below its size and grow with the members.
LEMMA RankFacts ==
    ASSUME NEW S \in SUBSET Nat, IsFiniteSet(S), NEW n \in S
    PROVE  /\ Rank(S, n) \in 0..Cardinality(S) - 1
           /\ \A k \in S : n < k => Rank(S, n) < Rank(S, k)
<1> DEFINE Below(k) == {m \in S : m < k}
<1>1. \A k : IsFiniteSet(Below(k)) /\ Cardinality(Below(k)) \in Nat
  <2> TAKE k
  <2>1. Below(k) \in SUBSET S
    OBVIOUS
  <2>. QED  BY <2>1, FS_Subset, FS_CardinalityType
<1>2. IsFiniteSet(Below(n) \cup {n}) /\ Cardinality(Below(n) \cup {n}) = Cardinality(Below(n)) + 1
  <2>1. n \notin Below(n)
    OBVIOUS
  <2> HIDE DEF Below
  <2>. QED  BY <1>1, <2>1, FS_AddElement
<1>3. Cardinality(Below(n)) + 1 <= Cardinality(S) /\ Cardinality(S) \in Nat
  <2>1. Below(n) \cup {n} \in SUBSET S
    OBVIOUS
  <2>. QED  BY <1>2, <2>1, FS_Subset, FS_CardinalityType
<1>4. ASSUME NEW k \in S, n < k PROVE Cardinality(Below(n)) + 1 <= Cardinality(Below(k))
  <2>1. Below(n) \cup {n} \in SUBSET Below(k)
    <3>1. n \in Nat /\ k \in Nat /\ \A m \in S : m \in Nat
      OBVIOUS
    <3>2. \A m \in S : m < n => m < k
      BY <1>4, <3>1
    <3>. QED  BY <1>4, <3>2
  <2> HIDE DEF Below
  <2>. QED  BY <1>1, <1>2, <2>1, FS_Subset
<1>5. \A k : Rank(S, k) = Cardinality(Below(k))
  BY DEF Rank
<1> HIDE DEF Below
<1>6. Rank(S, n) \in 0..Cardinality(S) - 1
  BY <1>1, <1>3, <1>5
<1>7. ASSUME NEW k \in S, n < k PROVE Rank(S, n) < Rank(S, k)
  BY <1>1, <1>4, <1>5, <1>7
<1>. QED  BY <1>6, <1>7

\* No two members have one rank.
LEMMA RankUnique ==
    ASSUME NEW S \in SUBSET Nat, IsFiniteSet(S), NEW n \in S, NEW k \in S, Rank(S, n) = Rank(S, k)
    PROVE  n = k
<1>1. Rank(S, n) \in Int /\ Rank(S, k) \in Int
  BY RankFacts
<1>2. ~(n < k) /\ ~(k < n)
  BY <1>1, RankFacts
<1>. QED  BY <1>2

\* Every number below the size of S is the rank of a member: the ranks are
\* different, and there are as many as members.
LEMMA NthFacts ==
    ASSUME NEW S \in SUBSET Nat, IsFiniteSet(S)
    PROVE  /\ \A k \in 0..Cardinality(S) - 1 : NthOf(S, k) \in S /\ Rank(S, NthOf(S, k)) = k
           /\ \A n \in S : NthOf(S, Rank(S, n)) = n
<1> DEFINE T == 0..Cardinality(S) - 1
           f == [n \in S |-> Rank(S, n)]
<1>1. Cardinality(S) \in Nat
  BY FS_CardinalityType
<1>2. IsFiniteSet(T) /\ Cardinality(T) = Cardinality(S)
  <2>1. IsFiniteSet(T) /\ Cardinality(T) = IF 0 > Cardinality(S) - 1 THEN 0 ELSE (Cardinality(S) - 1) - 0 + 1
    BY <1>1, FS_Interval, SMTT(30)
  <2>. QED  BY <1>1, <2>1
<1>3. f \in Injection(S, T)
  <2>1. f \in [S -> T]
    BY RankFacts
  <2>2. \A n, k \in S : f[n] = f[k] => n = k
    BY RankUnique
  <2> HIDE DEF f
  <2>. QED  BY <2>1, <2>2 DEF Injection, IsInjective
<1>4. f \in Surjection(S, T)
  BY <1>2, <1>3, FS_Injection
<1>5. \A k \in T : \E n \in S : Rank(S, n) = k
  BY <1>4 DEF Surjection
<1>6. \A k \in T : NthOf(S, k) \in S /\ Rank(S, NthOf(S, k)) = k
  BY <1>5 DEF NthOf, Rank
<1>7. ASSUME NEW n \in S PROVE NthOf(S, Rank(S, n)) = n
  <2>1. Rank(S, n) \in T
    BY RankFacts
  <2>2. NthOf(S, Rank(S, n)) \in S /\ Rank(S, NthOf(S, Rank(S, n))) = Rank(S, n)
    BY <1>6, <2>1
  <2> DEFINE k == NthOf(S, Rank(S, n))
  <2>3. k \in S /\ Rank(S, k) = Rank(S, n)
    BY <2>2
  <2> HIDE DEF k
  <2>4. k = n
    BY <2>3, RankUnique
  <2>. QED  BY <2>4 DEF k
<1>. QED  BY <1>6, <1>7

\* Taking the blocks of a page out of a list keeps the others, and none twice.
LEMMA WithoutFacts ==
    ASSUME NEW T, NEW list \in Seq(T), NEW v
    PROVE  /\ Without(list, v) \in Seq(T)
           /\ NoDup(list) => NoDup(Without(list, v))
           /\ \A u : Find(Without(list, v), u) <=> Find(list, u) /\ u[1] # v
<1> DEFINE rest == {i \in 1..Len(list) : list[i][1] # v}
           n == Cardinality(rest)
           nth(k) == NthOf(rest, k - 1)
           out == [k \in 1..n |-> list[nth(k)]]
<1>1. rest \in SUBSET Nat /\ IsFiniteSet(rest) /\ n \in Nat
  <2>1. IsFiniteSet(1..Len(list)) /\ rest \in SUBSET (1..Len(list))
    BY FS_Interval
  <2>. QED  BY <2>1, FS_Subset, FS_CardinalityType
<1>2. Without(list, v) = out
  BY DEF Without
<1>3. \A i \in rest : i \in 1..Len(list) /\ list[i] \in T /\ list[i][1] # v
  OBVIOUS
<1>4. \A i \in 1..Len(list) : list[i][1] # v => i \in rest
  OBVIOUS
<1> HIDE DEF rest
<1>5. \A k \in 1..n : nth(k) \in rest /\ Rank(rest, nth(k)) = k - 1
  <2> TAKE k \in 1..n
  <2>1. k - 1 \in 0..n - 1
    BY <1>1
  <2>. QED  BY <1>1, <2>1, NthFacts
<1>6. \A i \in rest : \E k \in 1..n : nth(k) = i
  <2> TAKE i \in rest
  <2>1. Rank(rest, i) \in 0..n - 1 /\ NthOf(rest, Rank(rest, i)) = i
    BY <1>1, NthFacts, RankFacts
  <2>2. Rank(rest, i) + 1 \in 1..n /\ (Rank(rest, i) + 1) - 1 = Rank(rest, i)
    BY <1>1, <2>1
  <2>. QED  BY <2>1, <2>2
<1> HIDE DEF nth, n
<1>7. out \in Seq(T) /\ Len(out) = n /\ \A k \in 1..n : out[k] = list[nth(k)]
  <2>1. n \in Nat /\ \A k \in 1..n : list[nth(k)] \in T
    BY <1>1, <1>3, <1>5 DEF n
  <2>2. out \in [1..n -> T]
    BY <2>1
  <2>3. out \in Seq(T) /\ Len(out) = n
    BY <2>1, <2>2
  <2>. QED  BY <2>3
<1> HIDE DEF out
<1>8. ASSUME NoDup(list) PROVE NoDup(out)
  <2>1. ASSUME NEW j \in 1..n, NEW k \in 1..n, out[j] = out[k] PROVE j = k
    <3>1. nth(j) = nth(k)
      <4>1. list[nth(j)] = list[nth(k)]
        BY <1>7, <2>1
      <4>2. nth(j) \in 1..Len(list) /\ nth(k) \in 1..Len(list)
        BY <1>3, <1>5
      <4>. QED  BY <1>8, <4>1, <4>2 DEF NoDup
    <3>. QED  BY <1>5, <3>1
  <2>. QED  BY <1>7, <2>1 DEF NoDup
<1>9. ASSUME NEW u PROVE Find(out, u) <=> Find(list, u) /\ u[1] # v
  <2>1. ASSUME Find(out, u) PROVE Find(list, u) /\ u[1] # v
    <3>1. PICK k \in 1..n : out[k] = u
      BY <1>7, <2>1 DEF Find
    <3>2. nth(k) \in rest /\ list[nth(k)] = u
      BY <1>5, <1>7, <3>1
    <3>. QED  BY <1>3, <3>2 DEF Find
  <2>2. ASSUME Find(list, u), u[1] # v PROVE Find(out, u)
    <3>1. PICK i \in 1..Len(list) : list[i] = u
      BY <2>2 DEF Find
    <3>2. PICK k \in 1..n : nth(k) = i
      BY <1>4, <1>6, <2>2, <3>1
    <3>. QED  BY <1>7, <3>1, <3>2 DEF Find
  <2>. QED  BY <2>1, <2>2
<1>. QED  BY <1>2, <1>7, <1>8, <1>9

-----------------------------------------------------------------------------
\* Pages and frames are finitely many numbers, and no page table entry of a frame
\* is NULL.
LEMMA Finite ==
    /\ IsFiniteSet(Page) /\ IsFiniteSet(Frame)
    /\ Page \in SUBSET Nat /\ Frame \in SUBSET Nat
    /\ Stack \in Page /\ NULL \notin Frame
<1>1. Stack \in Nat /\ Frames \in Nat \ {0} /\ NULL \notin Nat
  BY MemoryAssumption
<1>2. IsFiniteSet(Page) /\ IsFiniteSet(Frame)
  BY <1>1, FS_Interval DEF Page, Frame
<1>3. Page \in SUBSET Nat /\ Frame \in SUBSET Nat /\ Stack \in Page
  BY <1>1 DEF Page, Frame
<1>. QED  BY <1>1, <1>2, <1>3

\* The frames that pmalloc finds for the pages of S are free, and no two pages
\* get the same.
LEMMA PlaceFacts ==
    ASSUME NEW S \in SUBSET Page, Enough(Cardinality(S))
    PROVE  /\ \A v \in S : Place(S, v) \in Frame /\ Place(S, v) \notin pool
           /\ \A v, w \in S : Place(S, v) = Place(S, w) => v = w
<1>1. IsFiniteSet(S) /\ S \in SUBSET Nat /\ Cardinality(S) \in Nat
  BY Finite, FS_Subset, FS_CardinalityType
<1>2. IsFiniteSet(Unused) /\ Unused \in SUBSET Nat /\ Cardinality(Unused) \in Nat
  <2>1. Unused \in SUBSET Frame
    BY DEF Unused
  <2>. QED  BY <2>1, Finite, FS_Subset, FS_CardinalityType
<1>3. Cardinality(S) <= Cardinality(Unused)
  BY <1>1, <1>2 DEF Enough
<1>4. \A v : Place(S, v) = NthOf(Unused, Rank(S, v))
  BY DEF Place, Nth, Rank
<1>5. ASSUME NEW v \in S
      PROVE  /\ Rank(S, v) \in 0..Cardinality(Unused) - 1
             /\ Place(S, v) \in Unused /\ Rank(Unused, Place(S, v)) = Rank(S, v)
  <2>1. Rank(S, v) \in 0..Cardinality(S) - 1
    BY <1>1, RankFacts
  <2>2. Rank(S, v) \in 0..Cardinality(Unused) - 1
    BY <1>1, <1>2, <1>3, <2>1
  <2>3. /\ NthOf(Unused, Rank(S, v)) \in Unused
        /\ Rank(Unused, NthOf(Unused, Rank(S, v))) = Rank(S, v)
    BY <1>2, <2>2, NthFacts
  <2>. QED  BY <1>4, <2>2, <2>3
<1>6. ASSUME NEW v \in S, NEW w \in S, Place(S, v) = Place(S, w) PROVE v = w
  <2>1. Rank(S, v) = Rank(S, w)
    BY <1>5, <1>6
  <2>. QED  BY <1>1, <2>1, RankUnique
<1>. QED  BY <1>5, <1>6 DEF Unused

\* FramesExact and the types of its variables, of their values
FrameTypes(P, V, T, D) ==
    /\ P \subseteq Frame
    /\ V \in [Proc -> SUBSET Page]
    /\ T \in [Proc -> [Page -> Frame \cup {NULL}]]
    /\ D \in [Proc -> SUBSET TablesOf(Page)]
SamePages(V, T) == \A p \in Proc : \A v \in Page : v \in V[p] <=> T[p][v] # NULL
HasStack(al, V) == \A p \in Proc : p \in al <=> Stack \in V[p]
HasTables(V, D) == \A p \in Proc : TablesOf(V[p]) \subseteq D[p]
OwnFrames(V, T) == \A p, q \in Proc : \A v \in V[p], w \in V[q] :
                      T[p][v] = T[q][w] => p = q /\ v = w
PoolIs(P, V, T) == \A f : f \in P <=> \E p \in Proc : \E v \in V[p] : T[p][v] = f
FramesOf(al, P, V, T, D) ==
    /\ FrameTypes(P, V, T, D) /\ SamePages(V, T) /\ HasStack(al, V) /\ HasTables(V, D)
    /\ OwnFrames(V, T) /\ PoolIs(P, V, T)

\* FramesExact, said of the variables one by one.
LEMMA FramesSame ==
    ASSUME TypeOK
    PROVE  FramesExact <=> FramesOf(alive, pool, vused, pte, pde)
<1>1. FrameTypes(pool, vused, pte, pde)
  BY DEF TypeOK, FrameTypes
<1>2. (\A p \in Proc : vused[p] = Present(p)) <=> SamePages(vused, pte)
  BY <1>1 DEF FrameTypes, SamePages, Present
<1>3. (pool = UNION {{pte[p][v] : v \in vused[p]} : p \in Proc}) <=> PoolIs(pool, vused, pte)
  BY DEF PoolIs
<1>. QED  BY <1>1, <1>2, <1>3 DEF FramesExact, FramesOf, HasStack, HasTables, OwnFrames

\* More pages need more page tables.
LEMMA TablesUp ==
    ASSUME NEW A, NEW B, A \subseteq B
    PROVE  TablesOf(A) \subseteq TablesOf(B)
BY DEF TablesOf

\* Pages S that a process p gets: free before, in frames that were free.
FreshFrames(place, S, P) ==
    /\ \A v \in S : place[v] \in Frame /\ place[v] \notin P
    /\ \A v, w \in S : place[v] = place[w] => v = w
OthersStay(p, al, al2) == \A q \in Proc : q # p => (q \in al2 <=> q \in al)
Adds(p, S, place, P, V, T, P2, V2, T2) ==
    /\ \A f : f \in P2 <=> f \in P \/ \E v \in S : place[v] = f
    /\ V2 = [V EXCEPT ![p] = V[p] \cup S]
    /\ T2 = [T EXCEPT ![p] = [v \in Page |-> IF v \in S THEN place[v] ELSE T[p][v]]]

\* malloc_page, a fork or an exec that gives fresh frames to unused pages of one
\* process keeps the records of frames in agreement.
LEMMA AddPages ==
    ASSUME NEW al, NEW P, NEW V, NEW T, NEW D, FramesOf(al, P, V, T, D),
           NEW p \in Proc, NEW S \in SUBSET Page, S \cap V[p] = {},
           NEW place, FreshFrames(place, S, P),
           NEW al2, OthersStay(p, al, al2), p \in al2 <=> Stack \in V[p] \cup S,
           NEW P2, NEW V2, NEW T2, Adds(p, S, place, P, V, T, P2, V2, T2),
           NEW E \in SUBSET TablesOf(Page), TablesOf(V[p] \cup S) \subseteq E,
           NEW D2, D2 = [D EXCEPT ![p] = E]
    PROVE  FramesOf(al2, P2, V2, T2, D2)
<1> USE DEF FreshFrames, OthersStay, Adds
<1>1. FrameTypes(P, V, T, D)
  BY DEF FramesOf
<1>2. FrameTypes(P2, V2, T2, D2)
  BY <1>1 DEF FrameTypes
<1>3. \A q \in Proc : V2[q] = IF q = p THEN V[p] \cup S ELSE V[q]
  BY <1>1 DEF FrameTypes
<1>4. \A q \in Proc, v \in Page : T2[q][v] = IF q = p /\ v \in S THEN place[v] ELSE T[q][v]
  BY <1>1 DEF FrameTypes
<1>5. \A q \in Proc : V[q] \subseteq Page
  BY <1>1 DEF FrameTypes
<1>6. \A q \in Proc : \A v \in V[q] : T[q][v] \in P
  BY DEF FramesOf, PoolIs
<1>7. SamePages(V2, T2)
  BY <1>3, <1>4, Finite DEF FramesOf, SamePages
<1>8. HasStack(al2, V2)
  BY <1>3 DEF FramesOf, HasStack
<1>9. HasTables(V2, D2)
  BY <1>1, <1>3 DEF FramesOf, HasTables, FrameTypes
<1>10. OwnFrames(V2, T2)
  <2> SUFFICES ASSUME NEW q \in Proc, NEW r \in Proc, NEW v \in V2[q], NEW w \in V2[r],
                      T2[q][v] = T2[r][w]
               PROVE  q = r /\ v = w
    BY DEF OwnFrames
  <2>1. v \in Page /\ w \in Page
    BY <1>3, <1>5
  <2>2. CASE (q = p /\ v \in S) /\ (r = p /\ w \in S)
    BY <1>4, <2>1, <2>2
  <2>3. CASE (q = p /\ v \in S) /\ ~(r = p /\ w \in S)
    BY <1>3, <1>4, <1>6, <2>1, <2>3
  <2>4. CASE ~(q = p /\ v \in S) /\ (r = p /\ w \in S)
    BY <1>3, <1>4, <1>6, <2>1, <2>4
  <2>5. CASE ~(q = p /\ v \in S) /\ ~(r = p /\ w \in S)
    <3>1. v \in V[q] /\ w \in V[r] /\ T[q][v] = T[r][w]
      BY <1>3, <1>4, <2>1, <2>5
    <3>. QED  BY <3>1 DEF FramesOf, OwnFrames
  <2>. QED  BY <2>2, <2>3, <2>4, <2>5
<1>11. PoolIs(P2, V2, T2)
  <2>1. ASSUME NEW f, f \in P2 PROVE \E q \in Proc : \E v \in V2[q] : T2[q][v] = f
    <3>1. CASE f \in P
      <4>1. PICK q \in Proc : \E v \in V[q] : T[q][v] = f
        BY <3>1 DEF FramesOf, PoolIs
      <4>2. PICK v \in V[q] : T[q][v] = f
        BY <4>1
      <4>3. v \in V2[q] /\ T2[q][v] = f
        BY <1>3, <1>4, <1>5, <4>2
      <4>. QED  BY <4>3
    <3>2. CASE f \notin P
      <4>1. PICK v \in S : place[v] = f
        BY <2>1, <3>2
      <4>2. v \in V2[p] /\ T2[p][v] = f
        BY <1>3, <1>4, <4>1
      <4>. QED  BY <4>2
    <3>. QED  BY <3>1, <3>2
  <2>2. ASSUME NEW q \in Proc, NEW v \in V2[q] PROVE T2[q][v] \in P2
    BY <1>3, <1>4, <1>5, <1>6
  <2>. QED  BY <2>1, <2>2, ZenonT(60) DEF PoolIs
<1>. QED  BY <1>2, <1>7, <1>8, <1>9, <1>10, <1>11 DEF FramesOf

\* Pages S that a process p gives back
Drops(p, S, P, V, T, P2, V2, T2) ==
    /\ P2 = P \ {T[p][v] : v \in S}
    /\ V2 = [V EXCEPT ![p] = V[p] \ S]
    /\ T2 = [T EXCEPT ![p] = [v \in Page |-> IF v \in S THEN NULL ELSE T[p][v]]]

\* mfree_page or an exit that takes pages of one process away does so too.
LEMMA DropPages ==
    ASSUME NEW al, NEW P, NEW V, NEW T, NEW D, FramesOf(al, P, V, T, D),
           NEW p \in Proc, NEW S, S \subseteq V[p],
           NEW al2, OthersStay(p, al, al2), p \in al2 <=> Stack \in V[p] \ S,
           NEW P2, NEW V2, NEW T2, Drops(p, S, P, V, T, P2, V2, T2),
           NEW E \in SUBSET TablesOf(Page), TablesOf(V[p] \ S) \subseteq E,
           NEW D2, D2 = [D EXCEPT ![p] = E]
    PROVE  FramesOf(al2, P2, V2, T2, D2)
<1> USE DEF OthersStay, Drops
<1>1. FrameTypes(P, V, T, D)
  BY DEF FramesOf
<1>2. FrameTypes(P2, V2, T2, D2)
  BY <1>1 DEF FrameTypes
<1>3. \A q \in Proc : V2[q] = IF q = p THEN V[p] \ S ELSE V[q]
  BY <1>1 DEF FrameTypes
<1>4. \A q \in Proc, v \in Page : T2[q][v] = IF q = p /\ v \in S THEN NULL ELSE T[q][v]
  BY <1>1 DEF FrameTypes
<1>5. \A q \in Proc : V[q] \subseteq Page
  BY <1>1 DEF FrameTypes
<1>6. \A q \in Proc : \A v \in V2[q] : v \in V[q] /\ v \in Page /\ T2[q][v] = T[q][v]
  BY <1>3, <1>4, <1>5
<1>7. SamePages(V2, T2)
  BY <1>3, <1>4 DEF FramesOf, SamePages
<1>8. HasStack(al2, V2)
  BY <1>3 DEF FramesOf, HasStack
<1>9. HasTables(V2, D2)
  BY <1>1, <1>3 DEF FramesOf, HasTables, FrameTypes
<1>10. OwnFrames(V2, T2)
  BY <1>6 DEF FramesOf, OwnFrames
<1>11. PoolIs(P2, V2, T2)
  <2>1. ASSUME NEW f, f \in P2 PROVE \E q \in Proc : \E v \in V2[q] : T2[q][v] = f
    <3>1. PICK q \in Proc : \E v \in V[q] : T[q][v] = f
      BY <2>1 DEF FramesOf, PoolIs
    <3>2. PICK v \in V[q] : T[q][v] = f
      BY <3>1
    <3>3. v \in V2[q] /\ T2[q][v] = f
      BY <1>3, <1>4, <1>5, <2>1, <3>2
    <3>. QED  BY <3>3
  <2>2. ASSUME NEW q \in Proc, NEW v \in V2[q] PROVE T2[q][v] \in P2
    <3>1. v \in V[q] /\ T2[q][v] = T[q][v] /\ T[q][v] \in P
      BY <1>6 DEF FramesOf, PoolIs
    <3>2. \A w \in S : T[p][w] # T[q][v]
      BY <1>3, <3>1 DEF FramesOf, OwnFrames
    <3>. QED  BY <3>1, <3>2
  <2>3. ASSUME NEW f, \E q \in Proc : \E v \in V2[q] : T2[q][v] = f PROVE f \in P2
    BY <2>2, <2>3
  <2>4. ASSUME NEW f
        PROVE  f \in P2 <=> \E q \in Proc : \E v \in V2[q] : T2[q][v] = f
    BY <2>1, <2>3
  <2>. QED  BY <2>4 DEF PoolIs
<1>. QED  BY <1>2, <1>7, <1>8, <1>9, <1>10, <1>11 DEF FramesOf

-----------------------------------------------------------------------------
\* The heap of a process p: its pages V, their arenas A, the free lists F, the
\* pointers L it holds and the pages C it has from its parent.
HeapTypes(V, A, F, L, C) ==
    /\ V \in SUBSET Page /\ C \in SUBSET Page /\ L \in SUBSET Pointer
    /\ A \in [Page -> Arena] /\ F \in [Class -> Seq(Pointer)]

\* Only a page in use has a struct arena.
Blank(V, A) == \A v \in Page : v \notin V => A[v] = NoArena

\* A free list holds blocks of its size, each once, and none that is in use.
Listing(p, A, F, L) ==
    \A c \in Class : /\ NoDup(F[c])
                     /\ \A b \in Pointer : Find(F[c], b) =>
                           /\ A[b[1]].home = p /\ A[b[1]].class = c
                           /\ b[2] < Blocks(c) /\ b \notin L

\* cnt is the number of blocks of an arena that are in the lists, or more where
\* a fork has made the arena and not its lists.
Listed(F, b) == \E c \in Class : Find(F[c], b)
OnLists(F, v) == {k \in 0..PageSize : Listed(F, <<v, k>>)}
Counts(A, F, C) ==
    \A v \in Page : A[v].class # 0 =>
        /\ A[v].large = FALSE /\ A[v].cnt < Blocks(A[v].class)
        /\ A[v].cnt >= Cardinality(OnLists(F, v))
        /\ v \notin C => A[v].cnt = Cardinality(OnLists(F, v))

\* A pointer in use is a block of an arena, or the first of some pages in use
\* that no other arena starts in.
HeldLarge(V, A, b) ==
    /\ A[b[1]].large = TRUE /\ b[2] = 0 /\ A[b[1]].cnt >= 1 /\ A[b[1]].class = 0
    /\ \A w \in Run(b[1], A[b[1]].cnt) :
          w \in V /\ w < Stack /\ (w # b[1] => A[w] = NoArena)
HeldBlock(A, b) ==
    A[b[1]].large = FALSE /\ A[b[1]].class # 0 /\ b[2] < Blocks(A[b[1]].class)
Held(V, A, L) == \A b \in L : HeldLarge(V, A, b) \/ HeldBlock(A, b)

Heap(p, V, A, F, L, C) ==
    /\ HeapTypes(V, A, F, L, C)
    /\ Blank(V, A) /\ Listing(p, A, F, L) /\ Counts(A, F, C) /\ Held(V, A, L)

\* The fields of a page without an arena.
LEMMA NoArenaFields ==
    /\ NoArena \in Arena /\ NoArena.class = 0 /\ NoArena.cnt = 0 /\ NoArena.large = FALSE
BY MemoryAssumption DEF NoArena, Arena

\* An arena of every class has two blocks or more.
LEMMA BlocksFacts ==
    ASSUME NEW c \in Class
    PROVE  /\ c \in Nat \ {0}
           /\ Blocks(c) \in Nat /\ Blocks(c) >= 2 /\ Blocks(c) <= PageSize
<1> DEFINE s == BlockSize[c]
           a == PageSize - Header
<1>1. s \in Nat \ {0} /\ Header \in Nat \ {0} /\ PageSize \in Nat /\ Header + 2 * s <= PageSize
  BY MemoryAssumption DEF Class
<1>2. a \in Nat /\ a >= 2 * s /\ a <= PageSize
  BY <1>1
<1>3. Blocks(c) = a \div s
  BY DEF Blocks
<1> HIDE DEF a, s
<1>4. a \div s \in Nat /\ a \div s >= 2 /\ a \div s <= a
  <2>1. s \in Nat \ {0} /\ a \in Nat /\ a >= 2 * s
    BY <1>1, <1>2
  <2>2. a \div s \in Nat
    BY <2>1, ByteOf
  <2>3. a \div s >= 2
    BY <2>1
  <2>4. a \div s <= a
    BY <2>1
  <2>. QED  BY <2>2, <2>3, <2>4
<1>5. c \in Nat \ {0}
  BY MemoryAssumption DEF Class
<1>. QED  BY <1>1, <1>2, <1>3, <1>4, <1>5

\* The fields of an arena have their types.
LEMMA ArenaFields ==
    ASSUME NEW A \in [Page -> Arena], NEW v \in Page
    PROVE  /\ A[v].class \in Class \cup {0} /\ A[v].large \in BOOLEAN
           /\ A[v].cnt \in Nat /\ A[v].cnt <= Stack + PageSize
BY MemoryAssumption DEF Arena

\* A pointer is a page below the stack and an index.
LEMMA PointerFacts ==
    ASSUME NEW b \in Pointer
    PROVE  /\ b[1] \in Page /\ b[1] \in Nat /\ b[1] < Stack
           /\ b[2] \in Nat /\ b[2] <= PageSize /\ b = <<b[1], b[2]>>
BY MemoryAssumption DEF Pointer, Page

\* The blocks of a page on the lists can be counted.
LEMMA OnListsFinite ==
    ASSUME NEW F, NEW v
    PROVE  IsFiniteSet(OnLists(F, v)) /\ Cardinality(OnLists(F, v)) \in Nat
<1>1. OnLists(F, v) \in SUBSET (0..PageSize)
  BY DEF OnLists
<1>2. IsFiniteSet(0..PageSize)
  BY MemoryAssumption, FS_Interval
<1>. QED  BY <1>1, <1>2, FS_Subset, FS_CardinalityType

\* The blocks that are listed belong to arenas of their process.
LEMMA ListedFacts ==
    ASSUME NEW p, NEW V, NEW A, NEW F, NEW L, NEW C, Heap(p, V, A, F, L, C),
           NEW b \in Pointer, Listed(F, b)
    PROVE  /\ A[b[1]].home = p /\ A[b[1]].class \in Class /\ b[2] < Blocks(A[b[1]].class)
           /\ Find(F[A[b[1]].class], b) /\ b \notin L /\ b[1] \in V
           /\ \A c \in Class : Find(F[c], b) => c = A[b[1]].class
<1>1. PICK c \in Class : Find(F[c], b)
  BY DEF Listed
<1>2. A[b[1]].home = p /\ A[b[1]].class = c /\ b[2] < Blocks(c) /\ b \notin L
  BY <1>1 DEF Heap, Listing
<1>3. b[1] \in V
  <2>1. c # 0
    BY BlocksFacts
  <2>. QED  BY <1>2, <2>1, PointerFacts, NoArenaFields DEF Heap, Blank
<1>4. \A d \in Class : Find(F[d], b) => d = A[b[1]].class
  BY DEF Heap, Listing
<1>. QED  BY <1>1, <1>2, <1>3, <1>4

\* Two pointers in use stand for different pages, or blocks of the same arena.
Span(A, b) == IF A[b[1]].large THEN Run(b[1], A[b[1]].cnt) ELSE {b[1]}

\* The pages of large memory and of a block.
LEMMA SpanIs ==
    ASSUME NEW A, NEW b
    PROVE  /\ A[b[1]].large = TRUE => Span(A, b) = Run(b[1], A[b[1]].cnt)
           /\ A[b[1]].large = FALSE => Span(A, b) = {b[1]}
BY Zenon DEF Span

\* Two pointers that a process holds share no page unless both are blocks.
LEMMA Apart ==
    ASSUME NEW p, NEW V, NEW A, NEW F, NEW L, NEW C, Heap(p, V, A, F, L, C),
           NEW b \in L, NEW x \in L, b # x
    PROVE  \/ Span(A, b) \cap Span(A, x) = {}
           \/ x[1] = b[1] /\ HeldBlock(A, b)
<1>1. b \in Pointer /\ x \in Pointer /\ A \in [Page -> Arena]
  BY DEF Heap, HeapTypes
<1>2. /\ HeldLarge(V, A, b) \/ HeldBlock(A, b)
      /\ HeldLarge(V, A, x) \/ HeldBlock(A, x)
  BY DEF Heap, Held
<1>3. /\ b[1] \in Nat /\ x[1] \in Nat /\ b = <<b[1], b[2]>> /\ x = <<x[1], x[2]>>
      /\ b[1] \in Page /\ x[1] \in Page
  BY <1>1, PointerFacts
<1>4. A[b[1]].cnt \in Nat /\ A[x[1]].cnt \in Nat
  BY <1>1, <1>3, ArenaFields
<1>5. CASE HeldBlock(A, b) /\ HeldBlock(A, x)
  <2>1. Span(A, b) = {b[1]} /\ Span(A, x) = {x[1]}
    BY <1>5, SpanIs, Zenon DEF HeldBlock
  <2>. QED  BY <1>5, <2>1
<1>6. CASE HeldLarge(V, A, b) /\ HeldBlock(A, x)
  <2>1. x[1] \notin Run(b[1], A[b[1]].cnt)
    BY <1>6, NoArenaFields DEF HeldLarge, HeldBlock
  <2>2. Span(A, b) = Run(b[1], A[b[1]].cnt) /\ Span(A, x) = {x[1]}
    BY <1>6, SpanIs, Zenon DEF HeldLarge, HeldBlock
  <2>3. Span(A, b) \cap Span(A, x) = {}
    BY <2>1, <2>2
  <2>. QED  BY <2>3
<1>7. CASE HeldBlock(A, b) /\ HeldLarge(V, A, x)
  <2>1. b[1] \notin Run(x[1], A[x[1]].cnt)
    BY <1>7, NoArenaFields DEF HeldLarge, HeldBlock
  <2>2. Span(A, b) = {b[1]} /\ Span(A, x) = Run(x[1], A[x[1]].cnt)
    BY <1>7, SpanIs, Zenon DEF HeldLarge, HeldBlock
  <2>3. Span(A, b) \cap Span(A, x) = {}
    BY <2>1, <2>2
  <2>. QED  BY <2>3
<1>8. CASE HeldLarge(V, A, b) /\ HeldLarge(V, A, x)
  <2>1. b[1] # x[1]
    BY <1>3, <1>8 DEF HeldLarge
  <2>2. b[1] \notin Run(x[1], A[x[1]].cnt) /\ x[1] \notin Run(b[1], A[b[1]].cnt)
    BY <1>8, <2>1, NoArenaFields DEF HeldLarge
  <2>3. Run(b[1], A[b[1]].cnt) \cap Run(x[1], A[x[1]].cnt) = {}
    BY <1>3, <1>4, <2>2 DEF Run
  <2>4. Span(A, b) = Run(b[1], A[b[1]].cnt) /\ Span(A, x) = Run(x[1], A[x[1]].cnt)
    BY <1>8, SpanIs, Zenon DEF HeldLarge
  <2>5. Span(A, b) \cap Span(A, x) = {}
    BY <2>3, <2>4
  <2>. QED  BY <2>5
<1>. QED  BY <1>2, <1>5, <1>6, <1>7, <1>8

-----------------------------------------------------------------------------
\* What each call does to the heap of its process.

\* A run begins with its first page.
LEMMA RunIn ==
    ASSUME NEW v \in Nat, NEW n \in Nat \ {0}
    PROVE  v \in Run(v, n) /\ Run(v, n) \subseteq Nat /\ Run(v, 1) = {v}
BY DEF Run

\* sys_malloc of large memory
LargeOf(a, n) == a = [home |-> NULL, class |-> 0, cnt |-> n, large |-> TRUE]

\* sys_malloc of whole pages keeps the heap of its process.
LEMMA HeapLarge ==
    ASSUME NEW p, NEW V, NEW A, NEW F, NEW L, NEW C, Heap(p, V, A, F, L, C),
           NEW v \in Nat, NEW n \in Nat \ {0}, v + n <= Stack, Run(v, n) \cap V = {},
           NEW a, LargeOf(a, n),
           NEW A2, A2 = [A EXCEPT ![v] = a]
    PROVE  Heap(p, V \cup Run(v, n), A2, F, L \cup {<<v, 0>>}, C \ Run(v, n))
<1> DEFINE R == Run(v, n)
           b == <<v, 0>>
<1>1. HeapTypes(V, A, F, L, C)
  BY DEF Heap
<1>2. a \in Arena /\ a.class = 0 /\ a.cnt = n /\ a.large = TRUE
  <2>1. n \in 0..Stack + PageSize
    BY MemoryAssumption
  <2>. QED  BY <2>1 DEF Arena, LargeOf
<1>3. v \in R /\ v \in Page /\ R \subseteq Page /\ b \in Pointer /\ \A w \in R : w < Stack
  BY MemoryAssumption DEF Run, Page, Pointer
<1>4. A2 \in [Page -> Arena] /\ A2[v] = a /\ \A w \in Page : w # v => A2[w] = A[w]
  BY <1>1, <1>2, <1>3 DEF HeapTypes
<1>5. \A w \in R : A[w] = NoArena /\ w \notin V
  BY <1>3 DEF Heap, Blank
<1>6. HeapTypes(V \cup R, A2, F, L \cup {b}, C \ R)
  BY <1>1, <1>3, <1>4 DEF HeapTypes
<1>7. Blank(V \cup R, A2)
  BY <1>3, <1>4 DEF Heap, Blank
<1>8. Listing(p, A2, F, L \cup {b})
  <2> SUFFICES ASSUME NEW c \in Class, NEW x \in Pointer, Find(F[c], x)
               PROVE  /\ A2[x[1]].home = p /\ A2[x[1]].class = c
                      /\ x[2] < Blocks(c) /\ x \notin L \cup {b}
    BY DEF Listing, Heap
  <2>1. A[x[1]].home = p /\ A[x[1]].class = c /\ x[2] < Blocks(c) /\ x \notin L
    BY DEF Heap, Listing
  <2>2. x[1] \in V
    BY ListedFacts DEF Listed
  <2>3. x[1] # v /\ x[1] \in Page /\ x # b
    BY <1>3, <1>5, <2>2, PointerFacts
  <2>. QED  BY <1>4, <2>1, <2>3
<1>9. Counts(A2, F, C \ R)
  <2> SUFFICES ASSUME NEW w \in Page, A2[w].class # 0
               PROVE  /\ A2[w].large = FALSE /\ A2[w].cnt < Blocks(A2[w].class)
                      /\ A2[w].cnt >= Cardinality(OnLists(F, w))
                      /\ w \notin C \ R => A2[w].cnt = Cardinality(OnLists(F, w))
    BY DEF Counts
  <2>1. w # v /\ A2[w] = A[w]
    BY <1>2, <1>4
  <2>2. w \notin R
    BY <1>5, <2>1, NoArenaFields
  <2>. QED  BY <2>1, <2>2 DEF Heap, Counts
<1>10. Held(V \cup R, A2, L \cup {b})
  <2>1. HeldLarge(V \cup R, A2, b)
    BY <1>2, <1>3, <1>4, <1>5 DEF HeldLarge
  <2>2. ASSUME NEW x \in L PROVE HeldLarge(V \cup R, A2, x) \/ HeldBlock(A2, x)
    <3>1. x[1] \in Page
      BY <1>1, PointerFacts DEF HeapTypes
    <3>2. CASE HeldLarge(V, A, x)
      <4>1. A[x[1]].large = TRUE
        BY <3>2 DEF HeldLarge
      <4>2. x[1] # v
        BY <1>3, <1>5, <4>1, NoArenaFields
      <4>3. A2[x[1]] = A[x[1]]
        BY <1>4, <3>1, <4>2
      <4>4. \A w \in Run(x[1], A[x[1]].cnt) : w \in V /\ w # v /\ w \in Page
        BY <1>1, <1>3, <1>5, <3>2 DEF HeldLarge, HeapTypes
      <4>5. HeldLarge(V \cup R, A2, x)
        BY <1>4, <3>2, <4>3, <4>4 DEF HeldLarge
      <4>. QED  BY <4>5
    <3>3. CASE HeldBlock(A, x)
      <4>1. x[1] # v
        BY <1>3, <1>5, <3>3, NoArenaFields DEF HeldBlock
      <4>. QED  BY <1>4, <3>1, <3>3, <4>1 DEF HeldBlock
    <3>. QED  BY <3>2, <3>3 DEF Heap, Held
  <2>. QED  BY <2>1, <2>2 DEF Held
<1>. QED  BY <1>6, <1>7, <1>8, <1>9, <1>10 DEF Heap

\* Lists that differ in one block
LEMMA OneLess ==
    ASSUME NEW F, NEW F2, NEW b \in Pointer, Listed(F, b),
           \A u : Listed(F2, u) <=> Listed(F, u) /\ u # b
    PROVE  /\ \A w \in Page : w # b[1] => OnLists(F2, w) = OnLists(F, w)
           /\ Cardinality(OnLists(F2, b[1])) = Cardinality(OnLists(F, b[1])) - 1
           /\ Cardinality(OnLists(F, b[1])) >= 1 /\ Cardinality(OnLists(F, b[1])) \in Nat
<1> DEFINE v == b[1]
           k == b[2]
           S == OnLists(F, v)
<1>1. v \in Page /\ k \in 0..PageSize /\ b = <<v, k>>
  <2>1. b[1] \in Page /\ b[2] \in Nat /\ b[2] <= PageSize /\ b = <<b[1], b[2]>>
    BY PointerFacts
  <2>. QED  BY <2>1, MemoryAssumption
<1>2. k \in S
  <2>1. Listed(F, <<v, k>>)
    BY <1>1, Zenon
  <2>. QED  BY <1>1, <2>1 DEF OnLists
<1>3. ASSUME NEW i PROVE i \in OnLists(F2, v) <=> i \in S /\ i # k
  <2>1. <<v, i>> = b <=> i = k
    BY <1>1
  <2>2. Listed(F2, <<v, i>>) <=> Listed(F, <<v, i>>) /\ i # k
    BY <2>1, Zenon
  <2>. QED  BY <2>2 DEF OnLists
<1>4. \A w \in Page : w # v => OnLists(F2, w) = OnLists(F, w)
  <2>1. \A w, i : w # v => <<w, i>> # b
    BY <1>1
  <2>. QED  BY <2>1 DEF OnLists
<1>5. OnLists(F2, v) = S \ {k}
  BY <1>3
<1>6. IsFiniteSet(S) /\ Cardinality(S) \in Nat /\ Cardinality(OnLists(F2, v)) \in Nat
  BY OnListsFinite
<1>7. Cardinality(S \ {k}) = Cardinality(S) - 1
  <2> HIDE DEF S, k
  <2>. QED  BY <1>2, <1>6, FS_RemoveElement
<1>8. Cardinality(S) >= 1
  <2> HIDE DEF S, k
  <2>. QED  BY <1>5, <1>6, <1>7
<1>. QED  BY <1>4, <1>5, <1>6, <1>7, <1>8

\* A step that only counts the free blocks of the arena in page v
CountsTo(A, v, n, A2) == A2 = [A EXCEPT ![v].cnt = n]

\* Changing cnt of an arena changes nothing else.
LEMMA CntSet ==
    ASSUME NEW A \in [Page -> Arena], NEW v \in Page, NEW n \in Nat, n <= Stack + PageSize,
           NEW A2, CountsTo(A, v, n, A2)
    PROVE  /\ A2 \in [Page -> Arena] /\ A2[v].cnt = n
           /\ \A w \in Page : w # v => A2[w] = A[w]
           /\ \A w \in Page : /\ A2[w].home = A[w].home /\ A2[w].class = A[w].class
                              /\ A2[w].large = A[w].large
<1>1. n \in 0..Stack + PageSize
  BY MemoryAssumption
<1>2. A2 \in [Page -> Arena] /\ A2[v] = [A[v] EXCEPT !.cnt = n]
  BY <1>1 DEF Arena, CountsTo
<1>3. \A w \in Page : w # v => A2[w] = A[w]
  BY DEF CountsTo
<1>4. /\ A2[v].cnt = n /\ A2[v].home = A[v].home /\ A2[v].class = A[v].class
      /\ A2[v].large = A[v].large
  BY <1>2 DEF Arena
<1>. QED  BY <1>2, <1>3, <1>4

\* A new cnt in an arena of blocks does not matter to what is held.
LEMMA HeldCnt ==
    ASSUME NEW p, NEW V, NEW A, NEW F, NEW L, NEW C, Heap(p, V, A, F, L, C),
           NEW v \in Page, A[v].class # 0, NEW A2,
           \A w \in Page : w # v => A2[w] = A[w],
           A2[v].class = A[v].class, A2[v].large = A[v].large
    PROVE  Held(V, A2, L)
<1> SUFFICES ASSUME NEW x \in L PROVE HeldLarge(V, A2, x) \/ HeldBlock(A2, x)
  BY DEF Held
<1>1. x[1] \in Page /\ HeapTypes(V, A, F, L, C)
  BY PointerFacts DEF Heap, HeapTypes
<1>2. CASE HeldLarge(V, A, x)
  <2>1. x[1] # v
    BY <1>2 DEF HeldLarge
  <2>2. \A w \in Run(x[1], A[x[1]].cnt) : w \in Page /\ w # v
    BY <1>1, <1>2, <2>1, NoArenaFields DEF HeldLarge, HeapTypes
  <2>3. A2[x[1]] = A[x[1]]
    BY <1>1, <2>1
  <2>4. HeldLarge(V, A2, x)
    BY <1>2, <2>2, <2>3 DEF HeldLarge
  <2>. QED  BY <2>4
<1>3. CASE HeldBlock(A, x)
  <2>1. HeldBlock(A2, x)
    BY <1>1, <1>3 DEF HeldBlock
  <2>. QED  BY <2>1
<1>. QED  BY <1>2, <1>3 DEF Heap, Held

\* sys_malloc of a block from the list c
FirstOf(list, b) == b = Head(list)

\* sys_malloc of a block from the free list keeps the heap.
LEMMA HeapTake ==
    ASSUME NEW p, NEW V, NEW A, NEW F, NEW L, NEW C, Heap(p, V, A, F, L, C),
           NEW c \in Class, F[c] # <<>>, NEW b, FirstOf(F[c], b),
           NEW A2, CountsTo(A, b[1], A[b[1]].cnt - 1, A2),
           NEW F2, F2 = [F EXCEPT ![c] = Tail(F[c])]
    PROVE  Heap(p, V, A2, F2, L \cup {b}, C)
<1> DEFINE v == b[1]
           n == A[v].cnt - 1
<1>1. HeapTypes(V, A, F, L, C) /\ F[c] \in Seq(Pointer) /\ NoDup(F[c])
  BY DEF Heap, HeapTypes, Listing
<1>2. /\ b \in Pointer /\ Find(F[c], b) /\ Tail(F[c]) \in Seq(Pointer) /\ NoDup(Tail(F[c]))
      /\ \A u : Find(Tail(F[c]), u) <=> Find(F[c], u) /\ u # b
  BY <1>1, PopFacts DEF FirstOf
<1>3. /\ F2 \in [Class -> Seq(Pointer)] /\ F2[c] = Tail(F[c])
      /\ \A d \in Class : d # c => F2[d] = F[d]
  BY <1>1, <1>2 DEF HeapTypes
<1>4. v \in Page /\ b[2] \in 0..PageSize /\ b = <<v, b[2]>>
  <2>1. b[1] \in Page /\ b[2] \in Nat /\ b[2] <= PageSize /\ b = <<b[1], b[2]>>
    BY <1>2, PointerFacts
  <2>. QED  BY <2>1, MemoryAssumption
<1>5. /\ A[v].home = p /\ A[v].class = c /\ c # 0 /\ b[2] < Blocks(c) /\ b \notin L
      /\ \A d \in Class : Find(F[d], b) => d = c
  BY <1>2, BlocksFacts DEF Heap, Listing
<1>6. \A u : Listed(F2, u) <=> Listed(F, u) /\ u # b
  BY <1>2, <1>3, <1>5 DEF Listed
<1>8. \A w \in Page : w # v => OnLists(F2, w) = OnLists(F, w)
  <2>1. Listed(F, b)
    BY <1>2 DEF Listed
  <2>. QED  BY <1>2, <1>6, <2>1, OneLess
<1>9. /\ Cardinality(OnLists(F2, v)) = Cardinality(OnLists(F, v)) - 1
      /\ Cardinality(OnLists(F, v)) >= 1 /\ Cardinality(OnLists(F, v)) \in Nat
  <2>1. Listed(F, b)
    BY <1>2 DEF Listed
  <2>. QED  BY <1>2, <1>6, <2>1, OneLess
<1>10. /\ A[v].large = FALSE /\ A[v].cnt < Blocks(c) /\ A[v].cnt >= Cardinality(OnLists(F, v))
       /\ v \notin C => A[v].cnt = Cardinality(OnLists(F, v))
  BY <1>4, <1>5 DEF Heap, Counts
<1>11. A[v].cnt \in Nat /\ n \in Nat /\ n <= Stack + PageSize
  <2>1. A[v].cnt \in Nat /\ A[v].cnt <= Stack + PageSize
    BY <1>1, <1>4, ArenaFields DEF HeapTypes
  <2>2. A[v].cnt >= Cardinality(OnLists(F, v))
    BY <1>10
  <2>3. A[v].cnt >= 1
    BY <1>9, <2>1, <2>2
  <2>4. Stack \in Nat /\ PageSize \in Nat
    BY MemoryAssumption
  <2>. QED  BY <2>1, <2>3, <2>4
<1>12. /\ A2 \in [Page -> Arena] /\ A2[v].cnt = n
       /\ \A w \in Page : w # v => A2[w] = A[w]
       /\ \A w \in Page : /\ A2[w].home = A[w].home /\ A2[w].class = A[w].class
                          /\ A2[w].large = A[w].large
  <2>1. A \in [Page -> Arena]
    BY <1>1 DEF HeapTypes
  <2>2. CountsTo(A, v, n, A2)
    OBVIOUS
  <2> HIDE DEF n, v
  <2>. QED  BY <1>4, <1>11, <2>1, <2>2, CntSet
<1>13. HeapTypes(V, A2, F2, L \cup {b}, C)
  BY <1>1, <1>2, <1>3, <1>12 DEF HeapTypes
<1>14. Blank(V, A2)
  <2>1. v \in V
    BY <1>4, <1>5, NoArenaFields DEF Heap, Blank
  <2>. QED  BY <1>12, <2>1 DEF Heap, Blank
<1>15. Listing(p, A2, F2, L \cup {b})
  <2>1. ASSUME NEW d \in Class PROVE NoDup(F2[d])
    BY <1>2, <1>3 DEF Heap, Listing
  <2>2. ASSUME NEW d \in Class, NEW x \in Pointer, Find(F2[d], x)
        PROVE  /\ A2[x[1]].home = p /\ A2[x[1]].class = d
               /\ x[2] < Blocks(d) /\ x \notin L \cup {b}
    <3>1. Find(F[d], x) /\ x # b
      BY <1>2, <1>3, <1>5, <2>2
    <3>2. x[1] \in Page
      BY PointerFacts
    <3>. QED  BY <1>12, <3>1, <3>2 DEF Heap, Listing
  <2>. QED  BY <2>1, <2>2 DEF Listing
<1>16. Counts(A2, F2, C)
  <2> SUFFICES ASSUME NEW w \in Page, A2[w].class # 0
               PROVE  /\ A2[w].large = FALSE /\ A2[w].cnt < Blocks(A2[w].class)
                      /\ A2[w].cnt >= Cardinality(OnLists(F2, w))
                      /\ w \notin C => A2[w].cnt = Cardinality(OnLists(F2, w))
    BY DEF Counts
  <2>1. CASE w = v
    <3>1. Blocks(c) \in Nat
      BY BlocksFacts
    <3>2. A2[v].large = FALSE /\ A2[v].class = c /\ A2[v].cnt = A[v].cnt - 1
      BY <1>4, <1>5, <1>10, <1>12
    <3>3. /\ A2[v].cnt < Blocks(c) /\ A2[v].cnt >= Cardinality(OnLists(F2, v))
          /\ v \notin C => A2[v].cnt = Cardinality(OnLists(F2, v))
      BY <1>9, <1>10, <1>11, <3>1, <3>2
    <3>. QED  BY <2>1, <3>2, <3>3
  <2>2. CASE w # v
    <3>1. A2[w] = A[w] /\ OnLists(F2, w) = OnLists(F, w)
      BY <1>8, <1>12, <2>2
    <3>. QED  BY <3>1 DEF Heap, Counts
  <2>. QED  BY <2>1, <2>2
<1>17. Held(V, A2, L \cup {b})
  <2>1. Held(V, A2, L)
    <3>1. A[v].class # 0 /\ A2[v].class = A[v].class /\ A2[v].large = A[v].large
      BY <1>4, <1>5, <1>12
    <3> HIDE DEF v
    <3>. QED  BY <1>4, <1>12, <3>1, HeldCnt
  <2>2. HeldBlock(A2, b)
    BY <1>4, <1>5, <1>10, <1>12 DEF HeldBlock
  <2>. QED  BY <2>1, <2>2 DEF Held
<1>. QED  BY <1>13, <1>14, <1>15, <1>16, <1>17 DEF Heap

\* sys_free of a block that is not the last one of its arena in use
LEMMA HeapGive ==
    ASSUME NEW p, NEW V, NEW A, NEW F, NEW L, NEW C, Heap(p, V, A, F, L, C),
           NEW b \in L, A[b[1]].large = FALSE, A[b[1]].home = p,
           A[b[1]].cnt + 1 # Blocks(A[b[1]].class),
           NEW A2, CountsTo(A, b[1], A[b[1]].cnt + 1, A2),
           NEW F2, F2 = [F EXCEPT ![A[b[1]].class] = Append(F[A[b[1]].class], b)]
    PROVE  A[b[1]].class \in Class /\ Heap(p, V, A2, F2, L \ {b}, C)
<1> DEFINE v == b[1]
           c == A[v].class
           n == A[v].cnt + 1
<1>1. HeapTypes(V, A, F, L, C) /\ b \in Pointer
  BY DEF Heap, HeapTypes
<1>2. v \in Page /\ A \in [Page -> Arena]
  BY <1>1, PointerFacts DEF HeapTypes
<1>3. HeldBlock(A, b)
  BY DEF Heap, Held, HeldLarge
<1>4. c \in Class /\ c # 0 /\ b[2] < Blocks(c) /\ Blocks(c) \in Nat /\ Blocks(c) <= PageSize
  <2>1. c \in Class /\ c # 0 /\ b[2] < Blocks(c)
    BY <1>2, <1>3, ArenaFields DEF HeldBlock
  <2>. QED  BY <2>1, BlocksFacts
<1>5. ~Listed(F, b)
  BY <1>1, ListedFacts
<1>6. F[c] \in Seq(Pointer) /\ NoDup(F[c]) /\ ~Find(F[c], b)
  BY <1>1, <1>4, <1>5 DEF HeapTypes, Heap, Listing, Listed
<1>7. /\ Append(F[c], b) \in Seq(Pointer) /\ NoDup(Append(F[c], b))
      /\ \A u : Find(Append(F[c], b), u) <=> Find(F[c], u) \/ u = b
  BY <1>1, <1>6, AppendFacts
<1>8. /\ F2 \in [Class -> Seq(Pointer)] /\ F2[c] = Append(F[c], b)
      /\ \A d \in Class : d # c => F2[d] = F[d]
  BY <1>1, <1>4, <1>7 DEF HeapTypes
<1>9. \A u : Listed(F2, u) <=> Listed(F, u) \/ u = b
  BY <1>4, <1>7, <1>8 DEF Listed
<1>10. /\ \A w \in Page : w # v => OnLists(F2, w) = OnLists(F, w)
       /\ Cardinality(OnLists(F2, v)) = Cardinality(OnLists(F, v)) + 1
       /\ Cardinality(OnLists(F, v)) \in Nat
  <2>1. Listed(F2, b) /\ \A u : Listed(F, u) <=> Listed(F2, u) /\ u # b
    BY <1>5, <1>9
  <2>2. /\ \A w \in Page : w # v => OnLists(F, w) = OnLists(F2, w)
        /\ Cardinality(OnLists(F, v)) = Cardinality(OnLists(F2, v)) - 1
        /\ Cardinality(OnLists(F2, v)) \in Nat
    BY <1>1, <2>1, OneLess
  <2>3. Cardinality(OnLists(F, v)) \in Nat
    BY OnListsFinite
  <2> HIDE DEF v
  <2>4. Cardinality(OnLists(F2, v)) = Cardinality(OnLists(F, v)) + 1
    <3>1. PICK m \in Nat : m = Cardinality(OnLists(F, v))
      BY <2>3, Zenon
    <3>2. PICK n2 \in Nat : n2 = Cardinality(OnLists(F2, v))
      BY <2>2, Zenon
    <3>3. m = n2 - 1
      BY <2>2, <3>1, <3>2, Zenon
    <3>4. n2 = m + 1
      BY <3>3
    <3>. QED  BY <3>1, <3>2, <3>4, Zenon
  <2>. QED  BY <2>2, <2>3, <2>4
<1>11. /\ A[v].large = FALSE /\ A[v].cnt < Blocks(c) /\ A[v].cnt >= Cardinality(OnLists(F, v))
       /\ v \notin C => A[v].cnt = Cardinality(OnLists(F, v))
  BY <1>2, <1>4 DEF Heap, Counts
<1>12. A[v].cnt \in Nat /\ n \in Nat /\ n < Blocks(c) /\ n <= Stack + PageSize
  <2>1. A[v].cnt \in Nat
    BY <1>2, ArenaFields
  <2>2. A[v].cnt < Blocks(c) /\ A[v].cnt + 1 # Blocks(c)
    BY <1>11
  <2>3. Stack \in Nat /\ PageSize \in Nat
    BY MemoryAssumption
  <2>. QED  BY <1>4, <2>1, <2>2, <2>3
<1>13. /\ A2 \in [Page -> Arena] /\ A2[v].cnt = n
       /\ \A w \in Page : w # v => A2[w] = A[w]
       /\ \A w \in Page : /\ A2[w].home = A[w].home /\ A2[w].class = A[w].class
                          /\ A2[w].large = A[w].large
  <2>1. CountsTo(A, v, n, A2)
    OBVIOUS
  <2> HIDE DEF n, v, c
  <2>. QED  BY <1>2, <1>12, <2>1, CntSet
<1>14. HeapTypes(V, A2, F2, L \ {b}, C)
  BY <1>1, <1>8, <1>13 DEF HeapTypes
<1>15. Blank(V, A2)
  <2>1. v \in V
    BY <1>2, <1>4, NoArenaFields DEF Heap, Blank
  <2>. QED  BY <1>13, <2>1 DEF Heap, Blank
<1>16. Listing(p, A2, F2, L \ {b})
  <2>1. ASSUME NEW d \in Class PROVE NoDup(F2[d])
    BY <1>7, <1>8 DEF Heap, Listing
  <2>2. ASSUME NEW d \in Class, NEW x \in Pointer, Find(F2[d], x)
        PROVE  /\ A2[x[1]].home = p /\ A2[x[1]].class = d
               /\ x[2] < Blocks(d) /\ x \notin L \ {b}
    <3>1. x[1] \in Page
      BY PointerFacts
    <3>2. CASE Find(F[d], x)
      BY <1>13, <3>1, <3>2 DEF Heap, Listing
    <3>3. CASE ~Find(F[d], x)
      <4>1. d = c /\ x = b
        BY <1>7, <1>8, <2>2, <3>3
      <4>2. A2[v].home = p /\ A2[v].class = c
        BY <1>2, <1>13
      <4>3. b[2] < Blocks(c) /\ b \notin L \ {b}
        BY <1>4
      <4> HIDE DEF c
      <4>. QED  BY <4>1, <4>2, <4>3
    <3>. QED  BY <3>2, <3>3
  <2>. QED  BY <2>1, <2>2 DEF Listing
<1>17. Counts(A2, F2, C)
  <2> SUFFICES ASSUME NEW w \in Page, A2[w].class # 0
               PROVE  /\ A2[w].large = FALSE /\ A2[w].cnt < Blocks(A2[w].class)
                      /\ A2[w].cnt >= Cardinality(OnLists(F2, w))
                      /\ w \notin C => A2[w].cnt = Cardinality(OnLists(F2, w))
    BY DEF Counts
  <2>1. CASE w = v
    <3>1. A2[v].large = FALSE /\ A2[v].class = c /\ A2[v].cnt = n
      BY <1>2, <1>11, <1>13
    <3>2. n >= Cardinality(OnLists(F2, v)) /\ (v \notin C => n = Cardinality(OnLists(F2, v)))
      <4>1. n = A[v].cnt + 1
        OBVIOUS
      <4> HIDE DEF n, c, v
      <4>. QED  BY <1>10, <1>11, <1>12, <4>1
    <3> HIDE DEF n, c
    <3>. QED  BY <1>12, <2>1, <3>1, <3>2
  <2>2. CASE w # v
    <3>1. A2[w] = A[w] /\ OnLists(F2, w) = OnLists(F, w)
      BY <1>10, <1>13, <2>2
    <3>. QED  BY <3>1 DEF Heap, Counts
  <2>. QED  BY <2>1, <2>2
<1>18. Held(V, A2, L \ {b})
  <2>1. Held(V, A2, L)
    <3>1. A[v].class # 0 /\ A2[v].class = A[v].class /\ A2[v].large = A[v].large
      BY <1>2, <1>4, <1>13
    <3> HIDE DEF v
    <3>. QED  BY <1>2, <1>13, <3>1, HeldCnt
  <2>. QED  BY <2>1 DEF Held
<1>. QED  BY <1>4, <1>14, <1>15, <1>16, <1>17, <1>18 DEF Heap

\* sys_malloc of a block when its list is empty: page v becomes an arena of n blocks.
ArenaOf(a, p, c) == a = [home |-> p, class |-> c, cnt |-> Blocks(c) - 1, large |-> FALSE]
CutOf(list, v, n) == list = [k \in 1..n - 1 |-> <<v, k>>]

\* The list that an arena is cut into: its blocks but the one handed out.
LEMMA CutFacts ==
    ASSUME NEW v \in 0..Stack - 1, NEW n \in Nat, n >= 1, n <= PageSize, NEW list, CutOf(list, v, n)
    PROVE  /\ list \in Seq(Pointer) /\ NoDup(list)
           /\ \A u : Find(list, u) <=> \E k \in 1..n - 1 : u = <<v, k>>
<1>1. PageSize \in Nat /\ Stack \in Nat
  BY MemoryAssumption
<1>2. \A k \in 1..n - 1 : <<v, k>> \in Pointer
  BY <1>1 DEF Pointer
<1>3. list \in Seq(Pointer) /\ Len(list) = n - 1 /\ \A k \in 1..n - 1 : list[k] = <<v, k>>
  <2>1. n - 1 \in Nat
    OBVIOUS
  <2>2. list \in [1..n - 1 -> Pointer]
    BY <1>2 DEF CutOf
  <2>3. \A k \in 1..n - 1 : list[k] = <<v, k>>
    BY DEF CutOf
  <2>. QED  BY <2>1, <2>2, <2>3
<1>4. NoDup(list)
  BY <1>3 DEF NoDup
<1>. QED  BY <1>3, <1>4 DEF Find

\* sys_malloc of a block from a new arena keeps the heap.
LEMMA HeapCut ==
    ASSUME NEW p \in Proc, NEW V, NEW A, NEW F, NEW L, NEW C, Heap(p, V, A, F, L, C),
           NEW c \in Class, F[c] = <<>>, NEW v \in 0..Stack - 1, v \notin V,
           NEW a, ArenaOf(a, p, c), NEW list, CutOf(list, v, Blocks(c)),
           NEW A2, A2 = [A EXCEPT ![v] = a], NEW F2, F2 = [F EXCEPT ![c] = list]
    PROVE  Heap(p, V \cup {v}, A2, F2, L \cup {<<v, 0>>}, C \ {v})
<1> DEFINE b == <<v, 0>>
<1>1. HeapTypes(V, A, F, L, C)
  BY DEF Heap
<1>2. c \in Nat \ {0} /\ Blocks(c) \in Nat /\ Blocks(c) >= 2 /\ Blocks(c) <= PageSize
  BY BlocksFacts
<1>3. PageSize \in Nat /\ Stack \in Nat
  BY MemoryAssumption
<1>4. /\ a \in Arena /\ a.home = p /\ a.class = c /\ a.cnt = Blocks(c) - 1 /\ a.large = FALSE
  <2>1. Blocks(c) - 1 \in 0..Stack + PageSize
    BY <1>2, <1>3
  <2>. QED  BY <2>1 DEF Arena, ArenaOf
<1>5. v \in Page /\ b \in Pointer
  BY <1>3 DEF Page, Pointer
<1>6. A2 \in [Page -> Arena] /\ A2[v] = a /\ \A w \in Page : w # v => A2[w] = A[w]
  BY <1>1, <1>4, <1>5 DEF HeapTypes
<1>7. /\ list \in Seq(Pointer) /\ NoDup(list)
      /\ \A u : Find(list, u) <=> \E k \in 1..Blocks(c) - 1 : u = <<v, k>>
  BY <1>2, CutFacts
<1>8. /\ F2 \in [Class -> Seq(Pointer)] /\ F2[c] = list
      /\ \A d \in Class : d # c => F2[d] = F[d]
  BY <1>1, <1>7 DEF HeapTypes
<1>9. \A u : ~Find(F[c], u)
  BY EmptyFacts
<1>10. A[v] = NoArena
  BY <1>5 DEF Heap, Blank
<1>11. \A x \in Pointer : Listed(F, x) => x[1] # v
  BY ListedFacts
<1>12. HeapTypes(V \cup {v}, A2, F2, L \cup {b}, C \ {v})
  BY <1>1, <1>5, <1>6, <1>8 DEF HeapTypes
<1>13. Blank(V \cup {v}, A2)
  BY <1>6 DEF Heap, Blank
<1>14. Listing(p, A2, F2, L \cup {b})
  <2>1. ASSUME NEW d \in Class PROVE NoDup(F2[d])
    BY <1>7, <1>8 DEF Heap, Listing
  <2>2. ASSUME NEW d \in Class, NEW x \in Pointer, Find(F2[d], x)
        PROVE  /\ A2[x[1]].home = p /\ A2[x[1]].class = d
               /\ x[2] < Blocks(d) /\ x \notin L \cup {b}
    <3>1. x[1] \in Page
      BY PointerFacts
    <3>2. CASE d # c
      <4>1. Find(F[d], x) /\ x[1] # v
        BY <1>8, <1>11, <2>2, <3>2 DEF Listed
      <4>2. A2[x[1]] = A[x[1]] /\ x # b
        BY <1>6, <3>1, <4>1
      <4>. QED  BY <4>1, <4>2 DEF Heap, Listing
    <3>3. CASE d = c
      <4>1. PICK k \in 1..Blocks(c) - 1 : x = <<v, k>>
        BY <1>7, <1>8, <2>2, <3>3
      <4>2. x[1] = v /\ x[2] = k /\ k < Blocks(c) /\ x # b
        BY <1>2, <4>1
      <4>3. x \notin L
        <5>1. ASSUME x \in L PROVE FALSE
          <6>1. HeldLarge(V, A, x) \/ HeldBlock(A, x)
            BY <5>1 DEF Heap, Held
          <6>. QED  BY <1>10, <4>2, <6>1, NoArenaFields DEF HeldLarge, HeldBlock
        <5>. QED  BY <5>1
      <4>. QED  BY <1>4, <1>6, <3>3, <4>2, <4>3
    <3>. QED  BY <3>2, <3>3
  <2>. QED  BY <2>1, <2>2 DEF Listing
<1>15. OnLists(F2, v) = 1..Blocks(c) - 1
  <2>1. ASSUME NEW k \in 0..PageSize, Listed(F2, <<v, k>>) PROVE k \in 1..Blocks(c) - 1
    <3>1. PICK d \in Class : Find(F2[d], <<v, k>>)
      BY <2>1 DEF Listed
    <3>2. <<v, k>> \in Pointer /\ <<v, k>>[1] = v
      BY <1>3 DEF Pointer
    <3>3. d = c
      BY <1>8, <1>11, <3>1, <3>2 DEF Listed
    <3>4. PICK i \in 1..Blocks(c) - 1 : <<v, k>> = <<v, i>>
      BY <1>7, <1>8, <3>1, <3>3
    <3>. QED  BY <3>4
  <2>2. ASSUME NEW k \in 1..Blocks(c) - 1 PROVE k \in 0..PageSize /\ Listed(F2, <<v, k>>)
    <3>1. k \in 0..PageSize
      BY <1>2, <1>3
    <3>2. Find(F2[c], <<v, k>>)
      BY <1>7, <1>8
    <3>. QED  BY <3>1, <3>2 DEF Listed
  <2>. QED  BY <2>1, <2>2 DEF OnLists
<1>16. Cardinality(OnLists(F2, v)) = Blocks(c) - 1
  <2> DEFINE n == Blocks(c) - 1
  <2>1. n \in Nat
    BY <1>2
  <2>2. OnLists(F2, v) = 1..n
    BY <1>15
  <2> HIDE DEF n
  <2>3. Cardinality(1..n) = n
    BY <2>1, CountUpTo
  <2>4. Cardinality(OnLists(F2, v)) = n
    BY <2>2, <2>3
  <2>. QED  BY <2>4 DEF n
<1>17. \A w \in Page : w # v => OnLists(F2, w) = OnLists(F, w)
  <2> SUFFICES ASSUME NEW w \in Page, w # v, NEW k \in 0..PageSize
               PROVE  Listed(F2, <<w, k>>) <=> Listed(F, <<w, k>>)
    BY DEF OnLists
  <2>1. ~Find(F2[c], <<w, k>>) /\ ~Find(F[c], <<w, k>>)
    BY <1>7, <1>8, <1>9
  <2>. QED  BY <1>8, <2>1 DEF Listed
<1>18. Counts(A2, F2, C \ {v})
  <2> SUFFICES ASSUME NEW w \in Page, A2[w].class # 0
               PROVE  /\ A2[w].large = FALSE /\ A2[w].cnt < Blocks(A2[w].class)
                      /\ A2[w].cnt >= Cardinality(OnLists(F2, w))
                      /\ w \notin C \ {v} => A2[w].cnt = Cardinality(OnLists(F2, w))
    BY DEF Counts
  <2>1. CASE w = v
    <3>1. A2[w].large = FALSE /\ A2[w].class = c /\ A2[w].cnt = Blocks(c) - 1
      BY <1>4, <1>6, <2>1
    <3>2. Blocks(c) - 1 < Blocks(c) /\ Blocks(c) - 1 \in Nat
      BY <1>2
    <3>. QED  BY <1>16, <2>1, <3>1, <3>2
  <2>2. CASE w # v
    <3>1. A2[w] = A[w] /\ OnLists(F2, w) = OnLists(F, w)
      BY <1>6, <1>17, <2>2
    <3>. QED  BY <2>2, <3>1 DEF Heap, Counts
  <2>. QED  BY <2>1, <2>2
<1>19. Held(V \cup {v}, A2, L \cup {b})
  <2>1. HeldBlock(A2, b)
    BY <1>2, <1>4, <1>6 DEF HeldBlock
  <2>2. ASSUME NEW x \in L PROVE HeldLarge(V \cup {v}, A2, x) \/ HeldBlock(A2, x)
    <3>1. x[1] \in Page
      BY <1>1, PointerFacts DEF HeapTypes
    <3>2. CASE HeldLarge(V, A, x)
      <4>1. x[1] # v
        BY <1>10, <3>2, NoArenaFields DEF HeldLarge
      <4>2. A2[x[1]] = A[x[1]]
        BY <1>6, <3>1, <4>1
      <4>3. \A w \in Run(x[1], A[x[1]].cnt) : w \in V /\ w # v /\ w \in Page
        BY <1>1, <3>2 DEF HeldLarge, HeapTypes
      <4>4. HeldLarge(V \cup {v}, A2, x)
        BY <1>6, <3>2, <4>2, <4>3 DEF HeldLarge
      <4>. QED  BY <4>4
    <3>3. CASE HeldBlock(A, x)
      <4>1. x[1] # v
        BY <1>10, <3>3, NoArenaFields DEF HeldBlock
      <4>. QED  BY <1>6, <3>1, <3>3, <4>1 DEF HeldBlock
    <3>. QED  BY <3>2, <3>3 DEF Heap, Held
  <2>. QED  BY <2>1, <2>2 DEF Held
<1>. QED  BY <1>12, <1>13, <1>14, <1>18, <1>19 DEF Heap

\* sys_free of large memory
LEMMA HeapDropLarge ==
    ASSUME NEW p, NEW V, NEW A, NEW F, NEW L, NEW C, Heap(p, V, A, F, L, C),
           NEW b \in L, A[b[1]].large = TRUE, NEW A2, A2 = [A EXCEPT ![b[1]] = NoArena]
    PROVE  /\ Run(b[1], A[b[1]].cnt) \subseteq V /\ Stack \notin Run(b[1], A[b[1]].cnt)
           /\ Heap(p, V \ Run(b[1], A[b[1]].cnt), A2, F, L \ {b}, C)
<1> DEFINE v == b[1]
           R == Run(v, A[v].cnt)
<1>1. HeapTypes(V, A, F, L, C) /\ b \in Pointer
  BY DEF Heap, HeapTypes
<1>2. v \in Page /\ v \in Nat /\ A[v].cnt \in Nat /\ A \in [Page -> Arena]
  BY <1>1, PointerFacts, ArenaFields DEF HeapTypes
<1>3. HeldLarge(V, A, b)
  BY DEF Heap, Held, HeldBlock
<1>4. /\ A[v].class = 0 /\ b[2] = 0 /\ v \in R
      /\ \A w \in R : w \in V /\ w < Stack /\ w \in Page /\ (w # v => A[w] = NoArena)
  BY <1>1, <1>2, <1>3 DEF HeldLarge, Run, HeapTypes
<1>5. A2 \in [Page -> Arena] /\ A2[v] = NoArena /\ \A w \in Page : w # v => A2[w] = A[w]
  BY <1>2, NoArenaFields
<1>6. \A w \in R : A2[w] = NoArena /\ A[w].class = 0
  BY <1>4, <1>5, NoArenaFields
<1>7. R \subseteq V /\ Stack \notin R
  BY <1>4, MemoryAssumption
<1>8. HeapTypes(V \ R, A2, F, L \ {b}, C)
  BY <1>1, <1>5 DEF HeapTypes
<1>9. Blank(V \ R, A2)
  BY <1>5, <1>6 DEF Heap, Blank
<1>10. Listing(p, A2, F, L \ {b})
  <2> SUFFICES ASSUME NEW d \in Class, NEW x \in Pointer, Find(F[d], x)
               PROVE  /\ A2[x[1]].home = p /\ A2[x[1]].class = d
                      /\ x[2] < Blocks(d) /\ x \notin L \ {b}
    BY DEF Heap, Listing
  <2>1. A[x[1]].class = d /\ d # 0 /\ x[1] \in Page
    BY PointerFacts, BlocksFacts DEF Heap, Listing
  <2>2. x[1] # v
    BY <1>4, <2>1
  <2>3. A2[x[1]] = A[x[1]]
    BY <1>5, <2>1, <2>2
  <2>. QED  BY <2>3 DEF Heap, Listing
<1>11. Counts(A2, F, C)
  <2> SUFFICES ASSUME NEW w \in Page, A2[w].class # 0
               PROVE  /\ A2[w].large = FALSE /\ A2[w].cnt < Blocks(A2[w].class)
                      /\ A2[w].cnt >= Cardinality(OnLists(F, w))
                      /\ w \notin C => A2[w].cnt = Cardinality(OnLists(F, w))
    BY DEF Counts
  <2>1. A2[w] = A[w]
    BY <1>5, NoArenaFields
  <2>. QED  BY <2>1 DEF Heap, Counts
<1>12. Held(V \ R, A2, L \ {b})
  <2> SUFFICES ASSUME NEW x \in L, x # b
               PROVE  HeldLarge(V \ R, A2, x) \/ HeldBlock(A2, x)
    BY DEF Held
  <2>1. x \in Pointer /\ x[1] \in Page
    BY <1>1, PointerFacts DEF HeapTypes
  <2>2. CASE HeldLarge(V, A, x)
    <3>1. Span(A, b) = R /\ Span(A, x) = Run(x[1], A[x[1]].cnt)
      BY <2>2, SpanIs, Zenon DEF HeldLarge
    <3>2. Span(A, b) \cap Span(A, x) = {}
      <4>1. ~HeldBlock(A, b)
        BY DEF HeldBlock
      <4>. QED  BY <4>1, Apart
    <3>3. \A w \in Run(x[1], A[x[1]].cnt) : w \notin R /\ w # v
      BY <1>4, <3>1, <3>2
    <3>4. x[1] # v
      <4>1. x[1] \in Nat /\ A[x[1]].cnt >= 1 /\ A[x[1]].cnt \in Nat
        BY <1>2, <2>1, <2>2, PointerFacts, ArenaFields DEF HeldLarge
      <4>2. x[1] \in Run(x[1], A[x[1]].cnt)
        BY <4>1 DEF Run
      <4>. QED  BY <3>3, <4>2
    <3>5. A2[x[1]] = A[x[1]]
      BY <1>5, <2>1, <3>4
    <3>6. \A w \in Run(x[1], A[x[1]].cnt) : w \in V \ R /\ w \in Page /\ A2[w] = A[w]
      BY <1>1, <1>5, <2>2, <3>3 DEF HeldLarge, HeapTypes
    <3>7. HeldLarge(V \ R, A2, x)
      BY <2>2, <3>5, <3>6 DEF HeldLarge
    <3>. QED  BY <3>7
  <2>3. CASE HeldBlock(A, x)
    <3>1. x[1] # v
      BY <1>4, <2>3 DEF HeldBlock
    <3>. QED  BY <1>5, <2>1, <2>3, <3>1 DEF HeldBlock
  <2>. QED  BY <2>2, <2>3 DEF Heap, Held
<1>. QED  BY <1>7, <1>8, <1>9, <1>10, <1>11, <1>12 DEF Heap

\* sys_free of the last block in use of an arena, whose blocks are all there
Appended(list, before, b) == list = Append(before, b)

AllFound(list, v, n) == \A k \in 0..n - 1 : Find(list, <<v, k>>)
LastOfPage(L, b) == \A x \in L : x # b => x[1] # b[1]

\* sys_free of the last block that is held gives the page back, after all its blocks
\* have left the list: nobody else holds a block of that page.
LEMMA HeapDropArena ==
    ASSUME NEW p, NEW V, NEW A, NEW F, NEW L, NEW C, Heap(p, V, A, F, L, C),
           NEW b \in L, A[b[1]].large = FALSE, NEW list, Appended(list, F[A[b[1]].class], b),
           AllFound(list, b[1], Blocks(A[b[1]].class)),
           NEW A2, A2 = [A EXCEPT ![b[1]] = NoArena],
           NEW F2, F2 = [F EXCEPT ![A[b[1]].class] = Without(list, b[1])]
    PROVE  /\ A[b[1]].class \in Class /\ b[1] \in V /\ b[1] # Stack
           /\ LastOfPage(L, b)
           /\ Heap(p, V \ {b[1]}, A2, F2, L \ {b}, C)
<1> DEFINE v == b[1]
           c == A[v].class
<1>1. HeapTypes(V, A, F, L, C) /\ b \in Pointer
  BY DEF Heap, HeapTypes
<1>2. v \in Page /\ v \in Nat /\ v < Stack /\ A \in [Page -> Arena]
  BY <1>1, PointerFacts DEF HeapTypes
<1>3. HeldBlock(A, b)
  BY DEF Heap, Held, HeldLarge
<1>4. c \in Class /\ c # 0 /\ b[2] < Blocks(c) /\ Blocks(c) \in Nat
  <2>1. c \in Class /\ c # 0 /\ b[2] < Blocks(c)
    BY <1>2, <1>3, ArenaFields DEF HeldBlock
  <2>. QED  BY <2>1, BlocksFacts
<1>5. v \in V
  BY <1>2, <1>4, NoArenaFields DEF Heap, Blank
<1>6. F[c] \in Seq(Pointer) /\ NoDup(F[c]) /\ ~Find(F[c], b)
  BY <1>1, <1>4, ListedFacts DEF HeapTypes, Heap, Listing, Listed
<1>7. /\ list \in Seq(Pointer) /\ NoDup(list)
      /\ \A u : Find(list, u) <=> Find(F[c], u) \/ u = b
  <2>1. list = Append(F[c], b)
    BY DEF Appended
  <2> HIDE DEF v, c
  <2>. QED  BY <1>1, <1>6, <2>1, AppendFacts, Zenon
<1>8. /\ Without(list, v) \in Seq(Pointer) /\ NoDup(Without(list, v))
      /\ \A u : Find(Without(list, v), u) <=> Find(list, u) /\ u[1] # v
  <2>1. list \in Seq(Pointer) /\ NoDup(list)
    BY <1>7
  <2> HIDE DEF v, c
  <2>. QED  BY <2>1, WithoutFacts
<1>9. /\ F2 \in [Class -> Seq(Pointer)] /\ F2[c] = Without(list, v)
      /\ \A d \in Class : d # c => F2[d] = F[d]
  BY <1>1, <1>4, <1>8 DEF HeapTypes
<1>10. A2 \in [Page -> Arena] /\ A2[v] = NoArena /\ \A w \in Page : w # v => A2[w] = A[w]
  BY <1>2, NoArenaFields
<1>11. ASSUME NEW d \in Class, NEW u \in Pointer
       PROVE  Find(F2[d], u) <=> Find(F[d], u) /\ u[1] # v
  <2>1. CASE d = c
    BY <1>7, <1>8, <1>9, <2>1
  <2>2. CASE d # c
    <3>1. Find(F[d], u) => A[u[1]].class = d
      BY DEF Heap, Listing
    <3>. QED  BY <1>9, <2>2, <3>1
  <2>. QED  BY <2>1, <2>2
<1>12. ASSUME NEW x \in L, x # b PROVE x[1] # v
  <2>1. SUFFICES ASSUME x[1] = v PROVE FALSE
    OBVIOUS
  <2>2. x \in Pointer /\ x[2] \in Nat /\ x = <<v, x[2]>>
    BY <1>1, <2>1, PointerFacts DEF HeapTypes
  <2>3. x[2] < Blocks(c)
    <3>1. HeldLarge(V, A, x) \/ HeldBlock(A, x)
      BY DEF Heap, Held
    <3>. QED  BY <2>1, <3>1 DEF HeldLarge, HeldBlock
  <2>4. x[2] \in 0..Blocks(c) - 1
    BY <1>4, <2>2, <2>3
  <2>5. Find(F[c], x)
    BY <1>7, <1>12, <2>2, <2>4 DEF AllFound
  <2>. QED  BY <1>4, <2>2, <2>5 DEF Heap, Listing
<1>13. HeapTypes(V \ {v}, A2, F2, L \ {b}, C)
  BY <1>1, <1>9, <1>10 DEF HeapTypes
<1>14. Blank(V \ {v}, A2)
  BY <1>10 DEF Heap, Blank
<1>15. Listing(p, A2, F2, L \ {b})
  <2>1. ASSUME NEW d \in Class PROVE NoDup(F2[d])
    BY <1>8, <1>9 DEF Heap, Listing
  <2>2. ASSUME NEW d \in Class, NEW x \in Pointer, Find(F2[d], x)
        PROVE  /\ A2[x[1]].home = p /\ A2[x[1]].class = d
               /\ x[2] < Blocks(d) /\ x \notin L \ {b}
    <3>1. Find(F[d], x) /\ x[1] # v /\ x[1] \in Page
      BY <1>11, <2>2, PointerFacts
    <3>2. A2[x[1]] = A[x[1]]
      BY <1>10, <3>1
    <3>. QED  BY <3>1, <3>2 DEF Heap, Listing
  <2>. QED  BY <2>1, <2>2 DEF Listing
<1>16. Counts(A2, F2, C)
  <2> SUFFICES ASSUME NEW w \in Page, A2[w].class # 0
               PROVE  /\ A2[w].large = FALSE /\ A2[w].cnt < Blocks(A2[w].class)
                      /\ A2[w].cnt >= Cardinality(OnLists(F2, w))
                      /\ w \notin C => A2[w].cnt = Cardinality(OnLists(F2, w))
    BY DEF Counts
  <2>1. w # v /\ A2[w] = A[w]
    BY <1>10, NoArenaFields
  <2>2. OnLists(F2, w) = OnLists(F, w)
    <3>1. ASSUME NEW k \in 0..PageSize PROVE Listed(F2, <<w, k>>) <=> Listed(F, <<w, k>>)
      <4>1. ASSUME NEW d \in Class PROVE Find(F2[d], <<w, k>>) <=> Find(F[d], <<w, k>>)
        <5>1. CASE d = c
          <6>1. <<w, k>> # b /\ <<w, k>>[1] = w
            BY <1>1, <2>1
          <6>. QED  BY <1>7, <1>8, <1>9, <2>1, <5>1, <6>1
        <5>2. CASE d # c
          BY <1>9, <5>2
        <5>. QED  BY <5>1, <5>2
      <4>. QED  BY <4>1 DEF Listed
    <3>. QED  BY <3>1 DEF OnLists
  <2>. QED  BY <2>1, <2>2 DEF Heap, Counts
<1>17. Held(V \ {v}, A2, L \ {b})
  <2> SUFFICES ASSUME NEW x \in L, x # b
               PROVE  HeldLarge(V \ {v}, A2, x) \/ HeldBlock(A2, x)
    BY DEF Held
  <2>1. x[1] \in Page /\ x[1] # v /\ A2[x[1]] = A[x[1]]
    BY <1>1, <1>10, <1>12, PointerFacts DEF HeapTypes
  <2>2. CASE HeldLarge(V, A, x)
    <3>1. \A w \in Run(x[1], A[x[1]].cnt) : w \in V /\ w # v /\ w \in Page
      BY <1>1, <1>4, <2>1, <2>2, NoArenaFields DEF HeldLarge, HeapTypes
    <3>2. HeldLarge(V \ {v}, A2, x)
      BY <1>10, <2>1, <2>2, <3>1 DEF HeldLarge
    <3>. QED  BY <3>2
  <2>3. CASE HeldBlock(A, x)
    BY <2>1, <2>3 DEF HeldBlock
  <2>. QED  BY <2>2, <2>3 DEF Heap, Held
<1>18. v # Stack
  BY <1>2, MemoryAssumption
<1>19. LastOfPage(L, b)
  BY <1>12 DEF LastOfPage
<1>. QED  BY <1>4, <1>5, <1>13, <1>14, <1>15, <1>16, <1>17, <1>18, <1>19 DEF Heap

\* sys_fork: the child has a copy of the pages and no free block.
LEMMA HeapCopy ==
    ASSUME NEW p, NEW V, NEW A, NEW F, NEW L, NEW C, Heap(p, V, A, F, L, C), NEW q
    PROVE  Heap(q, V, A, EmptyLists, L, V)
<1>1. HeapTypes(V, A, F, L, C)
  BY DEF Heap
<1>2. /\ EmptyLists \in [Class -> Seq(Pointer)] /\ \A c \in Class : EmptyLists[c] = <<>>
  BY DEF EmptyLists
<1>3. \A c \in Class : NoDup(EmptyLists[c]) /\ \A u : ~Find(EmptyLists[c], u)
  BY <1>2, EmptyFacts
<1>4. ASSUME NEW v PROVE Cardinality(OnLists(EmptyLists, v)) = 0
  <2>1. OnLists(EmptyLists, v) = {}
    BY <1>3 DEF OnLists, Listed
  <2>. QED  BY <2>1, FS_EmptySet
<1>5. HeapTypes(V, A, EmptyLists, L, V)
  BY <1>1, <1>2 DEF HeapTypes
<1>6. Listing(q, A, EmptyLists, L)
  BY <1>3 DEF Listing
<1>7. Counts(A, EmptyLists, V)
  <2> SUFFICES ASSUME NEW w \in Page, A[w].class # 0
               PROVE  /\ A[w].large = FALSE /\ A[w].cnt < Blocks(A[w].class)
                      /\ A[w].cnt >= Cardinality(OnLists(EmptyLists, w))
                      /\ w \notin V => A[w].cnt = Cardinality(OnLists(EmptyLists, w))
    BY DEF Counts
  <2>1. w \in V
    BY NoArenaFields DEF Heap, Blank
  <2>2. A[w].cnt \in Nat
    BY <1>1, ArenaFields DEF HeapTypes
  <2>3. A[w].cnt >= Cardinality(OnLists(EmptyLists, w))
    BY <1>4, <2>2
  <2>. QED  BY <2>1, <2>3 DEF Heap, Counts
<1>. QED  BY <1>5, <1>6, <1>7 DEF Heap

\* sys_execv: the pages G are filled with the program, S of them are new, and no
\* pointer is left.
LEMMA HeapExec ==
    ASSUME NEW p, NEW V, NEW A, NEW F, NEW L, NEW C, Heap(p, V, A, F, L, C),
           NEW S \in SUBSET Page, NEW G,
           \A c \in Class : \A b \in Pointer : Find(F[c], b) => b[1] \notin G,
           NEW A2, A2 = [v \in Page |-> IF v \in G THEN NoArena ELSE A[v]]
    PROVE  Heap(p, V \cup S, A2, F, {}, C)
<1>1. HeapTypes(V, A, F, L, C)
  BY DEF Heap
<1>2. /\ A2 \in [Page -> Arena]
      /\ \A v \in Page : A2[v] = IF v \in G THEN NoArena ELSE A[v]
  BY <1>1, NoArenaFields DEF HeapTypes
<1>3. HeapTypes(V \cup S, A2, F, {}, C)
  BY <1>1, <1>2 DEF HeapTypes
<1>4. Blank(V \cup S, A2)
  BY <1>2 DEF Heap, Blank
<1>5. Listing(p, A2, F, {})
  <2> SUFFICES ASSUME NEW c \in Class, NEW b \in Pointer, Find(F[c], b)
               PROVE  A2[b[1]].home = p /\ A2[b[1]].class = c /\ b[2] < Blocks(c)
    BY DEF Heap, Listing
  <2>1. A2[b[1]] = A[b[1]]
    BY <1>2, PointerFacts
  <2>. QED  BY <2>1 DEF Heap, Listing
<1>6. Counts(A2, F, C)
  <2> SUFFICES ASSUME NEW w \in Page, A2[w].class # 0
               PROVE  /\ A2[w].large = FALSE /\ A2[w].cnt < Blocks(A2[w].class)
                      /\ A2[w].cnt >= Cardinality(OnLists(F, w))
                      /\ w \notin C => A2[w].cnt = Cardinality(OnLists(F, w))
    BY DEF Counts
  <2>1. A2[w] = A[w]
    BY <1>2, NoArenaFields
  <2>. QED  BY <2>1 DEF Heap, Counts
<1>7. Held(V \cup S, A2, {})
  BY DEF Held
<1>. QED  BY <1>3, <1>4, <1>5, <1>6, <1>7 DEF Heap

\* Lists of the same blocks in another order
LEMMA HeapOrder ==
    ASSUME NEW p, NEW V, NEW A, NEW F, NEW L, NEW C, Heap(p, V, A, F, L, C),
           NEW F2 \in [Class -> Seq(Pointer)],
           \A c \in Class : NoDup(F2[c]) /\ \A u : Find(F2[c], u) <=> Find(F[c], u)
    PROVE  Heap(p, V, A, F2, L, C)
<1>1. HeapTypes(V, A, F2, L, C)
  BY DEF Heap, HeapTypes
<1>2. Listing(p, A, F2, L)
  BY DEF Heap, Listing
<1>3. \A v : OnLists(F2, v) = OnLists(F, v)
  BY DEF OnLists, Listed
<1>4. Counts(A, F2, C)
  BY <1>3 DEF Heap, Counts
<1>. QED  BY <1>1, <1>2, <1>4 DEF Heap

\* The first block of a list goes to its end.
LEMMA TurnFacts ==
    ASSUME NEW S, NEW list \in Seq(S), list # <<>>, NoDup(list)
    PROVE  /\ Append(Tail(list), Head(list)) \in Seq(S)
           /\ NoDup(Append(Tail(list), Head(list)))
           /\ \A u : Find(Append(Tail(list), Head(list)), u) <=> Find(list, u)
<1>1. /\ Head(list) \in S /\ Tail(list) \in Seq(S) /\ NoDup(Tail(list))
      /\ Find(list, Head(list))
      /\ \A u : Find(Tail(list), u) <=> Find(list, u) /\ u # Head(list)
  BY PopFacts
<1> DEFINE h == Head(list)
           t == Tail(list)
<1> HIDE DEF h, t
<1>2. /\ Append(t, h) \in Seq(S)
      /\ \A u : Find(Append(t, h), u) <=> Find(t, u) \/ u = h
      /\ NoDup(t) /\ ~Find(t, h) => NoDup(Append(t, h))
  BY <1>1, AppendFacts DEF h, t
<1>. QED  BY <1>1, <1>2 DEF h, t

\* A process without memory, or with its stack only
LEMMA HeapNone ==
    ASSUME NEW p, NEW V \in SUBSET Page
    PROVE  Heap(p, V, [v \in Page |-> NoArena], EmptyLists, {}, {})
<1> DEFINE A == [v \in Page |-> NoArena]
<1>1. A \in [Page -> Arena] /\ \A v \in Page : A[v] = NoArena
  BY NoArenaFields
<1> HIDE DEF A
<1>2. EmptyLists \in [Class -> Seq(Pointer)] /\ \A c \in Class : EmptyLists[c] = <<>>
  BY DEF EmptyLists
<1>3. \A c \in Class : NoDup(EmptyLists[c]) /\ \A u : ~Find(EmptyLists[c], u)
  BY <1>2, EmptyFacts
<1>4. HeapTypes(V, A, EmptyLists, {}, {}) /\ Blank(V, A)
  BY <1>1, <1>2 DEF HeapTypes, Blank
<1>5. Listing(p, A, EmptyLists, {})
  BY <1>3 DEF Listing
<1>6. Counts(A, EmptyLists, {})
  BY <1>1, NoArenaFields DEF Counts
<1>7. Held(V, A, {})
  BY DEF Held
<1>8. Heap(p, V, A, EmptyLists, {}, {})
  BY <1>4, <1>5, <1>6, <1>7 DEF Heap
<1>. QED  BY <1>8 DEF A

-----------------------------------------------------------------------------
\* The heaps of all processes
HeapsOf(V, A, F, L, C) ==
    /\ V \in [Proc -> SUBSET Page] /\ A \in [Proc -> [Page -> Arena]]
    /\ F \in [Proc -> [Class -> Seq(Pointer)]]
    /\ L \in [Proc -> SUBSET Pointer] /\ C \in [Proc -> SUBSET Page]
    /\ \A p \in Proc : Heap(p, V[p], A[p], F[p], L[p], C[p])

\* What happens to the heap of one process leaves the other heaps alone.
LEMMA OneHeap ==
    ASSUME NEW V, NEW A, NEW F, NEW L, NEW C, HeapsOf(V, A, F, L, C), NEW p \in Proc,
           NEW v, NEW a, NEW f, NEW l, NEW c, Heap(p, v, a, f, l, c)
    PROVE  HeapsOf([V EXCEPT ![p] = v], [A EXCEPT ![p] = a], [F EXCEPT ![p] = f],
                   [L EXCEPT ![p] = l], [C EXCEPT ![p] = c])
<1> DEFINE V2 == [V EXCEPT ![p] = v]
           A2 == [A EXCEPT ![p] = a]
           F2 == [F EXCEPT ![p] = f]
           L2 == [L EXCEPT ![p] = l]
           C2 == [C EXCEPT ![p] = c]
<1>1. HeapTypes(v, a, f, l, c)
  BY DEF Heap
<1>2. /\ V2 \in [Proc -> SUBSET Page] /\ A2 \in [Proc -> [Page -> Arena]]
      /\ F2 \in [Proc -> [Class -> Seq(Pointer)]]
      /\ L2 \in [Proc -> SUBSET Pointer] /\ C2 \in [Proc -> SUBSET Page]
  BY <1>1 DEF HeapTypes, HeapsOf
<1>3. V2[p] = v /\ A2[p] = a /\ F2[p] = f /\ L2[p] = l /\ C2[p] = c
  BY DEF HeapsOf
<1>4. \A q \in Proc : q # p => /\ V2[q] = V[q] /\ A2[q] = A[q] /\ F2[q] = F[q]
                               /\ L2[q] = L[q] /\ C2[q] = C[q]
  BY DEF HeapsOf
<1> HIDE DEF V2, A2, F2, L2, C2
<1>5. ASSUME NEW q \in Proc PROVE Heap(q, V2[q], A2[q], F2[q], L2[q], C2[q])
  <2>1. CASE q = p
    BY <1>3, <2>1
  <2>2. CASE q # p
    BY <1>4, <2>2 DEF HeapsOf
  <2>. QED  BY <2>1, <2>2
<1>6. HeapsOf(V2, A2, F2, L2, C2)
  BY <1>2, <1>5 DEF HeapsOf
<1>. QED  BY <1>6 DEF V2, A2, F2, L2, C2

\* The inductive invariant.  MemoryInv alone is not kept: what sys_free gives back
\* is right only because a pointer stands for pages that no other one has.
Dead == \A p \in Proc : p \notin alive => vused[p] = {}
IInv ==
    /\ alive \subseteq Proc /\ fault \in {"no", "full", "panic", "segment", "list", "heap"}
    /\ FramesOf(alive, pool, vused, pte, pde)
    /\ HeapsOf(vused, arena, free, live, copied)
    /\ Dead

\* The invariant gives types and the agreement of frames,
LEMMA IInvTypes ==
    ASSUME IInv
    PROVE  TypeOK /\ FramesExact
<1>1. TypeOK
  BY DEF IInv, FramesOf, FrameTypes, HeapsOf, TypeOK
<1>. QED  BY <1>1, FramesSame DEF IInv

\* and the agreement of arenas, lists and held blocks.
LEMMA IInvBlocks ==
    ASSUME IInv
    PROVE  BlocksExact
<1> SUFFICES ASSUME NEW p \in alive
             PROVE  /\ \A c \in Class : \A b \in Members(free[p][c]) :
                          /\ arena[p][b[1]].home = p /\ arena[p][b[1]].class = c
                          /\ b[2] < Blocks(c) /\ b \notin live[p]
                    /\ \A c \in Class : NoDup(free[p][c])
                    /\ \A v \in Page : arena[p][v].class # 0 =>
                          /\ v \in vused[p] /\ arena[p][v].cnt < Blocks(arena[p][v].class)
                          /\ arena[p][v].cnt >= Cardinality(OnList(p, v))
                          /\ v \notin copied[p] => arena[p][v].cnt = Cardinality(OnList(p, v))
  BY DEF BlocksExact
<1> DEFINE A == arena[p]
           F == free[p]
<1>1. Heap(p, vused[p], A, F, live[p], copied[p]) /\ HeapTypes(vused[p], A, F, live[p], copied[p])
  BY DEF IInv, HeapsOf, Heap
<1>2. \A c \in Class : \A b : b \in Members(F[c]) <=> Find(F[c], b)
  BY DEF Members, Find
<1>3. \A c \in Class : \A b : Find(F[c], b) => b \in Pointer
  BY <1>1 DEF HeapTypes, Find
<1>4. \A v : OnList(p, v) = OnLists(F, v)
  BY <1>2 DEF OnList, OnLists, Listed
<1> HIDE DEF A, F
<1>5. \A c \in Class : \A b \in Members(F[c]) :
         A[b[1]].home = p /\ A[b[1]].class = c /\ b[2] < Blocks(c) /\ b \notin live[p]
  BY <1>1, <1>2, <1>3 DEF Heap, Listing
<1>6. \A c \in Class : NoDup(F[c])
  BY <1>1 DEF Heap, Listing
<1>7. ASSUME NEW v \in Page, A[v].class # 0
      PROVE  /\ v \in vused[p] /\ A[v].cnt < Blocks(A[v].class)
             /\ A[v].cnt >= Cardinality(OnList(p, v))
             /\ v \notin copied[p] => A[v].cnt = Cardinality(OnList(p, v))
  <2>1. v \in vused[p]
    BY <1>1, <1>7, NoArenaFields DEF Heap, Blank
  <2>. QED  BY <1>1, <1>4, <1>7, <2>1 DEF Heap, Counts
<1>. QED  BY <1>5, <1>6, <1>7 DEF A, F

-----------------------------------------------------------------------------
\* What the calls find.

\* Large memory has a page at least.
LEMMA PageCountFacts ==
    ASSUME NEW size \in Size
    PROVE  PageCount(size) \in Nat \ {0}
<1> DEFINE a == size + Header + PageSize - 1
<1>1. size \in Nat \ {0} /\ Header \in Nat \ {0} /\ PageSize \in Nat \ {0}
  <2>1. 1 \in 1..Len(BlockSize) /\ BlockSize[1] \in Nat \ {0}
    BY MemoryAssumption
  <2>. QED  BY <2>1, MemoryAssumption
<1>2. a \in Nat /\ a >= PageSize
  BY <1>1
<1>3. PageCount(size) = a \div PageSize
  BY DEF PageCount
<1> HIDE DEF a
<1>4. a \div PageSize \in Nat /\ a < (a \div PageSize) * PageSize + PageSize
  BY <1>1, <1>2, ByteOf
<1>5. a \div PageSize # 0
  BY <1>1, <1>2, <1>4
<1>. QED  BY <1>3, <1>4, <1>5

\* A small size has a descriptor (memory.c:400).
LEMMA ClassFacts ==
    ASSUME NEW size \in Size, Small(size)
    PROVE  ClassOf(size) \in Class
<1> DEFINE S == {c \in Class : size <= BlockSize[c]}
<1>1. Len(BlockSize) \in S /\ S \in SUBSET Nat
  BY MemoryAssumption DEF Small, Class
<1>2. Lowest(S) \in S
  BY <1>1, LowestIn
<1>. QED  BY <1>2 DEF ClassOf

\* What vaddr_get finds is unused and below the stack; one page is always found
\* while there is a free one.
LEMMA ScanFacts ==
    ASSUME IInv, NEW p \in alive, HasFree(p), NEW n \in Nat \ {0}
    PROVE  /\ Scan(p, n) # -1 => /\ Scan(p, n) \in Nat /\ Scan(p, n) + n <= Stack
                                 /\ Run(Scan(p, n), n) \cap vused[p] = {}
           /\ n = 1 => Scan(p, n) # -1
<1> DEFINE used == vused[p]
           len == Stack + 1
           S == Starts(used, len, n)
<1>1. Stack \in Nat /\ len \in Nat \ {0} /\ len % ByteBits = 0 /\ len - 1 = Stack
  BY MemoryAssumption
<1>2. p \in Proc /\ used \subseteq Page /\ Stack \in used
  BY DEF IInv, FramesOf, FrameTypes, HasStack
<1>3. PICK f \in Page : f \notin used
  BY <1>2 DEF HasFree
<1>4. f \in 0..Stack - 1 /\ f \in (0..len - 1) \ used
  BY <1>1, <1>2, <1>3 DEF Page
<1>5. Scan(p, n) = IF S = {} THEN -1 ELSE Lowest(S)
  <2>1. (0..len - 1) \ used # {} /\ len - 1 \in used /\ Scan(p, n) = bitmap_scan(used, len, n)
    BY <1>1, <1>2, <1>4 DEF Scan
  <2> HIDE DEF used, len
  <2>. QED  BY <1>1, <2>1, ScanIs
<1>6. S \in SUBSET Nat /\ \A v \in S : v + n <= Stack /\ Run(v, n) \cap used = {}
  BY <1>1 DEF Starts
<1>7. S # {} => Lowest(S) \in S
  BY <1>6, LowestIn
<1>8. n = 1 => f \in S
  BY <1>1, <1>3, <1>4 DEF Starts, Run
<1>9. S # {} => Lowest(S) # -1
  BY <1>6, <1>7
<1> HIDE DEF S, used
<1>10. Scan(p, n) # -1 => Scan(p, n) \in S
  BY <1>5, <1>7
<1>. QED  BY <1>5, <1>6, <1>8, <1>9, <1>10 DEF used

\* pmalloc and page_table_add for the pages of S keep the frames exact.
LEMMA GetPages ==
    ASSUME IInv, NEW p \in Proc, NEW S \in SUBSET Page, S \cap vused[p] = {},
           Enough(Cardinality(S)),
           NEW E \in SUBSET TablesOf(Page), TablesOf(vused[p] \cup S) \subseteq E,
           OthersStay(p, alive, alive'),
           p \in alive' <=> Stack \in vused[p] \cup S,
           pool' = PoolWith(S),
           vused' = [vused EXCEPT ![p] = vused[p] \cup S],
           pte' = [pte EXCEPT ![p] = Mapped(pte[p], S)],
           pde' = [pde EXCEPT ![p] = E]
    PROVE  FramesOf(alive', pool', vused', pte', pde')
<1> DEFINE place == [v \in S |-> Place(S, v)]
<1>1. FramesOf(alive, pool, vused, pte, pde)
  BY DEF IInv
<1>2. \A v \in S : place[v] = Place(S, v)
  OBVIOUS
<1>3. /\ \A v \in S : place[v] \in Frame /\ place[v] \notin pool
      /\ \A v, w \in S : place[v] = place[w] => v = w
  BY <1>2, PlaceFacts
<1>4. \A f : f \in pool' <=> f \in pool \/ \E v \in S : place[v] = f
  BY <1>2 DEF PoolWith
<1>5. pte' = [pte EXCEPT ![p] = [v \in Page |-> IF v \in S THEN place[v] ELSE pte[p][v]]]
  BY <1>2 DEF Mapped
<1> HIDE DEF place
<1> DEFINE al2 == alive'
           P2 == pool'
           V2 == vused'
           T2 == pte'
           D2 == pde'
<1>6. /\ OthersStay(p, alive, al2)
      /\ p \in al2 <=> Stack \in vused[p] \cup S
      /\ D2 = [pde EXCEPT ![p] = E]
  OBVIOUS
<1>7. FreshFrames(place, S, pool) /\ Adds(p, S, place, pool, vused, pte, P2, V2, T2)
  BY <1>3, <1>4, <1>5 DEF FreshFrames, Adds
<1> HIDE DEF al2, P2, V2, T2, D2
<1>8. FramesOf(al2, P2, V2, T2, D2)
  BY <1>1, <1>6, <1>7, AddPages
<1>. QED  BY <1>8 DEF al2, P2, V2, T2, D2

\* DropPages for the variables of a step.
LEMMA GivePages ==
    ASSUME IInv, NEW p \in Proc, NEW S, S \subseteq vused[p],
           NEW E \in SUBSET TablesOf(Page), TablesOf(vused[p] \ S) \subseteq E,
           OthersStay(p, alive, alive'),
           p \in alive' <=> Stack \in vused[p] \ S,
           pool' = pool \ {pte[p][v] : v \in S},
           vused' = [vused EXCEPT ![p] = vused[p] \ S],
           pte' = [pte EXCEPT ![p] = [v \in Page |-> IF v \in S THEN NULL ELSE pte[p][v]]],
           pde' = [pde EXCEPT ![p] = E]
    PROVE  FramesOf(alive', pool', vused', pte', pde')
<1>1. FramesOf(alive, pool, vused, pte, pde)
  BY DEF IInv
<1> DEFINE al2 == alive'
           P2 == pool'
           V2 == vused'
           T2 == pte'
           D2 == pde'
<1>2. /\ OthersStay(p, alive, al2)
      /\ p \in al2 <=> Stack \in vused[p] \ S
      /\ D2 = [pde EXCEPT ![p] = E]
      /\ Drops(p, S, pool, vused, pte, P2, V2, T2)
  BY DEF Drops
<1> HIDE DEF al2, P2, V2, T2, D2
<1>3. FramesOf(al2, P2, V2, T2, D2)
  BY <1>1, <1>2, DropPages
<1>. QED  BY <1>3 DEF al2, P2, V2, T2, D2

\* page_table_add makes the tables that new pages need.
LEMMA TablesMore ==
    ASSUME IInv, NEW p \in Proc, NEW S \in SUBSET Page
    PROVE  /\ pde[p] \cup TablesOf(S) \in SUBSET TablesOf(Page)
           /\ TablesOf(vused[p] \cup S) \subseteq pde[p] \cup TablesOf(S)
<1>1. pde[p] \in SUBSET TablesOf(Page) /\ TablesOf(vused[p]) \subseteq pde[p]
  BY DEF IInv, FramesOf, FrameTypes, HasTables
<1>2. TablesOf(S) \subseteq TablesOf(Page)
  BY TablesUp
<1>3. TablesOf(vused[p] \cup S) = TablesOf(vused[p]) \cup TablesOf(S)
  BY DEF TablesOf
<1>. QED  BY <1>1, <1>2, <1>3

\* A run of n pages has n pages.
LEMMA RunCard ==
    ASSUME NEW v \in Nat, NEW n \in Nat \ {0}
    PROVE  Cardinality(Run(v, n)) = n
<1>1. Cardinality(v..v + n - 1) = IF v > v + n - 1 THEN 0 ELSE (v + n - 1) - v + 1
  BY FS_Interval
<1>. QED  BY <1>1 DEF Run

\* A step that changes the memory of one process only
LEMMA OneProcess ==
    ASSUME IInv, NEW p \in Proc, NEW v, NEW a, NEW f, NEW l, NEW c, Heap(p, v, a, f, l, c),
           vused' = [vused EXCEPT ![p] = v], arena' = [arena EXCEPT ![p] = a],
           free' = [free EXCEPT ![p] = f], live' = [live EXCEPT ![p] = l],
           copied' = [copied EXCEPT ![p] = c],
           FramesOf(alive', pool', vused', pte', pde'),
           alive' \subseteq Proc, OthersStay(p, alive, alive'), p \notin alive' => v = {},
           fault' = fault
    PROVE  IInv'
<1>1. HeapsOf(vused', arena', free', live', copied')
  BY OneHeap DEF IInv
<1>2. Dead'
  <2>1. vused \in [Proc -> SUBSET Page]
    BY DEF IInv, HeapsOf
  <2>. QED  BY <2>1 DEF IInv, Dead, OthersStay
<1>. QED  BY <1>1, <1>2 DEF IInv

\* The parts of a process that a call leaves alone
LEMMA Stays ==
    ASSUME IInv, NEW p \in Proc
    PROVE  /\ vused = [vused EXCEPT ![p] = vused[p]] /\ arena = [arena EXCEPT ![p] = arena[p]]
           /\ free = [free EXCEPT ![p] = free[p]] /\ live = [live EXCEPT ![p] = live[p]]
           /\ copied = [copied EXCEPT ![p] = copied[p]] /\ pde = [pde EXCEPT ![p] = pde[p]]
           /\ Heap(p, vused[p], arena[p], free[p], live[p], copied[p])
<1>1. HeapsOf(vused, arena, free, live, copied) /\ FrameTypes(pool, vused, pte, pde)
  BY DEF IInv, FramesOf
<1>2. vused = [vused EXCEPT ![p] = vused[p]] /\ arena = [arena EXCEPT ![p] = arena[p]]
  BY <1>1 DEF HeapsOf
<1>3. free = [free EXCEPT ![p] = free[p]] /\ live = [live EXCEPT ![p] = live[p]]
  BY <1>1 DEF HeapsOf
<1>4. copied = [copied EXCEPT ![p] = copied[p]] /\ pde = [pde EXCEPT ![p] = pde[p]]
  BY <1>1 DEF HeapsOf, FrameTypes
<1>. QED  BY <1>1, <1>2, <1>3, <1>4 DEF HeapsOf

\* What a step leaves of the pointers that are in use before and after it: the
\* frames of their pages, and their arena but for its count.
SameArena(x, y) == y = [x EXCEPT !.cnt = y.cnt]
KeptAt(T, A, L, T2, A2, L2) ==
    \A b \in L \cap L2 : /\ \A w \in Span(A, b) : T2[w] = T[w]
                         /\ SameArena(A[b[1]], A2[b[1]])
Kept ==
    \A p \in alive \cap alive' : \A b \in live[p] \cap live'[p] :
        /\ \A v \in Extent(p, b) : pte'[p][v] = pte[p][v]
        /\ arena'[p][b[1]] = [arena[p][b[1]] EXCEPT !.cnt = arena'[p][b[1]].cnt]

\* SameArena is reflexive.
LEMMA SameArenaSame ==
    ASSUME NEW x \in Arena
    PROVE  SameArena(x, x)
BY DEF SameArena, Arena

\* The pages of what a process holds are its own.
LEMMA SpanFacts ==
    ASSUME NEW p, NEW V, NEW A, NEW F, NEW L, NEW C, Heap(p, V, A, F, L, C), NEW b \in L
    PROVE  Span(A, b) \subseteq V /\ b[1] \in Span(A, b) /\ b[1] \in Page /\ A[b[1]] \in Arena
<1>1. b \in Pointer /\ A \in [Page -> Arena]
  BY DEF Heap, HeapTypes
<1>2. b[1] \in Page /\ b[1] \in Nat /\ A[b[1]] \in Arena /\ A[b[1]].cnt \in Nat
  BY <1>1, PointerFacts, ArenaFields
<1>3. CASE HeldLarge(V, A, b)
  <2>1. Span(A, b) = Run(b[1], A[b[1]].cnt)
    BY <1>3, SpanIs, Zenon DEF HeldLarge
  <2>2. Run(b[1], A[b[1]].cnt) \subseteq V /\ A[b[1]].cnt >= 1
    BY <1>3 DEF HeldLarge
  <2>3. b[1] \in Run(b[1], A[b[1]].cnt)
    BY <1>2, <2>2 DEF Run
  <2>. QED  BY <1>2, <2>1, <2>2, <2>3
<1>4. CASE HeldBlock(A, b)
  <2>1. Span(A, b) = {b[1]}
    BY <1>4, SpanIs, Zenon DEF HeldBlock
  <2>2. b[1] \in V
    BY <1>2, <1>4, NoArenaFields DEF HeldBlock, Heap, Blank
  <2>. QED  BY <1>2, <2>1, <2>2
<1>. QED  BY <1>3, <1>4 DEF Heap, Held

\* A step that changes the frames and arenas of the pages of S only keeps the
\* pointers that are not in S.
LEMMA KeptOff ==
    ASSUME NEW p, NEW V, NEW A, NEW F, NEW L, NEW C, Heap(p, V, A, F, L, C),
           NEW S, NEW L2, \A b \in L \cap L2 : Span(A, b) \cap S = {},
           NEW T, NEW T2, \A w \in Page : w \notin S => T2[w] = T[w],
           NEW A2, \A w \in Page : w \notin S => A2[w] = A[w]
    PROVE  KeptAt(T, A, L, T2, A2, L2)
<1> SUFFICES ASSUME NEW b \in L \cap L2
             PROVE  /\ \A w \in Span(A, b) : T2[w] = T[w]
                    /\ SameArena(A[b[1]], A2[b[1]])
  BY DEF KeptAt
<1>1. Span(A, b) \subseteq Page /\ b[1] \in Span(A, b) /\ A[b[1]] \in Arena
  BY SpanFacts DEF Heap, HeapTypes
<1>2. \A w \in Span(A, b) : T2[w] = T[w] /\ A2[w] = A[w]
  BY <1>1
<1>3. A2[b[1]] = A[b[1]]
  BY <1>1, <1>2
<1>. QED  BY <1>1, <1>2, <1>3, SameArenaSame

\* Counting the free blocks of an arena keeps everything.
LEMMA KeptCnt ==
    ASSUME NEW p, NEW V, NEW A, NEW F, NEW L, NEW C, Heap(p, V, A, F, L, C), NEW L2, NEW T,
           NEW v \in Page, NEW n, NEW A2, CountsTo(A, v, n, A2)
    PROVE  KeptAt(T, A, L, T, A2, L2)
<1> SUFFICES ASSUME NEW b \in L \cap L2 PROVE SameArena(A[b[1]], A2[b[1]])
  BY DEF KeptAt
<1>1. b[1] \in Page /\ A[b[1]] \in Arena /\ A \in [Page -> Arena]
  BY SpanFacts DEF Heap, HeapTypes
<1>2. CASE b[1] # v
  <2>1. A2[b[1]] = A[b[1]]
    BY <1>1, <1>2 DEF CountsTo
  <2>. QED  BY <1>1, <2>1, SameArenaSame
<1>3. CASE b[1] = v
  <2>1. A2[v] = [A[v] EXCEPT !.cnt = n]
    BY <1>1 DEF CountsTo
  <2>2. A2[v].cnt = n
    BY <1>1, <1>3, <2>1 DEF Arena
  <2>. QED  BY <1>3, <2>1, <2>2 DEF SameArena
<1>. QED  BY <1>2, <1>3

\* A step that changes one process keeps what the others hold.
LEMMA KeptOne ==
    ASSUME IInv, NEW p \in Proc, NEW T2, NEW A2, NEW L2,
           pte' = [pte EXCEPT ![p] = T2], arena' = [arena EXCEPT ![p] = A2],
           live' = [live EXCEPT ![p] = L2],
           p \in alive \cap alive' => KeptAt(pte[p], arena[p], live[p], T2, A2, L2)
    PROVE  Kept
<1> SUFFICES ASSUME NEW q \in alive \cap alive', NEW b \in live[q] \cap live'[q]
             PROVE  /\ \A v \in Span(arena[q], b) : pte'[q][v] = pte[q][v]
                    /\ SameArena(arena[q][b[1]], arena'[q][b[1]])
  BY DEF Kept, Extent, Span, SameArena
<1>1. /\ q \in Proc /\ pte \in [Proc -> [Page -> Frame \cup {NULL}]]
      /\ arena \in [Proc -> [Page -> Arena]] /\ live \in [Proc -> SUBSET Pointer]
  BY DEF IInv, FramesOf, FrameTypes, HeapsOf
<1>2. CASE q = p
  <2>1. pte'[p] = T2 /\ arena'[p] = A2 /\ live'[p] = L2
    BY <1>1
  <2>. QED  BY <1>2, <2>1 DEF KeptAt
<1>3. CASE q # p
  <2>1. pte'[q] = pte[q] /\ arena'[q] = arena[q]
    BY <1>1, <1>3
  <2>2. arena[q][b[1]] \in Arena
    BY <1>1, PointerFacts
  <2>. QED  BY <2>1, <2>2, SameArenaSame
<1>. QED  BY <1>2, <1>3

\* One lemma for each action: the invariant and what is held are kept.
LEMMA MallocLargeStep ==
    ASSUME IInv, NEW p \in Proc, NEW size \in Size, MallocLarge(p, size)
    PROVE  IInv' /\ Kept
<1> DEFINE n == PageCount(size)
           v == Scan(p, n)
           S == Run(v, n)
           a == [home |-> NULL, class |-> 0, cnt |-> n, large |-> TRUE]
           A2 == [arena[p] EXCEPT ![v] = a]
           E == pde[p] \cup TablesOf(S)
<1>1. /\ p \in alive /\ HasFree(p) /\ v # -1 /\ Enough(n)
      /\ pool' = PoolWith(S)
      /\ vused' = [vused EXCEPT ![p] = vused[p] \cup S]
      /\ pte' = [pte EXCEPT ![p] = Mapped(pte[p], S)]
      /\ pde' = [pde EXCEPT ![p] = E]
      /\ copied' = [copied EXCEPT ![p] = copied[p] \ S]
      /\ live' = [live EXCEPT ![p] = live[p] \cup {<<v, 0>>}]
      /\ alive' = alive /\ free' = free /\ fault' = fault
  BY DEF MallocLarge, MallocPage, MayAsk, Runs
<1>2. arena' = [arena EXCEPT ![p] = A2]
  BY DEF MallocLarge, MallocPage
<1>3. LargeOf(a, n)
  BY DEF LargeOf
<1>4. n \in Nat \ {0}
  BY PageCountFacts
<1> HIDE DEF n, a
<1>5. v \in Nat /\ v + n <= Stack /\ S \cap vused[p] = {}
  BY <1>1, <1>4, ScanFacts
<1> HIDE DEF v
<1>6. S \in SUBSET Page /\ Cardinality(S) = n
  <2>1. S \in SUBSET Page
    BY <1>4, <1>5, MemoryAssumption DEF Run, Page
  <2>. QED  BY <1>4, <1>5, <2>1, RunCard
<1>7. Heap(p, vused[p] \cup S, A2, free[p], live[p] \cup {<<v, 0>>}, copied[p] \ S)
  <2>1. Heap(p, vused[p], arena[p], free[p], live[p], copied[p])
    BY Stays
  <2> DEFINE B == arena[p]
  <2> HIDE DEF B
  <2>. QED  BY <1>3, <1>4, <1>5, <2>1, HeapLarge
<1> HIDE DEF S, A2
<1>8. E \in SUBSET TablesOf(Page) /\ TablesOf(vused[p] \cup S) \subseteq E
  BY <1>6, TablesMore
<1>9. Stack \in vused[p] /\ OthersStay(p, alive, alive') /\ alive' \subseteq Proc
  BY <1>1 DEF IInv, FramesOf, HasStack, OthersStay
<1> HIDE DEF E
<1>10. FramesOf(alive', pool', vused', pte', pde')
  <2>1. p \in alive' <=> Stack \in vused[p] \cup S
    BY <1>1, <1>9
  <2>. QED  BY <1>1, <1>5, <1>6, <1>8, <1>9, <2>1, GetPages
<1>11. free' = [free EXCEPT ![p] = free[p]]
  BY <1>1, Stays
<1>12. Kept
  <2> DEFINE T2 == Mapped(pte[p], S)
  <2>1. \A w \in Page : w \notin S => T2[w] = pte[p][w]
    BY DEF Mapped
  <2>2. \A w \in Page : w \notin S => A2[w] = arena[p][w]
    <3>1. v \in S /\ arena[p] \in [Page -> Arena]
      BY <1>4, <1>5, RunIn DEF S, IInv, HeapsOf
    <3>. QED  BY <3>1 DEF A2
  <2>3. \A b \in live[p] : Span(arena[p], b) \cap S = {}
    <3>1. \A b \in live[p] : Span(arena[p], b) \subseteq vused[p]
      BY Stays, SpanFacts
    <3>. QED  BY <1>5, <3>1
  <2>4. KeptAt(pte[p], arena[p], live[p], T2, A2, live[p] \cup {<<v, 0>>})
    <3> HIDE DEF T2
    <3>. QED  BY <2>1, <2>2, <2>3, Stays, KeptOff, ZenonT(60)
  <2> HIDE DEF T2
  <2>5. pte' = [pte EXCEPT ![p] = T2]
    BY <1>1 DEF T2
  <2>. QED  BY <1>1, <1>2, <2>4, <2>5, KeptOne
<1>13. IInv'
  BY <1>1, <1>2, <1>7, <1>9, <1>10, <1>11, OneProcess
<1>. QED  BY <1>12, <1>13


LEMMA MallocArenaStep ==
    ASSUME IInv, NEW p \in Proc, NEW size \in Size, MallocArena(p, size)
    PROVE  IInv' /\ Kept
<1> DEFINE c == ClassOf(size)
           v == Scan(p, 1)
           S == Run(v, 1)
           a == [home |-> p, class |-> c, cnt |-> Blocks(c) - 1, large |-> FALSE]
           list == [k \in 1..Blocks(c) - 1 |-> <<v, k>>]
           A2 == [arena[p] EXCEPT ![v] = a]
           F2 == [free[p] EXCEPT ![c] = list]
           E == pde[p] \cup TablesOf(S)
<1>1. /\ p \in alive /\ HasFree(p) /\ Enough(1) /\ Small(size) /\ free[p][c] = <<>>
      /\ pool' = PoolWith(S)
      /\ vused' = [vused EXCEPT ![p] = vused[p] \cup S]
      /\ pte' = [pte EXCEPT ![p] = Mapped(pte[p], S)]
      /\ pde' = [pde EXCEPT ![p] = E]
      /\ copied' = [copied EXCEPT ![p] = copied[p] \ S]
      /\ live' = [live EXCEPT ![p] = live[p] \cup {<<v, 0>>}]
      /\ alive' = alive /\ fault' = fault
  BY DEF MallocArena, MallocPage, MayAsk, Runs
<1>2. arena' = [arena EXCEPT ![p] = A2] /\ free' = [free EXCEPT ![p] = F2]
  BY DEF MallocArena, MallocPage
<1>3. ArenaOf(a, p, c) /\ CutOf(list, v, Blocks(c))
  BY DEF ArenaOf, CutOf
<1>4. c \in Class
  BY <1>1, ClassFacts
<1> HIDE DEF a, c, list
<1>5. v \in Nat /\ v + 1 <= Stack /\ S \cap vused[p] = {}
  BY <1>1, ScanFacts
<1> HIDE DEF v
<1>6. S = {v} /\ v \notin vused[p] /\ v \in 0..Stack - 1
  <2>1. S = {v}
    BY <1>5, RunIn
  <2>. QED  BY <1>5, <2>1, MemoryAssumption
<1>7. S \in SUBSET Page /\ Cardinality(S) = 1
  <2>1. S \in SUBSET Page
    BY <1>6, MemoryAssumption DEF Page
  <2>. QED  BY <1>6, <2>1, FS_Singleton
<1>8. Heap(p, vused[p] \cup {v}, A2, F2, live[p] \cup {<<v, 0>>}, copied[p] \ {v})
  <2>1. Heap(p, vused[p], arena[p], free[p], live[p], copied[p])
    BY Stays
  <2>. QED  BY <1>1, <1>3, <1>4, <1>6, <2>1, HeapCut
<1>9. Heap(p, vused[p] \cup S, A2, F2, live[p] \cup {<<v, 0>>}, copied[p] \ S)
  BY <1>6, <1>8
<1> HIDE DEF S, A2, F2
<1>10. E \in SUBSET TablesOf(Page) /\ TablesOf(vused[p] \cup S) \subseteq E
  BY <1>7, TablesMore
<1>11. Stack \in vused[p] /\ OthersStay(p, alive, alive') /\ alive' \subseteq Proc
  BY <1>1 DEF IInv, FramesOf, HasStack, OthersStay
<1> HIDE DEF E
<1>12. FramesOf(alive', pool', vused', pte', pde')
  <2>1. p \in alive' <=> Stack \in vused[p] \cup S
    BY <1>1, <1>11
  <2>. QED  BY <1>1, <1>5, <1>7, <1>10, <1>11, <2>1, GetPages
<1>13. Kept
  <2> DEFINE T2 == Mapped(pte[p], S)
  <2>1. \A w \in Page : w \notin S => T2[w] = pte[p][w]
    BY DEF Mapped
  <2>2. \A w \in Page : w \notin S => A2[w] = arena[p][w]
    <3>1. v \in S /\ arena[p] \in [Page -> Arena]
      BY <1>6 DEF IInv, HeapsOf
    <3>. QED  BY <3>1 DEF A2
  <2>3. \A b \in live[p] : Span(arena[p], b) \cap S = {}
    <3>1. \A b \in live[p] : Span(arena[p], b) \subseteq vused[p]
      BY Stays, SpanFacts
    <3>. QED  BY <1>5, <3>1
  <2>4. KeptAt(pte[p], arena[p], live[p], T2, A2, live[p] \cup {<<v, 0>>})
    <3> HIDE DEF T2
    <3>. QED  BY <2>1, <2>2, <2>3, Stays, KeptOff, ZenonT(60)
  <2> HIDE DEF T2
  <2>5. pte' = [pte EXCEPT ![p] = T2]
    BY <1>1 DEF T2
  <2>. QED  BY <1>1, <1>2, <2>4, <2>5, KeptOne
<1>14. IInv'
  BY <1>1, <1>2, <1>9, <1>11, <1>12, OneProcess
<1>. QED  BY <1>13, <1>14


LEMMA MallocBlockStep ==
    ASSUME IInv, NEW p \in Proc, NEW size \in Size, MallocBlock(p, size)
    PROVE  IInv' /\ Kept
<1> DEFINE c == ClassOf(size)
           b == Head(free[p][c])
           A2 == [arena[p] EXCEPT ![b[1]].cnt = arena[p][b[1]].cnt - 1]
           F2 == [free[p] EXCEPT ![c] = Tail(free[p][c])]
<1>1. /\ p \in alive /\ Small(size) /\ free[p][c] # <<>>
      /\ live' = [live EXCEPT ![p] = live[p] \cup {b}]
      /\ alive' = alive /\ pool' = pool /\ vused' = vused /\ pte' = pte /\ pde' = pde
      /\ copied' = copied /\ fault' = fault
  BY DEF MallocBlock, MayAsk, Runs
<1>2. arena' = [arena EXCEPT ![p] = A2] /\ free' = [free EXCEPT ![p] = F2]
  BY DEF MallocBlock
<1>3. c \in Class
  BY <1>1, ClassFacts
<1> HIDE DEF c
<1>4. FirstOf(free[p][c], b)
  BY DEF FirstOf
<1> HIDE DEF b
<1>5. CountsTo(arena[p], b[1], arena[p][b[1]].cnt - 1, A2)
  BY DEF CountsTo
<1>6. Heap(p, vused[p], A2, F2, live[p] \cup {b}, copied[p])
  <2>1. Heap(p, vused[p], arena[p], free[p], live[p], copied[p])
    BY Stays
  <2> HIDE DEF A2
  <2>. QED  BY <1>1, <1>3, <1>4, <1>5, <2>1, HeapTake
<1> HIDE DEF A2, F2
<1>7. FramesOf(alive', pool', vused', pte', pde') /\ alive' \subseteq Proc /\ OthersStay(p, alive, alive')
  BY <1>1 DEF IInv, OthersStay
<1>8. vused' = [vused EXCEPT ![p] = vused[p]] /\ copied' = [copied EXCEPT ![p] = copied[p]]
  BY <1>1, Stays
<1>9. Kept
  <2>1. b[1] \in Page
    <3>1. free[p][c] \in Seq(Pointer)
      BY <1>3 DEF IInv, HeapsOf
    <3>2. b \in Pointer
      BY <1>1, <1>4, <3>1, PopFacts DEF FirstOf
    <3>. QED  BY <3>2, PointerFacts
  <2>2. KeptAt(pte[p], arena[p], live[p], pte[p], A2, live[p] \cup {b})
    BY <1>5, <2>1, Stays, KeptCnt
  <2>3. pte' = [pte EXCEPT ![p] = pte[p]]
    BY <1>1 DEF IInv, FramesOf, FrameTypes
  <2>. QED  BY <1>1, <1>2, <2>2, <2>3, KeptOne
<1>10. IInv'
  BY <1>1, <1>2, <1>6, <1>7, <1>8, OneProcess
<1>. QED  BY <1>9, <1>10


LEMMA FreeLargeStep ==
    ASSUME IInv, NEW p \in Proc, NEW b \in live[p], FreeLarge(p, b)
    PROVE  IInv' /\ Kept
<1> DEFINE v == b[1]
           S == Run(v, arena[p][v].cnt)
           A2 == [arena[p] EXCEPT ![v] = NoArena]
<1>1. /\ p \in alive
      /\ pool' = pool \ {pte[p][w] : w \in S}
      /\ vused' = [vused EXCEPT ![p] = vused[p] \ S]
      /\ pte' = [pte EXCEPT ![p] = [w \in Page |-> IF w \in S THEN NULL ELSE pte[p][w]]]
      /\ live' = [live EXCEPT ![p] = live[p] \ {b}]
      /\ alive' = alive /\ pde' = pde /\ free' = free /\ copied' = copied /\ fault' = fault
  BY DEF FreeLarge, MfreePage, Runs
<1>2. arena' = [arena EXCEPT ![p] = A2]
  BY DEF FreeLarge, MfreePage
<1>3. arena[p][b[1]].large = TRUE
  <2>1. arena[p][b[1]].large
    BY DEF FreeLarge
  <2>2. b[1] \in Page /\ arena[p] \in [Page -> Arena]
    BY PointerFacts DEF IInv, HeapsOf
  <2>3. arena[p][b[1]].large \in BOOLEAN
    BY <2>2, ArenaFields
  <2>. QED  BY <2>1, <2>3
<1>4. /\ S \subseteq vused[p] /\ Stack \notin S
      /\ Heap(p, vused[p] \ S, A2, free[p], live[p] \ {b}, copied[p])
  <2>1. Heap(p, vused[p], arena[p], free[p], live[p], copied[p])
    BY Stays
  <2>. QED  BY <1>3, <2>1, HeapDropLarge
<1> HIDE DEF S, A2
<1>5. pde[p] \in SUBSET TablesOf(Page) /\ TablesOf(vused[p] \ S) \subseteq pde[p]
  <2>1. TablesOf(vused[p] \ S) \subseteq TablesOf(vused[p])
    BY TablesUp
  <2>. QED  BY <2>1 DEF IInv, FramesOf, FrameTypes, HasTables
<1>6. Stack \in vused[p] /\ OthersStay(p, alive, alive') /\ alive' \subseteq Proc
  BY <1>1 DEF IInv, FramesOf, HasStack, OthersStay
<1>7. FramesOf(alive', pool', vused', pte', pde')
  <2>1. p \in alive' <=> Stack \in vused[p] \ S
    BY <1>1, <1>4, <1>6
  <2>2. pde' = [pde EXCEPT ![p] = pde[p]]
    BY <1>1, Stays
  <2>. QED  BY <1>1, <1>4, <1>5, <1>6, <2>1, <2>2, GivePages
<1>8. free' = [free EXCEPT ![p] = free[p]] /\ copied' = [copied EXCEPT ![p] = copied[p]]
  BY <1>1, Stays
<1>9. Kept
  <2> DEFINE T2 == [w \in Page |-> IF w \in S THEN NULL ELSE pte[p][w]]
  <2>1. \A w \in Page : w \notin S => T2[w] = pte[p][w]
    OBVIOUS
  <2>2. \A w \in Page : w \notin S => A2[w] = arena[p][w]
    <3>1. v \in S /\ arena[p] \in [Page -> Arena]
      <4>1. Span(arena[p], b) = S
        BY <1>3, SpanIs, Zenon DEF S
      <4>2. v \in Span(arena[p], b)
        BY Stays, SpanFacts
      <4>. QED  BY <4>1, <4>2 DEF IInv, HeapsOf
    <3>. QED  BY <3>1 DEF A2
  <2>3. \A x \in live[p] \cap (live[p] \ {b}) : Span(arena[p], x) \cap S = {}
    <3>1. Span(arena[p], b) = S
      BY <1>3, SpanIs, Zenon DEF S
    <3>2. ~HeldBlock(arena[p], b)
      BY <1>3 DEF HeldBlock
    <3>. QED  BY <3>1, <3>2, Stays, Apart
  <2>4. KeptAt(pte[p], arena[p], live[p], T2, A2, live[p] \ {b})
    <3> HIDE DEF T2
    <3>. QED  BY <2>1, <2>2, <2>3, Stays, KeptOff
  <2> HIDE DEF T2
  <2>5. pte' = [pte EXCEPT ![p] = T2]
    BY <1>1 DEF T2
  <2>. QED  BY <1>1, <1>2, <2>4, <2>5, KeptOne
<1>10. IInv'
  BY <1>1, <1>2, <1>4, <1>6, <1>7, <1>8, OneProcess
<1>. QED  BY <1>9, <1>10


LEMMA HomeFacts ==
    ASSUME IInv, NEW p \in Proc, NEW b \in live[p], HomeBlock(p, b)
    PROVE  p \in alive /\ arena[p][b[1]].large = FALSE /\ arena[p][b[1]].home = p /\ b[1] \in Nat
<1>1. p \in alive /\ ~arena[p][b[1]].large /\ arena[p][b[1]].home = p
  BY DEF HomeBlock, Runs
<1>2. b \in Pointer /\ arena[p] \in [Page -> Arena]
  BY DEF IInv, HeapsOf
<1>3. b[1] \in Page /\ b[1] \in Nat
  BY <1>2, PointerFacts
<1>4. arena[p][b[1]].large \in BOOLEAN
  BY <1>2, <1>3, ArenaFields
<1>. QED  BY <1>1, <1>3, <1>4

LEMMA FreeBlockStep ==
    ASSUME IInv, NEW p \in Proc, NEW b \in live[p], FreeBlock(p, b)
    PROVE  IInv' /\ Kept
<1> DEFINE v == b[1]
           c == arena[p][v].class
           A2 == [arena[p] EXCEPT ![v].cnt = arena[p][v].cnt + 1]
           F2 == [free[p] EXCEPT ![c] = Append(free[p][c], b)]
<1>1. /\ HomeBlock(p, b) /\ ~LastBlock(p, b)
      /\ live' = [live EXCEPT ![p] = live[p] \ {b}]
      /\ alive' = alive /\ pool' = pool /\ vused' = vused /\ pte' = pte /\ pde' = pde
      /\ copied' = copied /\ fault' = fault
  BY DEF FreeBlock
<1>2. arena' = [arena EXCEPT ![p] = A2] /\ free' = [free EXCEPT ![p] = F2]
  BY DEF FreeBlock
<1>3. p \in alive /\ arena[p][b[1]].large = FALSE /\ arena[p][b[1]].home = p
  BY <1>1, HomeFacts
<1>4. arena[p][b[1]].cnt + 1 # Blocks(arena[p][b[1]].class)
  BY <1>1 DEF LastBlock
<1>5. CountsTo(arena[p], b[1], arena[p][b[1]].cnt + 1, A2)
  BY DEF CountsTo
<1>6. Heap(p, vused[p], A2, F2, live[p] \ {b}, copied[p])
  <2>1. Heap(p, vused[p], arena[p], free[p], live[p], copied[p])
    BY Stays
  <2> HIDE DEF A2
  <2>. QED  BY <1>3, <1>4, <1>5, <2>1, HeapGive
<1> HIDE DEF A2, F2
<1>7. FramesOf(alive', pool', vused', pte', pde') /\ alive' \subseteq Proc /\ OthersStay(p, alive, alive')
  BY <1>1 DEF IInv, OthersStay
<1>8. vused' = [vused EXCEPT ![p] = vused[p]] /\ copied' = [copied EXCEPT ![p] = copied[p]]
  BY <1>1, Stays
<1>9. Kept
  <2>1. b[1] \in Page
    BY PointerFacts DEF IInv, HeapsOf
  <2>2. KeptAt(pte[p], arena[p], live[p], pte[p], A2, live[p] \ {b})
    BY <1>5, <2>1, Stays, KeptCnt
  <2>3. pte' = [pte EXCEPT ![p] = pte[p]]
    BY <1>1 DEF IInv, FramesOf, FrameTypes
  <2>. QED  BY <1>1, <1>2, <2>2, <2>3, KeptOne
<1>10. IInv'
  BY <1>1, <1>2, <1>3, <1>6, <1>7, <1>8, OneProcess
<1>. QED  BY <1>9, <1>10


LEMMA FreeArenaStep ==
    ASSUME IInv, NEW p \in Proc, NEW b \in live[p], FreeArena(p, b)
    PROVE  IInv' /\ Kept
<1> DEFINE v == b[1]
           c == arena[p][v].class
           list == Append(free[p][c], b)
           S == Run(v, 1)
           A2 == [arena[p] EXCEPT ![v] = NoArena]
           F2 == [free[p] EXCEPT ![c] = Without(list, v)]
<1>1. /\ HomeBlock(p, b)
      /\ \A k \in 0..Blocks(c) - 1 : <<v, k>> \in Members(list)
      /\ pool' = pool \ {pte[p][w] : w \in S}
      /\ vused' = [vused EXCEPT ![p] = vused[p] \ S]
      /\ pte' = [pte EXCEPT ![p] = [w \in Page |-> IF w \in S THEN NULL ELSE pte[p][w]]]
      /\ live' = [live EXCEPT ![p] = live[p] \ {b}]
      /\ alive' = alive /\ pde' = pde /\ copied' = copied /\ fault' = fault
  BY DEF FreeArena, MfreePage
<1>2. arena' = [arena EXCEPT ![p] = A2] /\ free' = [free EXCEPT ![p] = F2]
  BY DEF FreeArena, MfreePage
<1>3. p \in alive /\ arena[p][b[1]].large = FALSE /\ v \in Nat
  BY <1>1, HomeFacts
<1>4. S = {v}
  BY <1>3, RunIn
<1>5. Appended(list, free[p][c], b) /\ AllFound(list, v, Blocks(c))
  BY <1>1 DEF Appended, AllFound, Members, Find
<1> HIDE DEF list
<1>6. /\ v \in vused[p] /\ v # Stack /\ \A x \in live[p] : x # b => x[1] # v
      /\ Heap(p, vused[p] \ {v}, A2, F2, live[p] \ {b}, copied[p])
  <2>1. Heap(p, vused[p], arena[p], free[p], live[p], copied[p])
    BY Stays
  <2>2. /\ A2 = [arena[p] EXCEPT ![b[1]] = NoArena]
        /\ F2 = [free[p] EXCEPT ![arena[p][b[1]].class] = Without(list, b[1])]
    OBVIOUS
  <2>3. Appended(list, free[p][arena[p][b[1]].class], b)
    BY <1>5
  <2>4. AllFound(list, b[1], Blocks(arena[p][b[1]].class))
    BY <1>5
  <2>5. arena[p][b[1]].large = FALSE
    BY <1>3
  <2> HIDE DEF A2, F2, v, c
  <2>6. /\ b[1] \in vused[p] /\ b[1] # Stack /\ LastOfPage(live[p], b)
        /\ Heap(p, vused[p] \ {b[1]}, A2, F2, live[p] \ {b}, copied[p])
    BY <2>1, <2>2, <2>3, <2>4, <2>5, HeapDropArena, ZenonT(60)
  <2>. QED  BY <2>6 DEF LastOfPage, v
<1> HIDE DEF A2, F2, v, S
<1>7. pde[p] \in SUBSET TablesOf(Page) /\ TablesOf(vused[p] \ S) \subseteq pde[p]
  <2>1. TablesOf(vused[p] \ S) \subseteq TablesOf(vused[p])
    BY TablesUp
  <2>. QED  BY <2>1 DEF IInv, FramesOf, FrameTypes, HasTables
<1>8. Stack \in vused[p] /\ OthersStay(p, alive, alive') /\ alive' \subseteq Proc
  BY <1>1, <1>3 DEF IInv, FramesOf, HasStack, OthersStay
<1>9. FramesOf(alive', pool', vused', pte', pde')
  <2>1. p \in alive' <=> Stack \in vused[p] \ S
    BY <1>1, <1>3, <1>4, <1>6, <1>8
  <2>2. pde' = [pde EXCEPT ![p] = pde[p]]
    BY <1>1, Stays
  <2>3. S \subseteq vused[p]
    BY <1>4, <1>6
  <2>. QED  BY <1>1, <1>7, <1>8, <2>1, <2>2, <2>3, GivePages
<1>10. copied' = [copied EXCEPT ![p] = copied[p]]
  BY <1>1, Stays
<1>11. Heap(p, vused[p] \ S, A2, F2, live[p] \ {b}, copied[p])
  BY <1>4, <1>6
<1>12. Kept
  <2> DEFINE T2 == [w \in Page |-> IF w \in S THEN NULL ELSE pte[p][w]]
  <2>1. \A w \in Page : w \notin S => T2[w] = pte[p][w]
    OBVIOUS
  <2>2. \A w \in Page : w \notin S => A2[w] = arena[p][w]
    <3>1. v \in S /\ arena[p] \in [Page -> Arena]
      BY <1>4 DEF IInv, HeapsOf
    <3>. QED  BY <3>1 DEF A2
  <2>3. \A x \in live[p] \cap (live[p] \ {b}) : Span(arena[p], x) \cap S = {}
    <3>1. Span(arena[p], b) = S
      BY <1>3, <1>4, SpanIs, Zenon DEF v
    <3>2. \A x \in live[p] : x # b => x[1] # b[1]
      BY <1>6 DEF v
    <3>. QED  BY <3>1, <3>2, Stays, Apart
  <2>4. KeptAt(pte[p], arena[p], live[p], T2, A2, live[p] \ {b})
    <3> HIDE DEF T2
    <3>. QED  BY <2>1, <2>2, <2>3, Stays, KeptOff
  <2> HIDE DEF T2
  <2>5. pte' = [pte EXCEPT ![p] = T2]
    BY <1>1 DEF T2
  <2>. QED  BY <1>1, <1>2, <2>4, <2>5, KeptOne
<1>13. IInv'
  BY <1>1, <1>2, <1>3, <1>8, <1>9, <1>10, <1>11, OneProcess
<1>. QED  BY <1>12, <1>13


LEMMA ForkStep ==
    ASSUME IInv, NEW p \in Proc, NEW q \in Proc, Fork(p, q)
    PROVE  IInv' /\ Kept
<1> DEFINE S == vused[p]
           E == TablesOf(S)
<1>1. /\ p \in alive /\ q \notin alive /\ Enough(Cardinality(S))
      /\ alive' = alive \cup {q} /\ pool' = PoolWith(S)
      /\ vused' = [vused EXCEPT ![q] = S]
      /\ pte' = [pte EXCEPT ![q] = Mapped(pte[q], S)]
      /\ pde' = [pde EXCEPT ![q] = E]
      /\ arena' = [arena EXCEPT ![q] = arena[p]]
      /\ free' = [free EXCEPT ![q] = EmptyLists]
      /\ live' = [live EXCEPT ![q] = live[p]]
      /\ copied' = [copied EXCEPT ![q] = S]
      /\ fault' = fault
  BY DEF Fork, Runs
<1>2. vused[q] = {}
  BY <1>1 DEF IInv, Dead
<1>3. S \in SUBSET Page /\ Stack \in S /\ alive' \subseteq Proc /\ OthersStay(q, alive, alive')
  BY <1>1 DEF IInv, FramesOf, FrameTypes, HasStack, OthersStay
<1>4. Heap(q, S, arena[p], EmptyLists, live[p], S)
  BY Stays, HeapCopy
<1>5. E \in SUBSET TablesOf(Page)
  BY <1>3, TablesUp
<1> HIDE DEF S
<1>6. FramesOf(alive', pool', vused', pte', pde')
  <2>1. S \cap vused[q] = {} /\ vused[q] \cup S = S
    BY <1>2
  <2>2. TablesOf(vused[q] \cup S) \subseteq E
    BY <2>1
  <2>3. q \in alive' <=> Stack \in vused[q] \cup S
    BY <1>1, <1>3, <2>1
  <2>4. vused' = [vused EXCEPT ![q] = vused[q] \cup S]
    BY <1>1, <2>1
  <2> HIDE DEF E
  <2>. QED  BY <1>1, <1>3, <1>5, <2>1, <2>2, <2>3, <2>4, GetPages
<1>7. q \notin alive' => S = {}
  BY <1>1
<1>8. Kept
  BY <1>1, KeptOne
<1>9. IInv'
  BY <1>1, <1>3, <1>4, <1>6, <1>7, OneProcess
<1>. QED  BY <1>8, <1>9


LEMMA ExecvStep ==
    ASSUME IInv, NEW p \in Proc, NEW s \in Segment, Execv(p, s)
    PROVE  IInv' /\ Kept
<1> DEFINE S == Loaded(p, s)
           G == Seg(s)
           A2 == [v \in Page |-> IF v \in G THEN NoArena ELSE arena[p][v]]
           B == BuffersThen(p, s)
           E == pde[p] \cup TablesOf(S \cup B)
           F2 == AfterRead(p)
<1>1. /\ p \in alive /\ Enough(Cardinality(S))
      /\ \A c \in Class : \A b \in Members(free[p][c]) : b[1] \notin G
      /\ pool' = PoolWith(S)
      /\ vused' = [vused EXCEPT ![p] = vused[p] \cup S]
      /\ pte' = [pte EXCEPT ![p] = Mapped(pte[p], S)]
      /\ pde' = [pde EXCEPT ![p] = E]
      /\ live' = [live EXCEPT ![p] = {}]
      /\ free' = [free EXCEPT ![p] = F2]
      /\ alive' = alive /\ copied' = copied /\ fault' = fault
  <2>1. Enough(Cardinality(S))
    <3>1. IsFiniteSet(Unused) /\ IsFiniteSet(NewArenas(p)) /\ IsFiniteSet(S)
      <4>1. IsFiniteSet(Class) /\ IsFiniteSet(Frame)
        BY MemoryAssumption, FS_Interval DEF Class, Frame
      <4>2. IsFiniteSet(Seg(s))
        <5>1. s[1] \in Int /\ s[1] + s[2] - 1 \in Int
          BY MemoryAssumption
        <5>. QED  BY <5>1, FS_Interval DEF Seg, Run
      <4>3. NewArenas(p) \subseteq Class
        BY BufferAssumption, ClassFacts DEF NewArenas, BufferClass
      <4>4. Unused \subseteq Frame /\ S \subseteq Seg(s)
        BY DEF Unused, Loaded
      <4>. QED  BY <4>1, <4>2, <4>3, <4>4, FS_Subset
    <3>2. /\ Cardinality(Unused) \in Nat /\ Cardinality(NewArenas(p)) \in Nat
          /\ Cardinality(S) \in Nat
      BY <3>1, FS_CardinalityType
    <3>. QED  BY <3>2 DEF Execv, MayRead, Enough
  <2>. QED  BY <2>1 DEF Execv, Runs, OnHeap
<1>2. arena' = [arena EXCEPT ![p] = A2]
  BY DEF Execv
<1>3. S \in SUBSET Page /\ S \cap vused[p] = {}
  <2>1. S \subseteq Page
    BY MemoryAssumption, SMTT(30) DEF Loaded, Seg, Run, Page
  <2>2. ASSUME NEW v \in S, v \in vused[p] PROVE FALSE
    <3>1. Table(v) \notin pde[p]
      BY DEF Loaded
    <3>2. Table(v) \in TablesOf(vused[p])
      BY <2>2 DEF TablesOf
    <3>. QED  BY <3>1, <3>2 DEF IInv, FramesOf, HasTables
  <2>. QED  BY <2>1, <2>2
<1>4. \A c \in Class : \A b \in Pointer : Find(free[p][c], b) => b[1] \notin G
  BY <1>1 DEF Members, Find
<1>5. Heap(p, vused[p] \cup S, A2, F2, {}, copied[p])
  <2>1. Heap(p, vused[p], arena[p], free[p], live[p], copied[p])
    BY Stays
  <2>2. Heap(p, vused[p] \cup S, A2, free[p], {}, copied[p])
    <3> HIDE DEF S, G
    <3>. QED  BY <1>3, <1>4, <2>1, HeapExec
  <2>3. \A c \in Class : free[p][c] \in Seq(Pointer) /\ NoDup(free[p][c])
    BY <2>1 DEF Heap, HeapTypes, Listing
  <2>4. ASSUME NEW c \in Class
        PROVE  /\ F2[c] \in Seq(Pointer) /\ NoDup(F2[c])
               /\ \A u : Find(F2[c], u) <=> Find(free[p][c], u)
    <3>1. CASE c \in BufferClass /\ free[p][c] # <<>>
      <4>1. F2[c] = Append(Tail(free[p][c]), Head(free[p][c]))
        BY <3>1 DEF AfterRead
      <4>. QED  BY <2>3, <3>1, <4>1, TurnFacts
    <3>2. CASE ~(c \in BufferClass /\ free[p][c] # <<>>)
      <4>1. F2[c] = free[p][c]
        BY <3>2 DEF AfterRead
      <4>. QED  BY <2>3, <4>1
    <3>. QED  BY <3>1, <3>2
  <2>5. F2 \in [Class -> Seq(Pointer)]
    <3>1. F2 = [c \in Class |-> F2[c]]
      BY DEF AfterRead
    <3> HIDE DEF F2
    <3>. QED  BY <2>4, <3>1
  <2> HIDE DEF S, A2, F2
  <2>. QED  BY <2>2, <2>4, <2>5, HeapOrder
<1> HIDE DEF S, A2, G, F2
<1>6. E \in SUBSET TablesOf(Page) /\ TablesOf(vused[p] \cup S) \subseteq E
  <2>1. B \in SUBSET Page
    BY DEF BuffersThen, BufferPages
  <2> HIDE DEF B
  <2>2. /\ E \in SUBSET TablesOf(Page)
        /\ TablesOf(vused[p] \cup (S \cup B)) \subseteq E
    BY <1>3, <2>1, TablesMore
  <2>3. TablesOf(vused[p] \cup S) \subseteq TablesOf(vused[p] \cup (S \cup B))
    BY TablesUp
  <2>. QED  BY <2>2, <2>3
<1>7. Stack \in vused[p] /\ OthersStay(p, alive, alive') /\ alive' \subseteq Proc
  BY <1>1 DEF IInv, FramesOf, HasStack, OthersStay
<1> HIDE DEF E
<1>8. FramesOf(alive', pool', vused', pte', pde')
  <2>1. p \in alive' <=> Stack \in vused[p] \cup S
    BY <1>1, <1>7
  <2>. QED  BY <1>1, <1>3, <1>6, <1>7, <2>1, GetPages
<1>9. copied' = [copied EXCEPT ![p] = copied[p]]
  BY <1>1, Stays
<1>10. Kept
  <2>1. KeptAt(pte[p], arena[p], live[p], Mapped(pte[p], S), A2, {})
    BY DEF KeptAt
  <2>. QED  BY <1>1, <1>2, <2>1, KeptOne
<1>11. IInv'
  BY <1>1, <1>2, <1>5, <1>7, <1>8, <1>9, OneProcess
<1>. QED  BY <1>10, <1>11


LEMMA ExitStep ==
    ASSUME IInv, NEW p \in Proc, Exit(p)
    PROVE  IInv' /\ Kept
<1> DEFINE S == vused[p]
           A2 == [v \in Page |-> NoArena]
<1>1. FramesOf(alive, pool, vused, pte, pde)
  BY DEF IInv
<1>2. Present(p) = S /\ S \in SUBSET Page
  BY <1>1 DEF Present, FramesOf, SamePages, FrameTypes
<1>3. /\ p \in alive /\ alive' = alive \ {p}
      /\ pool' = pool \ {pte[p][v] : v \in S}
      /\ vused' = [vused EXCEPT ![p] = {}]
      /\ pte' = [pte EXCEPT ![p] = [v \in Page |-> NULL]]
      /\ pde' = [pde EXCEPT ![p] = {}]
      /\ arena' = [arena EXCEPT ![p] = A2]
      /\ free' = [free EXCEPT ![p] = EmptyLists]
      /\ live' = [live EXCEPT ![p] = {}]
      /\ copied' = [copied EXCEPT ![p] = {}]
      /\ fault' = fault
  BY <1>2 DEF Exit, Runs
<1>4. Heap(p, {}, A2, EmptyLists, {}, {})
  BY HeapNone
<1>5. [v \in Page |-> NULL] = [v \in Page |-> IF v \in S THEN NULL ELSE pte[p][v]]
  <2>1. \A v \in Page : v \notin S => pte[p][v] = NULL
    BY <1>1 DEF FramesOf, SamePages
  <2>. QED  BY <2>1
<1>6. alive' \subseteq Proc /\ OthersStay(p, alive, alive')
  BY <1>3 DEF IInv, OthersStay
<1>7. FramesOf(alive', pool', vused', pte', pde')
  <2>1. vused[p] \ S = {} /\ p \notin alive'
    BY <1>3
  <2>2. TablesOf(vused[p] \ S) \subseteq {} /\ {} \in SUBSET TablesOf(Page)
    BY <2>1 DEF TablesOf
  <2>3. vused' = [vused EXCEPT ![p] = vused[p] \ S]
    BY <1>3, <2>1
  <2>4. p \in alive' <=> Stack \in vused[p] \ S
    BY <2>1
  <2>5. pte' = [pte EXCEPT ![p] = [v \in Page |-> IF v \in S THEN NULL ELSE pte[p][v]]]
    BY <1>3, <1>5
  <2>6. S \subseteq vused[p]
    OBVIOUS
  <2> HIDE DEF S
  <2>. QED  BY <1>3, <1>6, <2>2, <2>3, <2>4, <2>5, <2>6, GivePages
<1> HIDE DEF A2
<1>8. Kept
  <2>1. p \notin alive'
    BY <1>3
  <2>. QED  BY <1>3, <2>1, KeptOne
<1>9. IInv'
  BY <1>3, <1>4, <1>6, <1>7, OneProcess
<1>. QED  BY <1>8, <1>9

\* The calls that go wrong change nothing but fault.
LEMMA FailsStep ==
    ASSUME IInv, NEW kind \in {"full", "panic", "segment", "list", "heap"}, Fails(kind)
    PROVE  IInv' /\ Kept
<1>1. /\ fault' = kind /\ alive' = alive /\ pool' = pool /\ vused' = vused /\ pte' = pte
      /\ pde' = pde /\ arena' = arena /\ free' = free /\ live' = live /\ copied' = copied
  BY DEF Fails
<1>2. IInv'
  BY <1>1 DEF IInv, Dead
<1>3. Kept
  <2> SUFFICES ASSUME NEW q \in alive \cap alive', NEW b \in live[q] \cap live'[q]
               PROVE  /\ \A v \in Extent(q, b) : pte'[q][v] = pte[q][v]
                      /\ SameArena(arena[q][b[1]], arena'[q][b[1]])
    BY DEF Kept, SameArena
  <2>1. arena[q][b[1]] \in Arena
    BY PointerFacts DEF IInv, HeapsOf
  <2>. QED  BY <1>1, <2>1, SameArenaSame
<1>. QED  BY <1>2, <1>3

\* The first process has its stack and an empty heap.
LEMMA InitHolds ==
    ASSUME Init
    PROVE  IInv
<1>1. 0 \in Frame /\ Stack \in Page /\ First \in Proc /\ Page \in SUBSET Nat /\ NULL \notin Frame
  BY MemoryAssumption, Finite DEF Frame
<1>2. alive \subseteq Proc /\ fault = "no"
  BY <1>1 DEF Init
<1>3. FrameTypes(pool, vused, pte, pde)
  <2>1. {Stack} \subseteq Page /\ {Table(Stack)} \subseteq TablesOf(Page)
    BY <1>1 DEF TablesOf
  <2>2. pool \subseteq Frame /\ vused \in [Proc -> SUBSET Page]
    BY <1>1, <2>1 DEF Init
  <2>3. pte \in [Proc -> [Page -> Frame \cup {NULL}]]
    BY <1>1 DEF Init
  <2>4. pde \in [Proc -> SUBSET TablesOf(Page)]
    BY <1>1, <2>1 DEF Init
  <2>. QED  BY <2>2, <2>3, <2>4 DEF FrameTypes
<1>4. /\ \A p \in Proc : vused[p] = IF p = First THEN {Stack} ELSE {}
      /\ \A p \in Proc : \A v \in Page :
            pte[p][v] = IF p = First /\ v = Stack THEN 0 ELSE NULL
      /\ \A p \in Proc : pde[p] = IF p = First THEN {Table(Stack)} ELSE {}
      /\ alive = {First} /\ pool = {0}
  BY DEF Init
<1>5. SamePages(vused, pte) /\ HasStack(alive, vused) /\ OwnFrames(vused, pte)
  BY <1>1, <1>4 DEF SamePages, HasStack, OwnFrames
<1>6. HasTables(vused, pde)
  BY <1>4 DEF HasTables, TablesOf
<1>7. PoolIs(pool, vused, pte)
  <2>1. pte[First][Stack] = 0 /\ Stack \in vused[First]
    BY <1>1, <1>4
  <2>2. ASSUME NEW p \in Proc, NEW v \in vused[p] PROVE pte[p][v] = 0
    BY <1>1, <1>4
  <2>. QED  BY <1>1, <1>4, <2>1, <2>2 DEF PoolIs
<1>8. HeapsOf(vused, arena, free, live, copied)
  <2>1. ASSUME NEW p \in Proc
        PROVE  Heap(p, vused[p], [v \in Page |-> NoArena], EmptyLists, {}, {})
    BY <1>3, HeapNone DEF FrameTypes
  <2>2. HeapTypes({}, [v \in Page |-> NoArena], EmptyLists, {}, {})
    BY HeapNone DEF Heap
  <2>3. /\ arena \in [Proc -> [Page -> Arena]] /\ free \in [Proc -> [Class -> Seq(Pointer)]]
        /\ live \in [Proc -> SUBSET Pointer] /\ copied \in [Proc -> SUBSET Page]
    BY <2>2 DEF Init, HeapTypes
  <2>4. \A p \in Proc : /\ arena[p] = [v \in Page |-> NoArena] /\ free[p] = EmptyLists
                        /\ live[p] = {} /\ copied[p] = {}
    BY DEF Init
  <2>. QED  BY <1>3, <2>1, <2>3, <2>4 DEF HeapsOf, FrameTypes
<1>9. Dead
  BY <1>4 DEF Dead
<1>. QED  BY <1>2, <1>3, <1>5, <1>6, <1>7, <1>8, <1>9 DEF IInv, FramesOf

\* Every step keeps the invariant and what is held.
LEMMA NextStep ==
    ASSUME IInv, Next
    PROVE  IInv' /\ Kept
<1>1. PICK p \in Proc :
         \/ \E size \in Size : \/ MallocLarge(p, size) \/ MallocBlock(p, size)
                               \/ MallocArena(p, size) \/ MallocFull(p, size)
         \/ \E b \in live[p] : \/ FreeLarge(p, b) \/ FreeBlock(p, b) \/ FreeArena(p, b)
                               \/ FreeAssert(p, b) \/ FreeForeign(p, b)
         \/ \E q \in Proc : Fork(p, q) \/ ForkFull(p, q)
         \/ \E s \in Segment : Execv(p, s) \/ ExecvFails(p, s)
         \/ Exit(p)
  BY DEF Next
<1>2. ASSUME NEW size \in Size, MallocLarge(p, size) PROVE IInv' /\ Kept
  BY <1>2, MallocLargeStep
<1>3. ASSUME NEW size \in Size, MallocBlock(p, size) PROVE IInv' /\ Kept
  BY <1>3, MallocBlockStep
<1>4. ASSUME NEW size \in Size, MallocArena(p, size) PROVE IInv' /\ Kept
  BY <1>4, MallocArenaStep
<1>5. ASSUME NEW size \in Size, MallocFull(p, size) PROVE IInv' /\ Kept
  <2>1. Fails("full")
    BY <1>5 DEF MallocFull
  <2>. QED  BY <2>1, FailsStep
<1>6. ASSUME NEW b \in live[p], FreeLarge(p, b) PROVE IInv' /\ Kept
  BY <1>6, FreeLargeStep
<1>7. ASSUME NEW b \in live[p], FreeBlock(p, b) PROVE IInv' /\ Kept
  BY <1>7, FreeBlockStep
<1>8. ASSUME NEW b \in live[p], FreeArena(p, b) PROVE IInv' /\ Kept
  BY <1>8, FreeArenaStep
<1>9. ASSUME NEW b \in live[p], FreeAssert(p, b) \/ FreeForeign(p, b) PROVE IInv' /\ Kept
  <2>1. Fails("panic") \/ Fails("list")
    BY <1>9 DEF FreeAssert, FreeForeign
  <2>. QED  BY <2>1, FailsStep
<1>10. ASSUME NEW q \in Proc, Fork(p, q) PROVE IInv' /\ Kept
  BY <1>10, ForkStep
<1>11. ASSUME NEW q \in Proc, ForkFull(p, q) PROVE IInv' /\ Kept
  <2>1. Fails("full")
    BY <1>11 DEF ForkFull
  <2>. QED  BY <2>1, FailsStep
<1>12. ASSUME NEW s \in Segment, Execv(p, s) PROVE IInv' /\ Kept
  BY <1>12, ExecvStep
<1>13. ASSUME NEW s \in Segment, ExecvFails(p, s) PROVE IInv' /\ Kept
  <2>1. Fails("full") \/ Fails("segment") \/ Fails("heap")
    BY <1>13 DEF ExecvFails
  <2>. QED  BY <2>1, FailsStep
<1>14. CASE Exit(p)
  BY <1>14, ExitStep
<1>. QED  BY <1>1, <1>2, <1>3, <1>4, <1>5, <1>6, <1>7, <1>8, <1>9, <1>10, <1>11, <1>12, <1>13, <1>14

\* So does a step that changes nothing.
LEMMA Stutter ==
    ASSUME IInv, UNCHANGED vars
    PROVE  IInv'
BY DEF vars, IInv, Dead

\* The inductive invariant holds always.
LEMMA Inductive == Spec => []IInv
<1>1. Init => IInv
  BY InitHolds
<1>2. IInv /\ [Next]_vars => IInv'
  BY NextStep, Stutter
<1>. QED  BY <1>1, <1>2, PTL DEF Spec

\* It implies what the run checks,
LEMMA InvFromIInv == IInv => MemoryInv
BY IInvTypes, IInvBlocks DEF MemoryInv

\* bitmap_scan finds what it should in every map that the calls make.
LEMMA ScanFromIInv == IInv => ScanExact
<1> SUFFICES ASSUME IInv PROVE ScanExact
  OBVIOUS
<1> DEFINE len == Stack + 1
<1>1. Stack \in Nat /\ len \in Nat \ {0} /\ len % ByteBits = 0 /\ len - 1 = Stack
  BY MemoryAssumption
<1>2. ASSUME NEW p \in alive, NEW cnt \in 1..Stack, NEW behind \in SUBSET {Stack + 1}, HasFree(p)
      PROVE  LET starts == {v \in 0..Stack - cnt : Run(v, cnt) \cap vused[p] = {}}
             IN  bitmap_scan(vused[p] \cup behind, Stack + 1, cnt) =
                    IF starts = {} THEN -1 ELSE Lowest(starts)
  <2> DEFINE used == vused[p] \cup behind
             starts == {v \in 0..Stack - cnt : Run(v, cnt) \cap vused[p] = {}}
  <2>1. p \in Proc /\ vused[p] \subseteq Page /\ Stack \in vused[p]
    BY DEF IInv, FramesOf, FrameTypes, HasStack
  <2>2. PICK f \in Page : f \notin vused[p]
    BY <1>2, <2>1 DEF HasFree
  <2>3. f \in (0..len - 1) \ used /\ len - 1 \in used /\ cnt \in Nat \ {0}
    BY <1>1, <2>1, <2>2 DEF Page
  <2>4. \A v \in 0..Stack - cnt : Run(v, cnt) \cap used = Run(v, cnt) \cap vused[p]
    BY <1>1 DEF Run
  <2>5. Starts(used, len, cnt) = starts
    BY <1>1, <2>4 DEF Starts
  <2> HIDE DEF used, starts
  <2>6. bitmap_scan(used, len, cnt) =
           IF Starts(used, len, cnt) = {} THEN -1 ELSE Lowest(Starts(used, len, cnt))
    <3> HIDE DEF len
    <3>. QED  BY <1>1, <2>3, ScanIs
  <2>7. bitmap_scan(used, len, cnt) = IF starts = {} THEN -1 ELSE Lowest(starts)
    BY <2>5, <2>6
  <2>. QED  BY <2>7 DEF used, starts
<1>3. ASSUME Unused # {} PROVE bitmap_scan(pool, Frames, 1) = Nth(0)
  <2> DEFINE f == FirstFree(pool, Frames)
  <2>1. Frames \in Nat /\ Frames % ByteBits = 0 /\ Unused = (0..Frames - 1) \ pool
    BY MemoryAssumption DEF Unused, Frame
  <2>2. f \in Unused /\ \A k \in Unused : f <= k
    BY <1>3, <2>1, FirstFreeIs
  <2>3. bitmap_scan(pool, Frames, 1) = f
    BY DEF bitmap_scan
  <2> HIDE DEF f
  <2>4. Unused \in SUBSET Nat /\ IsFiniteSet(Unused)
    <3>1. Unused \in SUBSET Frame
      BY DEF Unused
    <3>. QED  BY <3>1, Finite, FS_Subset
  <2>5. Rank(Unused, f) = 0
    <3>1. ASSUME NEW m \in Unused, m < f PROVE FALSE
      <4>1. f <= m /\ m \in Nat /\ f \in Nat
        BY <2>2, <2>4
      <4>. QED  BY <3>1, <4>1
    <3>2. {m \in Unused : m < f} = {}
      BY <3>1
    <3>. QED  BY <3>2, FS_EmptySet DEF Rank
  <2>6. NthOf(Unused, Rank(Unused, f)) = f
    BY <2>2, <2>4, NthFacts
  <2>. QED  BY <2>3, <2>5, <2>6 DEF Nth
<1>. QED  BY <1>2, <1>3 DEF ScanExact

\* The pointers of a process stand for different memory.
Disjoint ==
    \A p \in Proc : \A b, x \in live[p] :
        b # x => \/ Extent(p, b) \cap Extent(p, x) = {}
                 \/ x[1] = b[1] /\ ~arena[p][b[1]].large

\* It implies that no two pointers that are held overlap.
LEMMA DisjointFromIInv == IInv => Disjoint
<1> SUFFICES ASSUME IInv, NEW p \in Proc, NEW b \in live[p], NEW x \in live[p], b # x
             PROVE  \/ Extent(p, b) \cap Extent(p, x) = {}
                    \/ x[1] = b[1] /\ ~arena[p][b[1]].large
  BY DEF Disjoint
<1>1. Extent(p, b) = Span(arena[p], b) /\ Extent(p, x) = Span(arena[p], x)
  BY Zenon DEF Extent, Span
<1>2. HeldBlock(arena[p], b) => ~arena[p][b[1]].large
  BY Zenon DEF HeldBlock
<1>3. \/ Span(arena[p], b) \cap Span(arena[p], x) = {}
      \/ x[1] = b[1] /\ HeldBlock(arena[p], b)
  BY Stays, Apart
<1>. QED  BY <1>1, <1>2, <1>3, Zenon

\* The action of LiveKept
KeepsLive ==
    \A p \in alive \cap alive' : \A b \in live[p] \cap live'[p] :
        /\ \A v \in Extent(p, b) : pte'[p][v] = pte[p][v]
        /\ arena'[p][b[1]] = [arena[p][b[1]] EXCEPT !.cnt = arena'[p][b[1]].cnt]
        /\ \A x \in live'[p] \ {b} :
              \/ Extent(p, b)' \cap Extent(p, x)' = {}
              \/ x[1] = b[1] /\ ~arena'[p][b[1]].large

\* The step of LiveKept: kept memory stays, new memory is apart from it.
LEMMA KeepsLiveStep ==
    ASSUME IInv, Disjoint', Next
    PROVE  KeepsLive
<1>1. Kept
  BY NextStep
<1>2. ASSUME NEW p \in alive \cap alive', NEW b \in live[p] \cap live'[p],
             NEW x \in live'[p] \ {b}
      PROVE  \/ Extent(p, b)' \cap Extent(p, x)' = {}
             \/ x[1] = b[1] /\ ~arena'[p][b[1]].large
  <2>1. p \in Proc /\ b \in live'[p] /\ x \in live'[p] /\ b # x
    BY DEF IInv
  <2>. QED  BY <2>1, Zenon DEF Disjoint
<1>. QED  BY <1>1, <1>2, Zenon DEF Kept, KeepsLive

-----------------------------------------------------------------------------
\* Bitmaps, page tables, frames and heaps agree for any number of processes,
\* pages, frames and block sizes: no frame is lost or mapped twice, and the free
\* lists are exactly the free blocks of arenas of their own process.
THEOREM MemoryConsistent == Spec => []MemoryInv
BY Inductive, InvFromIInv, PTL

\* bitmap_scan returns the lowest run of free pages or -1, for maps of any length:
\* its bytewise search for a start, its count and the bit that it tests too many.
THEOREM ScansExact == Spec => []ScanExact
BY Inductive, ScanFromIInv, PTL

\* What a process holds keeps its frames and its arena through every step of any
\* process, and what is handed out next is other memory.
THEOREM LiveMemoryKept == Spec => LiveKept
<1>1. IInv /\ Disjoint' /\ [Next]_vars => [KeepsLive]_vars
  BY KeepsLiveStep
<1>2. Spec => [][KeepsLive]_vars
  BY <1>1, Inductive, DisjointFromIInv, PTL DEF Spec
<1>. QED  BY <1>2 DEF LiveKept, KeepsLive
=============================================================================
