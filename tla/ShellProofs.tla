----------------------------- MODULE ShellProofs -----------------------------
(***************************************************************************)
(* Proofs about Shell, for lines, trees and paths of any size.             *)
(***************************************************************************)
EXTENDS Shell, TLAPS, WellFoundedInduction, FiniteSetTheorems, SequenceTheorems

\* A set of numbers that is not empty has a least member.
LEMMA Least ==
    ASSUME NEW S \in SUBSET Nat, S # {}
    PROVE  \E m \in S : \A k \in S : m <= k
<1> DEFINE R == OpToRel(<, Nat)
<1>1. IsWellFoundedOn(R, Nat)
  BY NatLessThanWellFounded
<1>2. ASSUME NEW x \in Nat, NEW y \in Nat, x < y PROVE <<x, y>> \in R
  BY <1>2 DEF OpToRel
<1> HIDE DEF R
<1>3. S \subseteq Nat
  OBVIOUS
<1>4. \E x \in S : \A y \in S : ~(<<y, x>> \in R)
  BY <1>1, <1>3, WFMin
<1>5. PICK x \in S : \A y \in S : ~(<<y, x>> \in R)
  BY <1>4
<1>6. \A k \in S : ~(k < x)
  BY <1>2, <1>3, <1>5
<1>7. \A k \in S : x <= k
  BY <1>3, <1>6
<1>. QED  BY <1>7

\* Min and Max of the library, for sets of numbers
LEMMA MinIs ==
    ASSUME NEW S \in SUBSET Nat, NEW n \in S, \A k \in S : n <= k
    PROVE  Min(S) = n
<1>1. Min(S) \in S /\ \A k \in S : Min(S) <= k
  BY DEF Min
<1>2. Min(S) <= n /\ n <= Min(S) /\ Min(S) \in Nat /\ n \in Nat
  BY <1>1
<1>. QED  BY <1>2

\* The greatest member is the one that is at least every other.
LEMMA MaxIs ==
    ASSUME NEW S \in SUBSET Nat, NEW n \in S, \A k \in S : k <= n
    PROVE  Max(S) = n
<1>1. Max(S) \in S /\ \A k \in S : k <= Max(S)
  BY DEF Max
<1>2. Max(S) <= n /\ n <= Max(S) /\ Max(S) \in Nat /\ n \in Nat
  BY <1>1
<1>. QED  BY <1>2

\* Min of a set of numbers is in it, and at most every member.
LEMMA MinIn ==
    ASSUME NEW S \in SUBSET Nat, S # {}
    PROVE  Min(S) \in S /\ \A k \in S : Min(S) <= k
<1>1. \E m \in S : \A k \in S : m <= k
  BY Least
<1>. QED  BY <1>1 DEF Min

-----------------------------------------------------------------------------
(***************************************************************************)
(* Loops.  A loop over the places 1..N of a text starts with base and goes *)
(* from place to place by Step; it is the recursive function that does so. *)
(***************************************************************************)
IsLoop(f, N, base, Step) ==
    /\ f[0] = base
    /\ \A n \in 1..N : f[n] = Step[<<f[n - 1], n>>]

\* The longest loop that exists is as long as the text: if not, it could go on.
LEMMA LoopExists ==
    ASSUME NEW S, NEW base \in S, NEW N \in Nat, NEW Step \in [S \X (1..N) -> S]
    PROVE  \E f \in [0..N -> S] : IsLoop(f, N, base, Step)
<1> DEFINE P(m) == \E f \in [0..m -> S] : IsLoop(f, m, base, Step)
           Bad == {m \in 0..N : ~P(m)}
<1>1. P(0)
  <2> DEFINE f == [n \in 0..0 |-> base]
  <2>1. f \in [0..0 -> S] /\ IsLoop(f, 0, base, Step)
    BY DEF IsLoop
  <2>. QED  BY <2>1
<1>2. ASSUME NEW m \in 1..N, P(m - 1) PROVE P(m)
  <2>1. PICK f \in [0..m - 1 -> S] : IsLoop(f, m - 1, base, Step)
    BY <1>2
  <2> DEFINE g == [n \in 0..m |-> IF n = m THEN Step[<<f[m - 1], m>>] ELSE f[n]]
  <2>2. f[m - 1] \in S /\ Step[<<f[m - 1], m>>] \in S
    <3>1. m - 1 \in 0..m - 1
      OBVIOUS
    <3>2. f[m - 1] \in S
      BY <3>1
    <3>3. <<f[m - 1], m>> \in S \X (1..N)
      BY <3>2
    <3>. QED  BY <3>2, <3>3
  <2>3. \A n \in 0..m : n # m => n \in 0..m - 1
    OBVIOUS
  <2>4. g \in [0..m -> S]
    BY <2>2, <2>3
  <2>5. g[0] = base
    BY <2>1 DEF IsLoop
  <2>6. ASSUME NEW n \in 1..m PROVE g[n] = Step[<<g[n - 1], n>>]
    <3>1. n - 1 \in 0..m /\ n \in 0..m /\ n - 1 # m
      OBVIOUS
    <3>2. g[n - 1] = f[n - 1]
      BY <3>1
    <3>3. CASE n = m
      BY <3>1, <3>2, <3>3
    <3>4. CASE n # m
      <4>1. n \in 1..m - 1
        BY <3>4
      <4>2. f[n] = Step[<<f[n - 1], n>>]
        BY <2>1, <4>1 DEF IsLoop
      <4>. QED  BY <3>1, <3>2, <3>4, <4>2
    <3>. QED  BY <3>3, <3>4
  <2> HIDE DEF g
  <2>7. IsLoop(g, m, base, Step)
    BY <2>5, <2>6 DEF IsLoop
  <2>. QED  BY <2>4, <2>7
<1> HIDE DEF P
<1>3. Bad = {}
  <2> SUFFICES ASSUME Bad # {} PROVE FALSE
    OBVIOUS
  <2>1. Bad \in SUBSET Nat
    OBVIOUS
  <2>2. PICK m \in Bad : \A k \in Bad : m <= k
    BY <2>1, Least
  <2>3. m \in 0..N /\ ~P(m)
    OBVIOUS
  <2>4. m # 0
    BY <1>1, <2>3
  <2>5. m \in 1..N /\ m - 1 \in 0..N /\ ~(m <= m - 1)
    BY <2>3, <2>4
  <2>6. m - 1 \notin Bad
    BY <2>2, <2>5
  <2>7. P(m - 1)
    BY <2>5, <2>6
  <2>. QED  BY <1>2, <2>3, <2>5, <2>7
<1>4. P(N)
  BY <1>3
<1>. QED  BY <1>4 DEF P

\* Two loops that begin alike and do the same at every place are the same.
Alike(f, g, N) == f[0] = g[0] /\ \A n \in 1..N : f[n - 1] = g[n - 1] => f[n] = g[n]

\* By the first place where they differ.
LEMMA LoopUnique ==
    ASSUME NEW N \in Nat, NEW f, NEW g, Alike(f, g, N)
    PROVE  \A n \in 0..N : f[n] = g[n]
<1> DEFINE Bad == {n \in 0..N : f[n] # g[n]}
<1> SUFFICES ASSUME Bad # {} PROVE FALSE
  OBVIOUS
<1>1. Bad \in SUBSET Nat
  OBVIOUS
<1>2. PICK m \in Bad : \A k \in Bad : m <= k
  BY <1>1, Least
<1>3. m \in 1..N /\ m - 1 \in 0..N /\ ~(m <= m - 1) /\ f[m] # g[m]
  BY DEF Alike
<1>4. m - 1 \notin Bad
  BY <1>2, <1>3
<1>. QED  BY <1>3, <1>4 DEF Alike

-----------------------------------------------------------------------------
(***************************************************************************)
(* Paths                                                                   *)
(***************************************************************************)
Tok == Name \cup {"/", ".", ".."}

\* The beginnings of a sequence
LEMMA PrefixFacts ==
    ASSUME NEW S, NEW p \in Seq(S), NEW k \in 0..Len(p)
    PROVE  /\ SubSeq(p, 1, k) \in Seq(S) /\ Len(SubSeq(p, 1, k)) = k
           /\ \A i \in 1..k : SubSeq(p, 1, k)[i] = p[i]
<1>1. 1 \in Int /\ k \in Int /\ k \in Nat /\ Len(p) \in Nat
  OBVIOUS
<1>2. \A i \in 1..k : p[i] \in S
  BY <1>1
<1>3. /\ SubSeq(p, 1, k) \in Seq(S)
      /\ Len(SubSeq(p, 1, k)) = IF 1 <= k THEN k - 1 + 1 ELSE 0
      /\ \A i \in 1..k - 1 + 1 : SubSeq(p, 1, k)[i] = p[1 + i - 1]
  BY <1>1, <1>2, SubSeqProperties
<1>. QED  BY <1>1, <1>3

\* Sequences are equal when they are equal at every place.
LEMMA SameSeq ==
    ASSUME NEW S, NEW p \in Seq(S), NEW q \in Seq(S), Len(p) = Len(q),
           \A i \in 1..Len(p) : p[i] = q[i]
    PROVE  p = q
OBVIOUS

\* A beginning is the one before it and one element more.
LEMMA PrefixGrows ==
    ASSUME NEW S, NEW p \in Seq(S), NEW k \in 1..Len(p)
    PROVE  /\ SubSeq(p, 1, k) = Append(SubSeq(p, 1, k - 1), p[k])
           /\ SubSeq(p, 1, 0) = <<>> /\ SubSeq(p, 1, Len(p)) = p
<1> DEFINE a == SubSeq(p, 1, k)
           b == SubSeq(p, 1, k - 1)
<1>1. k \in 0..Len(p) /\ k - 1 \in 0..Len(p) /\ p[k] \in S /\ k \in Nat
  OBVIOUS
<1>2. a \in Seq(S) /\ Len(a) = k /\ \A i \in 1..k : a[i] = p[i]
  BY <1>1, PrefixFacts
<1>3. b \in Seq(S) /\ Len(b) = k - 1 /\ \A i \in 1..k - 1 : b[i] = p[i]
  BY <1>1, PrefixFacts
<1>4. SubSeq(p, 1, 0) = <<>>
  BY SubSeqEmpty
<1>5. SubSeq(p, 1, Len(p)) = p
  BY SubSeqFull
<1> HIDE DEF a, b
<1>6. a = Append(b, p[k])
  <2>1. Append(b, p[k]) \in Seq(S) /\ Len(Append(b, p[k])) = k
    BY <1>1, <1>3
  <2>2. \A i \in 1..k : a[i] = Append(b, p[k])[i]
    BY <1>1, <1>2, <1>3
  <2>. QED  BY <1>2, <2>1, <2>2, SameSeq
<1>. QED  BY <1>4, <1>5, <1>6 DEF a, b

\* All but the last element
LEMMA FrontFacts ==
    ASSUME NEW S, NEW p \in Seq(S), p # <<>>
    PROVE  /\ Front(p) \in Seq(S) /\ Len(Front(p)) = Len(p) - 1
           /\ \A i \in 1..Len(p) - 1 : Front(p)[i] = p[i]
           /\ p = Append(Front(p), p[Len(p)])
<1>1. Len(p) \in Nat /\ Len(p) >= 1
  OBVIOUS
<1>2. Len(p) \in 1..Len(p) /\ Len(p) - 1 \in 0..Len(p)
  BY <1>1
<1>3. SubSeq(p, 1, Len(p)) = Append(SubSeq(p, 1, Len(p) - 1), p[Len(p)]) /\ SubSeq(p, 1, Len(p)) = p
  BY <1>2, PrefixGrows
<1>. QED  BY <1>2, <1>3, PrefixFacts DEF Front

\* Front undoes Append.
LEMMA FrontAppend ==
    ASSUME NEW S, NEW p \in Seq(S), NEW x \in S
    PROVE  Front(Append(p, x)) = p /\ Append(p, x) # <<>>
<1> DEFINE q == Append(p, x)
<1>1. q \in Seq(S) /\ q # <<>> /\ Len(q) = Len(p) + 1 /\ \A i \in 1..Len(p) : q[i] = p[i]
  BY AppendProperties
<1> HIDE DEF q
<1>2. Front(q) \in Seq(S) /\ Len(Front(q)) = Len(p) /\ \A i \in 1..Len(p) : Front(q)[i] = p[i]
  BY <1>1, FrontFacts
<1>. QED  BY <1>1, <1>2, SameSeq DEF q

\* What a name of a path means, from the directory p: the step of Resolve
Turn(p, n) == IF n \in {"/", "."} THEN p
              ELSE IF n # ".." THEN Append(p, n)
              ELSE IF p = <<>> THEN <<>> ELSE Front(p)

\* A name leads from a path to a path.
LEMMA TurnType ==
    ASSUME NEW p \in Seq(Name), NEW n \in Tok
    PROVE  Turn(p, n) \in Seq(Name)
<1>1. p # <<>> => Front(p) \in Seq(Name)
  BY FrontFacts
<1>2. n \notin {"/", ".", ".."} => Append(p, n) \in Seq(Name)
  BY DEF Tok
<1>. QED  BY <1>1, <1>2 DEF Turn

\* f is where the beginnings of a text lead to from the directory start.
IsNames(f, start, text) ==
    /\ f \in [0..Len(text) -> Seq(Name)] /\ f[0] = start
    /\ \A n \in 1..Len(text) : f[n] = Turn(f[n - 1], text[n])

\* The paths that the beginnings of a text mean
LEMMA NamesExist ==
    ASSUME NEW start \in Seq(Name), NEW text \in Seq(Tok)
    PROVE  \E f : IsNames(f, start, text)
<1> DEFINE N == Len(text)
           Step == [x \in Seq(Name) \X (1..N) |-> Turn(x[1], text[x[2]])]
<1>1. N \in Nat /\ \A n \in 1..N : text[n] \in Tok
  OBVIOUS
<1>2. Step \in [Seq(Name) \X (1..N) -> Seq(Name)]
  BY <1>1, TurnType
<1>3. \A p \in Seq(Name), n \in 1..N : Step[<<p, n>>] = Turn(p, text[n])
  OBVIOUS
<1> HIDE DEF N, Step
<1>4. PICK f \in [0..N -> Seq(Name)] : IsLoop(f, N, start, Step)
  BY <1>1, <1>2, LoopExists
<1>5. f[0] = start
  BY <1>4 DEF IsLoop
<1>6. ASSUME NEW n \in 1..N PROVE f[n] = Turn(f[n - 1], text[n])
  <2>1. n - 1 \in 0..N
    BY <1>1
  <2>2. f[n - 1] \in Seq(Name)
    BY <2>1
  <2>3. f[n] = Step[<<f[n - 1], n>>]
    BY <1>4 DEF IsLoop
  <2>. QED  BY <1>3, <2>2, <2>3
<1>7. IsNames(f, start, text)
  BY <1>4, <1>5, <1>6 DEF IsNames, N
<1>. QED  BY <1>7

\* They are given by where the text starts.
LEMMA NamesUnique ==
    ASSUME NEW start, NEW text \in Seq(Tok), NEW f, NEW g,
           IsNames(f, start, text), IsNames(g, start, text)
    PROVE  \A n \in 0..Len(text) : f[n] = g[n]
<1>1. Len(text) \in Nat /\ f[0] = g[0]
  BY DEF IsNames
<1>2. \A n \in 1..Len(text) : f[n - 1] = g[n - 1] => f[n] = g[n]
  BY DEF IsNames
<1>3. Alike(f, g, Len(text))
  BY <1>1, <1>2 DEF Alike
<1>. QED  BY <1>1, <1>3, LoopUnique

\* Resolve follows the names of its argument, and a beginning of the argument leads
\* to where the whole one has come by then.
LEMMA ResolveIs ==
    ASSUME NEW arg \in Seq(Tok), NEW f,
           IsNames(f, IF arg[1] = "/" THEN <<>> ELSE cwd, arg)
    PROVE  Resolve(arg) = f[Len(arg)]
<1> DEFINE N == Len(arg)
           Body(h) == [n \in 0..N |->
                         IF n = 0 THEN IF arg[1] = "/" THEN <<>> ELSE cwd
                         ELSE IF arg[n] \in {"/", "."} THEN h[n - 1]
                         ELSE IF arg[n] # ".." THEN Append(h[n - 1], arg[n])
                         ELSE IF h[n - 1] = <<>> THEN <<>> ELSE Front(h[n - 1])]
           name == CHOOSE h : h = Body(h)
<1>1. Resolve(arg) = name[N]
  BY DEF Resolve
<1>2. N \in Nat /\ f \in [0..N -> Seq(Name)]
  BY DEF IsNames
<1>3. ASSUME NEW n \in 0..N PROVE f[n] = Body(f)[n]
  <2>1. CASE n = 0
    BY <1>2, <2>1 DEF IsNames
  <2>2. CASE n # 0
    <3>1. n \in 1..N
      BY <1>2, <2>2
    <3>2. f[n] = Turn(f[n - 1], arg[n])
      BY <3>1 DEF IsNames
    <3>. QED  BY <2>2, <3>2 DEF Turn
  <2>. QED  BY <2>1, <2>2
<1>4. f = Body(f)
  BY <1>2, <1>3
<1>5. name = Body(name)
  BY <1>4
<1> HIDE DEF name
<1>6. name[0] = f[0]
  BY <1>2, <1>3, <1>5
<1>7. ASSUME NEW n \in 1..N, name[n - 1] = f[n - 1] PROVE name[n] = f[n]
  <2>1. n \in 0..N /\ n # 0
    BY <1>2
  <2>2. Body(name)[n] = Body(f)[n]
    BY <1>7, <2>1
  <2> HIDE DEF Body
  <2>. QED  BY <1>3, <1>5, <2>1, <2>2
<1> HIDE DEF Body, N
<1>8. Alike(name, f, N)
  BY <1>6, <1>7 DEF Alike
<1>9. \A n \in 0..N : name[n] = f[n]
  BY <1>2, <1>8, LoopUnique
<1>. QED  BY <1>1, <1>2, <1>9 DEF N

\* The text of a path
LEMMA SpellFacts ==
    ASSUME NEW p \in Seq(Name)
    PROVE  /\ Spell(p) \in Seq(Tok)
           /\ p = <<>> => Spell(p) = <<"/">>
           /\ p # <<>> => /\ Len(Spell(p)) = 2 * Len(p) /\ Len(p) > 0
                          /\ \A i \in 1..2 * Len(p) :
                                Spell(p)[i] = IF i % 2 = 1 THEN "/" ELSE p[i \div 2]
<1>1. CASE p = <<>>
  BY <1>1 DEF Spell, Tok
<1>2. CASE p # <<>>
  <2> DEFINE N == 2 * Len(p)
             e == [i \in 1..N |-> IF i % 2 = 1 THEN "/" ELSE p[i \div 2]]
  <2>1. N \in Nat /\ Len(p) > 0
    BY <1>2
  <2>2. ASSUME NEW i \in 1..N PROVE (IF i % 2 = 1 THEN "/" ELSE p[i \div 2]) \in Tok
    <3>1. i % 2 # 1 => i \div 2 \in 1..Len(p)
      OBVIOUS
    <3>. QED  BY <3>1 DEF Tok
  <2>3. e \in [1..N -> Tok]
    BY <2>2
  <2>4. e \in Seq(Tok) /\ Len(e) = N
    BY <2>1, <2>3
  <2>5. Spell(p) = e
    BY <1>2 DEF Spell
  <2>. QED  BY <1>2, <2>1, <2>4, <2>5
<1>. QED  BY <1>1, <1>2

\* Only the root is spelled "/", and no other spelling ends in "/".
LEMMA SpellRoot ==
    ASSUME NEW p \in Seq(Name)
    PROVE  /\ (Spell(p) = <<"/">>) = (p = <<>>)
           /\ Last(Spell(p)) = "/" <=> p = <<>>
<1>1. p = <<>> => Spell(p) = <<"/">> /\ Last(Spell(p)) = "/"
  <2>1. Len(<<"/">>) = 1 /\ <<"/">>[1] = "/"
    OBVIOUS
  <2>. QED  BY <2>1, SpellFacts DEF Last
<1>2. ASSUME p # <<>> PROVE Spell(p) # <<"/">> /\ Last(Spell(p)) # "/"
  <2>1. /\ Len(Spell(p)) = 2 * Len(p) /\ Len(p) > 0 /\ Len(p) \in Nat
        /\ \A i \in 1..2 * Len(p) : Spell(p)[i] = IF i % 2 = 1 THEN "/" ELSE p[i \div 2]
    BY <1>2, SpellFacts
  <2>2. 2 * Len(p) \in 1..2 * Len(p) /\ (2 * Len(p)) % 2 = 0 /\ (2 * Len(p)) \div 2 = Len(p)
    BY <2>1
  <2>3. Spell(p)[Len(Spell(p))] = p[Len(p)]
    BY <2>1, <2>2
  <2>4. p[Len(p)] \in Name
    BY <2>1
  <2>5. p[Len(p)] # "/"
    BY <2>4, ShellAssumption
  <2>6. Len(<<"/">>) = 1 /\ 2 * Len(p) # 1
    BY <2>1
  <2>. QED  BY <2>1, <2>3, <2>5, <2>6 DEF Last
<1>. QED  BY <1>1, <1>2

\* A name that follows is put behind the text, and ".." takes the last name away.
LEMMA SpellAppend ==
    ASSUME NEW p \in Seq(Name), NEW n \in Name
    PROVE  Spell(Append(p, n)) = IF p = <<>> THEN Append(<<"/">>, n) ELSE Spell(p) \o <<"/", n>>
<1> DEFINE q == Append(p, n)
           N == Len(p)
<1>1. q \in Seq(Name) /\ q # <<>> /\ Len(q) = N + 1 /\ (\A i \in 1..N : q[i] = p[i]) /\ q[N + 1] = n
  BY AppendProperties
<1> HIDE DEF q
<1>2. /\ Spell(q) \in Seq(Tok) /\ Len(Spell(q)) = 2 * N + 2
      /\ \A i \in 1..2 * N + 2 : Spell(q)[i] = IF i % 2 = 1 THEN "/" ELSE q[i \div 2]
  <2>1. N \in Nat
    OBVIOUS
  <2>2. 2 * Len(q) = 2 * N + 2
    BY <1>1, <2>1
  <2>3. /\ Spell(q) \in Seq(Tok) /\ Len(Spell(q)) = 2 * Len(q)
        /\ \A i \in 1..2 * Len(q) : Spell(q)[i] = IF i % 2 = 1 THEN "/" ELSE q[i \div 2]
    BY <1>1, SpellFacts
  <2>. QED  BY <2>2, <2>3
<1>3. N \in Nat /\ n \in Tok /\ "/" \in Tok
  BY DEF Tok
<1>4. CASE p = <<>>
  <2>1. N = 0 /\ 1 % 2 = 1 /\ 2 % 2 = 0 /\ 2 \div 2 = 1
    BY <1>4
  <2>2. Len(Spell(q)) = 2 /\ Spell(q)[1] = "/" /\ Spell(q)[2] = n
    BY <1>1, <1>2, <2>1
  <2>3. /\ Append(<<"/">>, n) \in Seq(Tok) /\ Len(Append(<<"/">>, n)) = 2
        /\ Append(<<"/">>, n)[1] = "/" /\ Append(<<"/">>, n)[2] = n
    BY <1>3
  <2>4. Spell(q) = Append(<<"/">>, n)
    <3>1. \A i \in 1..2 : Spell(q)[i] = Append(<<"/">>, n)[i]
      BY <2>2, <2>3
    <3>. QED  BY <1>2, <2>2, <2>3, <3>1, SameSeq
  <2>. QED  BY <1>4, <2>4 DEF q
<1>5. CASE p # <<>>
  <2> DEFINE a == Spell(p)
             b == <<"/", n>>
             r == a \o b
  <2>1. /\ a \in Seq(Tok) /\ Len(a) = 2 * N
        /\ \A i \in 1..2 * N : a[i] = IF i % 2 = 1 THEN "/" ELSE p[i \div 2]
    BY <1>5, SpellFacts
  <2>2. b \in Seq(Tok) /\ Len(b) = 2 /\ b[1] = "/" /\ b[2] = n
    BY <1>3
  <2> HIDE DEF a, b
  <2>3. /\ r \in Seq(Tok) /\ Len(r) = 2 * N + 2
        /\ \A i \in 1..2 * N + 2 : r[i] = IF i <= 2 * N THEN a[i] ELSE b[i - 2 * N]
    <3>1. /\ r \in Seq(Tok) /\ Len(r) = Len(a) + Len(b)
          /\ \A i \in 1..Len(a) + Len(b) : r[i] = IF i <= Len(a) THEN a[i] ELSE b[i - Len(a)]
      BY <2>1, <2>2, ConcatProperties
    <3>. QED  BY <2>1, <2>2, <3>1
  <2> HIDE DEF r
  <2>4. ASSUME NEW i \in 1..2 * N + 2 PROVE Spell(q)[i] = r[i]
    <3>1. CASE i <= 2 * N
      <4>1. i \in 1..2 * N /\ (i % 2 # 1 => i \div 2 \in 1..N)
        BY <1>3, <3>1
      <4>. QED  BY <1>1, <1>2, <2>1, <2>3, <3>1, <4>1
    <3>2. CASE i = 2 * N + 1
      <4>1. i % 2 = 1 /\ i - 2 * N = 1 /\ ~(i <= 2 * N)
        BY <1>3, <3>2
      <4>. QED  BY <1>2, <2>2, <2>3, <4>1
    <3>3. CASE i = 2 * N + 2
      <4>1. i % 2 = 0 /\ i \div 2 = N + 1 /\ i - 2 * N = 2 /\ ~(i <= 2 * N)
        BY <1>3, <3>3
      <4>. QED  BY <1>1, <1>2, <2>2, <2>3, <4>1
    <3>. QED  BY <1>3, <3>1, <3>2, <3>3
  <2>5. Spell(q) = r
    BY <1>2, <2>3, <2>4, SameSeq
  <2>. QED  BY <1>5, <2>5 DEF q, r, a, b
<1>. QED  BY <1>4, <1>5

\* The last "/" of a spelling is where that of the parent ends: wash_path at "..".
LEMMA SpellFront ==
    ASSUME NEW p \in Seq(Name), p # <<>>
    PROVE  LET slash == SelectLastInSeq(Spell(p), LAMBDA t : t = "/")
           IN  Spell(Front(p)) = SubSeq(Spell(p), 1, IF slash > 1 THEN slash - 1 ELSE 1)
<1> DEFINE N == Len(p)
           a == Spell(p)
           I == {i \in 1..Len(a) : a[i] = "/"}
           slash == SelectLastInSeq(Spell(p), LAMBDA t : t = "/")
<1>1. /\ a \in Seq(Tok) /\ Len(a) = 2 * N /\ N \in Nat /\ N > 0
      /\ \A i \in 1..2 * N : a[i] = IF i % 2 = 1 THEN "/" ELSE p[i \div 2]
  BY SpellFacts
<1>2. slash = IF I # {} THEN Max(I) ELSE 0
  BY DEF SelectLastInSeq
<1>3. 2 * N - 1 \in 1..2 * N /\ (2 * N - 1) % 2 = 1 /\ 2 * N \in 1..2 * N /\ (2 * N) % 2 = 0
      /\ (2 * N) \div 2 = N
  BY <1>1
<1>4. a[2 * N] # "/"
  <2>1. a[2 * N] = p[N] /\ p[N] \in Name
    BY <1>1, <1>3
  <2>. QED  BY <2>1, ShellAssumption
<1>5. 2 * N - 1 \in I
  BY <1>1, <1>3
<1>6. \A k \in I : k <= 2 * N - 1
  BY <1>1, <1>4
<1>7. I \in SUBSET Nat
  BY <1>1
<1> HIDE DEF a, I, slash
<1>8. slash = 2 * N - 1
  BY <1>2, <1>5, <1>6, <1>7, MaxIs
<1>9. /\ Front(p) \in Seq(Name) /\ Len(Front(p)) = N - 1
      /\ \A i \in 1..N - 1 : Front(p)[i] = p[i]
  BY FrontFacts
<1>10. CASE N = 1
  <2>1. Front(p) = <<>>
    BY <1>9, <1>10
  <2>2. Spell(Front(p)) = <<"/">>
    BY <2>1 DEF Spell
  <2>3. ~(slash > 1)
    BY <1>8, <1>10
  <2>4. 1 \in 0..Len(a) /\ 1 \in 1..2 * N /\ 1 % 2 = 1
    BY <1>1
  <2>5. SubSeq(a, 1, 1) \in Seq(Tok) /\ Len(SubSeq(a, 1, 1)) = 1 /\ SubSeq(a, 1, 1)[1] = a[1]
    BY <1>1, <2>4, PrefixFacts
  <2>6. a[1] = "/"
    BY <1>1, <2>4
  <2>7. <<"/">> \in Seq(Tok) /\ Len(<<"/">>) = 1 /\ <<"/">>[1] = "/"
    BY DEF Tok
  <2>8. SubSeq(a, 1, 1) = <<"/">>
    <3>1. \A i \in 1..1 : SubSeq(a, 1, 1)[i] = <<"/">>[i]
      BY <2>5, <2>6, <2>7
    <3>. QED  BY <2>5, <2>7, <3>1, SameSeq
  <2>. QED  BY <2>2, <2>3, <2>8 DEF a, slash
<1>11. CASE N # 1
  <2> DEFINE M == N - 1
             b == Spell(Front(p))
             c == SubSeq(a, 1, 2 * M)
  <2>1. Front(p) # <<>> /\ M \in Nat /\ M > 0
    BY <1>1, <1>9, <1>11
  <2>2. /\ b \in Seq(Tok) /\ Len(b) = 2 * M
        /\ \A i \in 1..2 * M : b[i] = IF i % 2 = 1 THEN "/" ELSE Front(p)[i \div 2]
    BY <1>9, <2>1, SpellFacts
  <2>3. slash > 1 /\ slash - 1 = 2 * M
    BY <1>8, <1>11
  <2>4. 2 * M \in 0..Len(a)
    BY <1>1, <2>1
  <2>5. c \in Seq(Tok) /\ Len(c) = 2 * M /\ \A i \in 1..2 * M : c[i] = a[i]
    BY <1>1, <2>4, PrefixFacts
  <2> HIDE DEF b, c
  <2>6. ASSUME NEW i \in 1..2 * M PROVE b[i] = c[i]
    <3>1. i \in 1..2 * N /\ (i % 2 # 1 => i \div 2 \in 1..N - 1)
      BY <1>1, <2>1
    <3>. QED  BY <1>1, <1>9, <2>2, <2>5, <3>1
  <2>7. b = c
    BY <2>2, <2>5, <2>6, SameSeq
  <2>. QED  BY <2>3, <2>7 DEF b, c, a, slash
<1>. QED  BY <1>10, <1>11

\* A name does to the text of a path what it means.
LEMMA WashTurns ==
    ASSUME NEW p \in Seq(Name), NEW n \in Tok
    PROVE  Wash(Spell(p), n) = Spell(Turn(p, n))
<1>1. CASE n \in {"/", "."}
  BY <1>1 DEF Wash, Turn
<1>2. CASE n = ".."
  <2>1. CASE p = <<>>
    <3>1. Spell(p) = <<"/">> /\ Turn(p, n) = <<>>
      BY <1>2, <2>1 DEF Spell, Turn
    <3> DEFINE I == {i \in 1..Len(<<"/">>) : <<"/">>[i] = "/"}
               slash == SelectLastInSeq(<<"/">>, LAMBDA t : t = "/")
    <3>2. I \in SUBSET Nat /\ 1 \in I /\ \A k \in I : k <= 1
      OBVIOUS
    <3>3. slash = IF I # {} THEN Max(I) ELSE 0
      BY DEF SelectLastInSeq
    <3> HIDE DEF I
    <3>4. slash = 1
      BY <3>2, <3>3, MaxIs
    <3>5. <<"/">> \in Seq(Tok) /\ 1 \in 1..Len(<<"/">>) /\ Len(<<"/">>) = 1
      BY DEF Tok
    <3>6. SubSeq(<<"/">>, 1, 1) = <<"/">>
      BY <3>5, PrefixGrows
    <3>7. Wash(<<"/">>, n) = SubSeq(<<"/">>, 1, IF slash > 1 THEN slash - 1 ELSE 1)
      BY <1>2 DEF Wash
    <3>. QED  BY <2>1, <3>1, <3>4, <3>6, <3>7
  <2>2. CASE p # <<>>
    <3>1. Turn(p, n) = Front(p)
      BY <1>2, <2>2 DEF Turn
    <3> DEFINE slash == SelectLastInSeq(Spell(p), LAMBDA t : t = "/")
    <3>2. Wash(Spell(p), n) = SubSeq(Spell(p), 1, IF slash > 1 THEN slash - 1 ELSE 1)
      BY <1>2 DEF Wash
    <3>. QED  BY <2>2, <3>1, <3>2, SpellFront
  <2>. QED  BY <2>1, <2>2
<1>3. CASE n \notin {"/", ".", ".."}
  <2>1. n \in Name /\ Turn(p, n) = Append(p, n)
    BY <1>3 DEF Tok, Turn
  <2>2. Wash(Spell(p), n) = IF Spell(p) = <<"/">> THEN Append(Spell(p), n) ELSE Spell(p) \o <<"/", n>>
    BY <1>3 DEF Wash
  <2>3. (Spell(p) = <<"/">>) = (p = <<>>)
    BY SpellRoot
  <2>. QED  BY <2>1, <2>2, <2>3, SpellAppend
<1>. QED  BY <1>1, <1>2, <1>3

\* wash_path writes the text of the path its argument means.
LEMMA WashIs ==
    ASSUME NEW text \in Seq(Tok), NEW f, IsNames(f, <<>>, text)
    PROVE  wash_path(text) = Spell(f[Len(text)])
<1> DEFINE N == Len(text)
           Body(h) == [n \in 0..N |-> IF n = 0 THEN <<"/">> ELSE Wash(h[n - 1], text[n])]
           new == CHOOSE h : h = Body(h)
           g == [n \in 0..N |-> Spell(f[n])]
<1>1. wash_path(text) = new[N]
  BY DEF wash_path
<1>2. N \in Nat /\ f \in [0..N -> Seq(Name)] /\ f[0] = <<>>
  BY DEF IsNames
<1>3. ASSUME NEW n \in 0..N PROVE g[n] = Body(g)[n]
  <2>1. CASE n = 0
    BY <1>2, <2>1 DEF Spell
  <2>2. CASE n # 0
    <3>1. n \in 1..N /\ n - 1 \in 0..N
      BY <1>2, <2>2
    <3>2. f[n] = Turn(f[n - 1], text[n])
      BY <3>1 DEF IsNames
    <3>3. f[n - 1] \in Seq(Name) /\ text[n] \in Tok
      BY <1>2, <3>1
    <3>4. Wash(Spell(f[n - 1]), text[n]) = Spell(f[n])
      BY <3>2, <3>3, WashTurns
    <3>. QED  BY <2>2, <3>1, <3>4
  <2>. QED  BY <2>1, <2>2
<1>4. g = Body(g)
  BY <1>3
<1>5. new = Body(new)
  BY <1>4
<1> HIDE DEF new
<1>6. new[0] = g[0]
  <2>1. 0 \in 0..N
    BY <1>2
  <2>2. Body(new)[0] = <<"/">> /\ Body(g)[0] = <<"/">>
    BY <2>1
  <2> HIDE DEF Body, g
  <2>. QED  BY <1>3, <1>5, <2>1, <2>2
<1>7. ASSUME NEW n \in 1..N, new[n - 1] = g[n - 1] PROVE new[n] = g[n]
  <2> HIDE DEF g
  <2>1. n \in 0..N /\ n # 0
    BY <1>2
  <2>2. Body(new)[n] = Body(g)[n]
    BY <1>7, <2>1
  <2> HIDE DEF Body
  <2>. QED  BY <1>3, <1>5, <2>1, <2>2
<1>8. N \in 0..N /\ g[N] = Spell(f[N])
  BY <1>2
<1> HIDE DEF Body, N, g
<1>9. Alike(new, g, N)
  BY <1>6, <1>7 DEF Alike
<1>10. \A n \in 0..N : new[n] = g[n]
  BY <1>2, <1>9, LoopUnique
<1>. QED  BY <1>1, <1>8, <1>10 DEF N

\* One text after another
LEMMA NamesConcat ==
    ASSUME NEW start, NEW a \in Seq(Tok), NEW b \in Seq(Tok), NEW e, NEW f,
           IsNames(e, start, a), IsNames(f, e[Len(a)], b)
    PROVE  LET h == [n \in 0..Len(a) + Len(b) |-> IF n <= Len(a) THEN e[n] ELSE f[n - Len(a)]]
           IN  IsNames(h, start, a \o b) /\ Len(a \o b) = Len(a) + Len(b) /\ a \o b \in Seq(Tok)
<1> DEFINE A == Len(a)
           B == Len(b)
           c == a \o b
           h == [n \in 0..A + B |-> IF n <= A THEN e[n] ELSE f[n - A]]
<1>1. A \in Nat /\ B \in Nat
  OBVIOUS
<1>2. /\ c \in Seq(Tok) /\ Len(c) = A + B
      /\ \A i \in 1..A + B : c[i] = IF i <= A THEN a[i] ELSE b[i - A]
  BY ConcatProperties
<1>3. /\ e \in [0..A -> Seq(Name)] /\ e[0] = start
      /\ \A n \in 1..A : e[n] = Turn(e[n - 1], a[n])
  BY DEF IsNames
<1>4. /\ f \in [0..B -> Seq(Name)] /\ f[0] = e[A]
      /\ \A n \in 1..B : f[n] = Turn(f[n - 1], b[n])
  BY DEF IsNames
<1> HIDE DEF A, B, c
<1>5. h \in [0..A + B -> Seq(Name)]
  <2>1. ASSUME NEW n \in 0..A + B PROVE (IF n <= A THEN e[n] ELSE f[n - A]) \in Seq(Name)
    <3>1. (n <= A => n \in 0..A) /\ (~(n <= A) => n - A \in 0..B)
      BY <1>1
    <3>. QED  BY <1>3, <1>4, <3>1
  <2>. QED  BY <2>1
<1>6. h[0] = start
  BY <1>1, <1>3
<1>7. ASSUME NEW n \in 1..A + B PROVE h[n] = Turn(h[n - 1], c[n])
  <2>0. n \in 0..A + B /\ n - 1 \in 0..A + B
    BY <1>1
  <2>1. CASE n <= A
    <3>1. n \in 1..A /\ n - 1 <= A
      BY <1>1, <2>1
    <3>2. h[n] = e[n] /\ h[n - 1] = e[n - 1] /\ c[n] = a[n]
      BY <1>2, <2>0, <2>1, <3>1
    <3>. QED  BY <1>3, <3>1, <3>2
  <2>2. CASE ~(n <= A)
    <3>1. n - A \in 1..B /\ (n - A) - 1 = (n - 1) - A
      BY <1>1, <2>2
    <3>2. h[n] = f[n - A] /\ c[n] = b[n - A]
      BY <1>2, <2>0, <2>2
    <3>3. h[n - 1] = f[(n - A) - 1]
      <4>1. CASE n - 1 <= A
        <5>1. n - 1 = A /\ (n - A) - 1 = 0
          BY <1>1, <2>2, <4>1
        <5>. QED  BY <1>4, <2>0, <4>1, <5>1
      <4>2. CASE ~(n - 1 <= A)
        BY <2>0, <3>1, <4>2
      <4>. QED  BY <4>1, <4>2
    <3> HIDE DEF h
    <3>4. f[n - A] = Turn(f[(n - A) - 1], b[n - A])
      BY <1>4, <3>1
    <3>. QED  BY <3>2, <3>3, <3>4
  <2>. QED  BY <2>1, <2>2
<1> HIDE DEF h
<1>8. IsNames(h, start, c)
  BY <1>2, <1>5, <1>6, <1>7 DEF IsNames
<1>. QED  BY <1>2, <1>8 DEF h, A, B, c

\* The text of a path leads there, through the directories above it.
LEMMA SpellNames ==
    ASSUME NEW p \in Seq(Name), p # <<>>
    PROVE  IsNames([n \in 0..2 * Len(p) |-> SubSeq(p, 1, n \div 2)], <<>>, Spell(p))
<1> DEFINE N == Len(p)
           a == Spell(p)
           f == [n \in 0..2 * N |-> SubSeq(p, 1, n \div 2)]
<1>1. /\ a \in Seq(Tok) /\ Len(a) = 2 * N /\ N \in Nat /\ N > 0
      /\ \A i \in 1..2 * N : a[i] = IF i % 2 = 1 THEN "/" ELSE p[i \div 2]
  BY SpellFacts
<1> HIDE DEF a
<1>2. \A n \in 0..2 * N : n \div 2 \in 0..N
  BY <1>1
<1>3. f \in [0..2 * N -> Seq(Name)]
  <2>1. ASSUME NEW n \in 0..2 * N PROVE SubSeq(p, 1, n \div 2) \in Seq(Name)
    BY <1>2, PrefixFacts
  <2>. QED  BY <2>1
<1>4. f[0] = <<>>
  <2>1. 0 \in 0..2 * N /\ 0 \div 2 = 0
    BY <1>1
  <2>2. SubSeq(p, 1, 0) = <<>>
    BY SubSeqEmpty
  <2>. QED  BY <2>1, <2>2
<1>5. ASSUME NEW n \in 1..2 * N PROVE f[n] = Turn(f[n - 1], a[n])
  <2>1. n \in 0..2 * N /\ n - 1 \in 0..2 * N
    BY <1>1
  <2>2. CASE n % 2 = 1
    <3>1. n \div 2 = (n - 1) \div 2
      BY <1>1, <2>2
    <3>2. a[n] = "/"
      BY <1>1, <2>2
    <3>3. f[n] = f[n - 1]
      BY <2>1, <3>1
    <3> HIDE DEF f
    <3>. QED  BY <3>2, <3>3 DEF Turn
  <2>3. CASE n % 2 # 1
    <3>1. n \div 2 \in 1..N /\ (n - 1) \div 2 = n \div 2 - 1
      BY <1>1, <2>3
    <3>2. a[n] = p[n \div 2] /\ p[n \div 2] \in Name
      BY <1>1, <2>3, <3>1
    <3>3. a[n] \notin {"/", ".", ".."}
      BY <3>2, ShellAssumption
    <3>4. SubSeq(p, 1, n \div 2) = Append(SubSeq(p, 1, n \div 2 - 1), p[n \div 2])
      BY <3>1, PrefixGrows
    <3>5. f[n] = Append(f[n - 1], a[n])
      BY <2>1, <3>1, <3>2, <3>4
    <3> HIDE DEF f
    <3>. QED  BY <3>3, <3>5 DEF Turn
  <2>. QED  BY <2>2, <2>3
<1> HIDE DEF f
<1>. QED  BY <1>1, <1>3, <1>4, <1>5 DEF IsNames, f, a

\* The beginnings of a word mean what the word has meant on the way.
LEMMA ResolvePrefix ==
    ASSUME NEW arg \in Seq(Tok), NEW f, NEW i \in 1..Len(arg),
           IsNames(f, IF arg[1] = "/" THEN <<>> ELSE cwd, arg)
    PROVE  Resolve(SubSeq(arg, 1, i)) = f[i]
<1> DEFINE a == SubSeq(arg, 1, i)
           g == [n \in 0..i |-> f[n]]
           start == IF arg[1] = "/" THEN <<>> ELSE cwd
<1>1. i \in 0..Len(arg) /\ i \in Nat /\ Len(arg) \in Nat /\ 1 \in 1..i
  OBVIOUS
<1>2. a \in Seq(Tok) /\ Len(a) = i /\ \A n \in 1..i : a[n] = arg[n]
  BY <1>1, PrefixFacts
<1> HIDE DEF a
<1>3. /\ f \in [0..Len(arg) -> Seq(Name)] /\ f[0] = start
      /\ \A n \in 1..Len(arg) : f[n] = Turn(f[n - 1], arg[n])
  BY DEF IsNames
<1>4. start = IF a[1] = "/" THEN <<>> ELSE cwd
  BY <1>1, <1>2
<1> HIDE DEF start
<1>5. \A n \in 0..i : n \in 0..Len(arg)
  BY <1>1
<1>6. g \in [0..i -> Seq(Name)] /\ g[0] = start
  BY <1>1, <1>3, <1>5, SMTT(30)
<1>7. ASSUME NEW n \in 1..i PROVE g[n] = Turn(g[n - 1], a[n])
  <2>1. n \in 0..i /\ n - 1 \in 0..i /\ n \in 1..Len(arg)
    BY <1>1
  <2>2. g[n] = f[n] /\ g[n - 1] = f[n - 1]
    BY <2>1
  <2> HIDE DEF g
  <2>. QED  BY <1>2, <1>3, <2>1, <2>2
<1>8. g[i] = f[i]
  BY <1>1
<1> HIDE DEF g
<1>9. IsNames(g, start, a)
  BY <1>2, <1>6, <1>7 DEF IsNames
<1>10. Resolve(a) = g[Len(a)]
  BY <1>2, <1>4, <1>9, ResolveIs
<1>. QED  BY <1>2, <1>8, <1>10 DEF a

\* The text an argument is made into, of k characters and the argument, and where
\* its beginnings lead to: first above the working directory, then along the argument.
IsAbs(text, arg, k, g) ==
    /\ text \in Seq(Tok) /\ IsNames(g, <<>>, text) /\ k \in Nat /\ Len(text) = k + Len(arg)
    /\ \A i \in 0..k : \E j \in 0..Len(cwd) : g[i] = SubSeq(cwd, 1, j)
    /\ g[Len(text)] = Resolve(arg)
    /\ \A i \in 1..Len(arg) : text[k + i] = arg[i] /\ g[k + i] = Resolve(SubSeq(arg, 1, i))

\* A text that leads to a directory, and past no others than the ones above it
LeadsTo(e, text, p) ==
    /\ IsNames(e, <<>>, text) /\ e[Len(text)] = p
    /\ \A i \in 0..Len(text) : \E j \in 0..Len(p) : e[i] = SubSeq(p, 1, j)

\* A text that leads to the working directory, before an argument
LEMMA AbsPrefixed ==
    ASSUME NEW pre \in Seq(Tok), NEW e, LeadsTo(e, pre, cwd), cwd \in Seq(Name),
           NEW arg \in Seq(Tok), Len(arg) >= 1, arg[1] # "/"
    PROVE  \E g : IsAbs(pre \o arg, arg, Len(pre), g)
<1> DEFINE text == pre \o arg
           A == Len(pre)
           B == Len(arg)
<1>0. /\ IsNames(e, <<>>, pre) /\ e[Len(pre)] = cwd
      /\ \A i \in 0..Len(pre) : \E j \in 0..Len(cwd) : e[i] = SubSeq(cwd, 1, j)
  BY DEF LeadsTo
<1>1. PICK f : IsNames(f, cwd, arg)
  BY NamesExist
<1>2. IsNames(f, IF arg[1] = "/" THEN <<>> ELSE cwd, arg)
  BY <1>1
<1> DEFINE g == [n \in 0..A + B |-> IF n <= A THEN e[n] ELSE f[n - A]]
<1>3. IsNames(g, <<>>, text) /\ Len(text) = A + B /\ text \in Seq(Tok)
  BY <1>0, <1>1, NamesConcat
<1>4. A \in Nat /\ B \in Nat /\ B >= 1
  OBVIOUS
<1>5. \A i \in 0..A : g[i] = e[i]
  BY <1>4
<1>6. ASSUME NEW i \in 1..B PROVE g[A + i] = f[i]
  <2>1. A + i \in 0..A + B /\ ~(A + i <= A) /\ (A + i) - A = i
    BY <1>4
  <2>. QED  BY <2>1
<1>7. \A i \in 1..B : text[A + i] = arg[i]
  <2>1. \A i \in 1..A + B : text[i] = IF i <= A THEN pre[i] ELSE arg[i - A]
    BY ConcatProperties
  <2>2. \A i \in 1..B : A + i \in 1..A + B /\ ~(A + i <= A) /\ (A + i) - A = i
    BY <1>4
  <2>. QED  BY <2>1, <2>2
<1>8. B \in 1..B
  BY <1>4
<1>9. Resolve(arg) = f[B]
  BY <1>2, ResolveIs
<1>10. \A i \in 1..B : Resolve(SubSeq(arg, 1, i)) = f[i]
  BY <1>2, ResolvePrefix
<1> HIDE DEF g, text
<1>11. \A i \in 0..A : \E j \in 0..Len(cwd) : g[i] = SubSeq(cwd, 1, j)
  BY <1>0, <1>5
<1>12. g[Len(text)] = Resolve(arg)
  BY <1>3, <1>6, <1>8, <1>9
<1>13. \A i \in 1..B : text[A + i] = arg[i] /\ g[A + i] = Resolve(SubSeq(arg, 1, i))
  BY <1>6, <1>7, <1>10
<1>14. IsAbs(text, arg, A, g)
  BY <1>3, <1>4, <1>11, <1>12, <1>13 DEF IsAbs
<1>. QED  BY <1>14 DEF text

\* A path that begins with "/" is taken as it is.
LEMMA AbsRooted ==
    ASSUME NEW arg \in Seq(Tok), Len(arg) >= 1, arg[1] = "/", cwd \in Seq(Name)
    PROVE  \E g : IsAbs(arg, arg, 0, g)
<1>0. <<>> \in Seq(Name) /\ Len(arg) \in Nat
  OBVIOUS
<1>1. PICK f : IsNames(f, <<>>, arg)
  BY <1>0, NamesExist
<1>2. IsNames(f, IF arg[1] = "/" THEN <<>> ELSE cwd, arg)
  BY <1>1
<1>3. Resolve(arg) = f[Len(arg)]
  BY <1>2, ResolveIs
<1>4. \A i \in 1..Len(arg) : Resolve(SubSeq(arg, 1, i)) = f[i]
  BY <1>2, ResolvePrefix
<1>5. \A i \in 0..0 : \E j \in 0..Len(cwd) : f[i] = SubSeq(cwd, 1, j)
  <2>1. f[0] = <<>> /\ SubSeq(cwd, 1, 0) = <<>> /\ 0 \in 0..Len(cwd)
    BY <1>1, SubSeqEmpty DEF IsNames
  <2>2. \A i \in 0..0 : i = 0
    OBVIOUS
  <2>. QED  BY <2>1, <2>2
<1>6. \A i \in 1..Len(arg) : 0 + i = i
  BY <1>0
<1>7. IsAbs(arg, arg, 0, f)
  BY <1>0, <1>1, <1>3, <1>4, <1>5, <1>6 DEF IsAbs
<1>. QED  BY <1>7

\* The working directory as text, and with a "/" behind it
LEMMA CwdText ==
    ASSUME NEW p \in Seq(Name)
    PROVE  /\ \E e : LeadsTo(e, Spell(p), p)
           /\ \E e : LeadsTo(e, Append(Spell(p), "/"), p)
           /\ Spell(p) \in Seq(Tok) /\ Append(Spell(p), "/") \in Seq(Tok)
<1> DEFINE a == Spell(p)
           N == Len(a)
           b == Append(a, "/")
<1>1. a \in Seq(Tok) /\ N \in Nat /\ "/" \in Tok /\ Len(p) \in Nat
  BY SpellFacts DEF Tok
<1>2. /\ b \in Seq(Tok) /\ Len(b) = N + 1 /\ (\A i \in 1..N : b[i] = a[i]) /\ b[N + 1] = "/"
  BY <1>1, AppendProperties
<1>3. PICK e : /\ IsNames(e, <<>>, a) /\ e[N] = p
               /\ \A i \in 0..N : \E j \in 0..Len(p) : e[i] = SubSeq(p, 1, j)
  <2>1. CASE p = <<>>
    <3> DEFINE f == [n \in 0..1 |-> <<>>]
    <3>1. a = <<"/">> /\ N = 1 /\ a[1] = "/" /\ Len(p) = 0 /\ SubSeq(p, 1, 0) = <<>>
      <4>1. a = <<"/">> /\ SubSeq(p, 1, 0) = <<>>
        <5>1. a = <<"/">>
          BY <2>1 DEF Spell
        <5>2. SubSeq(p, 1, 0) = <<>>
          BY SubSeqEmpty
        <5>. QED  BY <5>1, <5>2
      <4>. QED  BY <2>1, <4>1
    <3>2. IsNames(f, <<>>, a)
      BY <3>1 DEF IsNames, Turn
    <3>3. \A i \in 0..N : f[i] = SubSeq(p, 1, 0)
      BY <3>1
    <3>4. f[N] = p
      BY <2>1, <3>1
    <3> HIDE DEF f
    <3>5. 0 \in 0..Len(p)
      BY <1>1
    <3>6. \A i \in 0..N : \E j \in 0..Len(p) : f[i] = SubSeq(p, 1, j)
      BY <3>3, <3>5
    <3>. QED  BY <3>2, <3>4, <3>6
  <2>2. CASE p # <<>>
    <3> DEFINE f == [n \in 0..2 * Len(p) |-> SubSeq(p, 1, n \div 2)]
    <3>1. N = 2 * Len(p) /\ Len(p) > 0
      BY <2>2, SpellFacts
    <3>2. IsNames(f, <<>>, a)
      BY <2>2, SpellNames
    <3>3. \A i \in 0..N : i \div 2 \in 0..Len(p) /\ f[i] = SubSeq(p, 1, i \div 2)
      BY <1>1, <3>1
    <3>4. N \in 0..N /\ N \div 2 = Len(p) /\ SubSeq(p, 1, Len(p)) = p
      BY <1>1, <3>1, SubSeqFull
    <3> HIDE DEF f
    <3>5. f[N] = p
      BY <3>3, <3>4
    <3>6. \A i \in 0..N : \E j \in 0..Len(p) : f[i] = SubSeq(p, 1, j)
      BY <3>3
    <3>. QED  BY <3>2, <3>5, <3>6
  <2>. QED  BY <2>1, <2>2
<1> DEFINE h == [n \in 0..N + 1 |-> IF n <= N THEN e[n] ELSE p]
<1> HIDE DEF a, N, b
<1>4. /\ e \in [0..N -> Seq(Name)] /\ e[0] = <<>>
      /\ \A n \in 1..N : e[n] = Turn(e[n - 1], a[n])
  BY <1>3 DEF IsNames, N
<1>5. h \in [0..N + 1 -> Seq(Name)] /\ h[0] = <<>>
  <2>1. ASSUME NEW n \in 0..N + 1 PROVE (IF n <= N THEN e[n] ELSE p) \in Seq(Name)
    <3>1. n <= N => n \in 0..N
      BY <1>1
    <3>. QED  BY <1>4, <3>1
  <2>. QED  BY <1>1, <1>4, <2>1
<1>6. ASSUME NEW n \in 1..N + 1 PROVE h[n] = Turn(h[n - 1], b[n])
  <2>1. n \in 0..N + 1 /\ n - 1 \in 0..N + 1 /\ n - 1 <= N
    BY <1>1
  <2>2. h[n - 1] = e[n - 1]
    BY <2>1
  <2>3. CASE n <= N
    <3>1. n \in 1..N /\ h[n] = e[n]
      BY <2>1, <2>3
    <3> HIDE DEF h
    <3>. QED  BY <1>2, <1>4, <2>2, <3>1
  <2>4. CASE ~(n <= N)
    <3>1. n = N + 1 /\ n - 1 = N
      BY <1>1, <2>4
    <3>2. h[n] = p
      BY <2>1, <2>4
    <3> HIDE DEF h
    <3>. QED  BY <1>2, <1>3, <2>2, <3>1, <3>2 DEF Turn
  <2>. QED  BY <2>3, <2>4
<1>7. h[N + 1] = p
  BY <1>1
<1>8. ASSUME NEW i \in 0..N + 1 PROVE \E j \in 0..Len(p) : h[i] = SubSeq(p, 1, j)
  <2>1. CASE i <= N
    <3>1. i \in 0..N /\ h[i] = e[i]
      BY <1>1, <2>1
    <3>. QED  BY <1>3, <3>1
  <2>2. CASE ~(i <= N)
    <3>1. h[i] = p /\ Len(p) \in 0..Len(p) /\ SubSeq(p, 1, Len(p)) = p
      BY <1>1, <2>2, SubSeqFull
    <3>. QED  BY <3>1
  <2>. QED  BY <2>1, <2>2
<1> HIDE DEF h
<1>9. IsNames(h, <<>>, b)
  BY <1>2, <1>5, <1>6 DEF IsNames
<1>10. LeadsTo(e, a, p)
  BY <1>3 DEF LeadsTo, N
<1>11. LeadsTo(h, b, p)
  BY <1>2, <1>7, <1>8, <1>9 DEF LeadsTo
<1>. QED  BY <1>1, <1>2, <1>10, <1>11 DEF a, b

\* abs_path and make_clear_abs_path make a text of the path that the argument means.
LEMMA AbsIs ==
    ASSUME NEW s, s.cwd = cwd, cwd \in Seq(Name), NEW arg \in Seq(Tok), Len(arg) >= 1
    PROVE  /\ \E k, g : IsAbs(abs_path(s, arg), arg, k, g)
           /\ make_clear_abs_path(s, arg) = Spell(Resolve(arg))
           /\ Resolve(arg) \in Seq(Name)
<1> DEFINE text == IF arg[1] = "/" THEN arg
                   ELSE IF s.cwd = <<>> THEN getcwd(s) \o arg ELSE Append(getcwd(s), "/") \o arg
<1>1. CASE arg[1] = "/"
  <2>1. PICK g : IsAbs(arg, arg, 0, g)
    BY <1>1, AbsRooted
  <2>2. abs_path(s, arg) = arg /\ text = arg
    BY <1>1 DEF abs_path
  <2>3. make_clear_abs_path(s, arg) = wash_path(arg)
    BY <1>1 DEF make_clear_abs_path
  <2>4. IsNames(g, <<>>, arg) /\ g[Len(arg)] = Resolve(arg)
    BY <2>1 DEF IsAbs
  <2>5. Len(arg) \in 0..Len(arg) /\ g \in [0..Len(arg) -> Seq(Name)]
    BY <2>4 DEF IsNames
  <2>. QED  BY <2>1, <2>2, <2>3, <2>4, <2>5, WashIs
<1>2. CASE arg[1] # "/"
  <2> DEFINE a == Spell(cwd)
             b == Append(a, "/")
  <2>1. getcwd(s) = a
    BY DEF getcwd
  <2>2. a \in Seq(Tok) /\ b \in Seq(Tok) /\ (\E e : LeadsTo(e, a, cwd)) /\ (\E e : LeadsTo(e, b, cwd))
    BY CwdText
  <2> HIDE DEF a
  <2>3. \E g : IsAbs(a \o arg, arg, Len(a), g)
    BY <1>2, <2>2, AbsPrefixed
  <2>4. \E g : IsAbs(b \o arg, arg, Len(b), g)
    BY <1>2, <2>2, AbsPrefixed
  <2>5. abs_path(s, arg) = b \o arg
    BY <1>2, <2>1 DEF abs_path
  <2>6. text \in {a \o arg, b \o arg} /\ make_clear_abs_path(s, arg) = wash_path(text)
    BY <1>2, <2>1 DEF make_clear_abs_path
  <2> HIDE DEF text, b
  <2>7. PICK k, g : IsAbs(text, arg, k, g)
    BY <2>3, <2>4, <2>6
  <2>8. text \in Seq(Tok) /\ IsNames(g, <<>>, text) /\ g[Len(text)] = Resolve(arg)
    BY <2>7 DEF IsAbs
  <2>9. Len(text) \in 0..Len(text) /\ g \in [0..Len(text) -> Seq(Name)]
    BY <2>8 DEF IsNames
  <2>10. Resolve(arg) \in Seq(Name)
    BY <2>8, <2>9
  <2>. QED  BY <2>4, <2>5, <2>6, <2>8, <2>10, WashIs
<1>. QED  BY <1>1, <1>2

-----------------------------------------------------------------------------
(***************************************************************************)
(* The search for a path in the tree                                       *)
(***************************************************************************)
DepthTo(text, n) == Cardinality({i \in 1..n : text[i] # "/"})

\* The names up to a place are counted one by one, and there are as many as in the
\* whole text only if no name follows.
LEMMA DepthGrows ==
    ASSUME NEW text, NEW n \in Nat
    PROVE  /\ DepthTo(text, 0) = 0 /\ DepthTo(text, n) \in Nat
           /\ DepthTo(text, n + 1) = IF text[n + 1] = "/" THEN DepthTo(text, n) ELSE DepthTo(text, n) + 1
           /\ \A m \in 0..n : DepthTo(text, m) = DepthTo(text, n) <=> \A i \in m + 1..n : text[i] = "/"
<1> DEFINE S(k) == {i \in 1..k : text[i] # "/"}
<1>1. ASSUME NEW k \in Nat PROVE IsFiniteSet(S(k)) /\ Cardinality(S(k)) \in Nat
  <2>1. IsFiniteSet(1..k) /\ S(k) \in SUBSET (1..k)
    BY FS_Interval
  <2> HIDE DEF S
  <2>2. IsFiniteSet(S(k))
    BY <2>1, FS_Subset
  <2>. QED  BY <2>2, FS_CardinalityType
<1>2. S(0) = {}
  OBVIOUS
<1>3. Cardinality(S(0)) = 0
  BY <1>2, FS_EmptySet
<1>4. text[n + 1] = "/" => S(n + 1) = S(n)
  OBVIOUS
<1>5. text[n + 1] # "/" => S(n + 1) = S(n) \cup {n + 1} /\ n + 1 \notin S(n)
  OBVIOUS
<1>6. ASSUME NEW m \in 0..n PROVE /\ S(m) \in SUBSET S(n)
                                  /\ (S(m) = S(n)) <=> \A i \in m + 1..n : text[i] = "/"
  <2>1. S(m) \subseteq S(n)
    OBVIOUS
  <2>2. ASSUME S(m) = S(n), NEW i \in m + 1..n PROVE text[i] = "/"
    <3>1. i \notin S(m)
      OBVIOUS
    <3>2. i \in 1..n
      OBVIOUS
    <3>3. i \notin S(n)
      BY <2>2, <3>1
    <3>. QED  BY <3>2, <3>3
  <2>3. ASSUME \A i \in m + 1..n : text[i] = "/" PROVE S(n) \subseteq S(m)
    <3>1. ASSUME NEW i \in S(n) PROVE i \in S(m)
      <4>1. i \in 1..n /\ text[i] # "/"
        OBVIOUS
      <4>2. i \notin m + 1..n
        BY <2>3, <4>1
      <4>3. i \in 1..m
        BY <4>1, <4>2
      <4>. QED  BY <4>1, <4>3
    <3>. QED  BY <3>1
  <2> HIDE DEF S
  <2>. QED  BY <2>1, <2>2, <2>3
<1> HIDE DEF S
<1>7. Cardinality(S(n + 1)) = IF text[n + 1] = "/" THEN Cardinality(S(n)) ELSE Cardinality(S(n)) + 1
  BY <1>1, <1>4, <1>5, FS_AddElement
<1>8. ASSUME NEW m \in 0..n
      PROVE  Cardinality(S(m)) = Cardinality(S(n)) <=> \A i \in m + 1..n : text[i] = "/"
  <2>1. S(m) \in SUBSET S(n) /\ IsFiniteSet(S(n))
    BY <1>1, <1>6
  <2>2. Cardinality(S(n)) = Cardinality(S(m)) => S(n) = S(m)
    BY <2>1, FS_Subset
  <2>. QED  BY <1>6, <2>2
<1>. QED  BY <1>1, <1>3, <1>7, <1>8 DEF S, DepthTo

\* m is the first place of a text where it leads to no directory, or the place
\* behind the text.
FirstOther(t, f, m, N) ==
    /\ m \in 1..N + 1 /\ \A i \in 1..m - 1 : Value(t, f[i]) = Dir
    /\ m <= N => Value(t, f[m]) # Dir

\* When not every directory on the way is one, there is a first that is not.
LEMMA FirstExists ==
    ASSUME NEW t, NEW f, NEW N \in Nat
    PROVE  \E m : FirstOther(t, f, m, N)
<1> DEFINE S == {i \in 1..N + 1 : i = N + 1 \/ Value(t, f[i]) # Dir}
<1>1. S \in SUBSET Nat /\ N + 1 \in S
  OBVIOUS
<1>2. PICK m \in S : \A k \in S : m <= k
  BY <1>1, Least
<1>3. m \in 1..N + 1 /\ (m <= N => Value(t, f[m]) # Dir)
  OBVIOUS
<1>4. ASSUME NEW i \in 1..m - 1 PROVE Value(t, f[i]) = Dir
  <2>1. i \in 1..N + 1 /\ ~(m <= i)
    BY <1>3
  <2>2. i \notin S
    BY <1>2, <2>1
  <2>. QED  BY <2>1, <2>2
<1>5. FirstOther(t, f, m, N)
  BY <1>3, <1>4 DEF FirstOther
<1>. QED  BY <1>5

TypeOf(v) == IF v = None THEN "none" ELSE IF v = Dir THEN "dir" ELSE "file"
Found(t, f, text, n, m) ==
    IF n < m THEN [type |-> "dir", at |-> f[n], depth |-> DepthTo(text, n)]
    ELSE [type |-> TypeOf(Value(t, f[m])), at |-> f[m], depth |-> DepthTo(text, m)]

\* A step of the search goes on to what the next name means, until it has met
\* something else than a directory.
LEMMA SearchStep ==
    ASSUME NEW t, NEW text \in Seq(Tok), NEW f, NEW m, IsNames(f, <<>>, text),
           FirstOther(t, f, m, Len(text)), NEW n \in 1..Len(text)
    PROVE  SearchName(t, Found(t, f, text, n - 1, m), text[n]) = Found(t, f, text, n, m)
<1> DEFINE N == Len(text)
<1>1. /\ N \in Nat /\ m \in 1..N + 1 /\ n - 1 \in Nat /\ (n - 1) + 1 = n /\ m \in Nat
      /\ \A i \in 1..m - 1 : Value(t, f[i]) = Dir
      /\ m <= N => Value(t, f[m]) # Dir
  BY DEF FirstOther
<1>2. f[n] = Turn(f[n - 1], text[n]) /\ f[0] = <<>>
  BY DEF IsNames
<1>3. DepthTo(text, n) = IF text[n] = "/" THEN DepthTo(text, n - 1) ELSE DepthTo(text, n - 1) + 1
  BY <1>1, DepthGrows
<1>4. text[n] # "/" => Entry(f[n - 1], text[n]) = f[n]
  BY <1>2 DEF Entry, Turn
<1>5. text[n] = "/" => f[n] = f[n - 1]
  BY <1>2 DEF Turn
<1>6. CASE n < m
  <2>1. n - 1 < m /\ n \in 1..m - 1 /\ n < m
    BY <1>1, <1>6
  <2>2. Value(t, f[n]) = Dir
    BY <1>1, <2>1
  <2>3. Found(t, f, text, n - 1, m) = [type |-> "dir", at |-> f[n - 1], depth |-> DepthTo(text, n - 1)]
    BY <2>1 DEF Found
  <2>4. Found(t, f, text, n, m) = [type |-> "dir", at |-> f[n], depth |-> DepthTo(text, n)]
    BY <2>1 DEF Found
  <2>5. CASE text[n] = "/"
    BY <1>3, <1>5, <2>3, <2>4, <2>5 DEF SearchName
  <2>6. CASE text[n] # "/"
    <3>1. Dir # None
      BY ShellAssumption
    <3>. QED  BY <1>3, <1>4, <2>2, <2>3, <2>4, <2>6, <3>1 DEF SearchName
  <2>. QED  BY <2>5, <2>6
<1>7. CASE n = m
  <2>1. n - 1 < m /\ ~(n < m) /\ m <= N
    BY <1>1, <1>7
  <2>2. text[n] # "/"
    <3> SUFFICES ASSUME text[n] = "/" PROVE FALSE
      OBVIOUS
    <3>1. f[m] = f[m - 1]
      BY <1>5, <1>7
    <3>2. CASE m = 1
      BY <1>1, <1>2, <2>1, <3>1, <3>2 DEF Value
    <3>3. CASE m # 1
      <4>1. m - 1 \in 1..m - 1
        BY <1>1, <3>3
      <4>. QED  BY <1>1, <2>1, <3>1, <4>1
    <3>. QED  BY <3>2, <3>3
  <2>3. Found(t, f, text, n - 1, m) = [type |-> "dir", at |-> f[n - 1], depth |-> DepthTo(text, n - 1)]
    BY <2>1 DEF Found
  <2>4. Found(t, f, text, n, m) = [type |-> TypeOf(Value(t, f[n])), at |-> f[n], depth |-> DepthTo(text, n)]
    BY <1>7, <2>1 DEF Found
  <2>. QED  BY <1>3, <1>4, <2>2, <2>3, <2>4 DEF SearchName, TypeOf
<1>8. CASE m < n
  <2>1. ~(n - 1 < m) /\ ~(n < m) /\ m <= N
    BY <1>1, <1>8
  <2> DEFINE r == [type |-> TypeOf(Value(t, f[m])), at |-> f[m], depth |-> DepthTo(text, m)]
  <2>2. Found(t, f, text, n - 1, m) = r /\ Found(t, f, text, n, m) = r
    BY <2>1 DEF Found
  <2>3. r.type # "dir"
    BY <1>1, <2>1 DEF TypeOf
  <2> HIDE DEF r
  <2>. QED  BY <2>2, <2>3 DEF SearchName
<1>. QED  BY <1>1, <1>6, <1>7, <1>8

\* What search_file finds
LEMMA SearchIs ==
    ASSUME NEW s, NEW text \in Seq(Tok), NEW f, NEW m, IsNames(f, <<>>, text),
           FirstOther(s.tree, f, m, Len(text))
    PROVE  search_file(s, text) = Found(s.tree, f, text, Len(text), m)
<1> DEFINE N == Len(text)
           Body(h) == [n \in 0..N |-> IF n = 0 THEN [type |-> "dir", at |-> <<>>, depth |-> 0]
                                      ELSE SearchName(s.tree, h[n - 1], text[n])]
           walk == CHOOSE h : h = Body(h)
           g == [n \in 0..N |-> Found(s.tree, f, text, n, m)]
<1>1. search_file(s, text) = walk[N]
  BY DEF search_file
<1>2. N \in Nat /\ 0 \in 0..N /\ N \in 0..N /\ f[0] = <<>> /\ m \in 1..N + 1 /\ 0 < m
  BY DEF IsNames, FirstOther
<1>3. Found(s.tree, f, text, 0, m) = [type |-> "dir", at |-> <<>>, depth |-> 0]
  BY <1>2, DepthGrows DEF Found
<1>4. ASSUME NEW n \in 0..N PROVE g[n] = Body(g)[n]
  <2>1. CASE n = 0
    BY <1>2, <1>3, <2>1
  <2>2. CASE n # 0
    <3>1. n \in 1..N /\ n - 1 \in 0..N
      BY <1>2, <2>2
    <3>2. SearchName(s.tree, Found(s.tree, f, text, n - 1, m), text[n]) = Found(s.tree, f, text, n, m)
      BY <3>1, SearchStep
    <3>. QED  BY <2>2, <3>1, <3>2
  <2>. QED  BY <2>1, <2>2
<1>5. g = Body(g)
  BY <1>4
<1>6. walk = Body(walk)
  BY <1>5
<1> HIDE DEF walk
<1>7. walk[0] = g[0]
  BY <1>2, <1>3, <1>6
<1>8. ASSUME NEW n \in 1..N, walk[n - 1] = g[n - 1] PROVE walk[n] = g[n]
  <2> HIDE DEF g
  <2>1. n \in 0..N /\ n # 0
    BY <1>2
  <2>2. Body(walk)[n] = Body(g)[n]
    BY <1>8, <2>1
  <2> HIDE DEF Body
  <2>. QED  BY <1>4, <1>6, <2>1, <2>2
<1>9. g[N] = Found(s.tree, f, text, N, m)
  BY <1>2
<1> HIDE DEF Body, N, g
<1>10. Alike(walk, g, N)
  BY <1>7, <1>8 DEF Alike
<1>11. \A n \in 0..N : walk[n] = g[n]
  <2>1. N \in Nat
    BY <1>2
  <2>. QED  BY <1>10, <2>1, LoopUnique
<1>. QED  BY <1>1, <1>2, <1>9, <1>11 DEF N

\* What is found is what the tree has there.
LEMMA SearchHonest ==
    ASSUME NEW s, NEW text \in Seq(Tok)
    PROVE  LET r == search_file(s, text)
           IN  /\ r.at \in Seq(Name) /\ r.type = TypeOf(Value(s.tree, r.at))
               /\ r.type \in {"none", "dir", "file"}
<1> DEFINE N == Len(text)
<1>1. N \in Nat /\ <<>> \in Seq(Name)
  OBVIOUS
<1>2. PICK f : IsNames(f, <<>>, text)
  BY <1>1, NamesExist
<1>3. PICK m : FirstOther(s.tree, f, m, N)
  BY <1>1, FirstExists
<1>4. search_file(s, text) = Found(s.tree, f, text, N, m)
  BY <1>2, <1>3, SearchIs
<1>5. /\ f \in [0..N -> Seq(Name)] /\ f[0] = <<>> /\ m \in 1..N + 1
      /\ \A i \in 1..m - 1 : Value(s.tree, f[i]) = Dir
  BY <1>2, <1>3 DEF IsNames, FirstOther
<1>6. Dir # None
  BY ShellAssumption
<1> DEFINE r == Found(s.tree, f, text, N, m)
<1>7. CASE N < m
  <2>1. Value(s.tree, f[N]) = Dir
    <3>1. CASE N = 0
      BY <1>5, <3>1 DEF Value
    <3>2. CASE N # 0
      <4>1. N \in 1..m - 1
        BY <1>1, <1>5, <1>7, <3>2
      <4>. QED  BY <1>5, <4>1
    <3>. QED  BY <3>1, <3>2
  <2>2. r.type = "dir" /\ r.at = f[N]
    BY <1>7 DEF Found
  <2>3. f[N] \in Seq(Name)
    BY <1>1, <1>5
  <2>. QED  BY <1>4, <1>6, <2>1, <2>2, <2>3 DEF TypeOf
<1>8. CASE ~(N < m)
  <2>1. r.type = TypeOf(Value(s.tree, f[m])) /\ r.at = f[m]
    BY <1>8 DEF Found
  <2>2. m \in 0..N
    BY <1>1, <1>5, <1>8
  <2>3. f[m] \in Seq(Name)
    BY <1>5, <2>2
  <2>. QED  BY <1>4, <2>1, <2>3 DEF TypeOf
<1>. QED  BY <1>7, <1>8

\* Path is the sequences of names of length 1 to Depth.
LEMMA PathIs ==
    ASSUME NEW p
    PROVE  p \in Path <=> p \in Seq(Name) /\ Len(p) \in 1..Depth
<1>1. ASSUME p \in Path PROVE p \in Seq(Name) /\ Len(p) \in 1..Depth
  <2>1. PICK n \in 1..Depth : p \in [1..n -> Name]
    BY <1>1 DEF Path
  <2>2. n \in Nat
    <3>1. Depth \in Nat
      BY ShellAssumption
    <3>. QED  BY <3>1
  <2>. QED  BY <2>1, <2>2
<1>2. ASSUME p \in Seq(Name), Len(p) \in 1..Depth PROVE p \in Path
  <2>1. p \in [1..Len(p) -> Name]
    BY <1>2
  <2>. QED  BY <1>2, <2>1 DEF Path
<1>. QED  BY <1>1, <1>2

\* Every file is in a directory.
Closed(t) == \A q \in Path : t[q] # None => Value(t, Front(q)) = Dir

\* Above a directory there are only directories.
LEMMA DirsAbove ==
    ASSUME NEW t, Closed(t), NEW p \in Seq(Name), Value(t, p) = Dir
    PROVE  \A j \in 0..Len(p) : Value(t, SubSeq(p, 1, j)) = Dir
<1> DEFINE N == Len(p)
           Bad == {k \in 0..N : Value(t, SubSeq(p, 1, N - k)) # Dir}
<1>1. N \in Nat /\ SubSeq(p, 1, N) = p
  BY SubSeqFull
<1>2. Bad = {}
  <2> SUFFICES ASSUME Bad # {} PROVE FALSE
    OBVIOUS
  <2>1. Bad \in SUBSET Nat
    BY <1>1
  <2>2. PICK k \in Bad : \A i \in Bad : k <= i
    BY <2>1, Least
  <2>3. k \in 0..N /\ Value(t, SubSeq(p, 1, N - k)) # Dir
    OBVIOUS
  <2>4. k # 0
    <3> SUFFICES ASSUME k = 0 PROVE FALSE
      OBVIOUS
    <3>1. N - k = N
      BY <1>1
    <3>. QED  BY <1>1, <2>3, <3>1
  <2>5. k - 1 \in 0..N /\ ~(k <= k - 1) /\ N - (k - 1) = (N - k) + 1 /\ (N - k) + 1 \in 1..N
    BY <1>1, <2>3, <2>4
  <2>6. k - 1 \notin Bad
    BY <2>2, <2>5
  <2> DEFINE i == (N - k) + 1
             q == SubSeq(p, 1, i)
  <2>7. Value(t, q) = Dir
    BY <2>5, <2>6
  <2>8. i \in 0..N /\ i - 1 = N - k /\ i - 1 \in 0..N /\ i >= 1
    BY <1>1, <2>5
  <2> HIDE DEF i, Bad
  <2>9. q \in Seq(Name) /\ Len(q) = i
    BY <2>8, PrefixFacts
  <2>10. q = Append(SubSeq(p, 1, i - 1), p[i]) /\ p[i] \in Name
    BY <2>8, PrefixGrows
  <2>11. SubSeq(p, 1, i - 1) \in Seq(Name)
    BY <2>8, PrefixFacts
  <2> HIDE DEF q
  <2>12. Front(q) = SubSeq(p, 1, i - 1) /\ q # <<>>
    BY <2>10, <2>11, FrontAppend
  <2>13. Dir # None
    BY ShellAssumption
  <2>14. q \in Path /\ t[q] # None
    BY <2>7, <2>12, <2>13 DEF Value
  <2>15. Value(t, Front(q)) = Dir
    BY <2>14 DEF Closed
  <2>. QED  BY <2>3, <2>8, <2>12, <2>15
<1>3. ASSUME NEW j \in 0..N PROVE Value(t, SubSeq(p, 1, j)) = Dir
  <2>1. N - j \in 0..N /\ N - (N - j) = j
    BY <1>1
  <2>2. N - j \notin Bad
    BY <1>2
  <2>. QED  BY <2>1, <2>2
<1>. QED  BY <1>3

\* What is found for the text of a path
WashedSearch(t, p, r, cnt) ==
    /\ r.type = "dir" <=> Value(t, p) = Dir
    /\ r.type = "dir" => r.at = p
    /\ (r.type = "none" /\ r.depth = cnt) <=>
          (p # <<>> /\ Value(t, p) = None /\ Value(t, Front(p)) = Dir)
    /\ (r.type = "none" /\ r.depth = cnt) => r.at = p
    /\ r.type = "file" => \E i \in 1..Len(p) : r.at = SubSeq(p, 1, i)
    /\ Value(t, p) \notin {None, Dir} => r.type = "file" /\ r.at = p

\* search_file of "/"
LEMMA WashedRoot ==
    ASSUME NEW s
    PROVE  WashedSearch(s.tree, <<>>, search_file(s, Spell(<<>>)), path_depth_cnt(Spell(<<>>)))
<1> DEFINE f == [n \in 0..1 |-> <<>>]
           a == <<"/">>
<1>1. Spell(<<>>) = a /\ Len(a) = 1 /\ a[1] = "/" /\ a \in Seq(Tok)
  BY DEF Spell, Tok
<1>2. IsNames(f, <<>>, a)
  BY <1>1 DEF IsNames, Turn
<1>3. Value(s.tree, <<>>) = Dir
  BY DEF Value
<1>4. FirstOther(s.tree, f, 2, 1)
  BY <1>3 DEF FirstOther
<1>5. f[1] = <<>>
  OBVIOUS
<1> HIDE DEF f, a
<1>6. search_file(s, a) = Found(s.tree, f, a, 1, 2)
  <2>1. FirstOther(s.tree, f, 2, Len(a))
    BY <1>1, <1>4
  <2>2. search_file(s, a) = Found(s.tree, f, a, Len(a), 2)
    BY <1>1, <1>2, <2>1, SearchIs, ZenonT(60)
  <2>. QED  BY <1>1, <2>2
<1>7. Found(s.tree, f, a, 1, 2) = [type |-> "dir", at |-> <<>>, depth |-> DepthTo(a, 1)]
  BY <1>5 DEF Found
<1>8. Dir # None
  BY ShellAssumption
<1>. QED  BY <1>1, <1>3, <1>6, <1>7, <1>8 DEF WashedSearch

\* search_file of a washed path finds what the path means.
LEMMA WashedIs ==
    ASSUME NEW s, Closed(s.tree), NEW p \in Seq(Name), p # <<>>
    PROVE  WashedSearch(s.tree, p, search_file(s, Spell(p)), path_depth_cnt(Spell(p)))
<1> DEFINE N == 2 * Len(p)
           a == Spell(p)
           f == [n \in 0..N |-> SubSeq(p, 1, n \div 2)]
           t == s.tree
<1>1. /\ a \in Seq(Tok) /\ Len(a) = N /\ N \in Nat /\ N >= 2 /\ Len(p) \in Nat
      /\ \A i \in 1..N : a[i] = IF i % 2 = 1 THEN "/" ELSE p[i \div 2]
  BY SpellFacts
<1>2. IsNames(f, <<>>, a)
  BY SpellNames
<1>3. a[N] # "/"
  <2>1. Last(a) # "/"
    BY SpellRoot
  <2>. QED  BY <1>1, <2>1 DEF Last
<1>4. f[N] = p /\ f[N - 1] = Front(p)
  <2>1. N \div 2 = Len(p) /\ (N - 1) \div 2 = Len(p) - 1 /\ N \in 0..N /\ N - 1 \in 0..N
    BY <1>1
  <2>2. SubSeq(p, 1, Len(p)) = p
    BY SubSeqFull
  <2>3. f[N] = p
    BY <2>1, <2>2
  <2>4. f[N - 1] = SubSeq(p, 1, Len(p) - 1)
    BY <2>1
  <2>. QED  BY <2>3, <2>4 DEF Front
<1>5. ASSUME Value(t, Front(p)) = Dir, NEW i \in 1..N - 1 PROVE Value(t, f[i]) = Dir
  <2>1. Front(p) \in Seq(Name) /\ Len(Front(p)) = Len(p) - 1 /\ Front(p) = SubSeq(p, 1, Len(p) - 1)
    BY FrontFacts DEF Front
  <2>2. i \div 2 \in 0..Len(p) - 1 /\ f[i] = SubSeq(p, 1, i \div 2)
    BY <1>1, SMTT(30)
  <2>3. Value(t, SubSeq(Front(p), 1, i \div 2)) = Dir
    BY <1>5, <2>1, <2>2, DirsAbove
  <2>4. SubSeq(Front(p), 1, i \div 2) = SubSeq(p, 1, i \div 2)
    <3> DEFINE k == i \div 2
               x == SubSeq(Front(p), 1, k)
               y == SubSeq(p, 1, k)
    <3>1. k \in 0..Len(p) - 1 /\ k \in 0..Len(p) /\ k \in 0..Len(Front(p))
      BY <1>1, <2>1, <2>2
    <3> HIDE DEF k
    <3>2. x \in Seq(Name) /\ Len(x) = k /\ \A j \in 1..k : x[j] = Front(p)[j]
      BY <2>1, <3>1, PrefixFacts
    <3>3. y \in Seq(Name) /\ Len(y) = k /\ \A j \in 1..k : y[j] = p[j]
      BY <3>1, PrefixFacts
    <3>4. \A j \in 1..k : Front(p)[j] = p[j]
      BY <3>1, FrontFacts
    <3> HIDE DEF x, y
    <3>5. x = y
      BY <3>2, <3>3, <3>4, SameSeq
    <3>. QED  BY <3>5 DEF x, y, k
  <2>. QED  BY <2>2, <2>3, <2>4
<1>6. Value(t, p) # None => Value(t, Front(p)) = Dir
  BY DEF Value, Closed
<1>7. ASSUME NEW i \in 1..N PROVE i % 2 # 1 => f[i] = SubSeq(p, 1, i \div 2) /\ i \div 2 \in 1..Len(p)
  BY <1>1, SMTT(30)
<1>8. \A i \in 1..N : a[i] # "/" => i % 2 # 1
  BY <1>1
<1>9. PICK m : FirstOther(t, f, m, N)
  BY <1>1, FirstExists
<1>10. search_file(s, a) = Found(t, f, a, N, m)
  BY <1>1, <1>2, <1>9, SearchIs
<1>11. /\ m \in 1..N + 1 /\ (\A i \in 1..m - 1 : Value(t, f[i]) = Dir)
       /\ m <= N => Value(t, f[m]) # Dir
  BY <1>9 DEF FirstOther
<1>12. path_depth_cnt(a) = DepthTo(a, N)
  BY <1>1 DEF path_depth_cnt, DepthTo
<1>13. Dir # None
  BY ShellAssumption
<1> DEFINE r == search_file(s, a)
<1> HIDE DEF a, f, N, t
<1>14. CASE m = N + 1
  <2>1. N < m /\ N \in 1..m - 1
    BY <1>1, <1>14
  <2>2. r.type = "dir" /\ r.at = p
    BY <1>4, <1>10, <2>1 DEF Found
  <2>3. Value(t, p) = Dir
    BY <1>4, <1>11, <2>1
  <2>4. WashedSearch(t, p, r, path_depth_cnt(a))
    BY <1>13, <2>2, <2>3 DEF WashedSearch
  <2>. QED  BY <2>4 DEF a, t
<1>15. CASE m = N
  <2>1. ~(N < m) /\ N - 1 \in 1..m - 1 /\ m <= N
    BY <1>1, <1>15
  <2>2. r = [type |-> TypeOf(Value(t, p)), at |-> p, depth |-> DepthTo(a, N)]
    BY <1>4, <1>10, <1>15, <2>1 DEF Found
  <2>3. Value(t, p) # Dir /\ Value(t, Front(p)) = Dir
    BY <1>4, <1>11, <1>15, <2>1
  <2>4. Len(p) \in 1..Len(p) /\ SubSeq(p, 1, Len(p)) = p
    BY <1>1, SubSeqFull DEF N
  <2>5. r.at = p /\ r.depth = path_depth_cnt(a) /\ r.type = TypeOf(Value(t, p))
    BY <1>12, <2>2
  <2> HIDE DEF r
  <2>6. WashedSearch(t, p, r, path_depth_cnt(a))
    BY <2>3, <2>4, <2>5 DEF WashedSearch, TypeOf
  <2>. QED  BY <2>6 DEF a, t, r
<1>16. CASE m < N
  <2>1. ~(N < m) /\ m \in 1..N - 1 /\ m \in 0..N /\ N \in m + 1..N /\ m <= N /\ m \in 1..N
    BY <1>1, <1>11, <1>16
  <2>2. r = [type |-> TypeOf(Value(t, f[m])), at |-> f[m], depth |-> DepthTo(a, m)]
    BY <1>10, <2>1 DEF Found
  <2>3. Value(t, f[m]) # Dir
    BY <1>11, <2>1
  <2>4. Value(t, Front(p)) # Dir /\ Value(t, p) = None
    BY <1>5, <1>6, <2>1, <2>3
  <2>5. DepthTo(a, m) # DepthTo(a, N)
    BY <1>1, <1>3, <2>1, DepthGrows, ZenonT(60)
  <2>6. \E i \in 1..Len(p) : f[m] = SubSeq(p, 1, i)
    <3>1. m % 2 # 1
      <4> SUFFICES ASSUME m % 2 = 1 PROVE FALSE
        OBVIOUS
      <4>1. a[m] = "/"
        BY <1>1, <2>1
      <4>2. f[m] = f[m - 1]
        BY <1>1, <1>2, <2>1, <4>1 DEF IsNames, Turn
      <4>3. CASE m = 1
        BY <1>2, <2>3, <4>2, <4>3 DEF IsNames, Value
      <4>4. CASE m # 1
        <5>1. m - 1 \in 1..m - 1
          BY <2>1, <4>4
        <5>. QED  BY <1>11, <2>3, <4>2, <5>1
      <4>. QED  BY <4>3, <4>4
    <3>. QED  BY <1>7, <2>1, <3>1
  <2>7. r.at = f[m] /\ r.depth # path_depth_cnt(a) /\ r.type = TypeOf(Value(t, f[m]))
    BY <1>12, <2>2, <2>5
  <2> HIDE DEF r
  <2>8. WashedSearch(t, p, r, path_depth_cnt(a))
    BY <1>13, <2>3, <2>4, <2>6, <2>7 DEF WashedSearch, TypeOf
  <2>. QED  BY <2>8 DEF a, t, r
<1>. QED  BY <1>1, <1>11, <1>14, <1>15, <1>16

\* sys_open of the path that cat and echo make of their argument: it finds a file
\* exactly where every place on the way is a directory.
Walked(t, arg) == \A i \in 1..Len(arg) - 1 : Value(t, Resolve(SubSeq(arg, 1, i))) = Dir

\* sys_open of a path that is not washed, for cat and echo
LEMMA OpenIs ==
    ASSUME NEW s, s.cwd = cwd, cwd \in Seq(Name), Closed(s.tree), Value(s.tree, cwd) = Dir,
           NEW arg \in Seq(Tok), Len(arg) >= 1
    PROVE  LET text == abs_path(s, arg)
               v == Value(s.tree, Resolve(arg))
               ok == v \notin {None, Dir} /\ Walked(s.tree, arg)
           IN  /\ sys_open(s, text, FALSE) = IF Last(arg) = "/" THEN 0 ELSE IF ok THEN 5 ELSE -1
               /\ Last(arg) # "/" /\ ok => /\ search_file(s, text).type = "file"
                                          /\ search_file(s, text).at = Resolve(arg)
               /\ text \in Seq(Tok)
<1> DEFINE text == abs_path(s, arg)
           t == s.tree
           v == Value(t, Resolve(arg))
           ok == v \notin {None, Dir} /\ Walked(t, arg)
           r == search_file(s, text)
           L == Len(arg)
           N == Len(text)
<1>1. PICK k, g : IsAbs(text, arg, k, g)
  BY AbsIs
<1>2. /\ text \in Seq(Tok) /\ IsNames(g, <<>>, text) /\ k \in Nat /\ N = k + L
      /\ \A i \in 0..k : \E j \in 0..Len(cwd) : g[i] = SubSeq(cwd, 1, j)
      /\ g[N] = Resolve(arg)
      /\ \A i \in 1..L : text[k + i] = arg[i] /\ g[k + i] = Resolve(SubSeq(arg, 1, i))
  BY <1>1 DEF IsAbs
<1>3. L \in Nat /\ L >= 1 /\ L \in 1..L /\ N \in Nat /\ N >= 1
  BY <1>2
<1>4. \A i \in 0..k : Value(t, g[i]) = Dir
  <2>1. \A j \in 0..Len(cwd) : Value(t, SubSeq(cwd, 1, j)) = Dir
    BY DirsAbove
  <2>. QED  BY <1>2, <2>1
<1>5. text[N] = arg[L] /\ Last(text) = Last(arg) /\ Last(arg) = arg[L]
  BY <1>2, <1>3 DEF Last
<1>a. sys_open(s, text, FALSE) = IF Last(text) = "/" THEN 0
          ELSE IF r.type = "dir" \/ r.depth # path_depth_cnt(text) THEN -1
          ELSE IF (r.type = "file") = FALSE THEN -1 ELSE 5
  BY DEF sys_open
<1>b. path_depth_cnt(text) = DepthTo(text, N)
  BY DEF path_depth_cnt, DepthTo
<1> HIDE DEF text
<1>6. PICK m : FirstOther(t, g, m, N)
  BY <1>3, FirstExists
<1>7. r = Found(t, g, text, N, m)
  <2>1. text \in Seq(Tok) /\ IsNames(g, <<>>, text)
    BY <1>2
  <2>2. FirstOther(s.tree, g, m, Len(text))
    BY <1>6
  <2>. QED  BY <2>1, <2>2, SearchIs
<1>8. /\ m \in 1..N + 1 /\ (\A i \in 1..m - 1 : Value(t, g[i]) = Dir)
      /\ m <= N => Value(t, g[m]) # Dir
  BY <1>6 DEF FirstOther
<1>10. Dir # None
  BY ShellAssumption
<1> DEFINE Goal == Last(arg) # "/" => /\ sys_open(s, text, FALSE) = IF ok THEN 5 ELSE -1
                                      /\ ok => r.type = "file" /\ r.at = Resolve(arg)
<1> HIDE DEF text, t, r, N, L
<1>12. ASSUME m = N + 1 PROVE Goal
  <2>1. N < m /\ N \in 1..m - 1
    BY <1>3, <1>12
  <2>2. r.type = "dir"
    BY <1>7, <2>1 DEF Found
  <2>3. v = Dir
    BY <1>2, <1>8, <2>1
  <2>. QED  BY <1>5, <1>a, <2>2, <2>3
<1>13. ASSUME m = N PROVE Goal
  <2>1. ~(N < m)
    BY <1>3, <1>13
  <2>2. r.type = TypeOf(v) /\ r.at = Resolve(arg) /\ r.depth = path_depth_cnt(text)
    BY <1>2, <1>7, <1>b, <1>13, <2>1 DEF Found
  <2>3. v # Dir
    BY <1>2, <1>3, <1>8, <1>13
  <2>4. Walked(t, arg)
    <3>1. ASSUME NEW i \in 1..L - 1 PROVE Value(t, Resolve(SubSeq(arg, 1, i))) = Dir
      <4>1. k + i \in 1..m - 1 /\ i \in 1..L
        BY <1>2, <1>3, <1>13
      <4>. QED  BY <1>2, <1>8, <4>1
    <3>. QED  BY <3>1 DEF Walked, L
  <2>5. CASE v = None
    BY <1>5, <1>a, <2>2, <2>5 DEF TypeOf
  <2>6. CASE v # None
    BY <1>5, <1>a, <2>2, <2>3, <2>4, <2>6 DEF TypeOf
  <2>. QED  BY <1>5, <1>a, <2>5, <2>6
<1>14. ASSUME m < N PROVE Goal
  <2>1. ~(N < m) /\ m \in 0..N /\ N \in m + 1..N /\ m <= N
    BY <1>3, <1>8, <1>14
  <2>2. r.depth = DepthTo(text, m)
    BY <1>7, <2>1 DEF Found
  <2>3. Last(arg) # "/" => DepthTo(text, m) # DepthTo(text, N)
    <3>1. DepthTo(text, m) = DepthTo(text, N) <=> \A i \in m + 1..N : text[i] = "/"
      BY <1>3, <2>1, DepthGrows
    <3>. QED  BY <1>5, <2>1, <3>1
  <2>4. ~Walked(t, arg)
    <3>1. Value(t, g[m]) # Dir
      BY <1>8, <2>1
    <3>2. m \notin 0..k
      BY <1>4, <3>1
    <3>3. m - k \in 1..L - 1 /\ m - k \in 1..L /\ k + (m - k) = m
      BY <1>2, <1>3, <2>1, <1>14, <3>2
    <3>4. Value(t, Resolve(SubSeq(arg, 1, m - k))) # Dir
      BY <1>2, <3>1, <3>3
    <3>. QED  BY <3>3, <3>4 DEF Walked, L
  <2>. QED  BY <1>5, <1>b, <1>a, <2>2, <2>3, <2>4
<1>15. Goal
  <2>1. m \in 1..N + 1 /\ N \in Nat
    BY <1>3, <1>8
  <2>2. m = N + 1 \/ m = N \/ m < N
    BY <2>1
  <2> HIDE DEF Goal
  <2>. QED  BY <1>12, <1>13, <1>14, <2>2
<1>16. Last(arg) = "/" => sys_open(s, text, FALSE) = 0
  BY <1>5, <1>a
<1>. QED  BY <1>2, <1>15, <1>16 DEF text, t, r

-----------------------------------------------------------------------------
(***************************************************************************)
(* The invariant                                                           *)
(***************************************************************************)

\* While a line is read the array holds what has been typed; while it runs, what is
\* left of it begins behind a bar, and the bars before that have been run.
LineInv ==
    /\ buf \in [0..cmd_len -> Char \cup {"nul", "bs", "^u"}] /\ pos \in 0..cmd_len
    /\ typed \in Seq(Char) /\ stage \in Nat
    /\ stage = 0 => Len(typed) = pos /\ \A i \in 0..pos - 1 : buf[i] = typed[i + 1]
    /\ stage > 0 => /\ pos = 0 /\ Len(typed) < cmd_len
                    /\ From(stage) \in 1..Len(typed) + 1
                    /\ each_cmd = SubSeq(typed, From(stage), Len(typed))
                    /\ Cardinality({j \in Bars : j < From(stage)}) = stage - 1

\* The descriptors and the pipe
Plain == fd_table = Std /\ pipe = NoPipe /\ users = 0
Redirected ==
    /\ users = 2 /\ pipe \in 0..bufsize - 1
    /\ fd_table = [d \in 0..4 |-> CASE d = 0 -> IF stage = 1 THEN 0 ELSE Pipe
                                     [] d = 1 -> IF stage = Stages THEN 1 ELSE Pipe
                                     [] d = 2 -> 2
                                     [] OTHER -> Pipe]
FdInv == IF stage = 0 \/ Stages = 1 THEN Plain ELSE Redirected

\* The tree, and the directory of the prompt in it
TreeInv ==
    /\ tree \in [Path -> {None, Dir} \cup 0..MaxSize] /\ Closed(tree)
    /\ cwd \in Seq(Name) /\ Value(tree, cwd) = Dir /\ cwd_cache = Spell(cwd)

\* Why the shell has stopped
HaltInv ==
    /\ halt \in {"no", "line", "argv", "null", "blocked", "stdin", "loop", "seek", "root"}
    /\ stage = 0 => halt \in {"no", "line"}
    /\ halt = "line" => Len(typed) = cmd_len
    /\ halt = "argv" => Words(stage) > MAX_ARG_NR
    /\ halt = "null" => Words(stage) = 0
    /\ halt = "blocked" => /\ Stages > 1
                           /\ \E n \in Output \cup 0..MaxSize : pipe + n >= bufsize
    /\ halt = "stdin" => stage = 1

IInv == LineInv /\ FdInv /\ TreeInv /\ HaltInv

-----------------------------------------------------------------------------
(***************************************************************************)
(* The words and the commands of a line                                    *)
(***************************************************************************)
LEMMA FirstCharIs ==
    ASSUME NEW str, NEW N \in Nat, Len(str) = N, NEW i \in 1..N + 1
    PROVE  /\ FirstChar(str, i) \in i..N + 1
           /\ FirstChar(str, i) <= N => str[FirstChar(str, i)] # "sp"
           /\ \A j \in i..N : j < FirstChar(str, i) => str[j] = "sp"
<1> DEFINE S == {j \in i..N + 1 : j > N \/ str[j] # "sp"}
<1>1. S \in SUBSET Nat /\ N + 1 \in S
  OBVIOUS
<1>2. FirstChar(str, i) = Min(S)
  BY DEF FirstChar
<1>3. Min(S) \in S /\ \A k \in S : Min(S) <= k
  BY <1>1, MinIn
<1>4. PICK m : m = Min(S)
  OBVIOUS
<1>5. m \in i..N + 1 /\ (m > N \/ str[m] # "sp")
  BY <1>3, <1>4
<1>6. ASSUME NEW j \in i..N, j < m PROVE str[j] = "sp"
  <2>1. j \in i..N + 1 /\ ~(j > N) /\ ~(m <= j)
    BY <1>5, <1>6
  <2>2. j \notin S
    BY <1>3, <1>4, <2>1
  <2>. QED  BY <2>1, <2>2
<1> HIDE DEF S
<1>. QED  BY <1>2, <1>4, <1>5, <1>6

\* The blank behind a word, or the end
LEMMA FirstBlankIs ==
    ASSUME NEW str, NEW N \in Nat, Len(str) = N, NEW i \in 1..N + 1
    PROVE  /\ FirstBlank(str, i) \in i..N + 1
           /\ FirstBlank(str, i) <= N => str[FirstBlank(str, i)] = "sp"
           /\ \A j \in i..N : j < FirstBlank(str, i) => str[j] # "sp"
<1> DEFINE S == {j \in i..N + 1 : j > N \/ str[j] = "sp"}
<1>1. S \in SUBSET Nat /\ N + 1 \in S
  OBVIOUS
<1>2. FirstBlank(str, i) = Min(S)
  BY DEF FirstBlank
<1>3. Min(S) \in S /\ \A k \in S : Min(S) <= k
  BY <1>1, MinIn
<1>4. PICK m : m = Min(S)
  OBVIOUS
<1>5. m \in i..N + 1 /\ (m > N \/ str[m] = "sp")
  BY <1>3, <1>4
<1>6. ASSUME NEW j \in i..N, j < m PROVE str[j] # "sp"
  <2>1. j \in i..N + 1 /\ ~(j > N) /\ ~(m <= j)
    BY <1>5, <1>6
  <2>2. j \notin S
    BY <1>3, <1>4, <2>1
  <2>. QED  BY <2>1, <2>2
<1> HIDE DEF S
<1>. QED  BY <1>2, <1>4, <1>5, <1>6

\* Where words begin, from place i on
Starts(str, i) == {j \in i..Len(str) : str[j] # "sp" /\ (j = i \/ str[j - 1] = "sp")}

\* cmd_parse takes one word and goes on behind the blank after it.
LEMMA StartsStep ==
    ASSUME NEW str, NEW N \in Nat, Len(str) = N, NEW i \in 1..N + 2
    PROVE  Cardinality(Starts(str, i)) =
               IF i > N \/ FirstChar(str, i) > N THEN 0
               ELSE 1 + Cardinality(Starts(str, FirstBlank(str, FirstChar(str, i)) + 1))
<1> DEFINE c == FirstChar(str, i)
           b == FirstBlank(str, c)
<1>1. CASE i > N
  <2>1. Starts(str, i) = {}
    BY <1>1 DEF Starts
  <2>. QED  BY <1>1, <2>1, FS_EmptySet
<1>2. CASE ~(i > N)
  <2>1. i \in 1..N + 1
    BY <1>2
  <2>2. c \in i..N + 1 /\ (c <= N => str[c] # "sp") /\ \A j \in i..N : j < c => str[j] = "sp"
    BY <2>1, FirstCharIs
  <2> HIDE DEF c
  <2>3. CASE c > N
    <3>1. Starts(str, i) = {}
      BY <2>2, <2>3 DEF Starts
    <3>2. Cardinality(Starts(str, i)) = 0
      BY <3>1, FS_EmptySet
    <3>. QED  BY <2>3, <3>2 DEF c
  <2>4. CASE ~(c > N)
    <3>1. c \in 1..N + 1
      BY <2>1, <2>2
    <3>2. b \in c..N + 1 /\ (b <= N => str[b] = "sp") /\ \A j \in c..N : j < b => str[j] # "sp"
      BY <3>1, FirstBlankIs
    <3>3. c < b
      <4>1. c # b
        BY <2>2, <2>4, <3>2
      <4>. QED  BY <3>1, <3>2, <4>1
    <3> HIDE DEF b
    <3> DEFINE A == Starts(str, i)
               B == Starts(str, b + 1)
    <3>4. c \notin B
      BY <2>1, <2>2, <3>2, <3>3 DEF Starts
    <3>5. A = B \cup {c}
      <4>1. c \in A
        <5>1. c \in i..N /\ str[c] # "sp"
          BY <2>1, <2>2, <2>4
        <5>2. c = i \/ str[c - 1] = "sp"
          <6>1. c # i => c - 1 \in i..N /\ c - 1 < c
            BY <2>1, <5>1
          <6>. QED  BY <2>2, <6>1
        <5>. QED  BY <5>1, <5>2 DEF Starts
      <4>2. ASSUME NEW j \in B PROVE j \in A
        <5>1. j \in b + 1..N /\ str[j] # "sp" /\ (j = b + 1 \/ str[j - 1] = "sp")
          BY DEF Starts
        <5>2. j \in i..N /\ (j = b + 1 => j - 1 = b /\ b <= N)
          BY <2>1, <2>2, <3>2, <3>3, <5>1
        <5>3. str[j - 1] = "sp"
          BY <3>2, <5>1, <5>2
        <5>. QED  BY <5>1, <5>2, <5>3 DEF Starts
      <4>3. ASSUME NEW j \in A, j # c PROVE j \in B
        <5>1. j \in i..N /\ str[j] # "sp" /\ (j = i \/ str[j - 1] = "sp")
          BY DEF Starts
        <5>2. ~(j < c)
          BY <2>2, <5>1
        <5>3. j > c /\ j - 1 \in c..N /\ j # i /\ j \in c..N
          BY <2>1, <2>2, <4>3, <5>1, <5>2
        <5>4. str[j - 1] = "sp"
          BY <5>1, <5>3
        <5>5. ~(j - 1 < b)
          BY <3>2, <5>3, <5>4
        <5>6. j \in b + 1..N
          BY <2>1, <3>2, <5>1, <5>3, <5>5
        <5>. QED  BY <5>1, <5>4, <5>6 DEF Starts
      <4>. QED  BY <4>1, <4>2, <4>3
    <3>6. IsFiniteSet(B) /\ Cardinality(B) \in Nat
      <4>1. b + 1 \in Int /\ N \in Int /\ B \in SUBSET (b + 1..N)
        BY <2>1, <2>2, <3>2 DEF Starts
      <4>2. IsFiniteSet(b + 1..N)
        BY <4>1, FS_Interval
      <4> HIDE DEF B
      <4>3. IsFiniteSet(B)
        BY <4>1, <4>2, FS_Subset
      <4>. QED  BY <4>3, FS_CardinalityType
    <3> HIDE DEF A, B
    <3>7. Cardinality(A) = Cardinality(B) + 1
      BY <3>4, <3>5, <3>6, FS_AddElement
    <3>8. Cardinality(A) = 1 + Cardinality(B)
      BY <3>6, <3>7
    <3>. QED  BY <1>2, <2>4, <3>8 DEF A, B, b, c
  <2>. QED  BY <2>3, <2>4
<1>. QED  BY <1>1, <1>2

\* cmd_parse counts the words.
LEMMA ParseIs ==
    ASSUME NEW str \in Seq(Char)
    PROVE  cmd_parse(str) = Cardinality(Starts(str, 1))
<1> DEFINE N == Len(str)
           After(i) == FirstBlank(str, FirstChar(str, i)) + 1
           Done(i) == i > N \/ FirstChar(str, i) > N
           Body(h) == [i \in 1..N + 2 |-> IF i > Len(str) \/ FirstChar(str, i) > Len(str) THEN 0
                                          ELSE 1 + h[FirstBlank(str, FirstChar(str, i)) + 1]]
           words == CHOOSE h : h = Body(h)
           g == [i \in 1..N + 2 |-> Cardinality(Starts(str, i))]
<1>1. cmd_parse(str) = words[1]
  BY DEF cmd_parse
<1>2. ASSUME NEW i \in 1..N + 2, ~Done(i) PROVE After(i) \in i + 1..N + 2
  <2> DEFINE c == FirstChar(str, i)
             b == FirstBlank(str, c)
  <2>1. i \in 1..N + 1 /\ ~(c > N)
    BY <1>2
  <2>2. c \in i..N + 1
    BY <2>1, FirstCharIs
  <2> HIDE DEF c
  <2>3. c \in 1..N + 1
    BY <2>1, <2>2
  <2>4. b \in c..N + 1
    BY <2>3, FirstBlankIs
  <2> HIDE DEF b
  <2>5. b + 1 \in i + 1..N + 2
    BY <2>1, <2>2, <2>4
  <2>. QED  BY <2>5 DEF b, c
<1>3. ASSUME NEW i \in 1..N + 2 PROVE g[i] = Body(g)[i]
  <2>1. CASE Done(i)
    <3>1. g[i] = 0
      BY <2>1, StartsStep
    <3>2. Body(g)[i] = 0
      BY <2>1
    <3>. QED  BY <3>1, <3>2
  <2>2. CASE ~Done(i)
    <3>1. After(i) \in 1..N + 2
      BY <1>2, <2>2
    <3>2. g[i] = 1 + Cardinality(Starts(str, After(i)))
      BY <2>2, StartsStep
    <3>3. g[After(i)] = Cardinality(Starts(str, After(i)))
      BY <3>1
    <3>4. Body(g)[i] = 1 + g[After(i)]
      <4> HIDE DEF g
      <4>. QED  BY <2>2
    <3> HIDE DEF g, Body, After
    <3>. QED  BY <3>2, <3>3, <3>4
  <2>. QED  BY <2>1, <2>2
<1>4. g = Body(g)
  BY <1>3
<1>5. words = Body(words)
  BY <1>4
<1> HIDE DEF words
<1>6. ASSUME NEW h, NEW i \in 1..N + 2, h = Body(h)
      PROVE  h[i] = IF Done(i) THEN 0 ELSE 1 + h[After(i)]
  BY <1>6
<1>7. \A i \in 1..N + 2 : words[i] = IF Done(i) THEN 0 ELSE 1 + words[After(i)]
  BY <1>5, <1>6
<1>8. \A i \in 1..N + 2 : g[i] = IF Done(i) THEN 0 ELSE 1 + g[After(i)]
  BY <1>4, <1>6
<1>9. 1 \in 1..N + 2 /\ g[1] = Cardinality(Starts(str, 1))
  OBVIOUS
<1> HIDE DEF Body, g, Done, After
<1> DEFINE Bad == {k \in 0..N + 1 : words[N + 2 - k] # g[N + 2 - k]}
<1>10. Bad = {}
  <2> SUFFICES ASSUME Bad # {} PROVE FALSE
    OBVIOUS
  <2>1. Bad \in SUBSET Nat
    OBVIOUS
  <2>2. PICK k \in Bad : \A j \in Bad : k <= j
    BY <2>1, Least
  <2> DEFINE i == N + 2 - k
  <2>3. k \in 0..N + 1 /\ i \in 1..N + 2 /\ words[i] # g[i]
    OBVIOUS
  <2>4. ~Done(i)
    BY <1>7, <1>8, <2>3
  <2>5. After(i) \in i + 1..N + 2
    BY <1>2, <2>3, <2>4
  <2>6. words[After(i)] # g[After(i)]
    BY <1>7, <1>8, <2>3, <2>4
  <2> DEFINE j == N + 2 - After(i)
  <2>7. j \in 0..N + 1 /\ N + 2 - j = After(i) /\ ~(k <= j)
    BY <2>3, <2>5
  <2>8. j \in Bad
    BY <2>6, <2>7
  <2>. QED  BY <2>2, <2>7, <2>8
<1>11. words[1] = g[1]
  <2>1. N + 1 \in 0..N + 1 /\ N + 2 - (N + 1) = 1
    OBVIOUS
  <2>2. N + 1 \notin Bad
    BY <1>10
  <2>. QED  BY <2>1, <2>2
<1>. QED  BY <1>1, <1>9, <1>11

\* A slice of a sequence
LEMMA SliceFacts ==
    ASSUME NEW S, NEW p \in Seq(S), NEW N \in Nat, Len(p) = N, NEW a \in 1..N + 1, NEW b \in a - 1..N
    PROVE  /\ SubSeq(p, a, b) \in Seq(S) /\ Len(SubSeq(p, a, b)) = b - a + 1
           /\ \A i \in 1..b - a + 1 : SubSeq(p, a, b)[i] = p[a + i - 1]
<1>1. a \in Int /\ b \in Int
  OBVIOUS
<1>2. \A i \in a..b : p[i] \in S
  <2>1. \A i \in a..b : i \in 1..N
    OBVIOUS
  <2>. QED  BY <2>1
<1>3. /\ SubSeq(p, a, b) \in Seq(S)
      /\ Len(SubSeq(p, a, b)) = IF a <= b THEN b - a + 1 ELSE 0
      /\ \A i \in 1..b - a + 1 : SubSeq(p, a, b)[i] = p[a + i - 1]
  BY <1>1, <1>2, SubSeqProperties
<1>. QED  BY <1>1, <1>3

\* A slice of a slice
LEMMA SliceSlice ==
    ASSUME NEW S, NEW p \in Seq(S), NEW N \in Nat, Len(p) = N, NEW a \in 1..N + 1, NEW b \in a - 1..N,
           NEW c \in 1..(b - a + 1) + 1, NEW d \in c - 1..b - a + 1
    PROVE  SubSeq(SubSeq(p, a, b), c, d) = SubSeq(p, a + c - 1, a + d - 1)
<1> DEFINE q == SubSeq(p, a, b)
           M == b - a + 1
           x == SubSeq(q, c, d)
           y == SubSeq(p, a + c - 1, a + d - 1)
<1>1. q \in Seq(S) /\ Len(q) = M /\ \A i \in 1..M : q[i] = p[a + i - 1]
  BY SliceFacts
<1>2. M \in Nat /\ c \in 1..M + 1 /\ d \in c - 1..M
  OBVIOUS
<1> HIDE DEF q, M
<1>3. x \in Seq(S) /\ Len(x) = d - c + 1 /\ \A i \in 1..d - c + 1 : x[i] = q[c + i - 1]
  BY <1>1, <1>2, SliceFacts
<1>4. a + c - 1 \in 1..N + 1 /\ a + d - 1 \in (a + c - 1) - 1..N /\ (a + d - 1) - (a + c - 1) + 1 = d - c + 1
  BY <1>2 DEF M
<1>5. /\ y \in Seq(S) /\ Len(y) = (a + d - 1) - (a + c - 1) + 1
      /\ \A i \in 1..(a + d - 1) - (a + c - 1) + 1 : y[i] = p[(a + c - 1) + i - 1]
  BY <1>4, SliceFacts
<1> HIDE DEF x, y
<1>6. ASSUME NEW i \in 1..d - c + 1 PROVE x[i] = y[i]
  <2>1. c + i - 1 \in 1..M /\ a + (c + i - 1) - 1 = (a + c - 1) + i - 1
    BY <1>2
  <2>2. x[i] = p[a + (c + i - 1) - 1]
    BY <1>1, <1>3, <2>1
  <2>3. y[i] = p[(a + c - 1) + i - 1]
    BY <1>4, <1>5
  <2>. QED  BY <2>1, <2>2, <2>3
<1>7. x = y
  BY <1>3, <1>4, <1>5, <1>6, SameSeq
<1>. QED  BY <1>7 DEF x, y, q

\* The first bar of a text
LEMMA BarIs ==
    ASSUME NEW str, NEW N \in Nat, Len(str) = N
    PROVE  /\ Bar(str) \in 0..N
           /\ Bar(str) = 0 => \A i \in 1..N : str[i] # "|"
           /\ Bar(str) # 0 => str[Bar(str)] = "|" /\ \A i \in 1..N : i < Bar(str) => str[i] # "|"
<1> DEFINE S == {i \in 1..N : str[i] = "|"}
<1>1. S \in SUBSET Nat
  OBVIOUS
<1>2. Bar(str) = IF S # {} THEN Min(S) ELSE 0
  BY DEF Bar, SelectInSeq
<1>3. CASE S = {}
  BY <1>2, <1>3
<1>4. CASE S # {}
  <2>1. Min(S) \in S /\ \A k \in S : Min(S) <= k
    BY <1>1, <1>4, MinIn
  <2>2. PICK m : m = Min(S)
    OBVIOUS
  <2>3. m \in 1..N /\ str[m] = "|"
    BY <2>1, <2>2
  <2>4. ASSUME NEW i \in 1..N, i < m PROVE str[i] # "|"
    <3>1. ~(m <= i)
      BY <2>3, <2>4
    <3>2. i \notin S
      BY <2>1, <2>2, <3>1
    <3>. QED  BY <3>2
  <2>5. Bar(str) = m
    BY <1>2, <1>4, <2>2
  <2>. QED  BY <2>3, <2>4, <2>5
<1>. QED  BY <1>3, <1>4

\* The bars of a line can be counted.
LEMMA BarsFinite ==
    ASSUME typed \in Seq(Char)
    PROVE  /\ IsFiniteSet(Bars) /\ Cardinality(Bars) \in Nat
           /\ \A P \in SUBSET Bars : IsFiniteSet(P) /\ Cardinality(P) \in Nat
<1>1. Len(typed) \in Nat /\ Bars \in SUBSET (1..Len(typed))
  BY DEF Bars
<1>2. 1 \in Int /\ Len(typed) \in Int
  BY <1>1
<1>3. IsFiniteSet(1..Len(typed))
  BY <1>2, FS_Interval
<1>4. IsFiniteSet(Bars)
  BY <1>1, <1>3, FS_Subset
<1>5. \A P \in SUBSET Bars : IsFiniteSet(P)
  BY <1>4, FS_Subset
<1>. QED  BY <1>4, <1>5, FS_CardinalityType

\* Two bars have not as many bars up to them.
LEMMA BarRank ==
    ASSUME typed \in Seq(Char), NEW i \in Bars, NEW k \in Bars,
           Cardinality({j \in Bars : j <= i}) = Cardinality({j \in Bars : j <= k})
    PROVE  i = k
<1>1. ASSUME NEW x \in Bars, NEW y \in Bars, x < y,
             Cardinality({j \in Bars : j <= x}) = Cardinality({j \in Bars : j <= y})
      PROVE  FALSE
  <2> DEFINE X == {j \in Bars : j <= x}
             Y == {j \in Bars : j <= y}
  <2>1. Bars \in SUBSET Int
    BY DEF Bars
  <2>2. X \in SUBSET Y /\ y \in Y /\ y \notin X /\ Y \in SUBSET Bars
    <3>1. x \in Int /\ y \in Int /\ y <= y /\ ~(y <= x)
      BY <1>1, <2>1
    <3>2. \A j \in Bars : j <= x => j <= y
      BY <1>1, <2>1, <3>1
    <3>. QED  BY <3>1, <3>2
  <2>3. IsFiniteSet(Y)
    BY <2>2, BarsFinite
  <2> HIDE DEF X, Y
  <2>4. Cardinality(Y) = Cardinality(X) => Y = X
    BY <2>2, <2>3, FS_Subset
  <2>5. Cardinality(Y) = Cardinality(X)
    BY <1>1 DEF X, Y
  <2>. QED  BY <2>2, <2>4, <2>5
<1>2. i \in Int /\ k \in Int
  BY DEF Bars
<1>. QED  BY <1>1, <1>2

\* What is left of the line: the next bar in it ends the command, and the next stage
\* begins behind it.
StageFacts(b, F, N) ==
    /\ stage \in 1..Stages /\ Stages \in Nat /\ b \in 0..N - F + 1
    /\ b = 0 <=> stage = Stages
    /\ b # 0 => /\ F + b \in 1..N + 1 /\ From(stage + 1) = F + b
                /\ Cardinality({j \in Bars : j < F + b}) = stage
                /\ SubSeq(each_cmd, b + 1, Len(each_cmd)) = SubSeq(typed, F + b, N)
    /\ CmdText = SubSeq(typed, F, To(stage)) /\ To(stage) \in F - 1..N

\* The invariant of the line gives these.
LEMMA StageIs ==
    ASSUME LineInv, stage > 0
    PROVE  StageFacts(Bar(each_cmd), From(stage), Len(typed))
<1> DEFINE N == Len(typed)
           F == From(stage)
           b == Bar(each_cmd)
           M == N - F + 1
           Before == {j \in Bars : j < F}
<1>1. /\ typed \in Seq(Char) /\ stage \in Nat /\ stage >= 1 /\ F \in 1..N + 1
      /\ each_cmd = SubSeq(typed, F, N) /\ Cardinality(Before) = stage - 1
  BY DEF LineInv
<1>2. N \in Nat
  BY <1>1
<1>3. Bars = {i \in 1..N : typed[i] = "|"} /\ Stages = Cardinality(Bars) + 1
  BY DEF Bars, Stages
<1> HIDE DEF N, F
<1>4. M \in Nat /\ N \in F - 1..N
  BY <1>1, <1>2
<1>5. each_cmd \in Seq(Char) /\ Len(each_cmd) = M /\ \A i \in 1..M : each_cmd[i] = typed[F + i - 1]
  BY <1>1, <1>2, <1>4, SliceFacts DEF N
<1>6. /\ b \in 0..M
      /\ b = 0 => \A i \in 1..M : each_cmd[i] # "|"
      /\ b # 0 => each_cmd[b] = "|" /\ \A i \in 1..M : i < b => each_cmd[i] # "|"
  BY <1>4, <1>5, BarIs
<1> HIDE DEF b
<1>7. Before \in SUBSET Bars /\ IsFiniteSet(Bars) /\ IsFiniteSet(Before) /\ Cardinality(Bars) \in Nat
  BY <1>1, BarsFinite
<1>8. Cardinality(Before) <= Cardinality(Bars)
  BY <1>7, FS_Subset
<1>9. stage \in 1..Stages /\ Stages \in Nat
  BY <1>1, <1>3, <1>7, <1>8
<1>10. CmdText = IF b = 0 THEN each_cmd ELSE SubSeq(each_cmd, 1, b - 1)
  BY DEF CmdText, b
<1>11. To(stage) = IF stage = Stages THEN N ELSE From(stage + 1) - 2
  BY DEF To, N
<1>12. CASE b = 0
  <2>1. Bars = Before
    <3>1. ASSUME NEW j \in Bars PROVE j < F
      <4> SUFFICES ASSUME ~(j < F) PROVE FALSE
        OBVIOUS
      <4>1. j \in 1..N /\ typed[j] = "|"
        BY <1>3
      <4>2. j - F + 1 \in 1..M /\ F + (j - F + 1) - 1 = j
        BY <1>1, <1>2, <4>1
      <4>. QED  BY <1>5, <1>6, <1>12, <4>1, <4>2
    <3>. QED  BY <3>1
  <2> HIDE DEF Before
  <2>2. stage = Stages
    <3>1. Cardinality(Bars) = stage - 1
      BY <1>1, <2>1
    <3>. QED  BY <1>1, <1>3, <3>1
  <2>3. CmdText = SubSeq(typed, F, To(stage)) /\ To(stage) \in F - 1..N
    BY <1>1, <1>4, <1>10, <1>11, <1>12, <2>2
  <2>4. StageFacts(b, F, N)
    BY <1>6, <1>9, <1>12, <2>2, <2>3 DEF StageFacts
  <2>. QED  BY <2>4 DEF b, F, N
<1>13. CASE b # 0
  <2> DEFINE i == F + b - 1
             Upto == {j \in Bars : j <= i}
  <2>1. b \in 1..M /\ i \in 1..N /\ i >= F /\ typed[i] = "|"
    BY <1>1, <1>2, <1>5, <1>6, <1>13
  <2>2. i \in Bars
    BY <1>3, <2>1
  <2>3. Upto = Before \cup {i} /\ i \notin Before
    <3>1. ASSUME NEW j \in Bars, j <= i, j # i PROVE j < F
      <4> SUFFICES ASSUME ~(j < F) PROVE FALSE
        OBVIOUS
      <4>1. j \in 1..N /\ typed[j] = "|"
        BY <1>3
      <4>2. j - F + 1 \in 1..M /\ F + (j - F + 1) - 1 = j /\ j - F + 1 < b
        BY <1>1, <1>2, <2>1, <3>1, <4>1
      <4>. QED  BY <1>5, <1>6, <1>13, <4>1, <4>2
    <3>2. \A j \in Bars : j < F => j <= i
      BY <1>1, <1>2, <1>3, <2>1
    <3>3. ~(i < F)
      BY <1>1, <1>2, <2>1
    <3> HIDE DEF i
    <3>4. Upto \subseteq Before \cup {i}
      BY <3>1
    <3>5. Before \cup {i} \subseteq Upto
      <4>1. i <= i
        BY <2>1
      <4>. QED  BY <2>2, <3>2, <4>1
    <3>. QED  BY <3>3, <3>4, <3>5
  <2> HIDE DEF Before, Upto
  <2>4. Cardinality(Upto) = Cardinality(Before) + 1
    BY <1>7, <2>3, FS_AddElement
  <2>5. Cardinality(Upto) = stage
    BY <1>1, <2>4
  <2>6. Upto = {j \in Bars : j < F + b}
    <3>1. \A j \in Bars : j <= i <=> j < F + b
      BY <1>1, <1>2, <1>3, <2>1
    <3>. QED  BY <3>1 DEF Upto
  <2>7. stage < Stages
    <3>1. Upto \in SUBSET Bars
      BY DEF Upto
    <3>2. Cardinality(Upto) <= Cardinality(Bars)
      BY <1>7, <3>1, FS_Subset
    <3>. QED  BY <1>1, <1>3, <1>7, <2>5, <3>2
  <2>8. From(stage + 1) = F + b
    <3> DEFINE x == CHOOSE x \in Bars : Cardinality({j \in Bars : j <= x}) = (stage + 1) - 1
    <3>1. Cardinality({j \in Bars : j <= i}) = (stage + 1) - 1
      BY <1>1, <2>5 DEF Upto
    <3> HIDE DEF i
    <3>2. x \in Bars /\ Cardinality({j \in Bars : j <= x}) = (stage + 1) - 1
      BY <2>2, <3>1
    <3> HIDE DEF x
    <3>3. x = i
      BY <1>1, <2>2, <3>1, <3>2, BarRank
    <3>4. From(stage + 1) = IF stage + 1 = 1 THEN 1 ELSE 1 + x
      BY DEF From, x
    <3>5. stage + 1 # 1 /\ 1 + i = F + b
      BY <1>1, <1>2, <2>1 DEF i
    <3>. QED  BY <3>3, <3>4, <3>5
  <2>9. F + b \in 1..N + 1 /\ To(stage) = i - 1 /\ To(stage) \in F - 1..N
    BY <1>1, <1>2, <1>11, <2>1, <2>7, <2>8
  <2>10. SubSeq(each_cmd, 1, b - 1) = SubSeq(typed, F, To(stage))
    <3>1. 1 \in 1..(N - F + 1) + 1 /\ b - 1 \in 1 - 1..N - F + 1 /\ F + 1 - 1 = F /\ F + (b - 1) - 1 = i - 1
      BY <1>1, <1>2, <2>1
    <3>2. SubSeq(SubSeq(typed, F, N), 1, b - 1) = SubSeq(typed, F + 1 - 1, F + (b - 1) - 1)
      BY <1>1, <1>2, <1>4, <3>1, SliceSlice, ZenonT(60) DEF N
    <3>. QED  BY <1>1, <2>9, <3>1, <3>2
  <2>11. SubSeq(each_cmd, b + 1, Len(each_cmd)) = SubSeq(typed, F + b, N)
    <3> DEFINE c == b + 1
               d == N - F + 1
    <3>1. /\ c \in 1..(N - F + 1) + 1 /\ d \in c - 1..N - F + 1
          /\ F + c - 1 = F + b /\ F + d - 1 = N
      BY <1>1, <1>2, <2>1
    <3>2. Len(typed) = N
      BY DEF N
    <3> HIDE DEF c, d
    <3>3. SubSeq(SubSeq(typed, F, N), c, d) = SubSeq(typed, F + c - 1, F + d - 1)
      BY <1>1, <1>2, <1>4, <3>1, <3>2, SliceSlice
    <3>4. SubSeq(each_cmd, c, d) = SubSeq(typed, F + b, N)
      BY <1>1, <3>1, <3>3
    <3>. QED  BY <1>5, <3>4 DEF c, d
  <2>12. Cardinality({j \in Bars : j < F + b}) = stage
    BY <2>5, <2>6
  <2>13. CmdText = SubSeq(typed, F, To(stage))
    BY <1>10, <1>13, <2>10
  <2>14. stage # Stages
    BY <1>9, <2>7
  <2>15. StageFacts(b, F, N)
    BY <1>6, <1>9, <1>13, <2>8, <2>9, <2>11, <2>12, <2>13, <2>14 DEF StageFacts
  <2>. QED  BY <2>15 DEF b, F, N
<1>. QED  BY <1>12, <1>13

\* The words cmd_parse finds in a command are the ones typed there.
LEMMA WordsIs ==
    ASSUME LineInv, stage > 0
    PROVE  cmd_parse(CmdText) = Words(stage) /\ Words(stage) \in Nat
<1> DEFINE N == Len(typed)
           F == From(stage)
           T == To(stage)
           M == T - F + 1
           str == SubSeq(typed, F, T)
           A == {i \in F..T : typed[i] # "sp" /\ (i = F \/ typed[i - 1] = "sp")}
           B == Starts(str, 1)
<1>1. typed \in Seq(Char) /\ F \in 1..N + 1
  BY DEF LineInv
<1>2. CmdText = str /\ T \in F - 1..N
  BY StageIs DEF StageFacts
<1>3. N \in Nat
  BY <1>1
<1>4. Words(stage) = Cardinality(A)
  BY DEF Words
<1> HIDE DEF N, F, T
<1>5. M \in Nat
  BY <1>1, <1>2, <1>3
<1>6. str \in Seq(Char) /\ Len(str) = M /\ \A i \in 1..M : str[i] = typed[F + i - 1]
  BY <1>1, <1>2, <1>3, SliceFacts DEF N
<1> HIDE DEF str
<1>7. cmd_parse(str) = Cardinality(B)
  BY <1>6, ParseIs
<1>8. B = {j \in 1..M : str[j] # "sp" /\ (j = 1 \/ str[j - 1] = "sp")}
  BY <1>6 DEF Starts
<1>9. IsFiniteSet(B) /\ Cardinality(B) \in Nat
  <2>1. 1 \in Int /\ M \in Int /\ B \in SUBSET (1..M)
    BY <1>5, <1>8
  <2>2. IsFiniteSet(1..M)
    BY <2>1, FS_Interval
  <2> HIDE DEF B
  <2>3. IsFiniteSet(B)
    BY <2>1, <2>2, FS_Subset
  <2>. QED  BY <2>3, FS_CardinalityType
<1>10. ASSUME NEW j \in 1..M
       PROVE  /\ F + j - 1 \in F..T /\ (F + j - 1 = F <=> j = 1)
              /\ str[j] = typed[F + j - 1]
              /\ j # 1 => str[j - 1] = typed[(F + j - 1) - 1]
  <2>1. F + j - 1 \in F..T /\ (F + j - 1 = F <=> j = 1)
    BY <1>1, <1>2, <1>3
  <2>2. j # 1 => j - 1 \in 1..M /\ F + (j - 1) - 1 = (F + j - 1) - 1
    BY <1>1, <1>3, <1>5
  <2>. QED  BY <1>6, <2>1, <2>2
<1> DEFINE f == [j \in B |-> F + j - 1]
<1>11. ASSUME NEW j \in B PROVE F + j - 1 \in A
  <2>1. j \in 1..M /\ str[j] # "sp" /\ (j = 1 \/ str[j - 1] = "sp")
    BY <1>8
  <2>. QED  BY <1>10, <2>1
<1>12. ASSUME NEW i \in A PROVE \E j \in B : f[j] = i
  <2>1. i \in F..T /\ typed[i] # "sp" /\ (i = F \/ typed[i - 1] = "sp")
    OBVIOUS
  <2>2. i - F + 1 \in 1..M /\ F + (i - F + 1) - 1 = i
    BY <1>1, <1>2, <1>3, <2>1
  <2>3. i - F + 1 \in B
    BY <1>8, <1>10, <2>1, <2>2
  <2>. QED  BY <2>2, <2>3
<1>13. \A j, k \in B : F + j - 1 = F + k - 1 => j = k
  BY <1>1, <1>3, <1>8
<1> HIDE DEF A, B
<1>14. f \in [B -> A] /\ (\A j, k \in B : f[j] = f[k] => j = k)
  BY <1>11, <1>13
<1>15. f \in Bijection(B, A)
  <2>1. DOMAIN f = B
    OBVIOUS
  <2> HIDE DEF f
  <2>2. f \in Injection(B, A)
    BY <1>14, <2>1 DEF Injection, IsInjective
  <2>3. f \in Surjection(B, A)
    BY <1>12, <1>14 DEF Surjection
  <2>. QED  BY <2>2, <2>3 DEF Bijection
<1>16. Cardinality(A) = Cardinality(B)
  BY <1>9, <1>15, FS_Bijection DEF ExistsBijection
<1>. QED  BY <1>2, <1>4, <1>7, <1>9, <1>16

-----------------------------------------------------------------------------
(***************************************************************************)
(* What the commands make of a state, in terms of the path that their      *)
(* argument means                                                          *)
(***************************************************************************)
Ready(s) == s.cwd = cwd /\ cwd \in Seq(Name) /\ Closed(s.tree) /\ Value(s.tree, cwd) = Dir
IsCmd(c) == c.arg \in Seq(Tok) /\ Len(c.arg) >= 1 /\ c.out \in Output
Up(t, p) == Value(t, IF p = <<>> THEN p ELSE Front(p))
IsFile(t, p) == Value(t, p) \notin {None, Dir}

\* What make_clear_abs_path makes of an argument, and where search_file is led
LEMMA WashedArg ==
    ASSUME NEW s, NEW c, Ready(s), IsCmd(c)
    PROVE  LET p == Resolve(c.arg)
               path == make_clear_abs_path(s, c.arg)
           IN  /\ path = Spell(p) /\ p \in Seq(Name) /\ (path = <<"/">>) = (p = <<>>)
               /\ Last(path) = "/" <=> p = <<>>
               /\ WashedSearch(s.tree, p, search_file(s, path), path_depth_cnt(path))
               /\ path \in Seq(Tok)
<1> DEFINE p == Resolve(c.arg)
           path == make_clear_abs_path(s, c.arg)
<1>1. path = Spell(p) /\ p \in Seq(Name)
  BY AbsIs DEF Ready, IsCmd
<1> HIDE DEF p, path
<1>2. (path = <<"/">>) = (p = <<>>) /\ (Last(path) = "/" <=> p = <<>>)
  BY <1>1, SpellRoot
<1>3. path \in Seq(Tok)
  BY <1>1, SpellFacts
<1>4. WashedSearch(s.tree, p, search_file(s, path), path_depth_cnt(path))
  <2>1. CASE p = <<>>
    BY <1>1, <2>1, WashedRoot
  <2>2. CASE p # <<>>
    BY <1>1, <2>2, WashedIs DEF Ready
  <2>. QED  BY <2>1, <2>2
<1>. QED  BY <1>1, <1>2, <1>3, <1>4 DEF p, path

\* buildin_cd
LEMMA CdIs ==
    ASSUME NEW s, NEW c, Ready(s), IsCmd(c), NEW argc \in Nat
    PROVE  LET q == IF argc = 1 THEN <<>> ELSE Resolve(c.arg)
           IN  /\ buildin_cd(s, argc, c) =
                     IF argc > 2 \/ Value(s.tree, q) # Dir THEN printf(s, c.out)
                     ELSE [s EXCEPT !.cwd = q, !.cache = Spell(q)]
               /\ q \in Seq(Name)
<1> DEFINE q == IF argc = 1 THEN <<>> ELSE Resolve(c.arg)
           path == IF argc = 1 THEN <<"/">> ELSE make_clear_abs_path(s, c.arg)
           r == search_file(s, path)
<1>1. q \in Seq(Name) /\ path = Spell(q) /\ WashedSearch(s.tree, q, r, path_depth_cnt(path))
  <2>1. CASE argc = 1
    <3>1. Spell(<<>>) = <<"/">> /\ <<>> \in Seq(Name)
      BY DEF Spell
    <3>. QED  BY <2>1, <3>1, WashedRoot
  <2>2. CASE argc # 1
    BY <2>2, WashedArg
  <2>. QED  BY <2>1, <2>2
<1>2. buildin_cd(s, argc, c) = IF argc > 2 \/ r.type # "dir" THEN Complain(s, c)
                               ELSE [s EXCEPT !.cwd = r.at, !.cache = path]
  BY DEF buildin_cd
<1> HIDE DEF q, path, r
<1>3. (r.type = "dir" <=> Value(s.tree, q) = Dir) /\ (r.type = "dir" => r.at = q)
  BY <1>1 DEF WashedSearch
<1>4. Complain(s, c) = printf(s, c.out)
  BY DEF Complain
<1>. QED  BY <1>1, <1>2, <1>3, <1>4 DEF q

\* buildin_mkdir
LEMMA MkdirIs ==
    ASSUME NEW s, NEW c, Ready(s), IsCmd(c), NEW argc
    PROVE  LET p == Resolve(c.arg)
           IN  buildin_mkdir(s, argc, c) =
                 IF argc # 2 THEN printf(s, c.out) ELSE IF p = <<>> THEN s
                 ELSE IF Value(s.tree, p) = None /\ Up(s.tree, p) = Dir THEN Put(s, p, Dir)
                 ELSE printf(s, c.out)
<1> DEFINE p == Resolve(c.arg)
           path == make_clear_abs_path(s, c.arg)
           r == search_file(s, path)
<1>1. (path = <<"/">>) = (p = <<>>) /\ WashedSearch(s.tree, p, r, path_depth_cnt(path))
  BY WashedArg
<1>2. buildin_mkdir(s, argc, c) =
          IF argc # 2 THEN Complain(s, c)
          ELSE IF path = <<"/">> THEN s
          ELSE IF r.type = "none" /\ r.depth = path_depth_cnt(path) THEN Put(s, r.at, Dir)
          ELSE Complain(s, c)
  BY DEF buildin_mkdir
<1>3. Complain(s, c) = printf(s, c.out)
  BY DEF Complain
<1> HIDE DEF p, path, r
<1>4. p # <<>> => /\ (r.type = "none" /\ r.depth = path_depth_cnt(path)) <=>
                       (Value(s.tree, p) = None /\ Up(s.tree, p) = Dir)
                  /\ (r.type = "none" /\ r.depth = path_depth_cnt(path)) => r.at = p
  BY <1>1 DEF WashedSearch, Up
<1>. QED  BY <1>1, <1>2, <1>3, <1>4 DEF p

\* buildin_rmdir
LEMMA RmdirIs ==
    ASSUME NEW s, NEW c, Ready(s), IsCmd(c), NEW argc
    PROVE  LET p == Resolve(c.arg)
           IN  buildin_rmdir(s, argc, c) =
                 IF argc # 2 THEN printf(s, c.out) ELSE IF p = <<>> THEN s
                 ELSE IF Value(s.tree, p) = Dir /\ Children(s.tree, p) = {} THEN Put(s, p, None)
                 ELSE printf(s, c.out)
<1> DEFINE p == Resolve(c.arg)
           path == make_clear_abs_path(s, c.arg)
           r == search_file(s, path)
<1>1. (path = <<"/">>) = (p = <<>>) /\ WashedSearch(s.tree, p, r, path_depth_cnt(path))
  BY WashedArg
<1>2. buildin_rmdir(s, argc, c) =
          IF argc # 2 THEN Complain(s, c)
          ELSE IF path = <<"/">> THEN s
          ELSE IF r.type = "dir" /\ Children(s.tree, r.at) = {} THEN Put(s, r.at, None)
          ELSE Complain(s, c)
  BY DEF buildin_rmdir
<1>3. Complain(s, c) = printf(s, c.out)
  BY DEF Complain
<1> HIDE DEF p, path, r
<1>4. (r.type = "dir" <=> Value(s.tree, p) = Dir) /\ (r.type = "dir" => r.at = p)
  BY <1>1 DEF WashedSearch
<1>. QED  BY <1>1, <1>2, <1>3, <1>4 DEF p

\* buildin_touch
LEMMA TouchIs ==
    ASSUME NEW s, NEW c, Ready(s), IsCmd(c), NEW argc
    PROVE  LET p == Resolve(c.arg)
           IN  buildin_touch(s, argc, c) =
                 IF argc # 2 \/ p = <<>> THEN printf(s, c.out)
                 ELSE IF Value(s.tree, p) = None /\ Up(s.tree, p) = Dir THEN Put(s, p, 0)
                 ELSE printf(s, c.out)
<1> DEFINE p == Resolve(c.arg)
           path == make_clear_abs_path(s, c.arg)
           r == search_file(s, path)
           fd == sys_open(s, path, TRUE)
<1>1. /\ (Last(path) = "/" <=> p = <<>>) /\ WashedSearch(s.tree, p, r, path_depth_cnt(path))
      /\ path \in Seq(Tok)
  BY WashedArg
<1>2. buildin_touch(s, argc, c) =
          IF argc # 2 \/ Last(path) = "/" THEN Complain(s, c)
          ELSE IF fd > 2 THEN Put(s, r.at, 0)
          ELSE Complain(s, c)
  BY DEF buildin_touch
<1>3. Complain(s, c) = printf(s, c.out)
  BY DEF Complain
<1>4. fd = IF Last(path) = "/" THEN 0
           ELSE IF r.type = "dir" \/ r.depth # path_depth_cnt(path) THEN -1
           ELSE IF (r.type = "file") = TRUE THEN -1 ELSE 5
  BY DEF sys_open
<1>5. r.type \in {"none", "dir", "file"}
  BY <1>1, SearchHonest
<1> HIDE DEF p, path, r, fd
<1>6. p # <<>> => /\ (r.type = "none" /\ r.depth = path_depth_cnt(path)) <=>
                       (Value(s.tree, p) = None /\ Up(s.tree, p) = Dir)
                  /\ (r.type = "none" /\ r.depth = path_depth_cnt(path)) => r.at = p
  BY <1>1 DEF WashedSearch, Up
<1>7. p # <<>> => (fd > 2 <=> r.type = "none" /\ r.depth = path_depth_cnt(path))
  BY <1>1, <1>4, <1>5
<1>. QED  BY <1>1, <1>2, <1>3, <1>6, <1>7 DEF p

Halts == {"no", "line", "argv", "null", "blocked", "stdin", "loop", "seek", "root"}
State == [fds : [0..4 -> Int], pipe : Int \cup {NoPipe}, users : Int,
          tree : [Path -> {None, Dir} \cup Nat], cwd : Seq(Name), cache : Seq(Tok), halt : Halts]

\* t differs from s in nothing but the pipe, the tree and the halt.
SameElse(s, t) == t.fds = s.fds /\ t.users = s.users /\ t.cwd = s.cwd /\ t.cache = s.cache

IsPut(s, p, v, t) ==
    /\ t \in State /\ SameElse(s, t) /\ t.pipe = s.pipe /\ t.halt = s.halt
    /\ t.tree = [s.tree EXCEPT ![p] = v]

\* Put changes the tree at one path and nothing else.
LEMMA PutFacts ==
    ASSUME NEW s \in State, NEW p, NEW v \in {None, Dir} \cup Nat
    PROVE  IsPut(s, p, v, Put(s, p, v))
<1> DEFINE t == [s.tree EXCEPT ![p] = v]
<1>1. t \in [Path -> {None, Dir} \cup Nat]
  BY DEF State
<1>2. Put(s, p, v) = [s EXCEPT !.tree = t]
  BY DEF Put
<1> HIDE DEF t
<1>3. [s EXCEPT !.tree = t] \in State
  BY <1>1 DEF State
<1>. QED  BY <1>2, <1>3 DEF State, SameElse, IsPut, t

\* Stop changes nothing but halt.
LEMMA StopFacts ==
    ASSUME NEW s \in State, s.halt = "no", NEW why \in Halts
    PROVE  /\ Stop(s, why) \in State /\ SameElse(s, Stop(s, why))
           /\ Stop(s, why).pipe = s.pipe /\ Stop(s, why).tree = s.tree /\ Stop(s, why).halt = why
BY DEF Stop, State, SameElse

\* sys_unlink of any text deletes a file, stops at the root or does nothing.
LEMMA UnlinkIs ==
    ASSUME NEW s, NEW text \in Seq(Tok)
    PROVE  LET r == search_file(s, text)
           IN  \/ sys_unlink(s, text) = Stop(s, "root") /\ r.type = "dir"
               \/ sys_unlink(s, text) = s /\ r.type # "file"
               \/ /\ sys_unlink(s, text) = Put(s, r.at, None) /\ r.type = "file"
                  /\ IsFile(s.tree, r.at) /\ r.at \in Seq(Name)
<1> DEFINE r == search_file(s, text)
<1>1. r.at \in Seq(Name) /\ r.type = TypeOf(Value(s.tree, r.at)) /\ r.type \in {"none", "dir", "file"}
  BY SearchHonest
<1>2. sys_unlink(s, text) = IF r.type = "dir" /\ r.at = <<>> THEN Stop(s, "root")
                            ELSE IF r.type = "file" THEN Put(s, r.at, None) ELSE s
  BY DEF sys_unlink
<1> HIDE DEF r
<1>3. r.type = "file" => IsFile(s.tree, r.at)
  BY <1>1 DEF TypeOf, IsFile
<1>. QED  BY <1>1, <1>2, <1>3 DEF r

\* buildin_rm: it deletes the file that is meant, or one the path leads through.
LEMMA RmIs ==
    ASSUME NEW s, NEW c, Ready(s), IsCmd(c), NEW argc
    PROVE  LET p == Resolve(c.arg)
               rm == buildin_rm(s, argc, c)
           IN  /\ argc # 2 => rm = printf(s, c.out)
               /\ argc = 2 /\ p = <<>> => rm = s
               /\ argc = 2 /\ p # <<>> =>
                     \/ rm = printf(s, c.out) /\ ~IsFile(s.tree, p)
                     \/ \E i \in 1..Len(p) : /\ rm = Put(s, SubSeq(p, 1, i), None)
                                             /\ IsFile(s.tree, SubSeq(p, 1, i))
                                             /\ i = Len(p) \/ ~IsFile(s.tree, p)
<1> DEFINE p == Resolve(c.arg)
           path == make_clear_abs_path(s, c.arg)
           r == search_file(s, path)
           rm == buildin_rm(s, argc, c)
           N == Len(p)
<1>1. /\ (path = <<"/">>) = (p = <<>>) /\ WashedSearch(s.tree, p, r, path_depth_cnt(path))
      /\ path \in Seq(Tok) /\ p \in Seq(Name)
  BY WashedArg
<1>2. rm = IF argc # 2 THEN Complain(s, c)
           ELSE IF path = <<"/">> THEN s
           ELSE IF r.type = "file" THEN sys_unlink(s, path)
           ELSE Complain(s, c)
  BY DEF buildin_rm
<1>3. Complain(s, c) = printf(s, c.out)
  BY DEF Complain
<1>4. r.type = "file" => sys_unlink(s, path) = Put(s, r.at, None) /\ IsFile(s.tree, r.at)
  <2>1. \/ sys_unlink(s, path) = Stop(s, "root") /\ r.type = "dir"
        \/ sys_unlink(s, path) = s /\ r.type # "file"
        \/ sys_unlink(s, path) = Put(s, r.at, None) /\ r.type = "file" /\ IsFile(s.tree, r.at)
    BY <1>1, UnlinkIs
  <2> HIDE DEF r, path
  <2>. QED  BY <2>1
<1> HIDE DEF p, path, r, rm
<1>5. /\ r.type = "file" => \E i \in 1..Len(p) : r.at = SubSeq(p, 1, i)
      /\ IsFile(s.tree, p) => r.type = "file" /\ r.at = p
  BY <1>1 DEF WashedSearch, IsFile
<1>6. ASSUME argc = 2, p # <<>>, r.type = "file"
      PROVE  \E i \in 1..N : /\ rm = Put(s, SubSeq(p, 1, i), None) /\ IsFile(s.tree, SubSeq(p, 1, i))
                             /\ i = N \/ ~IsFile(s.tree, p)
  <2>1. rm = Put(s, r.at, None) /\ IsFile(s.tree, r.at)
    BY <1>1, <1>2, <1>4, <1>6
  <2>2. CASE IsFile(s.tree, p)
    <3>1. N \in 1..N /\ SubSeq(p, 1, N) = p
      BY <1>1, <1>6, SubSeqFull
    <3>. QED  BY <1>5, <2>1, <2>2, <3>1
  <2>3. CASE ~IsFile(s.tree, p)
    BY <1>5, <1>6, <2>1, <2>3
  <2>. QED  BY <2>2, <2>3
<1>7. ASSUME argc = 2, p # <<>>, r.type # "file" PROVE rm = printf(s, c.out) /\ ~IsFile(s.tree, p)
  BY <1>1, <1>2, <1>3, <1>5, <1>7
<1>8. (argc # 2 => rm = printf(s, c.out)) /\ (argc = 2 /\ p = <<>> => rm = s)
  BY <1>1, <1>2, <1>3
<1>. QED  BY <1>6, <1>7, <1>8 DEF p, rm

\* buildin_cat
LEMMA CatIs ==
    ASSUME NEW s, NEW c, Ready(s), IsCmd(c), NEW argc \in Nat
    PROVE  LET p == Resolve(c.arg)
           IN  buildin_cat(s, argc, c) =
                 IF argc > 2 THEN printf(s, c.out)
                 ELSE IF argc = 1
                 THEN IF s.fds[0] = Pipe THEN printf([s EXCEPT !.pipe = 0], s.pipe) ELSE Stop(s, "stdin")
                 ELSE IF Last(c.arg) = "/" THEN Stop(s, "loop")
                 ELSE IF IsFile(s.tree, p) /\ Walked(s.tree, c.arg) THEN printf(s, Value(s.tree, p))
                 ELSE printf(s, c.out)
<1> DEFINE p == Resolve(c.arg)
           path == abs_path(s, c.arg)
           fd == sys_open(s, path, FALSE)
           r == search_file(s, path)
           ok == IsFile(s.tree, p) /\ Walked(s.tree, c.arg)
<1>1. /\ fd = IF Last(c.arg) = "/" THEN 0 ELSE IF ok THEN 5 ELSE -1
      /\ Last(c.arg) # "/" /\ ok => r.at = p
  BY OpenIs DEF Ready, IsCmd, IsFile
<1>2. buildin_cat(s, argc, c) =
        IF argc > 2 THEN Complain(s, c)
        ELSE IF argc = 1
        THEN IF s.fds[0] = Pipe THEN printf([s EXCEPT !.pipe = 0], s.pipe) ELSE Stop(s, "stdin")
        ELSE IF fd = -1 THEN Complain(s, c)
        ELSE IF fd = 0 THEN Stop(s, "loop")
        ELSE printf(s, s.tree[r.at])
  BY DEF buildin_cat
<1>3. Complain(s, c) = printf(s, c.out)
  BY DEF Complain
<1>4. IsFile(s.tree, p) => Value(s.tree, p) = s.tree[p]
  BY DEF IsFile, Value
<1> HIDE DEF p, path, r, fd
<1>5. CASE Last(c.arg) = "/"
  <2>1. fd = 0 /\ fd # -1
    BY <1>1, <1>5
  <2>. QED  BY <1>2, <1>3, <1>5, <2>1
<1>6. CASE Last(c.arg) # "/" /\ ok
  <2>1. fd # 0 /\ fd # -1 /\ r.at = p
    BY <1>1, <1>6
  <2>. QED  BY <1>2, <1>3, <1>4, <1>6, <2>1 DEF p
<1>7. CASE Last(c.arg) # "/" /\ ~ok
  <2>1. fd = -1
    BY <1>1, <1>7
  <2>. QED  BY <1>2, <1>3, <1>7, <2>1 DEF p
<1>. QED  BY <1>5, <1>6, <1>7

\* A write to descriptor 0
WriteIn(u, n) == IF u.fds[0] # Pipe THEN u
                 ELSE IF n >= bufsize - u.pipe THEN Stop(u, "blocked")
                 ELSE [u EXCEPT !.pipe = @ + n]

\* buildin_echo
LEMMA EchoIs ==
    ASSUME NEW s \in State, s.halt = "no", NEW c, Ready(s), IsCmd(c), NEW argc
    PROVE  LET p == Resolve(c.arg)
               echo == buildin_echo(s, argc, c)
               ok == IsFile(s.tree, p) /\ Walked(s.tree, c.arg)
           IN  /\ argc # 4 => echo = printf(s, c.out)
               /\ argc = 4 /\ Last(c.arg) # "/" =>
                     echo = IF ~ok THEN printf(s, c.out)
                            ELSE IF c.how = ">" THEN Put(Put(s, p, None), p, 1)
                            ELSE IF c.how = ">>" THEN Put(s, p, Value(s.tree, p) + 1)
                            ELSE printf(s, c.out)
               /\ argc = 4 /\ Last(c.arg) = "/" =>
                     \/ echo \in {printf(s, c.out), Stop(s, "seek"), Stop(s, "root"), WriteIn(s, c.out)}
                     \/ \E q \in Seq(Name) : IsFile(s.tree, q) /\ echo = WriteIn(Put(s, q, None), c.out)
<1> DEFINE p == Resolve(c.arg)
           path == abs_path(s, c.arg)
           fd == sys_open(s, path, FALSE)
           r == search_file(s, path)
           ok == IsFile(s.tree, p) /\ Walked(s.tree, c.arg)
           cleared == sys_unlink(s, path)
           echo == buildin_echo(s, argc, c)
<1>1. /\ fd = IF Last(c.arg) = "/" THEN 0 ELSE IF ok THEN 5 ELSE -1
      /\ Last(c.arg) # "/" /\ ok => r.type = "file" /\ r.at = p
      /\ path \in Seq(Tok)
  BY OpenIs DEF Ready, IsCmd, IsFile
<1>2. echo =
        IF argc \notin {2, 4} THEN Complain(s, c)
        ELSE IF argc = 2 THEN printf(s, c.out)
        ELSE IF fd = -1 THEN Complain(s, c)
        ELSE CASE c.how = ">" -> IF cleared.halt # "no" THEN cleared
                                 ELSE IF fd = 0 THEN WriteIn(cleared, c.out)
                                 ELSE Put(cleared, r.at, 1)
               [] c.how = ">>" -> IF fd = 0 THEN Stop(s, "seek") ELSE Put(s, r.at, s.tree[r.at] + 1)
               [] OTHER -> printf(s, c.out)
  BY DEF buildin_echo, WriteIn
<1>3. Complain(s, c) = printf(s, c.out)
  BY DEF Complain
<1>4. IsFile(s.tree, p) => Value(s.tree, p) = s.tree[p]
  BY DEF IsFile, Value
<1>5. \/ cleared = Stop(s, "root") /\ r.type = "dir"
      \/ cleared = s /\ r.type # "file"
      \/ cleared = Put(s, r.at, None) /\ r.type = "file" /\ IsFile(s.tree, r.at) /\ r.at \in Seq(Name)
  BY <1>1, UnlinkIs
<1>6. Stop(s, "root").halt = "root" /\ \A q : Put(s, q, None).halt = "no"
  <2>1. "root" \in Halts /\ None \in {None, Dir} \cup Nat
    BY DEF Halts
  <2>2. Stop(s, "root").halt = "root"
    BY <2>1, StopFacts
  <2>3. ASSUME NEW q PROVE Put(s, q, None).halt = "no"
    <3>1. Put(s, q, None).halt = s.halt
      <4>1. IsPut(s, q, None, Put(s, q, None))
        BY <2>1, PutFacts
      <4>. QED  BY <4>1 DEF IsPut
    <3>. QED  BY <3>1
  <2>. QED  BY <2>2, <2>3
<1> HIDE DEF p, path, r, fd, cleared, echo
<1>7. argc # 4 => echo = printf(s, c.out)
  BY <1>2, <1>3
<1>8. ASSUME argc = 4, Last(c.arg) # "/"
      PROVE  echo = IF ~ok THEN printf(s, c.out)
                    ELSE IF c.how = ">" THEN Put(Put(s, p, None), p, 1)
                    ELSE IF c.how = ">>" THEN Put(s, p, Value(s.tree, p) + 1)
                    ELSE printf(s, c.out)
  <2>1. CASE ok
    <3>1. fd # -1 /\ fd # 0 /\ r.type = "file" /\ r.at = p /\ Value(s.tree, p) = s.tree[p]
      BY <1>1, <1>4, <1>8, <2>1
    <3>2. cleared = Put(s, p, None) /\ cleared.halt = "no"
      BY <1>5, <1>6, <3>1
    <3>. QED  BY <1>2, <1>8, <2>1, <3>1, <3>2
  <2>2. CASE ~ok
    <3>1. fd = -1
      BY <1>1, <1>8, <2>2
    <3>. QED  BY <1>2, <1>3, <1>8, <2>2, <3>1
  <2>. QED  BY <2>1, <2>2
<1>9. ASSUME argc = 4, Last(c.arg) = "/"
      PROVE  \/ echo \in {printf(s, c.out), Stop(s, "seek"), Stop(s, "root"), WriteIn(s, c.out)}
             \/ \E q \in Seq(Name) : IsFile(s.tree, q) /\ echo = WriteIn(Put(s, q, None), c.out)
  <2>1. fd = 0 /\ fd # -1
    BY <1>1, <1>9
  <2>2. CASE c.how = ">"
    <3>1. echo = IF cleared.halt # "no" THEN cleared ELSE WriteIn(cleared, c.out)
      BY <1>2, <1>9, <2>1, <2>2
    <3>. QED  BY <1>5, <1>6, <3>1
  <2>3. CASE c.how # ">"
    BY <1>2, <1>9, <2>1, <2>3
  <2>. QED  BY <2>2, <2>3
<1>. QED  BY <1>7, <1>8, <1>9 DEF p, echo

\* Every file stays in a directory when what is made is in one and what is deleted
\* or replaced has nothing in it.
LEMMA ClosedPut ==
    ASSUME NEW t \in [Path -> {None, Dir} \cup Nat], Closed(t), NEW p \in Seq(Name), p # <<>>,
           NEW v \in {None, Dir} \cup Nat, v # None => Up(t, p) = Dir, Children(t, p) = {}
    PROVE  Closed([t EXCEPT ![p] = v])
<1> DEFINE u == [t EXCEPT ![p] = v]
<1>1. ASSUME NEW q, q # p PROVE Value(u, q) = Value(t, q)
  BY <1>1 DEF Value
<1>2. ASSUME NEW q \in Path, u[q] # None PROVE Value(u, Front(q)) = Dir
  <2>1. CASE q = p
    <3>1. v # None
      BY <1>2, <2>1
    <3>2. Value(t, Front(p)) = Dir
      BY <3>1 DEF Up
    <3>3. Front(p) # p
      <4>1. Len(Front(p)) = Len(p) - 1 /\ Len(p) \in Nat
        BY FrontFacts
      <4>2. Len(p) - 1 # Len(p)
        BY <4>1
      <4>. QED  BY <4>1, <4>2
    <3> HIDE DEF u
    <3>. QED  BY <1>1, <2>1, <3>2, <3>3
  <2>2. CASE q # p
    <3>1. t[q] # None
      BY <1>2, <2>2
    <3>2. Value(t, Front(q)) = Dir
      BY <3>1 DEF Closed
    <3>3. Front(q) # p
      BY <3>1 DEF Children
    <3> HIDE DEF u
    <3>. QED  BY <1>1, <3>2, <3>3
  <2>. QED  BY <2>1, <2>2
<1> HIDE DEF u
<1>3. Closed(u)
  BY <1>2 DEF Closed
<1>. QED  BY <1>3 DEF u

\* Only a directory has something in it, and what is there is in a directory.
LEMMA ClosedFacts ==
    ASSUME NEW t, Closed(t), NEW p
    PROVE  /\ Value(t, p) # Dir => Children(t, p) = {}
           /\ p # <<>> /\ Value(t, p) # None => Up(t, p) = Dir
           /\ Value(t, p) # None => p \in Path \cup {<<>>}
           /\ IsFile(t, p) => p \in Path /\ p # <<>> /\ Value(t, p) = t[p]
<1>1. ASSUME Value(t, p) # Dir, NEW q \in Children(t, p) PROVE FALSE
  <2>1. q \in Path /\ t[q] # None /\ Front(q) = p
    BY <1>1 DEF Children
  <2>. QED  BY <1>1, <2>1 DEF Closed
<1>2. Value(t, p) # None => p \in Path \cup {<<>>}
  BY DEF Value
<1>3. p # <<>> /\ Value(t, p) # None => Up(t, p) = Dir
  <2> SUFFICES ASSUME p # <<>>, Value(t, p) # None PROVE Up(t, p) = Dir
    OBVIOUS
  <2>1. p \in Path /\ t[p] # None
    BY DEF Value
  <2>2. Value(t, Front(p)) = Dir
    BY <2>1 DEF Closed
  <2>. QED  BY <2>2 DEF Up
<1>4. IsFile(t, p) => p \in Path /\ p # <<>> /\ Value(t, p) = t[p]
  BY DEF IsFile, Value
<1>. QED  BY <1>1, <1>2, <1>3, <1>4

HasPipe(s) == s.fds[0] = Pipe \/ s.fds[1] = Pipe
PipeOK(s) == IF HasPipe(s) THEN s.pipe \in 0..bufsize - 1 ELSE s.pipe = NoPipe

\* A state that a command begins in, and what it may leave
Start(s) ==
    /\ s \in State /\ s.halt = "no" /\ Ready(s) /\ PipeOK(s) /\ s.cache = Spell(s.cwd)
    /\ s.tree \in [Path -> {None, Dir} \cup 0..MaxSize]
Outcome(s, t) ==
    /\ t \in State /\ t.fds = s.fds /\ t.users = s.users
    /\ t.halt \in {"no", "blocked", "stdin", "loop", "seek", "root"}
    /\ t.halt = "no" => /\ PipeOK(t) /\ Closed(t.tree) /\ t.cache = Spell(t.cwd)
                        /\ t.cwd \in Path \cup {<<>>}
    /\ t.halt = "blocked" => HasPipe(s) /\ \E n \in Output \cup 0..MaxSize : s.pipe + n >= bufsize
    /\ t.halt = "stdin" => s.fds[0] # Pipe

\* A command that does nothing, or stops the shell
LEMMA StartFacts ==
    ASSUME NEW s, Start(s)
    PROVE  /\ Closed(s.tree) /\ s.cwd \in Path \cup {<<>>}
           /\ Outcome(s, s)
           /\ \A why \in {"stdin", "loop", "seek", "root"} :
                 (why = "stdin" => s.fds[0] # Pipe) => Outcome(s, Stop(s, why))
<1>1. Closed(s.tree) /\ s.cwd \in Path \cup {<<>>}
  <2>1. Dir # None
    BY ShellAssumption
  <2>. QED  BY <2>1, ClosedFacts DEF Start, Ready
<1>2. Outcome(s, s)
  BY <1>1 DEF Start, Outcome
<1>3. ASSUME NEW why \in {"stdin", "loop", "seek", "root"}, why = "stdin" => s.fds[0] # Pipe
      PROVE  Outcome(s, Stop(s, why))
  <2>1. why \in Halts
    BY DEF Halts
  <2>2. /\ Stop(s, why) \in State /\ Stop(s, why).fds = s.fds /\ Stop(s, why).users = s.users
        /\ Stop(s, why).halt = why
    BY <2>1, StopFacts DEF Start, SameElse
  <2>. QED  BY <1>3, <2>2 DEF Outcome
<1>. QED  BY <1>1, <1>2, <1>3

\* printf, from a state whose pipe may have been read
LEMMA PrintOutcome ==
    ASSUME NEW s, Start(s), NEW k, NEW u, u \in {s, [s EXCEPT !.pipe = k]}, PipeOK(u),
           k \in Int, NEW n \in Nat,
           HasPipe(s) /\ n >= bufsize - u.pipe =>
               \E i \in Output \cup 0..MaxSize : s.pipe + i >= bufsize
    PROVE  /\ Outcome(s, printf(u, n))
           /\ s.fds[1] # Pipe => printf(u, n) = u
<1>1. u \in State /\ SameElse(s, u) /\ u.tree = s.tree /\ u.halt = "no"
  BY DEF Start, State, SameElse
<1>2. Closed(s.tree) /\ s.cwd \in Path \cup {<<>>} /\ s.cache = Spell(s.cwd)
  BY StartFacts DEF Start
<1>3. u.fds = s.fds /\ u.users = s.users /\ u.cwd = s.cwd /\ u.cache = s.cache
  BY <1>1 DEF SameElse
<1>4. CASE u.fds[1] # Pipe
  <2>1. printf(u, n) = u
    BY <1>4 DEF printf
  <2>. QED  BY <1>1, <1>2, <1>3, <2>1 DEF Outcome
<1>5. CASE u.fds[1] = Pipe
  <2>1. HasPipe(s) /\ HasPipe(u) /\ s.fds[1] = Pipe
    BY <1>3, <1>5 DEF HasPipe
  <2>2. u.pipe \in 0..bufsize - 1 /\ bufsize \in Nat
    BY <2>1, ShellAssumption DEF PipeOK
  <2>3. CASE n >= bufsize - u.pipe
    <3>1. printf(u, n) = Stop(u, "blocked")
      BY <1>5, <2>3 DEF printf
    <3>2. "blocked" \in Halts
      BY DEF Halts
    <3>3. /\ Stop(u, "blocked") \in State /\ Stop(u, "blocked").fds = s.fds
          /\ Stop(u, "blocked").users = s.users /\ Stop(u, "blocked").halt = "blocked"
      BY <1>1, <1>3, <3>2, StopFacts DEF SameElse
    <3>. QED  BY <2>1, <2>3, <3>1, <3>3 DEF Outcome
  <2>4. CASE ~(n >= bufsize - u.pipe)
    <3> DEFINE w == [u EXCEPT !.pipe = u.pipe + n]
    <3>1. printf(u, n) = w
      BY <1>5, <2>4 DEF printf
    <3>2. u.pipe + n \in 0..bufsize - 1 /\ u.pipe + n \in Int
      BY <2>2, <2>4
    <3>3. w \in State /\ SameElse(u, w) /\ w.tree = u.tree /\ w.halt = "no" /\ w.pipe = u.pipe + n
      BY <1>1, <3>2 DEF State, SameElse
    <3> HIDE DEF w
    <3>4. w.fds = s.fds /\ w.users = s.users /\ w.cwd = s.cwd /\ w.cache = s.cache
      BY <1>3, <3>3 DEF SameElse
    <3>5. PipeOK(w)
      BY <2>1, <3>2, <3>3, <3>4 DEF PipeOK, HasPipe
    <3>. QED  BY <1>1, <1>2, <2>1, <3>1, <3>3, <3>4, <3>5 DEF Outcome
  <2>. QED  BY <2>3, <2>4
<1>. QED  BY <1>4, <1>5

\* printf of what a command is given to print, or of a file
LEMMA Prints ==
    ASSUME NEW s, Start(s), NEW n \in Output \cup 0..MaxSize
    PROVE  Outcome(s, printf(s, n)) /\ (s.fds[1] # Pipe => printf(s, n) = s)
<1>1. n \in Nat /\ bufsize \in Nat
  BY ShellAssumption
<1>2. HasPipe(s) => s.pipe \in Nat
  BY DEF Start, PipeOK
<1>3. HasPipe(s) /\ n >= bufsize - s.pipe => s.pipe + n >= bufsize
  BY <1>1, <1>2
<1>4. s \in {s, [s EXCEPT !.pipe = 0]} /\ 0 \in Int /\ PipeOK(s)
  BY DEF Start
<1>. QED  BY <1>1, <1>3, <1>4, PrintOutcome

\* A change of the tree
LEMMA PutOutcome ==
    ASSUME NEW s, Start(s), NEW p \in Seq(Name), p # <<>>, NEW v \in {None, Dir} \cup Nat,
           v # None => Up(s.tree, p) = Dir, Children(s.tree, p) = {}
    PROVE  Outcome(s, Put(s, p, v))
<1> DEFINE u == Put(s, p, v)
<1>1. /\ u \in State /\ SameElse(s, u) /\ u.pipe = s.pipe /\ u.halt = s.halt
      /\ u.tree = [s.tree EXCEPT ![p] = v]
  <2>1. s \in State
    BY DEF Start
  <2>2. IsPut(s, p, v, u)
    BY <2>1, PutFacts
  <2>. QED  BY <2>2 DEF IsPut
<1>2. s.tree \in [Path -> {None, Dir} \cup Nat] /\ Closed(s.tree)
  BY StartFacts DEF Start, State
<1>3. Closed(u.tree)
  <2> DEFINE t == s.tree
  <2>1. t \in [Path -> {None, Dir} \cup Nat] /\ Closed(t) /\ Children(t, p) = {} /\ (v # None => Up(t, p) = Dir)
    BY <1>2
  <2>2. u.tree = [t EXCEPT ![p] = v]
    BY <1>1
  <2> HIDE DEF t, u
  <2>3. Closed([t EXCEPT ![p] = v])
    BY <2>1, ClosedPut
  <2>. QED  BY <2>2, <2>3
<1> HIDE DEF u
<1>4. u.fds = s.fds /\ u.users = s.users /\ u.cwd = s.cwd /\ u.cache = s.cache /\ u.halt = "no"
  BY <1>1 DEF SameElse, Start
<1>5. PipeOK(u)
  BY <1>1, <1>4 DEF Start, PipeOK, HasPipe
<1>6. s.cwd \in Path \cup {<<>>} /\ s.cache = Spell(s.cwd)
  BY StartFacts DEF Start
<1>7. Outcome(s, u)
  BY <1>1, <1>3, <1>4, <1>5, <1>6 DEF Outcome
<1>. QED  BY <1>7 DEF u

\* What a command deletes or replaces
LEMMA FileOutcome ==
    ASSUME NEW s, Start(s), NEW p, IsFile(s.tree, p), NEW v \in {None, Dir} \cup Nat
    PROVE  /\ Outcome(s, Put(s, p, v)) /\ Value(s.tree, p) \in 0..MaxSize
           /\ Put(s, p, v).halt = "no" /\ Put(s, p, v).pipe = s.pipe
<1>1. Closed(s.tree) /\ s.tree \in [Path -> {None, Dir} \cup 0..MaxSize] /\ s \in State /\ s.halt = "no"
  BY StartFacts DEF Start
<1>2. p \in Path /\ p # <<>> /\ Value(s.tree, p) = s.tree[p] /\ Value(s.tree, p) \notin {None, Dir}
  BY <1>1, ClosedFacts DEF IsFile
<1>3. Children(s.tree, p) = {} /\ Up(s.tree, p) = Dir
  BY <1>1, <1>2, ClosedFacts
<1>4. p \in Seq(Name)
  BY <1>2, PathIs
<1>5. Outcome(s, Put(s, p, v))
  BY <1>2, <1>3, <1>4, PutOutcome
<1>6. IsPut(s, p, v, Put(s, p, v))
  BY <1>1, PutFacts
<1>. QED  BY <1>1, <1>2, <1>5, <1>6 DEF IsPut

\* A file that is deleted and made again has just been made.
LEMMA PutTwice ==
    ASSUME NEW s \in State, NEW p, NEW v, NEW w
    PROVE  Put(Put(s, p, v), p, w) = Put(s, p, w)
<1> DEFINE a == [s.tree EXCEPT ![p] = v]
           b == [s.tree EXCEPT ![p] = w]
           u == [s EXCEPT !.tree = a]
<1>1. s.tree \in [Path -> {None, Dir} \cup Nat]
  BY DEF State
<1>2. [a EXCEPT ![p] = w] = b
  BY <1>1
<1>3. Put(s, p, v) = u /\ Put(s, p, w) = [s EXCEPT !.tree = b]
  BY DEF Put
<1>4. u.tree = a
  BY DEF State
<1>5. Put(u, p, w) = [u EXCEPT !.tree = [u.tree EXCEPT ![p] = w]]
  BY DEF Put
<1>6. Put(u, p, w) = [u EXCEPT !.tree = b]
  BY <1>2, <1>4, <1>5
<1> HIDE DEF a, b
<1>7. [u EXCEPT !.tree = b] = [s EXCEPT !.tree = b]
  BY DEF State
<1>. QED  BY <1>3, <1>6, <1>7

\* The write to descriptor 0, after what leaves the pipe alone
LEMMA WriteOutcome ==
    ASSUME NEW s, Start(s), NEW u, Outcome(s, u), u.halt = "no", u.pipe = s.pipe, NEW n \in Output
    PROVE  Outcome(s, WriteIn(u, n))
<1>1. /\ u \in State /\ u.fds = s.fds /\ u.users = s.users /\ PipeOK(u) /\ Closed(u.tree)
      /\ u.cache = Spell(u.cwd) /\ u.cwd \in Path \cup {<<>>}
  BY DEF Outcome
<1>2. CASE u.fds[0] # Pipe
  BY <1>2 DEF WriteIn
<1>3. CASE u.fds[0] = Pipe
  <2>1. HasPipe(s) /\ HasPipe(u)
    BY <1>1, <1>3 DEF HasPipe
  <2>2. u.pipe \in 0..bufsize - 1
    BY <1>1, <2>1 DEF PipeOK
  <2>3. bufsize \in Nat /\ n \in Nat
    BY ShellAssumption
  <2>4. CASE n >= bufsize - u.pipe
    <3>1. WriteIn(u, n) = Stop(u, "blocked")
      BY <1>3, <2>4 DEF WriteIn
    <3>2. "blocked" \in Halts
      BY DEF Halts
    <3>3. /\ Stop(u, "blocked") \in State /\ Stop(u, "blocked").fds = s.fds
          /\ Stop(u, "blocked").users = s.users /\ Stop(u, "blocked").halt = "blocked"
      BY <1>1, <3>2, StopFacts DEF SameElse
    <3>4. s.pipe + n >= bufsize
      BY <2>2, <2>3, <2>4
    <3>5. \E i \in Output \cup 0..MaxSize : s.pipe + i >= bufsize
      BY <3>4
    <3>. QED  BY <2>1, <3>1, <3>3, <3>5 DEF Outcome
  <2>5. CASE ~(n >= bufsize - u.pipe)
    <3> DEFINE w == [u EXCEPT !.pipe = u.pipe + n]
    <3>1. WriteIn(u, n) = w
      BY <1>3, <2>5 DEF WriteIn
    <3>2. u.pipe + n \in 0..bufsize - 1 /\ u.pipe + n \in Int
      BY <2>2, <2>3, <2>5
    <3>3. w \in State /\ SameElse(u, w) /\ w.tree = u.tree /\ w.halt = "no" /\ w.pipe = u.pipe + n
      BY <1>1, <3>2 DEF State, SameElse
    <3> HIDE DEF w
    <3>4. w.fds = s.fds /\ w.users = s.users /\ w.cwd = u.cwd /\ w.cache = u.cache
      BY <1>1, <3>3 DEF SameElse
    <3>5. PipeOK(w)
      BY <2>1, <3>2, <3>3, <3>4 DEF PipeOK, HasPipe
    <3>6. Outcome(s, w)
      BY <1>1, <3>3, <3>4, <3>5 DEF Outcome
    <3>. QED  BY <3>1, <3>6
  <2>. QED  BY <2>4, <2>5
<1>. QED  BY <1>2, <1>3

\* cd leaves a directory of the tree, and its path in the prompt.
LEMMA CdOutcome ==
    ASSUME NEW s, Start(s), NEW c, IsCmd(c), NEW argc \in Nat
    PROVE  Outcome(s, buildin_cd(s, argc, c))
<1> DEFINE q == IF argc = 1 THEN <<>> ELSE Resolve(c.arg)
           w == [s EXCEPT !.cwd = q, !.cache = Spell(q)]
<1>1. Ready(s) /\ c.out \in Output \cup 0..MaxSize
  BY DEF Start, IsCmd
<1>2. /\ buildin_cd(s, argc, c) = IF argc > 2 \/ Value(s.tree, q) # Dir THEN printf(s, c.out) ELSE w
      /\ q \in Seq(Name)
  BY <1>1, CdIs
<1> HIDE DEF q
<1>3. CASE argc > 2 \/ Value(s.tree, q) # Dir
  BY <1>1, <1>2, <1>3, Prints
<1>4. CASE ~(argc > 2 \/ Value(s.tree, q) # Dir)
  <2>1. Spell(q) \in Seq(Tok)
    BY <1>2, SpellFacts
  <2>2. /\ w \in State /\ w.fds = s.fds /\ w.users = s.users /\ w.pipe = s.pipe /\ w.halt = "no"
        /\ w.tree = s.tree /\ w.cwd = q /\ w.cache = Spell(q)
    BY <1>2, <2>1 DEF Start, State
  <2> HIDE DEF w
  <2>3. PipeOK(w)
    BY <2>2 DEF Start, PipeOK, HasPipe
  <2>4. Dir # None
    BY ShellAssumption
  <2>5. Closed(s.tree)
    BY StartFacts
  <2>6. q \in Path \cup {<<>>}
    BY <1>4, <2>4, <2>5, ClosedFacts
  <2>7. Outcome(s, w)
    BY <2>2, <2>3, <2>5, <2>6 DEF Outcome
  <2>. QED  BY <1>2, <1>4, <2>7
<1>. QED  BY <1>3, <1>4

\* mkdir, rmdir, touch and rm leave every file in a directory.
LEMMA TreeOutcome ==
    ASSUME NEW s, Start(s), NEW c, IsCmd(c), NEW argc
    PROVE  /\ Outcome(s, buildin_mkdir(s, argc, c)) /\ Outcome(s, buildin_rmdir(s, argc, c))
           /\ Outcome(s, buildin_touch(s, argc, c)) /\ Outcome(s, buildin_rm(s, argc, c))
<1> DEFINE p == Resolve(c.arg)
<1>1. Ready(s) /\ c.out \in Output \cup 0..MaxSize /\ Closed(s.tree)
  BY StartFacts DEF Start, IsCmd
<1>2. p \in Seq(Name)
  BY <1>1, WashedArg
<1>3. Outcome(s, s) /\ Outcome(s, printf(s, c.out))
  BY <1>1, StartFacts, Prints
<1>4. Dir \in {None, Dir} \cup Nat /\ None \in {None, Dir} \cup Nat /\ 0 \in {None, Dir} \cup Nat /\ Dir # None
  BY ShellAssumption
<1> HIDE DEF p
<1>5. ASSUME p # <<>>, Value(s.tree, p) = None, Up(s.tree, p) = Dir
      PROVE  Outcome(s, Put(s, p, Dir)) /\ Outcome(s, Put(s, p, 0))
  <2>1. Children(s.tree, p) = {}
    BY <1>1, <1>4, <1>5, ClosedFacts
  <2>. QED  BY <1>2, <1>4, <1>5, <2>1, PutOutcome
<1>6. Outcome(s, buildin_mkdir(s, argc, c))
  <2>1. buildin_mkdir(s, argc, c) =
                 IF argc # 2 THEN printf(s, c.out) ELSE IF p = <<>> THEN s
                 ELSE IF Value(s.tree, p) = None /\ Up(s.tree, p) = Dir THEN Put(s, p, Dir)
                 ELSE printf(s, c.out)
    BY <1>1, MkdirIs DEF p
  <2>. QED  BY <1>3, <1>5, <2>1
<1>7. Outcome(s, buildin_touch(s, argc, c))
  <2>1. buildin_touch(s, argc, c) =
                 IF argc # 2 \/ p = <<>> THEN printf(s, c.out)
                 ELSE IF Value(s.tree, p) = None /\ Up(s.tree, p) = Dir THEN Put(s, p, 0)
                 ELSE printf(s, c.out)
    BY <1>1, TouchIs DEF p
  <2>. QED  BY <1>3, <1>5, <2>1
<1>8. Outcome(s, buildin_rmdir(s, argc, c))
  <2>1. buildin_rmdir(s, argc, c) =
                 IF argc # 2 THEN printf(s, c.out) ELSE IF p = <<>> THEN s
                 ELSE IF Value(s.tree, p) = Dir /\ Children(s.tree, p) = {} THEN Put(s, p, None)
                 ELSE printf(s, c.out)
    BY <1>1, RmdirIs DEF p
  <2>2. p # <<>> /\ Children(s.tree, p) = {} => Outcome(s, Put(s, p, None))
    BY <1>2, <1>4, PutOutcome
  <2>. QED  BY <1>3, <2>1, <2>2
<1>9. Outcome(s, buildin_rm(s, argc, c))
  <2> DEFINE rm == buildin_rm(s, argc, c)
  <2>1. /\ argc # 2 => rm = printf(s, c.out)
        /\ argc = 2 /\ p = <<>> => rm = s
        /\ argc = 2 /\ p # <<>> =>
              \/ rm = printf(s, c.out) /\ ~IsFile(s.tree, p)
              \/ \E i \in 1..Len(p) : rm = Put(s, SubSeq(p, 1, i), None) /\ IsFile(s.tree, SubSeq(p, 1, i))
    BY <1>1, RmIs DEF p
  <2>2. \A q : IsFile(s.tree, q) => Outcome(s, Put(s, q, None))
    BY <1>4, FileOutcome
  <2> HIDE DEF rm
  <2>3. Outcome(s, rm)
    BY <1>3, <2>1, <2>2
  <2>. QED  BY <2>3 DEF rm
<1>. QED  BY <1>6, <1>7, <1>8, <1>9

\* cat: the pipe has room for what has just been read from it.
LEMMA CatOutcome ==
    ASSUME NEW s, Start(s), NEW c, IsCmd(c), NEW argc \in Nat
    PROVE  Outcome(s, buildin_cat(s, argc, c))
<1> DEFINE p == Resolve(c.arg)
<1>1. Ready(s) /\ c.out \in Output \cup 0..MaxSize
  BY DEF Start, IsCmd
<1>2. buildin_cat(s, argc, c) =
                 IF argc > 2 THEN printf(s, c.out)
                 ELSE IF argc = 1
                 THEN IF s.fds[0] = Pipe THEN printf([s EXCEPT !.pipe = 0], s.pipe) ELSE Stop(s, "stdin")
                 ELSE IF Last(c.arg) = "/" THEN Stop(s, "loop")
                 ELSE IF IsFile(s.tree, p) /\ Walked(s.tree, c.arg) THEN printf(s, Value(s.tree, p))
                 ELSE printf(s, c.out)
  BY <1>1, CatIs
<1>3. Outcome(s, printf(s, c.out)) /\ Outcome(s, Stop(s, "loop"))
  BY <1>1, StartFacts, Prints
<1>4. s.fds[0] # Pipe => Outcome(s, Stop(s, "stdin"))
  BY StartFacts
<1>5. ASSUME s.fds[0] = Pipe PROVE Outcome(s, printf([s EXCEPT !.pipe = 0], s.pipe))
  <2> DEFINE u == [s EXCEPT !.pipe = 0]
  <2>1. u.fds = s.fds /\ u.pipe = 0
    BY DEF Start, State
  <2>2. s.pipe \in 0..bufsize - 1 /\ HasPipe(u) /\ u \in {s, [s EXCEPT !.pipe = 0]}
    BY <1>5, <2>1 DEF Start, PipeOK, HasPipe
  <2> HIDE DEF u
  <2>3. bufsize \in Nat /\ bufsize > 0 /\ 0 \in 0..bufsize - 1 /\ s.pipe \in Nat /\ 0 \in Int
    <3>1. bufsize \in Nat /\ bufsize # 0
      BY ShellAssumption
    <3>. QED  BY <2>2, <3>1
  <2>4. PipeOK(u)
    BY <2>1, <2>2, <2>3 DEF PipeOK
  <2>5. ~(s.pipe >= bufsize - u.pipe)
    BY <2>1, <2>2, <2>3
  <2>6. Outcome(s, printf(u, s.pipe))
    BY <2>2, <2>3, <2>4, <2>5, PrintOutcome
  <2>. QED  BY <2>6 DEF u
<1>6. ASSUME IsFile(s.tree, p) PROVE Outcome(s, printf(s, Value(s.tree, p)))
  <2>1. None \in {None, Dir} \cup Nat
    OBVIOUS
  <2>2. Value(s.tree, p) \in 0..MaxSize
    BY <1>6, <2>1, FileOutcome
  <2>. QED  BY <2>2, Prints
<1> HIDE DEF p
<1>. QED  BY <1>2, <1>3, <1>4, <1>5, <1>6

\* echo, with a file, with standard input and without
LEMMA EchoOutcome ==
    ASSUME NEW s, Start(s), NEW c, IsCmd(c), NEW argc
    PROVE  Outcome(s, buildin_echo(s, argc, c))
<1> DEFINE p == Resolve(c.arg)
           echo == buildin_echo(s, argc, c)
           ok == IsFile(s.tree, p) /\ Walked(s.tree, c.arg)
<1>1. Ready(s) /\ c.out \in Output \cup 0..MaxSize /\ c.out \in Output /\ s \in State /\ s.halt = "no"
  BY DEF Start, IsCmd
<1>2. /\ argc # 4 => echo = printf(s, c.out)
      /\ argc = 4 /\ Last(c.arg) # "/" =>
            echo = IF ~ok THEN printf(s, c.out)
                   ELSE IF c.how = ">" THEN Put(Put(s, p, None), p, 1)
                   ELSE IF c.how = ">>" THEN Put(s, p, Value(s.tree, p) + 1)
                   ELSE printf(s, c.out)
      /\ argc = 4 /\ Last(c.arg) = "/" =>
            \/ echo \in {printf(s, c.out), Stop(s, "seek"), Stop(s, "root"), WriteIn(s, c.out)}
            \/ \E q \in Seq(Name) : IsFile(s.tree, q) /\ echo = WriteIn(Put(s, q, None), c.out)
  BY <1>1, EchoIs
<1>3. Outcome(s, printf(s, c.out)) /\ Outcome(s, Stop(s, "seek")) /\ Outcome(s, Stop(s, "root")) /\ Outcome(s, s)
  BY <1>1, StartFacts, Prints
<1>4. None \in {None, Dir} \cup Nat /\ 1 \in {None, Dir} \cup Nat
  OBVIOUS
<1>5. Outcome(s, WriteIn(s, c.out))
  BY <1>1, <1>3, WriteOutcome
<1>6. ASSUME NEW q, IsFile(s.tree, q) PROVE Outcome(s, WriteIn(Put(s, q, None), c.out))
  <2>1. Outcome(s, Put(s, q, None)) /\ Put(s, q, None).halt = "no" /\ Put(s, q, None).pipe = s.pipe
    BY <1>4, <1>6, FileOutcome
  <2>. QED  BY <1>1, <2>1, WriteOutcome
<1>7. ASSUME IsFile(s.tree, p)
      PROVE  Outcome(s, Put(Put(s, p, None), p, 1)) /\ Outcome(s, Put(s, p, Value(s.tree, p) + 1))
  <2>1. Put(Put(s, p, None), p, 1) = Put(s, p, 1)
    BY <1>1, PutTwice
  <2>2. Value(s.tree, p) \in 0..MaxSize
    BY <1>4, <1>7, FileOutcome
  <2>3. Value(s.tree, p) + 1 \in {None, Dir} \cup Nat
    BY <2>2
  <2>. QED  BY <1>4, <1>7, <2>1, <2>3, FileOutcome
<1> HIDE DEF p, echo
<1>8. Outcome(s, echo)
  BY <1>2, <1>3, <1>5, <1>6, <1>7
<1>. QED  BY <1>8 DEF echo

\* No command touches the descriptors, and none leaves the tree or the pipe in
\* disorder unless the shell stops.
LEMMA CommandOutcome ==
    ASSUME NEW s, Start(s), NEW c, IsCmd(c), NEW argc \in Nat
    PROVE  Outcome(s, cmd_execute(s, argc, c))
<1>1. Outcome(s, printf(s, c.out))
  BY Prints DEF IsCmd
<1>2. Outcome(s, buildin_cd(s, argc, c)) /\ Outcome(s, buildin_cat(s, argc, c))
      /\ Outcome(s, buildin_echo(s, argc, c))
  BY CdOutcome, CatOutcome, EchoOutcome
<1>3. /\ Outcome(s, buildin_mkdir(s, argc, c)) /\ Outcome(s, buildin_rmdir(s, argc, c))
      /\ Outcome(s, buildin_touch(s, argc, c)) /\ Outcome(s, buildin_rm(s, argc, c))
  BY TreeOutcome
<1>. QED  BY <1>1, <1>2, <1>3 DEF cmd_execute

\* What a command is given
LEMMA CommandFacts ==
    ASSUME NEW argc, NEW c \in Command(argc)
    PROVE  /\ IsCmd(c) /\ c.how \in {"no", ">", ">>"} /\ (c.op # "echo" => c.how = "no")
           /\ c.op \in {"cd", "mkdir", "rmdir", "touch", "rm", "cat", "print", "echo"}
<1> DEFINE A == Arg \cup {<<"/">>}
<1>1. ASSUME NEW a \in A PROVE a \in Seq(Tok) /\ Len(a) >= 1
  <2>1. a \in Arg => a \in Seq(Tok) /\ (a = <<"/">> \/ \E i \in 1..Len(a) : a[i] # "/")
    BY ShellAssumption DEF Tok
  <2>2. <<"/">> \in Seq(Tok) /\ Len(<<"/">>) >= 1
    BY DEF Tok
  <2>3. ASSUME a \in Seq(Tok), NEW i \in 1..Len(a) PROVE Len(a) >= 1
    <3>1. Len(a) \in Nat
      BY <2>3
    <3>. QED  BY <2>3, <3>1
  <2>. QED  BY <1>1, <2>1, <2>2, <2>3
<1>2. /\ c.arg \in A /\ c.out \in Output /\ c.how \in {"no", ">", ">>"} /\ (c.op # "echo" => c.how = "no")
      /\ c.op \in {"cd", "mkdir", "rmdir", "touch", "rm", "cat", "print", "echo"}
  BY DEF Command
<1> HIDE DEF A
<1>. QED  BY <1>1, <1>2 DEF IsCmd

\* At the prompt or in front of a command, what a command begins in
LEMMA NowStart ==
    ASSUME IInv
    PROVE  /\ Start(Now) /\ Now.fds = fd_table /\ Now.pipe = pipe /\ Now.users = users
           /\ Now.tree = tree /\ Now.cwd = cwd /\ Now.cache = cwd_cache /\ Now.halt = "no"
           /\ HasPipe(Now) <=> ~(stage = 0 \/ Stages = 1)
           /\ ~(stage = 0 \/ Stages = 1) => (fd_table[0] # Pipe <=> stage = 1)
<1>1. /\ Now.fds = fd_table /\ Now.pipe = pipe /\ Now.users = users
      /\ Now.tree = tree /\ Now.cwd = cwd /\ Now.cache = cwd_cache /\ Now.halt = "no"
  BY DEF Now
<1>2. /\ tree \in [Path -> {None, Dir} \cup 0..MaxSize] /\ Closed(tree)
      /\ cwd \in Seq(Name) /\ Value(tree, cwd) = Dir /\ cwd_cache = Spell(cwd)
  BY DEF IInv, TreeInv
<1>3. tree \in [Path -> {None, Dir} \cup Nat]
  <2>1. MaxSize \in Nat
    BY ShellAssumption
  <2>2. {None, Dir} \cup 0..MaxSize \subseteq {None, Dir} \cup Nat
    BY <2>1
  <2>. QED  BY <1>2, <2>2
<1>4. Spell(cwd) \in Seq(Tok)
  BY <1>2, SpellFacts
<1>5. bufsize \in Nat
  BY ShellAssumption
<1> DEFINE Piped == ~(stage = 0 \/ Stages = 1)
<1>6. /\ fd_table \in [0..4 -> Int] /\ users \in Int /\ pipe \in Int \cup {NoPipe}
      /\ fd_table[0] = Pipe \/ fd_table[1] = Pipe <=> Piped
      /\ Piped => (fd_table[0] # Pipe <=> stage = 1)
      /\ IF Piped THEN pipe \in 0..bufsize - 1 ELSE pipe = NoPipe
  <2>1. CASE ~Piped
    BY <2>1 DEF IInv, FdInv, Plain, Std, Pipe
  <2>2. CASE Piped
    <3>1. Redirected /\ LineInv
      BY <2>2 DEF IInv, FdInv
    <3>2. stage \in 1..Stages /\ Stages \in Nat
      BY <2>2, <3>1, StageIs DEF StageFacts, LineInv
    <3>3. ~(stage = 1 /\ stage = Stages)
      BY <2>2
    <3>. QED  BY <1>5, <2>2, <3>1, <3>3 DEF Redirected, Pipe
  <2>. QED  BY <2>1, <2>2
<1> HIDE DEF Piped
<1>7. HasPipe(Now) <=> Piped
  BY <1>1, <1>6 DEF HasPipe
<1>8. PipeOK(Now)
  BY <1>1, <1>6, <1>7 DEF PipeOK
<1>9. Now \in State
  <2>1. "no" \in Halts
    BY DEF Halts
  <2>. QED  BY <1>2, <1>3, <1>4, <1>6, <2>1 DEF Now, State
<1>10. Ready(Now)
  BY <1>1, <1>2 DEF Ready
<1>11. Start(Now)
  BY <1>1, <1>2, <1>8, <1>9, <1>10 DEF Start
<1>. QED  BY <1>1, <1>6, <1>7, <1>11 DEF Piped

\* The parts of CommandsMean, for a command c with the path p that leaves s
Becomes(s, p, ok, new) == s.tree = IF ok THEN [tree EXCEPT ![p] = new] ELSE tree
Thru(p) == \E i \in 1..Len(p) - 1 : Value(tree, SubSeq(p, 1, i)) \notin {None, Dir}
TreeMeant(c, s, p) ==
    CASE c.op = "mkdir" -> Becomes(s, p, Value(tree, p) = None /\ Up(tree, p) = Dir, Dir)
      [] c.op = "touch" -> Becomes(s, p, Value(tree, p) = None /\ Up(tree, p) = Dir, 0)
      [] c.op = "rmdir" -> Becomes(s, p, Value(tree, p) = Dir /\ p # <<>> /\ Children(tree, p) = {}, None)
      [] c.op = "rm" -> Thru(p) \/ Becomes(s, p, IsFile(tree, p), None)
      [] c.op = "echo" -> \/ Last(c.arg) = "/"
                          \/ c.how = ">" /\ Becomes(s, p, IsFile(tree, p) /\ Walked(tree, c.arg), 1)
                          \/ /\ c.how = ">>"
                             /\ Becomes(s, p, IsFile(tree, p) /\ Walked(tree, c.arg), Value(tree, p) + 1)
                          \/ c.how = "no" /\ Becomes(s, p, FALSE, None)
      [] OTHER -> Becomes(s, p, FALSE, None)
Meant(c, s, p) ==
    /\ TreeMeant(c, s, p)
    /\ s.cwd = IF c.op = "cd" /\ Value(tree, p) = Dir THEN p ELSE cwd
    /\ s.cache = Spell(s.cwd)
    /\ s.halt = "no" \/ (Last(c.arg) = "/" /\ c.op \in {"cat", "echo"})

\* At the prompt: s keeps the directory, and runs on.
Kept(s) == s.cwd = cwd /\ s.cache = Spell(s.cwd)
Runs(s) == Kept(s) /\ s.halt = "no"

\* At the prompt nothing is redirected: printf and the write to descriptor 0 leave
\* the state as it is.
LEMMA PromptFacts ==
    ASSUME IInv, stage = 0
    PROVE  /\ Start(Now) /\ Ready(Now) /\ Now \in State /\ Now.halt = "no" /\ Now.tree = tree
           /\ Runs(Now) /\ \A n \in Output \cup 0..MaxSize : printf(Now, n) = Now
           /\ \A why \in Halts : Kept(Stop(Now, why)) /\ Stop(Now, why).tree = tree
           /\ \A p : \A v \in {None, Dir} \cup Nat :
                 Runs(Put(Now, p, v)) /\ Put(Now, p, v).tree = [tree EXCEPT ![p] = v]
           /\ \A n : WriteIn(Now, n) = Now
           /\ \A p : \A n : WriteIn(Put(Now, p, None), n) = Put(Now, p, None)
<1>1. /\ Start(Now) /\ Now.fds = fd_table /\ Now.tree = tree /\ Now.cwd = cwd
      /\ Now.cache = cwd_cache /\ Now.halt = "no" /\ ~HasPipe(Now)
  BY NowStart
<1>2. Ready(Now) /\ Now \in State /\ Now.cache = Spell(Now.cwd)
  BY <1>1 DEF Start
<1>3. Now.fds[1] # Pipe /\ Now.fds[0] # Pipe
  BY <1>1 DEF HasPipe
<1>4. Runs(Now)
  BY <1>1, <1>2 DEF Runs, Kept
<1>5. \A n \in Output \cup 0..MaxSize : printf(Now, n) = Now
  BY <1>1, <1>3, Prints
<1>6. ASSUME NEW why \in Halts PROVE Kept(Stop(Now, why)) /\ Stop(Now, why).tree = tree
  BY <1>1, <1>2, StopFacts DEF SameElse, Kept
<1>7. ASSUME NEW p, NEW v \in {None, Dir} \cup Nat
      PROVE  /\ Runs(Put(Now, p, v)) /\ Put(Now, p, v).tree = [tree EXCEPT ![p] = v]
             /\ Put(Now, p, v).fds = Now.fds
  <2> DEFINE t == Put(Now, p, v)
  <2>1. IsPut(Now, p, v, t)
    BY <1>2, PutFacts
  <2> HIDE DEF t
  <2>2. /\ t.fds = Now.fds /\ t.cwd = Now.cwd /\ t.cache = Now.cache /\ t.halt = Now.halt
        /\ t.tree = [Now.tree EXCEPT ![p] = v]
    BY <2>1 DEF IsPut, SameElse
  <2>3. Runs(t) /\ t.tree = [tree EXCEPT ![p] = v] /\ t.fds = Now.fds
    BY <1>1, <1>2, <2>2 DEF Runs, Kept
  <2>. QED  BY <2>3 DEF t
<1>8. \A n : WriteIn(Now, n) = Now
  BY <1>3 DEF WriteIn
<1>9. ASSUME NEW p, NEW n PROVE WriteIn(Put(Now, p, None), n) = Put(Now, p, None)
  <2>1. None \in {None, Dir} \cup Nat
    OBVIOUS
  <2>2. Put(Now, p, None).fds[0] # Pipe
    BY <1>3, <1>7, <2>1
  <2>. QED  BY <2>2 DEF WriteIn
<1>10. \A why \in Halts : Kept(Stop(Now, why)) /\ Stop(Now, why).tree = tree
  BY <1>6
<1>11. \A p : \A v \in {None, Dir} \cup Nat :
                 Runs(Put(Now, p, v)) /\ Put(Now, p, v).tree = [tree EXCEPT ![p] = v]
  BY <1>7
<1>12. \A p : \A n : WriteIn(Put(Now, p, None), n) = Put(Now, p, None)
  BY <1>9
<1>. QED  BY <1>1, <1>2, <1>4, <1>5, <1>8, <1>10, <1>11, <1>12

\* cd with a path
LEMMA CdTwo ==
    ASSUME NEW s, NEW c, Ready(s), IsCmd(c)
    PROVE  LET p == Resolve(c.arg)
           IN  buildin_cd(s, 2, c) = IF Value(s.tree, p) # Dir THEN printf(s, c.out)
                                     ELSE [s EXCEPT !.cwd = p, !.cache = Spell(p)]
<1> DEFINE argc == 2
           q == IF argc = 1 THEN <<>> ELSE Resolve(c.arg)
           w == [s EXCEPT !.cwd = q, !.cache = Spell(q)]
<1>1. argc \in Nat /\ argc = 2
  OBVIOUS
<1> HIDE DEF argc
<1>2. buildin_cd(s, argc, c) = IF argc > 2 \/ Value(s.tree, q) # Dir THEN printf(s, c.out) ELSE w
  BY <1>1, CdIs
<1>3. q = Resolve(c.arg) /\ ~(argc > 2)
  BY <1>1
<1> HIDE DEF q
<1>. QED  BY <1>1, <1>2, <1>3

\* Each command at the prompt
LEMMA Means ==
    ASSUME IInv, stage = 0, NEW c \in Command(2) \cup Command(4)
    PROVE  Meant(c, cmd_execute(Now, IF c.how = "no" THEN 2 ELSE 4, c), Resolve(c.arg))
<1> DEFINE p == Resolve(c.arg)
           argc == IF c.how = "no" THEN 2 ELSE 4
           s == cmd_execute(Now, argc, c)
           v == Value(tree, p)
<1>1. /\ IsCmd(c) /\ c.how \in {"no", ">", ">>"} /\ (c.op # "echo" => c.how = "no")
      /\ c.op \in {"cd", "mkdir", "rmdir", "touch", "rm", "cat", "print", "echo"}
  BY CommandFacts
<1>2. Start(Now) /\ Ready(Now) /\ Now \in State /\ Now.halt = "no" /\ Now.tree = tree /\ Runs(Now)
  BY PromptFacts
<1>3. printf(Now, c.out) = Now
  BY <1>1, PromptFacts DEF IsCmd
<1>4. \A q : \A w \in {None, Dir} \cup Nat :
                 Runs(Put(Now, q, w)) /\ Put(Now, q, w).tree = [tree EXCEPT ![q] = w]
  BY PromptFacts
<1>5. p \in Seq(Name)
  BY <1>1, <1>2, WashedArg
<1>6. argc \in Nat /\ (c.op # "echo" => argc = 2)
  BY <1>1
<1>7. Dir \in {None, Dir} \cup Nat /\ None \in {None, Dir} \cup Nat /\ 0 \in {None, Dir} \cup Nat /\ Dir # None
  BY ShellAssumption
<1>8. p = <<>> => v = Dir
  BY DEF Value
<1> HIDE DEF p, v
<1>9. CASE c.op = "cd"
  <2> DEFINE w == [Now EXCEPT !.cwd = p, !.cache = Spell(p)]
  <2>1. s = IF v # Dir THEN Now ELSE w
    <3>1. buildin_cd(Now, 2, c) = IF v # Dir THEN printf(Now, c.out) ELSE w
      BY <1>1, <1>2, CdTwo, ZenonT(60) DEF p, v
    <3>2. s = buildin_cd(Now, 2, c)
      BY <1>6, <1>9 DEF cmd_execute
    <3>. QED  BY <1>3, <3>1, <3>2
  <2>2. w.cwd = p /\ w.cache = Spell(p) /\ w.tree = tree /\ w.halt = "no"
    BY <1>2 DEF State
  <2> HIDE DEF s, w
  <2>3. Becomes(s, p, FALSE, None)
    BY <1>2, <2>1, <2>2 DEF Becomes
  <2>4. TreeMeant(c, s, p)
    BY <1>9, <2>3 DEF TreeMeant
  <2>5. Meant(c, s, p)
    BY <1>2, <1>9, <2>1, <2>2, <2>4 DEF Meant, Runs, Kept, v
  <2>. QED  BY <2>5 DEF s, p
<1>10. ASSUME c.op # "cd", TreeMeant(c, s, p), Kept(s),
              s.halt = "no" \/ (Last(c.arg) = "/" /\ c.op \in {"cat", "echo"})
       PROVE  Meant(c, s, p)
  <2> HIDE DEF s
  <2>. QED  BY <1>10 DEF Meant, Kept
<1>11. Runs(s) => Kept(s) /\ s.halt = "no"
  BY DEF Runs
<1>12. CASE c.op = "mkdir"
  <2>1. buildin_mkdir(Now, 2, c) = IF p = <<>> THEN Now
                 ELSE IF v = None /\ Up(tree, p) = Dir THEN Put(Now, p, Dir)
                 ELSE printf(Now, c.out)
    BY <1>1, <1>2, MkdirIs DEF p, v
  <2>2. s = buildin_mkdir(Now, 2, c)
    BY <1>6, <1>12 DEF cmd_execute
  <2> HIDE DEF s
  <2>3. s = IF v = None /\ Up(tree, p) = Dir THEN Put(Now, p, Dir) ELSE Now
    BY <1>3, <1>7, <1>8, <2>1, <2>2
  <2>4. Runs(s) /\ Becomes(s, p, v = None /\ Up(tree, p) = Dir, Dir)
    BY <1>2, <1>4, <1>7, <2>3 DEF Becomes
  <2>5. TreeMeant(c, s, p)
    BY <1>12, <2>4 DEF TreeMeant, v
  <2>. QED  BY <1>10, <1>11, <1>12, <2>4, <2>5 DEF s, p
<1>13. CASE c.op = "touch"
  <2>1. buildin_touch(Now, 2, c) = IF p = <<>> THEN printf(Now, c.out)
                 ELSE IF v = None /\ Up(tree, p) = Dir THEN Put(Now, p, 0)
                 ELSE printf(Now, c.out)
    BY <1>1, <1>2, TouchIs DEF p, v
  <2>2. s = buildin_touch(Now, 2, c)
    BY <1>6, <1>13 DEF cmd_execute
  <2> HIDE DEF s
  <2>3. s = IF v = None /\ Up(tree, p) = Dir THEN Put(Now, p, 0) ELSE Now
    BY <1>3, <1>7, <1>8, <2>1, <2>2
  <2>4. Runs(s) /\ Becomes(s, p, v = None /\ Up(tree, p) = Dir, 0)
    BY <1>2, <1>4, <1>7, <2>3 DEF Becomes
  <2>5. TreeMeant(c, s, p)
    BY <1>13, <2>4 DEF TreeMeant, v
  <2>. QED  BY <1>10, <1>11, <1>13, <2>4, <2>5 DEF s, p
<1>14. CASE c.op = "rmdir"
  <2> DEFINE ok == v = Dir /\ Children(tree, p) = {}
  <2>1. buildin_rmdir(Now, 2, c) = IF p = <<>> THEN Now
                 ELSE IF ok THEN Put(Now, p, None) ELSE printf(Now, c.out)
    BY <1>1, <1>2, RmdirIs DEF p, v
  <2>2. s = buildin_rmdir(Now, 2, c)
    BY <1>6, <1>14 DEF cmd_execute
  <2> HIDE DEF s
  <2>3. s = IF v = Dir /\ p # <<>> /\ Children(tree, p) = {} THEN Put(Now, p, None) ELSE Now
    BY <1>3, <2>1, <2>2
  <2>4. Runs(s) /\ Becomes(s, p, v = Dir /\ p # <<>> /\ Children(tree, p) = {}, None)
    BY <1>2, <1>4, <1>7, <2>3 DEF Becomes
  <2>5. TreeMeant(c, s, p)
    BY <1>14, <2>4 DEF TreeMeant, v
  <2>. QED  BY <1>10, <1>11, <1>14, <2>4, <2>5 DEF s, p
<1>15. CASE c.op = "rm"
  <2>1. LET rm == buildin_rm(Now, 2, c)
        IN  /\ p = <<>> => rm = Now
            /\ p # <<>> => \/ rm = printf(Now, c.out) /\ ~IsFile(tree, p)
                           \/ \E i \in 1..Len(p) : /\ rm = Put(Now, SubSeq(p, 1, i), None)
                                                   /\ IsFile(tree, SubSeq(p, 1, i))
                                                   /\ i = Len(p) \/ ~IsFile(tree, p)
    BY <1>1, <1>2, RmIs DEF p
  <2>2. s = buildin_rm(Now, 2, c)
    BY <1>6, <1>15 DEF cmd_execute
  <2> HIDE DEF s
  <2>3. CASE s = Now /\ ~IsFile(tree, p)
    <3>1. Becomes(s, p, IsFile(tree, p), None)
      BY <1>2, <2>3 DEF Becomes
    <3>2. TreeMeant(c, s, p)
      BY <1>15, <3>1 DEF TreeMeant
    <3>. QED  BY <1>2, <1>10, <1>11, <1>15, <2>3, <3>2 DEF s, p
  <2>4. ASSUME NEW i \in 1..Len(p), s = Put(Now, SubSeq(p, 1, i), None), IsFile(tree, SubSeq(p, 1, i))
        PROVE  Meant(c, s, p)
    <3>1. Runs(s) /\ s.tree = [tree EXCEPT ![SubSeq(p, 1, i)] = None]
      BY <1>4, <1>7, <2>4
    <3>2. CASE i = Len(p)
      <4>1. SubSeq(p, 1, i) = p
        BY <1>5, <3>2, PrefixFacts
      <4>2. Becomes(s, p, IsFile(tree, p), None)
        BY <2>4, <3>1, <4>1 DEF Becomes
      <4>3. TreeMeant(c, s, p)
        BY <1>15, <4>2 DEF TreeMeant
      <4>. QED  BY <1>10, <1>11, <1>15, <3>1, <4>3
    <3>3. CASE i # Len(p)
      <4>1. Len(p) \in Nat
        BY <1>5
      <4>2. i \in 1..Len(p) - 1
        BY <3>3, <4>1
      <4>3. Thru(p)
        BY <2>4, <4>2 DEF Thru, IsFile
      <4>4. TreeMeant(c, s, p)
        BY <1>15, <4>3 DEF TreeMeant
      <4>. QED  BY <1>10, <1>11, <1>15, <3>1, <4>4
    <3>. QED  BY <3>2, <3>3
  <2>5. p = <<>> => ~IsFile(tree, p)
    BY <1>8 DEF IsFile, v
  <2>6. Meant(c, s, p)
    BY <1>3, <2>1, <2>2, <2>3, <2>4, <2>5 DEF s, p
  <2>. QED  BY <2>6 DEF s, p
<1>16. CASE c.op = "cat"
  <2> DEFINE ok == IsFile(tree, p) /\ Walked(tree, c.arg)
  <2>1. buildin_cat(Now, 2, c) =
            IF Last(c.arg) = "/" THEN Stop(Now, "loop")
            ELSE IF ok THEN printf(Now, v) ELSE printf(Now, c.out)
    <3> DEFINE fd0 == IF Now.fds[0] = Pipe THEN printf([Now EXCEPT !.pipe = 0], Now.pipe) ELSE Stop(Now, "stdin")
               other == IF Last(c.arg) = "/" THEN Stop(Now, "loop")
                        ELSE IF IsFile(Now.tree, p) /\ Walked(Now.tree, c.arg) THEN printf(Now, Value(Now.tree, p))
                        ELSE printf(Now, c.out)
    <3>1. buildin_cat(Now, 2, c) = IF 2 > 2 THEN printf(Now, c.out) ELSE IF 2 = 1 THEN fd0 ELSE other
      BY <1>1, <1>2, CatIs DEF p
    <3>2. buildin_cat(Now, 2, c) = other
      <4> HIDE DEF fd0, other
      <4>. QED  BY <3>1
    <3>. QED  BY <1>2, <3>2 DEF v
  <2>2. s = buildin_cat(Now, 2, c)
    BY <1>6, <1>16 DEF cmd_execute
  <2>3. ok => printf(Now, v) = Now
    <3>1. IsFile(tree, p) => v \in 0..MaxSize
      BY <1>2, <1>7, FileOutcome DEF v
    <3>. QED  BY <3>1, PromptFacts
  <2> HIDE DEF s
  <2>4. s = IF Last(c.arg) = "/" THEN Stop(Now, "loop") ELSE Now
    BY <1>3, <2>1, <2>2, <2>3
  <2>5. Kept(Stop(Now, "loop")) /\ Stop(Now, "loop").tree = tree
    <3>1. "loop" \in Halts
      BY DEF Halts
    <3>. QED  BY <3>1, PromptFacts
  <2>6. Kept(s) /\ s.tree = tree /\ (s.halt = "no" \/ (Last(c.arg) = "/" /\ c.op \in {"cat", "echo"}))
    BY <1>2, <1>16, <2>4, <2>5 DEF Runs
  <2>7. TreeMeant(c, s, p)
    BY <1>16, <2>6 DEF TreeMeant, Becomes
  <2>. QED  BY <1>10, <1>16, <2>6, <2>7 DEF s, p
<1>17. CASE c.op = "print"
  <2>1. s = Now
    BY <1>3, <1>17 DEF cmd_execute
  <2> HIDE DEF s
  <2>2. TreeMeant(c, s, p)
    BY <1>2, <1>17, <2>1 DEF TreeMeant, Becomes
  <2>. QED  BY <1>2, <1>10, <1>11, <1>17, <2>1, <2>2 DEF s, p
<1>18. CASE c.op = "echo"
  <2> DEFINE ok == IsFile(tree, p) /\ Walked(tree, c.arg)
  <2>1. s = buildin_echo(Now, argc, c)
    BY <1>18 DEF cmd_execute
  <2>2. /\ argc # 4 => s = printf(Now, c.out)
        /\ argc = 4 /\ Last(c.arg) # "/" =>
                     s = IF ~ok THEN printf(Now, c.out)
                            ELSE IF c.how = ">" THEN Put(Put(Now, p, None), p, 1)
                            ELSE IF c.how = ">>" THEN Put(Now, p, v + 1)
                            ELSE printf(Now, c.out)
        /\ argc = 4 /\ Last(c.arg) = "/" =>
                     \/ s \in {printf(Now, c.out), Stop(Now, "seek"), Stop(Now, "root"), WriteIn(Now, c.out)}
                     \/ \E q \in Seq(Name) : IsFile(tree, q) /\ s = WriteIn(Put(Now, q, None), c.out)
    <3> HIDE DEF argc
    <3>. QED  BY <1>1, <1>2, <2>1, EchoIs DEF p, v
  <2>3. IsFile(tree, p) => v + 1 \in Nat
    <3>1. IsFile(tree, p) => v \in 0..MaxSize
      BY <1>2, <1>7, FileOutcome DEF v
    <3>. QED  BY <3>1
  <2>4. argc # 4 <=> c.how = "no"
    BY <1>1
  <2> HIDE DEF s, argc
  <2>5. CASE c.how = "no"
    <3>1. s = Now
      BY <1>3, <2>2, <2>4, <2>5
    <3>2. TreeMeant(c, s, p)
      BY <1>2, <1>18, <2>5, <3>1 DEF TreeMeant, Becomes
    <3>. QED  BY <1>2, <1>10, <1>11, <1>18, <3>1, <3>2 DEF s, p, argc
  <2>6. CASE c.how # "no" /\ Last(c.arg) = "/"
    <3>1. \A why \in {"seek", "root"} : Kept(Stop(Now, why))
      <4>1. "seek" \in Halts /\ "root" \in Halts
        BY DEF Halts
      <4>. QED  BY <4>1, PromptFacts
    <3>2. WriteIn(Now, c.out) = Now /\ \A q : WriteIn(Put(Now, q, None), c.out) = Put(Now, q, None)
      BY PromptFacts
    <3>3. \A q : Kept(Put(Now, q, None))
      BY <1>4, <1>7 DEF Runs
    <3>4. Kept(Now)
      BY <1>2 DEF Runs
    <3>5. Kept(s)
      BY <1>3, <2>2, <2>4, <2>6, <3>1, <3>2, <3>3, <3>4
    <3>6. TreeMeant(c, s, p)
      BY <1>18, <2>6 DEF TreeMeant
    <3>. QED  BY <1>10, <1>18, <2>6, <3>5, <3>6 DEF s, p, argc
  <2>7. CASE c.how = ">" /\ Last(c.arg) # "/"
    <3>1. Put(Put(Now, p, None), p, 1) = Put(Now, p, 1)
      BY <1>2, PutTwice
    <3>2. s = IF ok THEN Put(Now, p, 1) ELSE Now
      BY <1>3, <2>2, <2>4, <2>7, <3>1
    <3>3. Runs(s) /\ Becomes(s, p, ok, 1)
      BY <1>2, <1>4, <3>2 DEF Becomes
    <3>4. TreeMeant(c, s, p)
      BY <1>18, <2>7, <3>3 DEF TreeMeant
    <3>. QED  BY <1>10, <1>11, <1>18, <3>3, <3>4 DEF s, p, argc
  <2>8. CASE c.how = ">>" /\ Last(c.arg) # "/"
    <3>1. s = IF ok THEN Put(Now, p, v + 1) ELSE Now
      BY <1>3, <2>2, <2>4, <2>8
    <3>2. Runs(s) /\ Becomes(s, p, ok, v + 1)
      BY <1>2, <1>4, <2>3, <3>1 DEF Becomes
    <3>3. TreeMeant(c, s, p)
      BY <1>18, <2>8, <3>2 DEF TreeMeant, v
    <3>. QED  BY <1>10, <1>11, <1>18, <3>2, <3>3 DEF s, p, argc
  <2>. QED  BY <1>1, <2>5, <2>6, <2>7, <2>8
<1>. QED  BY <1>1, <1>9, <1>12, <1>13, <1>14, <1>15, <1>16, <1>17, <1>18

\* The invariant says what CommandsMean says.
LEMMA MeansAll ==
    ASSUME IInv
    PROVE  CommandsMean
<1>1. SUFFICES ASSUME Reading, pos = 0, NEW c \in Command(2) \cup Command(4),
                      NEW s \in {cmd_execute(Now, IF c.how = "no" THEN 2 ELSE 4, c)}
               PROVE
            LET p == Resolve(c.arg)
                v == Value(tree, p)
                up == Value(tree, IF p = <<>> THEN p ELSE Front(p))
                Turns(ok, new) == s.tree = IF ok THEN [tree EXCEPT ![p] = new] ELSE tree
                thru == \E i \in 1..Len(p) - 1 : Value(tree, SubSeq(p, 1, i)) \notin {None, Dir}
                walked == \A i \in 1..Len(c.arg) - 1 : Value(tree, Resolve(SubSeq(c.arg, 1, i))) = Dir
                file == v \notin {None, Dir}
            IN  /\ CASE c.op = "mkdir" -> Turns(v = None /\ up = Dir, Dir)
                     [] c.op = "touch" -> Turns(v = None /\ up = Dir, 0)
                     [] c.op = "rmdir" -> Turns(v = Dir /\ p # <<>> /\ Children(tree, p) = {}, None)
                     [] c.op = "rm" -> thru \/ Turns(file, None)
                     [] c.op = "echo" -> \/ Last(c.arg) = "/"
                                         \/ c.how = ">" /\ Turns(file /\ walked, 1)
                                         \/ c.how = ">>" /\ Turns(file /\ walked, v + 1)
                                         \/ c.how = "no" /\ Turns(FALSE, None)
                     [] OTHER -> Turns(FALSE, None)
                /\ s.cwd = IF c.op = "cd" /\ v = Dir THEN p ELSE cwd
                /\ s.cache = getcwd(s)
                /\ s.halt = "no" \/ (Last(c.arg) = "/" /\ c.op \in {"cat", "echo"})
  BY ZenonT(60) DEF CommandsMean
<1>2. Meant(c, s, Resolve(c.arg))
  BY <1>1, Means DEF Reading
<1>. QED  BY <1>2 DEF Meant, TreeMeant, Becomes, Thru, Walked, IsFile, Up, getcwd

\* The invariant says what ShellInv and LineExecuted say.
LEMMA ShellIs ==
    ASSUME IInv
    PROVE  ShellInv
<1>1. LineInv /\ FdInv /\ TreeInv /\ HaltInv
  BY DEF IInv
<1>2. pos \in 0..cmd_len /\ typed \in Seq(Char) /\ stage \in Nat
  BY <1>1 DEF LineInv
<1>3. stage \in 0..cmd_len
  <2>1. CASE stage = 0
    BY <2>1, ShellAssumption
  <2>2. CASE stage > 0
    <3> DEFINE N == Len(typed)
    <3>1. N < cmd_len /\ N \in Nat /\ cmd_len \in Nat
      BY <1>1, <1>2, <2>2, ShellAssumption DEF LineInv
    <3>2. stage <= Stages
      BY <1>1, <2>2, StageIs DEF StageFacts
    <3> HIDE DEF N
    <3>3. IsFiniteSet(1..N) /\ Cardinality(1..N) = N
      BY <3>1, FS_Interval
    <3>4. Bars \subseteq 1..N
      BY DEF Bars, N
    <3>5. Cardinality(Bars) <= N /\ Cardinality(Bars) \in Nat
      BY <3>3, <3>4, FS_Subset, FS_CardinalityType
    <3>6. Stages = Cardinality(Bars) + 1
      BY DEF Stages
    <3>. QED  BY <1>2, <3>1, <3>2, <3>5, <3>6
  <2>. QED  BY <1>2, <2>1, <2>2
<1>4. cwd_cache = getcwd(Now)
  BY <1>1 DEF TreeInv, getcwd, Now
<1>5. tree \in [Path -> {None, Dir} \cup 0..MaxSize]
  BY <1>1 DEF TreeInv
<1>. QED  BY <1>1, <1>2, <1>3, <1>4, <1>5 DEF ShellInv, FdInv, Plain, Redirected, HaltInv

\* So does it what LineExecuted says.
LEMMA LineIs ==
    ASSUME IInv
    PROVE  LineExecuted
<1>1. LineInv /\ HaltInv
  BY DEF IInv
<1>2. ASSUME stage > 0
      PROVE  /\ stage <= Stages /\ each_cmd = SubSeq(typed, From(stage), Len(typed))
             /\ cmd_parse(CmdText) = Words(stage)
  <2>1. stage <= Stages
    BY <1>1, <1>2, StageIs DEF StageFacts
  <2>2. cmd_parse(CmdText) = Words(stage)
    BY <1>1, <1>2, WordsIs
  <2>. QED  BY <1>1, <1>2, <2>1, <2>2 DEF LineInv
<1>. QED  BY <1>1, <1>2 DEF LineExecuted, HaltInv

\* It holds at the first prompt.
LEMMA InitInv ==
    ASSUME Init
    PROVE  IInv
<1>1. cmd_len \in Nat /\ cmd_len > 0
  BY ShellAssumption
<1>2. LineInv
  <2>1. typed = <<>> /\ typed \in Seq(Char) /\ Len(typed) = 0
    BY DEF Init
  <2>2. buf \in [0..cmd_len -> Char \cup {"nul", "bs", "^u"}]
    BY DEF Init, NoLine
  <2>. QED  BY <1>1, <2>1, <2>2 DEF Init, LineInv
<1>3. FdInv
  BY DEF Init, FdInv, Plain
<1>4. TreeInv
  <2>1. Closed(tree)
    BY DEF Init, Closed
  <2>2. cwd \in Seq(Name) /\ Value(tree, cwd) = Dir /\ cwd_cache = Spell(cwd)
    BY DEF Init, Value, Spell
  <2>. QED  BY <2>1, <2>2 DEF Init, TreeInv
<1>5. HaltInv
  BY DEF Init, HaltInv
<1>. QED  BY <1>2, <1>3, <1>4, <1>5 DEF IInv

\* What is left of the line
LEMMA StageNow == LineInv /\ stage > 0 => StageFacts(Bar(each_cmd), From(stage), Len(typed))
BY StageIs
\* What is left of the line, in the next state
LEMMA StageNext == (LineInv /\ stage > 0 => StageFacts(Bar(each_cmd), From(stage), Len(typed)))'
BY StageNow, PTL

\* As long as the line stands, so do its stages.
LEMMA SameLine ==
    ASSUME typed' = typed
    PROVE  /\ Bars' = Bars /\ Stages' = Stages /\ From(stage)' = From(stage')
           /\ stage' = stage => Words(stage)' = Words(stage)
<1>1. Bars' = Bars /\ Stages' = Stages
  BY DEF Bars, Stages
<1>2. From(stage)' = From(stage')
  BY <1>1 DEF From
<1>3. stage' = stage => Words(stage)' = Words(stage)
  BY DEF From, Bars, To, Words, Stages
<1>. QED  BY <1>1, <1>2, <1>3

\* An editing key changes nothing but the line.
LEMMA KeyKeeps ==
    ASSUME IInv, Reading, stage' = stage, UNCHANGED run_vars, halt' \in {"no", "line"},
           halt' = "line" => Len(typed') = cmd_len, LineInv'
    PROVE  IInv'
<1>1. stage' = 0
  BY DEF Reading
<1>2. FdInv'
  BY <1>1 DEF IInv, FdInv, Plain, Reading, run_vars
<1>3. TreeInv'
  BY DEF IInv, TreeInv, run_vars, Closed, Value, Spell
<1>4. HaltInv'
  BY <1>1 DEF HaltInv
<1>. QED  BY <1>2, <1>3, <1>4 DEF IInv

\* The characters of a word are none of the keys.
LEMMA Chars ==
    /\ \A c \in Char : c \notin {"nul", "bs", "^u"}
    /\ "sp" # "|"
BY ShellAssumption DEF Char

\* A character is typed.
LEMMA TypeStep ==
    ASSUME IInv, NEW c \in Char, Type(c)
    PROVE  IInv'
<1>1. /\ stage = 0 /\ stage' = stage /\ UNCHANGED run_vars /\ halt' = "no" /\ pos < cmd_len
      /\ buf' = [buf EXCEPT ![pos] = c] /\ pos' = pos + 1 /\ typed' = Append(typed, c)
  BY DEF Type, Reading
<1>2. /\ buf \in [0..cmd_len -> Char \cup {"nul", "bs", "^u"}] /\ pos \in 0..cmd_len
      /\ typed \in Seq(Char) /\ Len(typed) = pos /\ \A i \in 0..pos - 1 : buf[i] = typed[i + 1]
  BY <1>1 DEF IInv, LineInv
<1>3. cmd_len \in Nat /\ pos \in Nat
  BY <1>2, ShellAssumption
<1>4. /\ typed' \in Seq(Char) /\ Len(typed') = pos + 1 /\ typed'[pos + 1] = c
      /\ \A i \in 1..pos : typed'[i] = typed[i]
  BY <1>1, <1>2, AppendProperties
<1>5. buf' \in [0..cmd_len -> Char \cup {"nul", "bs", "^u"}] /\ pos' \in 0..cmd_len
  BY <1>1, <1>2, <1>3
<1>6. ASSUME NEW i \in 0..pos PROVE buf'[i] = typed'[i + 1]
  <2>1. CASE i = pos
    BY <1>1, <1>2, <1>3, <1>4, <2>1
  <2>2. CASE i # pos
    <3>1. i \in 0..pos - 1 /\ i + 1 \in 1..pos /\ i \in 0..cmd_len
      BY <1>2, <1>3, <2>2
    <3>. QED  BY <1>1, <1>2, <1>4, <2>2, <3>1
  <2>. QED  BY <2>1, <2>2
<1>7. pos' - 1 = pos
  BY <1>1, <1>3
<1>8. LineInv'
  BY <1>1, <1>4, <1>5, <1>6, <1>7 DEF LineInv
<1>. QED  BY <1>1, <1>8, KeyKeeps DEF Type

\* The key is stored at pos, so the first cell shows whether the line is empty.
LEMMA BackspaceStep ==
    ASSUME IInv, Backspace
    PROVE  IInv'
<1>1. /\ stage = 0 /\ stage' = stage /\ UNCHANGED run_vars /\ halt' = "no" /\ pos < cmd_len
      /\ buf' = [buf EXCEPT ![pos] = "bs"] /\ pos' = IF buf'[0] # "bs" THEN pos - 1 ELSE pos
      /\ typed' = IF typed = <<>> THEN typed ELSE Front(typed)
  BY DEF Backspace, Reading
<1>2. /\ buf \in [0..cmd_len -> Char \cup {"nul", "bs", "^u"}] /\ pos \in 0..cmd_len
      /\ typed \in Seq(Char) /\ Len(typed) = pos /\ \A i \in 0..pos - 1 : buf[i] = typed[i + 1]
  BY <1>1 DEF IInv, LineInv
<1>3. cmd_len \in Nat /\ pos \in Nat
  BY <1>2, ShellAssumption
<1>4. buf' \in [0..cmd_len -> Char \cup {"nul", "bs", "^u"}]
  BY <1>1, <1>2
<1>5. CASE pos = 0
  <2>1. typed = <<>> /\ buf'[0] = "bs"
    BY <1>1, <1>2, <1>3, <1>5
  <2>2. pos' = 0 /\ typed' = <<>> /\ Len(typed') = 0 /\ typed' \in Seq(Char)
    BY <1>1, <1>5, <2>1
  <2>3. pos' \in 0..cmd_len /\ \A i \in 0..pos' - 1 : FALSE
    BY <1>3, <2>2
  <2>4. LineInv'
    BY <1>1, <1>4, <2>2, <2>3 DEF LineInv
  <2>. QED  BY <1>1, <2>4, KeyKeeps DEF Backspace
<1>6. CASE pos > 0
  <2>1. typed # <<>> /\ buf'[0] # "bs"
    <3>1. 1 \in 1..pos /\ 0 \in 0..pos - 1 /\ 0 \in 0..cmd_len
      BY <1>3, <1>6
    <3>2. buf'[0] = buf[0] /\ buf[0] = typed[1] /\ typed[1] \in Char
      BY <1>1, <1>2, <1>6, <3>1
    <3>. QED  BY <1>2, <1>6, <3>2, Chars
  <2>2. pos' = pos - 1 /\ typed' = Front(typed)
    BY <1>1, <2>1
  <2>3. typed' \in Seq(Char) /\ Len(typed') = pos - 1 /\ \A i \in 1..pos - 1 : typed'[i] = typed[i]
    BY <1>2, <2>1, <2>2, FrontFacts
  <2>4. pos' \in 0..cmd_len
    BY <1>2, <1>3, <1>6, <2>2
  <2>5. ASSUME NEW i \in 0..pos' - 1 PROVE buf'[i] = typed'[i + 1]
    <3>1. i \in 0..pos - 1 /\ i + 1 \in 1..pos - 1 /\ i \in 0..cmd_len /\ i # pos
      BY <1>2, <1>3, <2>2
    <3>. QED  BY <1>1, <1>2, <2>3, <3>1
  <2>6. LineInv'
    BY <1>1, <1>4, <2>2, <2>3, <2>4, <2>5 DEF LineInv
  <2>. QED  BY <1>1, <2>6, KeyKeeps DEF Backspace
<1>. QED  BY <1>3, <1>5, <1>6

\* The other keys, and the key that no longer fits
LEMMA CtrlStep ==
    ASSUME IInv, CtrlL \/ CtrlU \/ TooLong
    PROVE  IInv'
<1>1. stage = 0 /\ Reading /\ stage' = stage /\ UNCHANGED run_vars /\ halt' \in {"no", "line"}
  BY DEF CtrlL, CtrlU, TooLong, Reading
<1>2. /\ buf \in [0..cmd_len -> Char \cup {"nul", "bs", "^u"}] /\ pos \in 0..cmd_len
      /\ typed \in Seq(Char) /\ Len(typed) = pos /\ \A i \in 0..pos - 1 : buf[i] = typed[i + 1]
  BY <1>1 DEF IInv, LineInv
<1>3. cmd_len \in Nat /\ pos \in Nat
  BY <1>2, ShellAssumption
<1>4. CASE CtrlL
  <2>1. buf' = [buf EXCEPT ![pos] = "nul"] /\ pos' = pos /\ typed' = typed /\ halt' = "no"
    BY <1>4 DEF CtrlL, Reading
  <2>2. buf' \in [0..cmd_len -> Char \cup {"nul", "bs", "^u"}] /\ pos' \in 0..cmd_len
    BY <1>2, <2>1
  <2>3. ASSUME NEW i \in 0..pos' - 1 PROVE buf'[i] = typed'[i + 1]
    <3>1. i \in 0..pos - 1 /\ i \in 0..cmd_len /\ i # pos
      BY <1>2, <1>3, <2>1
    <3>. QED  BY <1>2, <2>1, <3>1
  <2>4. LineInv'
    BY <1>1, <1>2, <2>1, <2>2, <2>3 DEF LineInv
  <2>. QED  BY <1>1, <2>1, <2>4, KeyKeeps
<1>5. CASE CtrlU
  <2>1. /\ buf' = [i \in DOMAIN buf |-> IF i \in 1..pos THEN "nul"
                                        ELSE IF i = pos THEN "^u" ELSE buf[i]]
        /\ pos' = 0 /\ typed' = <<>> /\ halt' = "no"
    BY <1>5 DEF CtrlU, Reading
  <2>2. buf' \in [0..cmd_len -> Char \cup {"nul", "bs", "^u"}] /\ pos' \in 0..cmd_len
    BY <1>2, <1>3, <2>1
  <2>3. typed' \in Seq(Char) /\ Len(typed') = 0 /\ \A i \in 0..pos' - 1 : FALSE
    BY <2>1
  <2>4. LineInv'
    BY <1>1, <2>1, <2>2, <2>3 DEF LineInv
  <2>. QED  BY <1>1, <2>1, <2>4, KeyKeeps
<1>6. CASE TooLong
  <2>1. buf' = buf /\ pos' = pos /\ typed' = typed /\ pos = cmd_len
    BY <1>6 DEF TooLong, line_vars
  <2>2. LineInv'
    BY <1>1, <1>2, <2>1 DEF LineInv
  <2>. QED  BY <1>1, <1>2, <2>1, <2>2, KeyKeeps
<1>. QED  BY <1>4, <1>5, <1>6

\* At the end of the line the array holds, up to its first 0, what has been typed.
LEMMA StringIs ==
    ASSUME IInv, Reading, pos < cmd_len
    PROVE  CString([buf EXCEPT ![pos] = "nul"]) = typed
<1> DEFINE b == [buf EXCEPT ![pos] = "nul"]
           IsEnd(n) == b[n] = "nul" /\ \A i \in 0..n - 1 : b[i] # "nul"
           m == CHOOSE n \in DOMAIN b : IsEnd(n)
<1>1. /\ buf \in [0..cmd_len -> Char \cup {"nul", "bs", "^u"}] /\ pos \in 0..cmd_len
      /\ typed \in Seq(Char) /\ Len(typed) = pos /\ \A i \in 0..pos - 1 : buf[i] = typed[i + 1]
  BY DEF IInv, LineInv, Reading
<1>2. cmd_len \in Nat /\ pos \in Nat
  BY <1>1, ShellAssumption
<1>3. DOMAIN b = 0..cmd_len /\ b[pos] = "nul"
  BY <1>1
<1>4. ASSUME NEW i \in 0..pos - 1 PROVE b[i] = typed[i + 1] /\ b[i] # "nul"
  <2>1. i \in 0..cmd_len /\ i # pos /\ i + 1 \in 1..pos
    BY <1>1, <1>2
  <2>2. b[i] = typed[i + 1] /\ typed[i + 1] \in Char
    BY <1>1, <2>1
  <2>. QED  BY <2>2, Chars
<1> HIDE DEF b
<1>5. IsEnd(pos)
  BY <1>3, <1>4
<1>6. m \in DOMAIN b /\ IsEnd(m)
  <2> HIDE DEF IsEnd
  <2>. QED  BY <1>1, <1>3, <1>5
<1>7. m \in 0..cmd_len
  BY <1>3, <1>6
<1>8. CString(b) = [i \in 1..m |-> b[i - 1]]
  BY DEF CString
<1> HIDE DEF m
<1>9. ~(m < pos)
  <2> SUFFICES ASSUME m < pos PROVE FALSE
    OBVIOUS
  <2>1. m \in 0..pos - 1
    BY <1>2, <1>7
  <2>. QED  BY <1>4, <1>6, <2>1
<1>10. ~(pos < m)
  <2> SUFFICES ASSUME pos < m PROVE FALSE
    OBVIOUS
  <2>1. pos \in 0..m - 1
    BY <1>2, <1>7
  <2>. QED  BY <1>3, <1>6, <2>1
<1>11. m = pos
  BY <1>2, <1>7, <1>9, <1>10
<1> DEFINE str == [i \in 1..pos |-> b[i - 1]]
<1>12. ASSUME NEW i \in 1..pos PROVE b[i - 1] = typed[i] /\ typed[i] \in Char
  <2>1. i - 1 \in 0..pos - 1 /\ (i - 1) + 1 = i
    BY <1>2
  <2>2. b[i - 1] = typed[(i - 1) + 1]
    BY <1>4, <2>1
  <2>. QED  BY <1>1, <2>1, <2>2
<1>13. str \in Seq(Char) /\ Len(str) = pos /\ \A i \in 1..pos : str[i] = typed[i]
  BY <1>2, <1>12
<1> HIDE DEF str
<1>14. str = typed
  BY <1>1, <1>13, SameSeq
<1>. QED  BY <1>8, <1>11, <1>14 DEF b, str

\* A line is taken: what runs is what has been typed, with a pipe when it has a bar.
LEMMA EnterStep ==
    ASSUME IInv, Enter
    PROVE  IInv'
<1> DEFINE s == IF Bar(typed) = 0 THEN Now ELSE sys_dup2(sys_pipe(Now), 4, 1)
<1>1. Reading /\ pos < cmd_len /\ stage = 0 /\ halt = "no"
  BY DEF Enter, Reading
<1>2. CString([buf EXCEPT ![pos] = "nul"]) = typed
  BY <1>1, StringIs
<1>3. /\ stage' = IF typed = <<>> THEN 0 ELSE 1
      /\ each_cmd' = typed /\ buf' = NoLine /\ pos' = 0
      /\ typed' = IF typed = <<>> THEN <<>> ELSE typed
      /\ fd_table' = s.fds /\ pipe' = s.pipe /\ users' = s.users
      /\ UNCHANGED <<tree, cwd, cwd_cache, halt>>
  BY <1>2 DEF Enter
<1>4. typed \in Seq(Char) /\ Len(typed) = pos /\ pos \in 0..cmd_len /\ cmd_len \in Nat
  BY <1>1, ShellAssumption DEF IInv, LineInv
<1>5. typed' = typed
  BY <1>3
<1>6. buf' \in [0..cmd_len -> Char \cup {"nul", "bs", "^u"}] /\ pos' \in 0..cmd_len
  BY <1>3, <1>4 DEF NoLine
<1>7. TreeInv'
  BY <1>3 DEF IInv, TreeInv, Closed, Value, Spell
<1>8. HaltInv'
  BY <1>1, <1>3 DEF HaltInv
<1>9. Plain /\ Now.fds = fd_table /\ Now.pipe = pipe /\ Now.users = users
  BY <1>1 DEF IInv, FdInv, Now
<1> HIDE DEF s
<1>10. CASE typed = <<>>
  <2>1. stage' = 0 /\ typed' = <<>> /\ typed' \in Seq(Char) /\ Len(typed') = 0
    BY <1>3, <1>10
  <2>2. \A i \in 0..pos' - 1 : FALSE
    BY <1>3
  <2>3. LineInv'
    BY <1>3, <1>6, <2>1, <2>2 DEF LineInv
  <2>4. Bar(typed) = 0
    <3>1. Bar(typed) \in 0..0
      BY <1>10, BarIs
    <3>. QED  BY <3>1
  <2>5. s = Now
    BY <2>4 DEF s
  <2>6. Plain'
    BY <1>3, <1>9, <2>5 DEF Plain
  <2>7. FdInv'
    BY <2>1, <2>6 DEF FdInv
  <2>. QED  BY <1>7, <1>8, <2>3, <2>7 DEF IInv
<1>11. CASE typed # <<>>
  <2>1. stage' = 1 /\ Len(typed) < cmd_len
    BY <1>1, <1>3, <1>4, <1>11
  <2>2. From(stage)' = 1
    BY <2>1 DEF From
  <2>3. Len(typed) \in Nat /\ 1 \in 1..Len(typed) + 1
    BY <1>4
  <2>4. each_cmd' = SubSeq(typed, 1, Len(typed))
    BY <1>3, <1>4, SubSeqFull
  <2>5. Cardinality({j \in Bars : j < 1}) = 0
    <3>1. {j \in Bars : j < 1} = {}
      BY DEF Bars
    <3>. QED  BY <3>1, FS_EmptySet
  <2>6. Bars' = Bars
    BY <1>5, SameLine
  <2>7. LineInv'
    <3>1. each_cmd' = SubSeq(typed', From(stage)', Len(typed')) /\ From(stage)' \in 1..Len(typed') + 1
      BY <1>5, <2>2, <2>3, <2>4
    <3>2. Cardinality({j \in Bars' : j < From(stage)'}) = stage' - 1
      <4>1. {j \in Bars' : j < From(stage)'} = {j \in Bars : j < 1}
        BY <2>2, <2>6
      <4>2. stage' - 1 = 0
        BY <2>1
      <4>. QED  BY <2>5, <4>1, <4>2
    <3>3. typed' \in Seq(Char) /\ Len(typed') < cmd_len /\ stage' \in Nat /\ stage' # 0
      BY <1>4, <1>5, <2>1
    <3>. QED  BY <1>3, <1>6, <3>1, <3>2, <3>3 DEF LineInv
  <2>8. Bar(typed) = 0 <=> Stages' = 1
    BY <1>3, <2>1, <2>7, StageNext DEF StageFacts
  <2>9. CASE Bar(typed) = 0
    <3>1. s = Now
      BY <2>9 DEF s
    <3>2. Plain'
      BY <1>3, <1>9, <3>1 DEF Plain
    <3>3. FdInv'
      BY <2>8, <2>9, <3>2 DEF FdInv
    <3>. QED  BY <1>7, <1>8, <2>7, <3>3 DEF IInv
  <2>10. CASE Bar(typed) # 0
    <3> DEFINE fds == [fd_table EXCEPT ![3] = Pipe, ![4] = Pipe, ![1] = Pipe]
    <3>1. s.fds = fds /\ s.pipe = 0 /\ s.users = 2
      BY <1>9, <2>10 DEF s, sys_dup2, sys_pipe, Now, Plain, Std
    <3>2. fds = [d \in 0..4 |-> CASE d = 0 -> 0 [] d = 1 -> Pipe [] d = 2 -> 2 [] OTHER -> Pipe]
      BY <1>9 DEF Plain, Std, Pipe
    <3>3. bufsize \in Nat /\ bufsize # 0
      BY ShellAssumption
    <3>4. 0 \in 0..bufsize - 1
      BY <3>3
    <3> HIDE DEF fds
    <3>5. Redirected'
      BY <1>3, <2>1, <2>8, <2>10, <3>1, <3>2, <3>4 DEF Redirected, Pipe
    <3>6. FdInv'
      BY <2>1, <2>8, <2>10, <3>5 DEF FdInv
    <3>. QED  BY <1>7, <1>8, <2>7, <3>6 DEF IInv
  <2>. QED  BY <2>9, <2>10
<1>. QED  BY <1>10, <1>11

\* What RunCmd leaves: the outcome of a command, or the shell stopped at argv
LEMMA RunIs ==
    ASSUME IInv, stage > 0, NEW c \in Command(cmd_parse(CmdText)), NEW s, s = RunCmd(c)
    PROVE  /\ s.halt \in Halts \ {"line"} /\ (s.halt = "no" => Outcome(Now, s))
           /\ s.halt = "argv" => Words(stage) > MAX_ARG_NR
           /\ s.halt = "null" => Words(stage) = 0
           /\ s.halt = "blocked" => Stages > 1 /\ \E n \in Output \cup 0..MaxSize : pipe + n >= bufsize
           /\ s.halt = "stdin" => stage = 1
<1> DEFINE argc == cmd_parse(CmdText)
<1>1. argc = Words(stage) /\ argc \in Nat
  BY WordsIs DEF IInv
<1>2. /\ Start(Now) /\ Now.fds = fd_table /\ Now.pipe = pipe /\ Now.halt = "no"
      /\ HasPipe(Now) <=> ~(stage = 0 \/ Stages = 1)
      /\ ~(stage = 0 \/ Stages = 1) => (fd_table[0] # Pipe <=> stage = 1)
  BY NowStart
<1>3. IsCmd(c)
  BY CommandFacts
<1>4. s = IF argc > MAX_ARG_NR THEN Stop(Now, "argv")
          ELSE IF argc = 0 THEN Stop(Now, "null") ELSE cmd_execute(Now, argc, c)
  BY DEF RunCmd
<1>5. "argv" \in Halts /\ "null" \in Halts /\ Now \in State
  BY <1>2 DEF Halts, Start
<1>6. Stop(Now, "argv").halt = "argv" /\ Stop(Now, "null").halt = "null"
  BY <1>2, <1>5, StopFacts
<1>7. stage \in 1..Stages /\ Stages \in Nat
  BY StageIs DEF IInv, StageFacts
<1> HIDE DEF argc
<1>8. CASE argc > MAX_ARG_NR
  <2>1. s.halt = "argv"
    BY <1>4, <1>6, <1>8
  <2>. QED  BY <1>1, <1>8, <2>1 DEF Halts
<1>9. CASE ~(argc > MAX_ARG_NR) /\ argc = 0
  <2>1. s.halt = "null"
    BY <1>4, <1>6, <1>9
  <2>. QED  BY <1>1, <1>9, <2>1 DEF Halts
<1>10. CASE ~(argc > MAX_ARG_NR) /\ argc # 0
  <2>1. s = cmd_execute(Now, argc, c)
    BY <1>4, <1>10
  <2>2. Outcome(Now, s)
    BY <1>1, <1>2, <1>3, <2>1, CommandOutcome
  <2>3. /\ s.halt \in {"no", "blocked", "stdin", "loop", "seek", "root"}
        /\ s.halt = "blocked" => HasPipe(Now) /\ \E n \in Output \cup 0..MaxSize : pipe + n >= bufsize
        /\ s.halt = "stdin" => fd_table[0] # Pipe
    BY <1>2, <2>2 DEF Outcome
  <2>4. HasPipe(Now) => Stages > 1
    BY <1>2, <1>7
  <2>5. s.halt = "stdin" => stage = 1
    BY <1>2, <1>7, <2>3
  <2>. QED  BY <2>2, <2>3, <2>4, <2>5 DEF Halts
<1>. QED  BY <1>8, <1>9, <1>10

\* The shell stops: nothing else changes.
LEMMA StopStep ==
    ASSUME IInv, stage > 0, UNCHANGED <<stage, each_cmd, typed, buf, pos, run_vars>>,
           halt' \in Halts \ {"line"},
           halt' = "argv" => Words(stage) > MAX_ARG_NR,
           halt' = "null" => Words(stage) = 0,
           halt' = "blocked" => Stages > 1 /\ \E n \in Output \cup 0..MaxSize : pipe + n >= bufsize,
           halt' = "stdin" => stage = 1
    PROVE  IInv'
<1>1. Bars' = Bars /\ Stages' = Stages /\ From(stage)' = From(stage) /\ Words(stage)' = Words(stage)
  BY SameLine
<1>2. UNCHANGED <<fd_table, pipe, users, tree, cwd, cwd_cache>>
  BY DEF run_vars
<1>3. LineInv'
  <2>1. {j \in Bars' : j < From(stage)'} = {j \in Bars : j < From(stage)}
    BY <1>1
  <2>. QED  BY <1>1, <2>1 DEF IInv, LineInv
<1>4. FdInv'
  BY <1>1, <1>2 DEF IInv, FdInv, Plain, Redirected
<1>5. TreeInv'
  BY <1>2 DEF IInv, TreeInv, Closed, Value, Spell
<1>6. HaltInv'
  BY <1>1, <1>2 DEF HaltInv, Halts, IInv, LineInv
<1>. QED  BY <1>3, <1>4, <1>5, <1>6 DEF IInv

\* What sys_dup2 and sys_close do to a state
Same(s, t) == t.tree = s.tree /\ t.cwd = s.cwd /\ t.cache = s.cache /\ t.halt = s.halt
IsDup(s, t, fd2, fd) ==
    /\ t \in State /\ Same(s, t) /\ t.pipe = s.pipe /\ t.users = s.users
    /\ t.fds = [s.fds EXCEPT ![fd2] = fd]
IsClose(s, t, fd) ==
    /\ t \in State /\ Same(s, t) /\ t.users = s.users - 1
    /\ t.pipe = IF s.users = 1 THEN NoPipe ELSE s.pipe
    /\ t.fds = [s.fds EXCEPT ![fd] = -1]

\* sys_dup2
LEMMA DupFacts ==
    ASSUME NEW s \in State, NEW fd1 \in 0..4, NEW fd2 \in 0..4
    PROVE  IsDup(s, sys_dup2(s, fd1, fd2), fd2, IF fd1 < 3 THEN fd1 ELSE s.fds[fd1])
<1> DEFINE f == [s.fds EXCEPT ![fd2] = IF fd1 < 3 THEN fd1 ELSE s.fds[fd1]]
           t == [s EXCEPT !.fds = f]
<1>1. f \in [0..4 -> Int]
  BY DEF State
<1>2. sys_dup2(s, fd1, fd2) = t
  BY DEF sys_dup2
<1> HIDE DEF f
<1>3. t \in State /\ Same(s, t) /\ t.pipe = s.pipe /\ t.users = s.users /\ t.fds = f
  BY <1>1 DEF State, Same
<1>. QED  BY <1>2, <1>3 DEF f, IsDup

\* sys_close
LEMMA CloseFacts ==
    ASSUME NEW s \in State, NEW fd \in 0..4
    PROVE  IsClose(s, sys_close(s, fd), fd)
<1> DEFINE f == [s.fds EXCEPT ![fd] = -1]
           p == IF s.users = 1 THEN NoPipe ELSE s.pipe
           t == [s EXCEPT !.fds = f, !.users = s.users - 1, !.pipe = p]
<1>1. f \in [0..4 -> Int] /\ p \in Int \cup {NoPipe} /\ s.users - 1 \in Int
  BY DEF State
<1>2. sys_close(s, fd) = t
  BY DEF sys_close
<1> HIDE DEF f, p
<1>3. t \in State /\ Same(s, t) /\ t.pipe = p /\ t.users = s.users - 1 /\ t.fds = f
  BY <1>1 DEF State, Same
<1>. QED  BY <1>2, <1>3 DEF f, p, IsClose

\* What my_shell leaves for the prompt after the last command, and for the next
\* command after another
Rest == SubSeq(each_cmd, Bar(each_cmd) + 1, Len(each_cmd))
AtPrompt(u) == u.fds = Std /\ u.pipe = NoPipe /\ u.users = 0
AtNext(u) ==
    /\ Stages # 1 /\ u.users = 2 /\ u.pipe \in 0..bufsize - 1
    /\ u.fds = [d \in 0..4 |-> CASE d = 0 -> Pipe
                                 [] d = 1 -> IF Bar(Rest) = 0 THEN 1 ELSE Pipe
                                 [] d = 2 -> 2
                                 [] OTHER -> Pipe]

\* The redirection between two commands, and after the last
LEMMA AfterIs ==
    ASSUME IInv, stage > 0, NEW s, Outcome(Now, s), s.halt = "no", NEW u, u = AfterCmd(s)
    PROVE  Same(s, u) /\ IF Bar(each_cmd) = 0 THEN AtPrompt(u) ELSE AtNext(u)
<1> DEFINE b == Bar(each_cmd)
<1>1. /\ s \in State /\ s.fds = fd_table /\ s.users = users /\ PipeOK(s)
  BY NowStart DEF Outcome
<1>2. /\ HasPipe(s) <=> ~(stage = 0 \/ Stages = 1)
  BY <1>1, NowStart DEF HasPipe
<1>3. IF Stages = 1 THEN Plain ELSE Redirected
  BY DEF IInv, FdInv
<1>4. stage \in 1..Stages /\ Stages \in Nat /\ (b = 0 <=> stage = Stages) /\ b \in Int
  <2>1. StageFacts(b, From(stage), Len(typed)) /\ LineInv
    BY StageIs DEF IInv
  <2>2. typed \in Seq(Char) /\ From(stage) \in 1..Len(typed) + 1
    BY <2>1 DEF LineInv
  <2> HIDE DEF b
  <2>. QED  BY <2>1, <2>2 DEF StageFacts
<1>5. NoPipe \notin Nat /\ bufsize \in Nat
  BY ShellAssumption
<1>6. pipe = NoPipe <=> Stages = 1
  BY <1>3, <1>5 DEF Plain, Redirected
<1> DEFINE Input == IF stage = 1 THEN sys_dup2(s, 3, 0) ELSE s
<1>7. u = IF b = 0
          THEN IF pipe = NoPipe THEN s ELSE sys_close(sys_close(sys_dup2(s, 0, 0), 3), 4)
          ELSE IF Bar(Rest) = 0 THEN sys_dup2(Input, 1, 1) ELSE Input
  BY DEF AfterCmd, Rest
<1>8. Same(s, s)
  BY DEF Same
<1> HIDE DEF b, Input
<1>9. CASE b = 0 /\ pipe = NoPipe
  <2>1. u = s /\ Plain /\ ~HasPipe(s)
    BY <1>2, <1>3, <1>6, <1>7, <1>9
  <2>2. s.pipe = NoPipe
    BY <1>1, <2>1 DEF PipeOK
  <2>3. AtPrompt(u)
    BY <1>1, <2>1, <2>2 DEF AtPrompt, Plain
  <2>. QED  BY <1>8, <1>9, <2>1, <2>3 DEF b
<1>10. CASE b = 0 /\ pipe # NoPipe
  <2> DEFINE t1 == sys_dup2(s, 0, 0)
             t2 == sys_close(t1, 3)
             t3 == sys_close(t2, 4)
  <2>1. u = t3 /\ Redirected /\ stage = Stages
    BY <1>3, <1>4, <1>6, <1>7, <1>10
  <2>2. /\ t1 \in State /\ Same(s, t1) /\ t1.pipe = s.pipe /\ t1.users = s.users
        /\ t1.fds = [s.fds EXCEPT ![0] = 0]
    <3>1. IsDup(s, t1, 0, IF 0 < 3 THEN 0 ELSE s.fds[0])
      BY <1>1, DupFacts
    <3> HIDE DEF t1
    <3>. QED  BY <3>1 DEF IsDup
  <2> HIDE DEF t1
  <2>3. t2 \in State /\ Same(t1, t2) /\ t2.users = t1.users - 1 /\ t2.fds = [t1.fds EXCEPT ![3] = -1]
    <3>1. IsClose(t1, t2, 3)
      BY <2>2, CloseFacts
    <3> HIDE DEF t2
    <3>. QED  BY <3>1 DEF IsClose
  <2> HIDE DEF t2
  <2>4. /\ t3 \in State /\ Same(t2, t3) /\ t3.users = t2.users - 1 /\ t3.fds = [t2.fds EXCEPT ![4] = -1]
        /\ t3.pipe = IF t2.users = 1 THEN NoPipe ELSE t2.pipe
    <3>1. IsClose(t2, t3, 4)
      BY <2>3, CloseFacts
    <3> HIDE DEF t3
    <3>. QED  BY <3>1 DEF IsClose
  <2> HIDE DEF t3
  <2>5. users = 2 /\ t2.users = 1 /\ t3.users = 0 /\ t3.pipe = NoPipe
    BY <1>1, <2>1, <2>2, <2>3, <2>4 DEF Redirected
  <2>6. fd_table = [d \in 0..4 |-> CASE d = 0 -> IF stage = 1 THEN 0 ELSE Pipe
                                     [] d = 1 -> 1
                                     [] d = 2 -> 2
                                     [] OTHER -> Pipe]
    BY <2>1 DEF Redirected
  <2>7. t3.fds = [[[fd_table EXCEPT ![0] = 0] EXCEPT ![3] = -1] EXCEPT ![4] = -1]
    BY <1>1, <2>2, <2>3, <2>4
  <2>8. t3.fds = Std
    BY <2>6, <2>7 DEF Std, Pipe
  <2>9. Same(s, t3) /\ AtPrompt(t3)
    BY <2>2, <2>3, <2>4, <2>5, <2>8 DEF Same, AtPrompt
  <2>. QED  BY <1>10, <2>1, <2>9 DEF b
<1>11. CASE b # 0
  <2>1. Stages # 1 /\ stage # Stages /\ Redirected /\ HasPipe(s)
    BY <1>2, <1>3, <1>4, <1>11
  <2>2. fd_table = [d \in 0..4 |-> CASE d = 0 -> IF stage = 1 THEN 0 ELSE Pipe
                                     [] d = 1 -> Pipe
                                     [] d = 2 -> 2
                                     [] OTHER -> Pipe]
    BY <2>1 DEF Redirected
  <2>3. s.pipe \in 0..bufsize - 1 /\ s.users = 2
    BY <1>1, <2>1 DEF PipeOK, Redirected
  <2>4. /\ Input \in State /\ Same(s, Input) /\ Input.pipe = s.pipe /\ Input.users = s.users
        /\ Input.fds = [d \in 0..4 |-> IF d = 2 THEN 2 ELSE Pipe]
    <3>1. CASE stage = 1
      <4> DEFINE t == sys_dup2(s, 3, 0)
      <4>1. /\ t \in State /\ Same(s, t) /\ t.pipe = s.pipe /\ t.users = s.users
            /\ t.fds = [s.fds EXCEPT ![0] = s.fds[3]]
        <5>1. IsDup(s, t, 0, IF 3 < 3 THEN 3 ELSE s.fds[3])
          BY <1>1, DupFacts
        <5> HIDE DEF t
        <5>. QED  BY <5>1 DEF IsDup
      <4>2. Input = t
        BY <3>1 DEF Input
      <4> HIDE DEF t
      <4>3. t.fds = [d \in 0..4 |-> IF d = 2 THEN 2 ELSE Pipe]
        <5>0. fd_table[3] = Pipe
          BY <2>2 DEF Pipe
        <5>1. t.fds = [fd_table EXCEPT ![0] = Pipe]
          BY <1>1, <4>1, <5>0
        <5>. QED  BY <2>2, <5>1
      <4>. QED  BY <4>1, <4>2, <4>3
    <3>2. CASE stage # 1
      <4>1. Input = s
        BY <3>2 DEF Input
      <4>2. fd_table = [d \in 0..4 |-> IF d = 2 THEN 2 ELSE Pipe]
        BY <2>2, <3>2 DEF Pipe
      <4>. QED  BY <1>1, <1>8, <4>1, <4>2
    <3>. QED  BY <3>1, <3>2
  <2>5. CASE Bar(Rest) = 0
    <3> DEFINE t == sys_dup2(Input, 1, 1)
    <3>1. /\ t \in State /\ Same(Input, t) /\ t.pipe = Input.pipe /\ t.users = Input.users
          /\ t.fds = [Input.fds EXCEPT ![1] = 1]
      <4>1. IsDup(Input, t, 1, IF 1 < 3 THEN 1 ELSE Input.fds[1])
        BY <2>4, DupFacts
      <4> HIDE DEF t
      <4>. QED  BY <4>1 DEF IsDup
    <3>2. u = t
      BY <1>7, <1>11, <2>5
    <3> HIDE DEF t
    <3>3. Same(s, t)
      BY <2>4, <3>1 DEF Same
    <3>4. t.fds = [d \in 0..4 |-> CASE d = 0 -> Pipe [] d = 1 -> 1 [] d = 2 -> 2 [] OTHER -> Pipe]
      BY <2>4, <3>1 DEF Pipe
    <3>5. AtNext(t)
      BY <2>1, <2>3, <2>4, <2>5, <3>1, <3>4 DEF AtNext
    <3>. QED  BY <1>11, <3>2, <3>3, <3>5 DEF b
  <2>6. CASE Bar(Rest) # 0
    <3>1. u = Input
      BY <1>7, <1>11, <2>6
    <3>2. Input.fds = [d \in 0..4 |-> CASE d = 0 -> Pipe [] d = 1 -> Pipe [] d = 2 -> 2 [] OTHER -> Pipe]
      BY <2>4
    <3>3. AtNext(Input)
      BY <2>1, <2>3, <2>4, <2>6, <3>2 DEF AtNext
    <3>. QED  BY <1>11, <2>4, <3>1, <3>3 DEF b
  <2>. QED  BY <2>5, <2>6
<1>. QED  BY <1>9, <1>10, <1>11

\* A command that keeps within the bounds leaves a tree with the prompt's directory.
LEMMA TreeAfter ==
    ASSUME NEW s, Outcome(Now, s), s.halt = "no", InBounds(s),
           tree' = s.tree, cwd' = s.cwd, cwd_cache' = s.cache
    PROVE  TreeInv'
<1>1. s \in State /\ Closed(s.tree) /\ s.cache = Spell(s.cwd) /\ s.cwd \in Path \cup {<<>>}
  BY DEF Outcome
<1>2. s.tree \in [Path -> {None, Dir} \cup Nat] /\ s.cwd \in Seq(Name)
  BY <1>1 DEF State
<1>3. MaxSize \in Nat
  BY ShellAssumption
<1>4. \A p \in Path : s.tree[p] \notin {None, Dir} => s.tree[p] <= MaxSize
  BY DEF InBounds
<1>5. \A p \in Path : s.tree[p] \in {None, Dir} \cup 0..MaxSize
  BY <1>2, <1>3, <1>4
<1>6. s.tree \in [Path -> {None, Dir} \cup 0..MaxSize]
  BY <1>2, <1>5
<1>7. Value(s.tree, s.cwd) = Dir
  BY <1>1 DEF InBounds, Value
<1>8. Closed(tree)' /\ Value(tree, cwd)' = Dir /\ cwd_cache' = Spell(cwd)'
  <2>1. Closed(tree)' <=> Closed(tree')
    BY DEF Closed, Value
  <2>2. Value(tree, cwd)' = Value(tree', cwd')
    BY DEF Value
  <2>3. Spell(cwd)' = Spell(cwd')
    BY DEF Spell
  <2>. QED  BY <1>1, <1>7, <2>1, <2>2, <2>3
<1>. QED  BY <1>2, <1>6, <1>8 DEF TreeInv

\* A command of the line: it stops the shell, is the last, or is followed by another.
LEMMA RunStep ==
    ASSUME IInv, NEW c \in Command(cmd_parse(CmdText)), Run(c)
    PROVE  IInv'
<1> DEFINE b == Bar(each_cmd)
<1>1. stage > 0 /\ halt = "no" /\ UNCHANGED <<buf, pos, edits>>
  BY DEF Run
<1>2. PICK s \in {RunCmd(c)} :
          /\ InBounds(s)
          /\ \E u \in {AfterCmd(s)} :
                /\ fd_table' = u.fds /\ pipe' = u.pipe /\ users' = u.users
                /\ tree' = u.tree /\ cwd' = u.cwd /\ cwd_cache' = u.cache /\ halt' = u.halt
  BY DEF Run
<1>3. PICK u \in {AfterCmd(s)} :
                /\ fd_table' = u.fds /\ pipe' = u.pipe /\ users' = u.users
                /\ tree' = u.tree /\ cwd' = u.cwd /\ cwd_cache' = u.cache /\ halt' = u.halt
  BY <1>2
<1>4. IF halt' # "no" THEN UNCHANGED <<stage, each_cmd, typed>>
      ELSE IF b = 0 THEN stage' = 0 /\ each_cmd' = <<>> /\ typed' = <<>>
      ELSE stage' = stage + 1 /\ each_cmd' = Rest /\ UNCHANGED typed
  BY DEF Run, Rest
<1>5. s = RunCmd(c) /\ u = AfterCmd(s)
  BY <1>2, <1>3
<1>6. /\ s.halt \in Halts \ {"line"} /\ (s.halt = "no" => Outcome(Now, s))
      /\ s.halt = "argv" => Words(stage) > MAX_ARG_NR
      /\ s.halt = "null" => Words(stage) = 0
      /\ s.halt = "blocked" => Stages > 1 /\ \E n \in Output \cup 0..MaxSize : pipe + n >= bufsize
      /\ s.halt = "stdin" => stage = 1
  BY <1>1, <1>5, RunIs
<1>7. CASE s.halt # "no"
  <2>1. u = Stop(Now, s.halt)
    BY <1>5, <1>7 DEF AfterCmd
  <2>2. /\ Now \in State /\ Now.halt = "no" /\ Now.fds = fd_table /\ Now.pipe = pipe /\ Now.users = users
        /\ Now.tree = tree /\ Now.cwd = cwd /\ Now.cache = cwd_cache
    BY NowStart DEF Start
  <2>3. /\ u.fds = fd_table /\ u.pipe = pipe /\ u.users = users /\ u.tree = tree /\ u.cwd = cwd
        /\ u.cache = cwd_cache /\ u.halt = s.halt
    BY <1>6, <2>1, <2>2, StopFacts DEF SameElse
  <2>4. UNCHANGED run_vars /\ halt' = s.halt
    BY <1>3, <2>3 DEF run_vars
  <2>5. UNCHANGED <<stage, each_cmd, typed, buf, pos, run_vars>>
    BY <1>1, <1>4, <1>7, <2>4
  <2>. QED  BY <1>1, <1>6, <2>4, <2>5, StopStep
<1>8. CASE s.halt = "no"
  <2>1. Outcome(Now, s) /\ Same(s, u) /\ IF b = 0 THEN AtPrompt(u) ELSE AtNext(u)
    BY <1>1, <1>5, <1>6, <1>8, AfterIs
  <2>2. halt' = "no" /\ tree' = s.tree /\ cwd' = s.cwd /\ cwd_cache' = s.cache
    BY <1>3, <1>8, <2>1 DEF Same
  <2>3. TreeInv'
    BY <1>2, <1>8, <2>1, <2>2, TreeAfter
  <2>4. HaltInv'
    BY <2>2 DEF HaltInv
  <2>5. LineInv
    BY DEF IInv
  <2>6. buf' \in [0..cmd_len -> Char \cup {"nul", "bs", "^u"}] /\ pos' \in 0..cmd_len /\ pos' = 0
    BY <1>1, <2>5 DEF LineInv
  <2>7. CASE b = 0
    <3>1. stage' = 0 /\ typed' = <<>> /\ typed' \in Seq(Char) /\ Len(typed') = 0
      BY <1>4, <2>2, <2>7
    <3>2. \A i \in 0..pos' - 1 : FALSE
      BY <2>6
    <3>3. LineInv'
      BY <2>6, <3>1, <3>2 DEF LineInv
    <3>4. Plain'
      BY <1>3, <2>1, <2>7 DEF AtPrompt, Plain
    <3>5. FdInv'
      BY <3>1, <3>4 DEF FdInv
    <3>. QED  BY <2>3, <2>4, <3>3, <3>5 DEF IInv
  <2>8. CASE b # 0
    <3> DEFINE F == From(stage)
               N == Len(typed)
    <3>1. stage' = stage + 1 /\ each_cmd' = Rest /\ typed' = typed
      BY <1>4, <2>2, <2>8
    <3>2. StageFacts(b, F, N)
      BY <1>1, <2>5, StageIs
    <3>3. typed \in Seq(Char) /\ N < cmd_len /\ stage \in Nat
      BY <1>1, <2>5 DEF LineInv
    <3>4. Rest = SubSeq(each_cmd, b + 1, Len(each_cmd))
      BY DEF Rest
    <3> HIDE DEF b, F
    <3>5. /\ F + b \in 1..N + 1 /\ From(stage + 1) = F + b
          /\ Cardinality({j \in Bars : j < F + b}) = stage
          /\ Rest = SubSeq(typed, F + b, N)
          /\ stage \in 1..Stages
      BY <2>8, <3>2, <3>4 DEF StageFacts
    <3>6. Bars' = Bars /\ Stages' = Stages /\ From(stage)' = F + b
      BY <3>1, <3>5, SameLine
    <3>7. {j \in Bars' : j < From(stage)'} = {j \in Bars : j < F + b}
      BY <3>6
    <3>8. stage' - 1 = stage /\ stage' \in Nat /\ stage' > 0 /\ stage' # 0 /\ stage' # 1
      BY <3>1, <3>3, <3>5
    <3>9. /\ each_cmd' = SubSeq(typed', From(stage)', Len(typed'))
          /\ From(stage)' \in 1..Len(typed') + 1
          /\ typed' \in Seq(Char) /\ Len(typed') < cmd_len
      BY <3>1, <3>3, <3>5, <3>6
    <3>10. LineInv'
      BY <2>6, <3>5, <3>7, <3>8, <3>9 DEF LineInv
    <3>11. Bar(Rest) = 0 <=> stage' = Stages'
      BY <3>1, <3>8, <3>10, StageNext DEF StageFacts
    <3>12. AtNext(u)
      BY <2>1, <2>8
    <3>13. Redirected'
      BY <1>3, <3>8, <3>11, <3>12 DEF AtNext, Redirected
    <3>14. FdInv'
      BY <3>6, <3>8, <3>12, <3>13 DEF FdInv, AtNext
    <3>. QED  BY <2>3, <2>4, <3>10, <3>14 DEF IInv
  <2>. QED  BY <2>7, <2>8
<1>. QED  BY <1>7, <1>8

\* No variable changes.
LEMMA Stutter ==
    ASSUME IInv, UNCHANGED vars
    PROVE  IInv'
<1>1. UNCHANGED <<buf, pos, typed, each_cmd, stage, fd_table, pipe, users, tree, cwd, cwd_cache, halt>>
  BY DEF vars, line_vars, run_vars
<1>2. Bars' = Bars /\ Stages' = Stages /\ From(stage)' = From(stage) /\ Words(stage)' = Words(stage)
  BY <1>1, SameLine
<1>3. {j \in Bars' : j < From(stage)'} = {j \in Bars : j < From(stage)}
  BY <1>2
<1>4. LineInv'
  BY <1>1, <1>2, <1>3 DEF IInv, LineInv
<1>5. FdInv'
  BY <1>1, <1>2 DEF IInv, FdInv, Plain, Redirected
<1>6. TreeInv'
  BY <1>1 DEF IInv, TreeInv, Closed, Value, Spell
<1>7. HaltInv'
  BY <1>1, <1>2 DEF IInv, HaltInv
<1>. QED  BY <1>4, <1>5, <1>6, <1>7 DEF IInv

-----------------------------------------------------------------------------
(***************************************************************************)
(* The theorems                                                            *)
(***************************************************************************)

\* The invariant holds from the first prompt on, whatever keys are hit and whatever
\* commands run.
LEMMA Inductive == Spec => []IInv
<1>1. Init => IInv
  BY InitInv
<1>2. IInv /\ [Next]_vars => IInv'
  <2> SUFFICES ASSUME IInv, [Next]_vars PROVE IInv'
    OBVIOUS
  <2>1. ASSUME NEW c \in Char, Type(c) PROVE IInv'
    BY <2>1, TypeStep
  <2>2. CASE Backspace
    BY <2>2, BackspaceStep
  <2>3. CASE CtrlL \/ CtrlU \/ TooLong
    BY <2>3, CtrlStep
  <2>4. CASE Enter
    BY <2>4, EnterStep
  <2>5. ASSUME NEW c \in Command(cmd_parse(CmdText)), Run(c) PROVE IInv'
    BY <2>5, RunStep
  <2>6. CASE UNCHANGED vars
    BY <2>6, Stutter
  <2>. QED  BY <2>1, <2>2, <2>3, <2>4, <2>5, <2>6 DEF Next
<1>. QED  BY <1>1, <1>2, PTL DEF Spec

\* my_shell redirects each command of a pipeline as its place in the line asks, for
\* any number of commands, and every way back to the prompt restores the keyboard and
\* the screen and frees the pipe; cwd_cache is always the working directory; and a
\* command blocks in pipe_write only for want of room.
THEOREM ShellConsistent == Spec => []ShellInv
<1>1. IInv => ShellInv
  BY ShellIs
<1>. QED  BY <1>1, Inductive, PTL

\* Whatever editing keys readline has taken, the commands that my_shell cuts out of
\* cmd_line, and the words that cmd_parse finds in each, are those of the line as it
\* was last shown; and the shell loses a line only when it fills cmd_line, has more
\* words than argv, or a command without one.
THEOREM LinesExecuted == Spec => []LineExecuted
<1>1. IInv => LineExecuted
  BY LineIs
<1>. QED  BY <1>1, Inductive, PTL

\* In every tree and every working directory, each built-in command does to the file
\* or directory that its path means, however make_clear_abs_path and search_file are
\* led there, what help says it does, and nothing to any other.
THEOREM CommandsDoWhatTheyMean == Spec => []CommandsMean
<1>1. IInv => CommandsMean
  BY MeansAll
<1>. QED  BY <1>1, Inductive, PTL
==============================================================================
