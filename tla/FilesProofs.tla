----------------------------- MODULE FilesProofs -----------------------------
(***************************************************************************)
(* Open files stay consistent for any number of processes, files and table *)
(* entries, as long as calls do not overlap and no process forks with      *)
(* files open.                                                             *)
(***************************************************************************)
EXTENDS Files, TLAPS, WellFoundedInduction, FiniteSetTheorems

(***************************************************************************)
(* What the operations on lists do to membership and order, for lists of   *)
(* any length                                                              *)
(***************************************************************************)
\* The first of a set of indices, which bitmap_scan and list_traversal find
LEMMA Least ==
    ASSUME NEW S \in SUBSET Nat, S # {}
    PROVE  \E m \in S : \A k \in S : m <= k
<1> DEFINE R == OpToRel(<, Nat)
<1>1. IsWellFoundedOn(R, Nat)
  BY NatLessThanWellFounded
<1>2. ASSUME NEW x \in Nat, NEW y \in Nat, x < y PROVE <<x, y>> \in R
  BY <1>2 DEF OpToRel
<1> HIDE DEF R
<1>3. S \subseteq Nat
  OBVIOUS
<1>4. \E x \in S : \A y \in S : ~(<<y, x>> \in R)
  BY <1>1, <1>3, WFMin
<1>5. PICK x \in S : \A y \in S : ~(<<y, x>> \in R)
  BY <1>4
<1>6. \A k \in S : ~(k < x)
  BY <1>2, <1>3, <1>5
<1>7. \A k \in S : x <= k
  BY <1>3, <1>6
<1>. QED  BY <1>7

\* list_push
LEMMA PushFacts ==
    ASSUME NEW S, NEW list \in Seq(S), NEW t \in S
    PROVE  /\ Push(list, t) \in Seq(S)
           /\ \A u : Find(Push(list, t), u) <=> Find(list, u) \/ u = t
           /\ NoDup(list) /\ ~Find(list, t) => NoDup(Push(list, t))
<1>1. /\ Push(list, t) \in Seq(S)
      /\ Len(Push(list, t)) = Len(list) + 1
      /\ Push(list, t)[1] = t
      /\ \A i \in 1..Len(list) : Push(list, t)[i + 1] = list[i]
      /\ \A i \in 2..Len(list) + 1 : Push(list, t)[i] = list[i - 1]
  BY DEF Push
<1>2. ASSUME NEW u PROVE Find(Push(list, t), u) <=> Find(list, u) \/ u = t
  <2>1. ASSUME Find(list, u) PROVE Find(Push(list, t), u)
    <3>1. PICK i \in 1..Len(list) : list[i] = u
      BY <2>1 DEF Find
    <3>2. i + 1 \in 1..Len(Push(list, t)) /\ Push(list, t)[i + 1] = u
      BY <1>1, <3>1
    <3>. QED  BY <3>2 DEF Find
  <2>2. Find(Push(list, t), t)
    BY <1>1 DEF Find
  <2>3. ASSUME Find(Push(list, t), u), u # t PROVE Find(list, u)
    <3>1. PICK i \in 1..Len(Push(list, t)) : Push(list, t)[i] = u
      BY <2>3 DEF Find
    <3>2. i - 1 \in 1..Len(list) /\ list[i - 1] = u
      BY <1>1, <2>3, <3>1
    <3>. QED  BY <3>2 DEF Find
  <2>. QED  BY <2>1, <2>2, <2>3
<1>3. NoDup(list) /\ ~Find(list, t) => NoDup(Push(list, t))
  BY <1>1 DEF Find, NoDup
<1>. QED  BY <1>1, <1>2, <1>3

\* list_remove
LEMMA RemoveFacts ==
    ASSUME NEW S, NEW list \in Seq(S), NEW t, Find(list, t), NoDup(list)
    PROVE  /\ Remove(list, t) \in Seq(S)
           /\ NoDup(Remove(list, t))
           /\ \A u : Find(Remove(list, t), u) <=> Find(list, u) /\ u # t
<1> DEFINE k == Position(list, t)
           rest == Remove(list, t)
<1>1. k \in 1..Len(list) /\ list[k] = t
  BY DEF Find, Position
<1>2. rest = [i \in 1..Len(list) - 1 |-> list[IF i < k THEN i ELSE i + 1]]
  BY DEF Remove
<1> HIDE DEF k, rest
<1>3. Len(list) \in Nat /\ Len(list) - 1 \in Nat
  BY <1>1
<1>4. \A i \in 1..Len(list) - 1 : rest[i] = list[IF i < k THEN i ELSE i + 1]
  BY <1>2
<1>5. rest \in Seq(S) /\ Len(rest) = Len(list) - 1
  <2>1. \A i \in 1..Len(list) - 1 : (IF i < k THEN i ELSE i + 1) \in 1..Len(list)
    BY <1>1, <1>3
  <2>2. rest \in [1..Len(list) - 1 -> S]
    BY <1>2, <2>1
  <2>. QED  BY <1>3, <2>2
<1>6. NoDup(rest)
  BY <1>1, <1>3, <1>4, <1>5 DEF NoDup
<1>7. ASSUME NEW u PROVE Find(rest, u) <=> Find(list, u) /\ u # t
  <2>1. ASSUME NEW i \in 1..Len(rest) PROVE Find(list, rest[i]) /\ rest[i] # t
    BY <1>1, <1>3, <1>4, <1>5, <2>1, SMTT(30) DEF Find, NoDup
  <2>2. ASSUME NEW i \in 1..Len(list), list[i] # t PROVE Find(rest, list[i])
    <3>1. CASE i < k
      BY <1>1, <1>3, <1>4, <1>5, <3>1 DEF Find
    <3>2. CASE i > k
      <4>1. i - 1 \in 1..Len(rest) /\ rest[i - 1] = list[i]
        BY <1>1, <1>3, <1>4, <1>5, <3>2
      <4>. QED  BY <4>1 DEF Find
    <3>. QED  BY <1>1, <2>2, <3>1, <3>2
  <2>. QED  BY <2>1, <2>2 DEF Find
<1>. QED  BY <1>5, <1>6, <1>7 DEF rest

\* list_init
LEMMA EmptyFacts ==
    ASSUME NEW S
    PROVE  <<>> \in Seq(S) /\ NoDup(<<>>) /\ \A u : ~Find(<<>>, u)
BY DEF NoDup, Find

\* A traversal that finds something returns one of what it looks for.
LEMMA TraversalFound ==
    ASSUME NEW T, NEW list \in Seq(T), NEW S, NEW c \in S, Find(list, c)
    PROVE  Traversal(list, S) \in S
<1> DEFINE I == {i \in 1..Len(list) : list[i] \in S}
<1>1. I \in SUBSET Nat /\ I # {}
  BY DEF Find
<1>2. PICK m \in I : \A k \in I : m <= k
  BY <1>1, Least
<1>3. \E i \in 1..Len(list) :
         list[i] \in S /\ \A j \in 1..Len(list) : list[j] \in S => i <= j
  BY <1>2
<1>. QED  BY <1>3 DEF Traversal

-----------------------------------------------------------------------------
EntryType == [inode : Page \cup {NULL, Ring}, write : BOOLEAN, pipe : BOOLEAN, pos : Nat]
InodeType == [no : File \cup {NULL}, cnt : Nat, deny : BOOLEAN]
ReqType == [slot : Slot \cup {-1}, file : File \cup {NULL}, write : BOOLEAN,
            page : Page \cup {NULL}]

\* The entries that show an inode, and the descriptors on an entry.
Users(tab, c) == {g \in Slot : tab[g].inode = c}
On(f, g) == {x \in Proc \X Local : f[x[1]][x[2]] = g}

(***************************************************************************)
(* What holds between any two turns of a call's loop, of file_table tab,   *)
(* the inodes ino, their list opn, the descriptors f and what they were    *)
(* opened for, o.  The entries in busy belong to a file_create that has    *)
(* yet to put its inode in the list.                                       *)
(***************************************************************************)
GoodTypes(tab, ino, opn, f, o) ==
    /\ tab \in [Slot -> EntryType] /\ ino \in [Page -> InodeType]
    /\ opn \in Seq(Page) /\ NoDup(opn)
    /\ f \in [Proc -> [Local -> Slot \cup {-1}]]
    /\ o \in [Proc -> [Local -> File \cup {NULL, Ring}]]

\* The list holds one inode for a file, and only for a file that exists.
GoodList(ino, opn, ex) ==
    /\ \A c \in Page : Find(opn, c) => ino[c].no \in ex
    /\ \A c, d \in Page : Find(opn, c) /\ Find(opn, d) /\ ino[c].no = ino[d].no => c = d

GoodCount(tab, ino, opn) ==
    \A c \in Page : Find(opn, c) => ino[c].cnt = Cardinality(Users(tab, c))

GoodTable(tab, opn, busy) ==
    \A g \in Slot : /\ tab[g].pipe <=> tab[g].inode = Ring
                    /\ tab[g].inode \in Page => Find(opn, tab[g].inode) \/ g \in busy

GoodFd(tab, ino, opn, f, o) ==
    \A p \in Proc, l \in Local : f[p][l] # -1 =>
        LET c == tab[f[p][l]].inode
        IN  IF o[p][l] = Ring THEN c = Ring
            ELSE c \in Page /\ Find(opn, c) /\ ino[c].no = o[p][l]

\* An entry of a file has one descriptor: it is a pipe's that are shared.
GoodOwner(tab, f) ==
    \A p, q \in Proc : \A l, m \in Local :
        f[p][l] # -1 /\ f[q][m] = f[p][l] /\ tab[f[p][l]].inode # Ring => p = q /\ l = m

GoodPipe(tab, f) ==
    \A g \in Slot : tab[g].inode = Ring => tab[g].pos >= Cardinality(On(f, g))

Good(tab, ino, opn, f, o, ex, busy) ==
    /\ GoodTypes(tab, ino, opn, f, o)
    /\ GoodList(ino, opn, ex)
    /\ GoodCount(tab, ino, opn)
    /\ GoodTable(tab, opn, busy)
    /\ GoodFd(tab, ino, opn, f, o)
    /\ GoodOwner(tab, f)
    /\ GoodPipe(tab, f)

Busy == {g \in Slot : \E p \in Proc : pc[p] \in {"linking", "syncing"} /\ req[p].slot = g}

Unlisted(i) == \A c \in Page : Find(open_inodes, c) => inode[c].no # i

\* What a call that waits for the disk relies on when it goes on.
Reading(r) ==
    /\ r.slot \in Slot /\ table[r.slot].inode = NULL
    /\ r.file \in exists /\ Unlisted(r.file)
Creating(r) ==
    /\ r.slot \in Slot /\ r.page \in Page /\ r.file \in File
    /\ Users(table, r.page) = {r.slot} /\ ~Find(open_inodes, r.page)
    /\ inode[r.page].no = r.file /\ Unlisted(r.file)

Requests ==
    \A p \in Proc : /\ pc[p] = "reading" => Reading(req[p])
                    /\ pc[p] \in {"linking", "syncing"} => Creating(req[p])
                    /\ pc[p] = "syncing" => req[p].file \in exists

IInv ==
    /\ exists \subseteq File /\ alive \subseteq Proc /\ fault = FALSE
    /\ pc \in [Proc -> {"user", "reading", "linking", "syncing"}]
    /\ req \in [Proc -> ReqType]
    /\ Good(table, inode, open_inodes, fd, opened, exists, Busy)
    /\ Requests

\* The loop of release_proc_resource: its state before the first turn and after
\* each turn.  That such a sequence of states exists is shown by cutting it off
\* after n turns.
LoopStart == State(table, inode, open_inodes, FALSE)
IsRun(p, ls, h, n) ==
    h = [i \in 0..n |-> IF i = 0 THEN LoopStart ELSE CloseNext(p, ls, h[i - 1], i - 1)]

LEMMA RunStep ==
    ASSUME NEW p, NEW ls, NEW h, NEW n \in Nat, IsRun(p, ls, h, n)
    PROVE  /\ h[0] = LoopStart
           /\ \A i \in 1..n : h[i] = CloseNext(p, ls, h[i - 1], i - 1)
BY DEF IsRun

LEMMA RunUnique ==
    ASSUME NEW p, NEW ls, NEW h, NEW n \in Nat, IsRun(p, ls, h, n),
           NEW k, NEW m \in Nat, IsRun(p, ls, k, m)
    PROVE  \A i \in 0..n : i <= m => h[i] = k[i]
<1> DEFINE Bad == {i \in 0..n : i <= m /\ h[i] # k[i]}
<1> SUFFICES ASSUME Bad # {} PROVE FALSE
  OBVIOUS
<1>1. PICK b \in Bad : \A i \in Bad : b <= i
  <2>1. Bad \in SUBSET Nat
    OBVIOUS
  <2>. QED  BY <2>1, Least
<1>2. b # 0
  BY RunStep
<1>3. b - 1 \in 0..n /\ b - 1 <= m /\ b - 1 \notin Bad
  BY <1>1, <1>2
<1>4. h[b - 1] = k[b - 1]
  BY <1>3
<1>5. h[b] = CloseNext(p, ls, h[b - 1], b - 1) /\ k[b] = CloseNext(p, ls, k[b - 1], b - 1)
  BY <1>2, RunStep
<1>. QED  BY <1>1, <1>4, <1>5

LEMMA RunExists ==
    ASSUME NEW p, NEW ls
    PROVE  \A n \in Nat : \E h : IsRun(p, ls, h, n)
<1> DEFINE Bad == {n \in Nat : ~\E h : IsRun(p, ls, h, n)}
<1> SUFFICES ASSUME Bad # {} PROVE FALSE
  OBVIOUS
<1>1. PICK b \in Bad : \A i \in Bad : b <= i
  <2>1. Bad \in SUBSET Nat
    OBVIOUS
  <2>. QED  BY <2>1, Least
<1>2. CASE b = 0
  <2> DEFINE h == [i \in 0..0 |-> LoopStart]
  <2>1. IsRun(p, ls, h, 0)
    BY DEF IsRun
  <2>. QED  BY <1>1, <1>2, <2>1
<1>3. CASE b # 0
  <2>1. b - 1 \in Nat /\ b - 1 \notin Bad
    BY <1>1, <1>3
  <2>2. PICK h : IsRun(p, ls, h, b - 1)
    BY <2>1
  <2> DEFINE k == [i \in 0..b |-> IF i = b THEN CloseNext(p, ls, h[b - 1], b - 1) ELSE h[i]]
  <2>3. \A i \in 0..b : k[i] = IF i = 0 THEN LoopStart ELSE CloseNext(p, ls, k[i - 1], i - 1)
    <3> SUFFICES ASSUME NEW i \in 0..b
                 PROVE  k[i] = IF i = 0 THEN LoopStart ELSE CloseNext(p, ls, k[i - 1], i - 1)
      OBVIOUS
    <3>1. CASE i = 0
      BY <1>3, <2>1, <2>2, <3>1, RunStep
    <3>2. CASE i = b
      BY <1>3, <2>1, <3>2
    <3>3. CASE i # 0 /\ i # b
      <4>1. i \in 1..b - 1 /\ i - 1 \in 0..b /\ i - 1 # b
        BY <2>1, <3>3
      <4>2. h[i] = CloseNext(p, ls, h[i - 1], i - 1)
        BY <2>1, <2>2, <4>1, RunStep
      <4>3. k[i] = h[i] /\ k[i - 1] = h[i - 1]
        BY <3>3, <4>1
      <4>. QED  BY <3>3, <4>2, <4>3
    <3>. QED  BY <3>1, <3>2, <3>3
  <2>4. IsRun(p, ls, k, b)
    <3>1. k = [i \in 0..b |-> k[i]]
      OBVIOUS
    <3> HIDE DEF k
    <3>. QED  BY <2>3, <3>1 DEF IsRun
  <2>. QED  BY <1>1, <2>4
<1>. QED  BY <1>2, <1>3

\* So the recursive function of CloseAll is what its equation says.
LEMMA LoopFacts ==
    ASSUME NEW p, NEW ls
    PROVE  \E f : /\ f[0] = LoopStart
                  /\ \A n \in Nat : f[n + 1] = CloseNext(p, ls, f[n], n)
                  /\ CloseAll(p, ls) = f[MAX_FILES_OPEN_PER_PROC]
<1> DEFINE run(n) == CHOOSE h : IsRun(p, ls, h, n)
           g == [n \in Nat |-> run(n)[n]]
           Eq(f) == f = [n \in Nat |-> IF n = 0 THEN LoopStart
                                       ELSE CloseNext(p, ls, f[n - 1], n - 1)]
<1>1. \A n \in Nat : IsRun(p, ls, run(n), n)
  BY RunExists
<1> HIDE DEF run
<1>2. \A n \in Nat : g[n] = IF n = 0 THEN LoopStart ELSE CloseNext(p, ls, g[n - 1], n - 1)
  <2> SUFFICES ASSUME NEW n \in Nat
               PROVE  g[n] = IF n = 0 THEN LoopStart ELSE CloseNext(p, ls, g[n - 1], n - 1)
    OBVIOUS
  <2>1. CASE n = 0
    BY <1>1, <2>1, RunStep
  <2>2. CASE n # 0
    <3>1. n - 1 \in Nat /\ n - 1 \in 0..n /\ n - 1 <= n - 1 /\ n \in 1..n
      BY <2>2
    <3>2. run(n)[n - 1] = run(n - 1)[n - 1]
      BY <1>1, <3>1, RunUnique
    <3>3. run(n)[n] = CloseNext(p, ls, run(n)[n - 1], n - 1)
      BY <1>1, <3>1, RunStep
    <3>. QED  BY <2>2, <3>1, <3>2, <3>3
  <2>. QED  BY <2>1, <2>2
<1>3. Eq(g)
  <2>1. g = [n \in Nat |-> g[n]]
    OBVIOUS
  <2> HIDE DEF g
  <2>. QED  BY <1>2, <2>1
<1>4. Eq(CHOOSE f : Eq(f))
  BY <1>3
<1> DEFINE a == CHOOSE f : Eq(f)
<1>5. CloseAll(p, ls) = a[MAX_FILES_OPEN_PER_PROC]
  BY DEF CloseAll, LoopStart
<1> HIDE DEF a
<1>6. a = [n \in Nat |-> IF n = 0 THEN LoopStart ELSE CloseNext(p, ls, a[n - 1], n - 1)]
  BY <1>4 DEF a
<1>7. a[0] = LoopStart /\ \A n \in Nat : a[n + 1] = CloseNext(p, ls, a[n], n)
  <2>1. a[0] = LoopStart
    BY <1>6
  <2>2. ASSUME NEW n \in Nat PROVE a[n + 1] = CloseNext(p, ls, a[n], n)
    <3>1. n + 1 \in Nat /\ n + 1 # 0 /\ (n + 1) - 1 = n
      OBVIOUS
    <3>. QED  BY <1>6, <3>1
  <2>. QED  BY <2>1, <2>2
<1>. QED  BY <1>5, <1>7

-----------------------------------------------------------------------------
LEMMA Constants ==
    /\ NULL \notin Page /\ Ring \notin Page /\ NULL \notin File /\ Ring \notin File
    /\ NULL # Ring
    /\ Slot \subseteq Nat /\ Local \subseteq Nat /\ -1 \notin Slot
<1>1. /\ NULL \notin Page /\ Ring \notin Page /\ NULL \notin File /\ Ring \notin File
      /\ NULL # Ring
  BY FilesAssumption
<1>2. Slot \subseteq Nat /\ Local \subseteq Nat /\ -1 \notin Slot
  BY FilesAssumption DEF Slot, Local
<1>. QED  BY <1>1, <1>2

LEMMA LowestIn ==
    ASSUME NEW S \in SUBSET Nat, S # {}
    PROVE  Lowest(S) \in S
BY Least DEF Lowest

LEMMA FiniteTables ==
    IsFiniteSet(Slot) /\ IsFiniteSet(Local) /\ IsFiniteSet(Proc \X Local)
<1>1. IsFiniteSet(Slot)
  BY FilesAssumption, FS_Interval DEF Slot
<1>2. IsFiniteSet(Local)
  BY FilesAssumption, FS_Interval DEF Local
<1>. QED  BY <1>1, <1>2, FilesAssumption, FS_Product

LEMMA CardinalityLess ==
    ASSUME NEW S, NEW x \in S, IsFiniteSet(S), NEW T, T = S \ {x}
    PROVE  Cardinality(T) = Cardinality(S) - 1 /\ Cardinality(T) \in Nat
           /\ (Cardinality(T) = 0 => T = {})
<1>1. IsFiniteSet(T) /\ Cardinality(T) = Cardinality(S) - 1
  BY FS_RemoveElement
<1>2. Cardinality(T) \in Nat /\ (Cardinality(T) = 0 => T = {})
  BY <1>1, FS_CardinalityType, FS_EmptySet
<1>. QED  BY <1>1, <1>2

LEMMA PairCardinality ==
    ASSUME NEW x, NEW y
    PROVE  IsFiniteSet({x, y}) /\ Cardinality({x, y}) \in Nat /\ Cardinality({x, y}) <= 2
<1> DEFINE S == {x}
           T == S \cup {y}
<1>1. IsFiniteSet(S) /\ Cardinality(S) = 1
  BY FS_Singleton
<1>2. T = {x, y}
  OBVIOUS
<1> HIDE DEF S
<1>3. IsFiniteSet(T) /\ (Cardinality(T) = 1 \/ Cardinality(T) = 1 + 1)
  BY <1>1, FS_AddElement
<1>. QED  BY <1>2, <1>3

LEMMA UsersFinite ==
    ASSUME NEW tab, NEW c
    PROVE  IsFiniteSet(Users(tab, c)) /\ Cardinality(Users(tab, c)) \in Nat
<1>1. Users(tab, c) \in SUBSET Slot
  BY DEF Users
<1>. QED  BY <1>1, FiniteTables, FS_Subset, FS_CardinalityType

LEMMA OnFinite ==
    ASSUME NEW f, NEW g
    PROVE  IsFiniteSet(On(f, g)) /\ Cardinality(On(f, g)) \in Nat
<1>1. On(f, g) \in SUBSET (Proc \X Local)
  BY DEF On
<1>. QED  BY <1>1, FiniteTables, FS_Subset, FS_CardinalityType

\* No descriptor is on an entry that is free.
LEMMA FreeUnused ==
    ASSUME NEW tab, NEW ino, NEW opn, NEW f, NEW o,
           GoodFd(tab, ino, opn, f, o), NEW g \in Slot, tab[g].inode = NULL
    PROVE  \A p \in Proc, l \in Local : f[p][l] # g
BY Constants DEF GoodFd

\* pcb_fd_install at a free index, of an entry no other descriptor is on.
LEMMA InstallGood ==
    ASSUME NEW tab, NEW ino, NEW opn, NEW f, NEW o, NEW ex,
           Good(tab, ino, opn, f, o, ex, {}),
           NEW p \in Proc, NEW k \in Local, f[p][k] = -1,
           NEW g \in Slot, \A q \in Proc, l \in Local : f[q][l] # g,
           tab[g].inode \in Page, Find(opn, tab[g].inode),
           ino[tab[g].inode].no \in File
    PROVE  Good(tab, ino, opn, [f EXCEPT ![p][k] = g],
                [o EXCEPT ![p][k] = ino[tab[g].inode].no], ex, {})
<1> DEFINE f1 == [f EXCEPT ![p][k] = g]
           o1 == [o EXCEPT ![p][k] = ino[tab[g].inode].no]
<1>1. /\ f1 \in [Proc -> [Local -> Slot \cup {-1}]]
      /\ \A q \in Proc, l \in Local : f1[q][l] = IF q = p /\ l = k THEN g ELSE f[q][l]
  BY DEF Good, GoodTypes
<1>2. /\ o1 \in [Proc -> [Local -> File \cup {NULL, Ring}]]
      /\ \A q \in Proc, l \in Local :
             o1[q][l] = IF q = p /\ l = k THEN ino[tab[g].inode].no ELSE o[q][l]
  BY DEF Good, GoodTypes
<1> HIDE DEF f1, o1
<1>3. GoodTypes(tab, ino, opn, f1, o1)
  BY <1>1, <1>2 DEF Good, GoodTypes
<1>4. GoodFd(tab, ino, opn, f1, o1)
  BY <1>1, <1>2, Constants DEF Good, GoodFd
<1>5. GoodOwner(tab, f1)
  BY <1>1 DEF Good, GoodOwner
<1>6. GoodPipe(tab, f1)
  <2> SUFFICES ASSUME NEW h \in Slot, tab[h].inode = Ring
               PROVE  tab[h].pos >= Cardinality(On(f1, h))
    BY DEF GoodPipe
  <2>1. h # g /\ h # -1
    BY Constants
  <2>2. On(f1, h) = On(f, h)
    BY <1>1, <2>1 DEF On
  <2>. QED  BY <2>2 DEF Good, GoodPipe
<1>. QED  BY <1>3, <1>4, <1>5, <1>6 DEF Good, f1, o1

\* file_open of an inode in the list takes a free entry and counts it.
LEMMA CountedGood ==
    ASSUME NEW tab, NEW ino, NEW opn, NEW f, NEW o, NEW ex,
           Good(tab, ino, opn, f, o, ex, {}),
           NEW g \in Slot, tab[g].inode = NULL, NEW c \in Page, Find(opn, c),
           NEW tab1 \in [Slot -> EntryType], NEW ino1 \in [Page -> InodeType],
           \A h \in Slot : h # g => tab1[h] = tab[h],
           tab1[g].inode = c, ~tab1[g].pipe,
           \A d \in Page : ino1[d].no = ino[d].no /\ (d # c => ino1[d] = ino[d]),
           ino1[c].cnt = ino[c].cnt + 1
    PROVE  Good(tab1, ino1, opn, f, o, ex, {})
<1>1. GoodTypes(tab1, ino1, opn, f, o)
  BY DEF Good, GoodTypes
<1>2. GoodList(ino1, opn, ex)
  BY DEF Good, GoodList
<1>3. GoodCount(tab1, ino1, opn)
  <2> SUFFICES ASSUME NEW d \in Page, Find(opn, d)
               PROVE  ino1[d].cnt = Cardinality(Users(tab1, d))
    BY DEF GoodCount
  <2>1. ino[d].cnt = Cardinality(Users(tab, d))
    BY DEF Good, GoodCount
  <2>2. CASE d = c
    <3>1. Users(tab1, d) = Users(tab, d) \cup {g} /\ g \notin Users(tab, d)
      BY <2>2, Constants DEF Users
    <3>2. Cardinality(Users(tab1, d)) = Cardinality(Users(tab, d)) + 1
      BY <3>1, UsersFinite, FS_AddElement, ZenonT(60)
    <3>. QED  BY <2>1, <2>2, <3>2
  <2>3. CASE d # c
    <3>1. Users(tab1, d) = Users(tab, d)
      BY <2>3, Constants DEF Users
    <3>. QED  BY <2>1, <2>3, <3>1
  <2>. QED  BY <2>2, <2>3
<1>4. GoodTable(tab1, opn, {})
  BY Constants DEF Good, GoodTable
<1>5. \A p \in Proc, l \in Local : f[p][l] # g
  BY FreeUnused DEF Good
<1>6. GoodFd(tab1, ino1, opn, f, o)
  <2> SUFFICES ASSUME NEW p \in Proc, NEW l \in Local, f[p][l] # -1
               PROVE  LET d == tab1[f[p][l]].inode
                      IN  IF o[p][l] = Ring THEN d = Ring
                          ELSE d \in Page /\ Find(opn, d) /\ ino1[d].no = o[p][l]
    BY DEF GoodFd
  <2>1. tab1[f[p][l]] = tab[f[p][l]]
    BY <1>5 DEF Good, GoodTypes
  <2>. QED  BY <2>1 DEF Good, GoodFd
<1>7. GoodOwner(tab1, f)
  BY <1>5 DEF Good, GoodOwner, GoodTypes
<1>8. GoodPipe(tab1, f)
  BY Constants DEF Good, GoodPipe
<1>. QED  BY <1>1, <1>2, <1>3, <1>4, <1>6, <1>7, <1>8 DEF Good

\* An inode that is not in the list yet gets a free entry ...
LEMMA TakenGood ==
    ASSUME NEW tab, NEW ino, NEW opn, NEW f, NEW o, NEW ex,
           Good(tab, ino, opn, f, o, ex, {}),
           NEW g \in Slot, tab[g].inode = NULL,
           NEW c \in Page, ~Find(opn, c), \A h \in Slot : tab[h].inode # c,
           NEW tab1 \in [Slot -> EntryType], NEW ino1 \in [Page -> InodeType],
           \A h \in Slot : h # g => tab1[h] = tab[h],
           tab1[g].inode = c, ~tab1[g].pipe,
           \A d \in Page : d # c => ino1[d] = ino[d]
    PROVE  /\ Good(tab1, ino1, opn, f, o, ex, {g})
           /\ Users(tab1, c) = {g}
<1>1. GoodTypes(tab1, ino1, opn, f, o)
  BY DEF Good, GoodTypes
<1>2. GoodList(ino1, opn, ex)
  BY DEF Good, GoodList
<1>3. GoodCount(tab1, ino1, opn)
  <2> SUFFICES ASSUME NEW d \in Page, Find(opn, d)
               PROVE  ino1[d].cnt = Cardinality(Users(tab1, d))
    BY DEF GoodCount
  <2>1. ino[d].cnt = Cardinality(Users(tab, d)) /\ d # c
    BY DEF Good, GoodCount
  <2>2. Users(tab1, d) = Users(tab, d)
    BY <2>1, Constants DEF Users
  <2>. QED  BY <2>1, <2>2
<1>4. GoodTable(tab1, opn, {g})
  BY Constants DEF Good, GoodTable
<1>5. \A p \in Proc, l \in Local : f[p][l] # g
  BY FreeUnused DEF Good
<1>6. GoodFd(tab1, ino1, opn, f, o)
  <2> SUFFICES ASSUME NEW p \in Proc, NEW l \in Local, f[p][l] # -1
               PROVE  LET d == tab1[f[p][l]].inode
                      IN  IF o[p][l] = Ring THEN d = Ring
                          ELSE d \in Page /\ Find(opn, d) /\ ino1[d].no = o[p][l]
    BY DEF GoodFd
  <2>1. tab1[f[p][l]] = tab[f[p][l]]
    BY <1>5 DEF Good, GoodTypes
  <2>. QED  BY <2>1 DEF Good, GoodFd
<1>7. GoodOwner(tab1, f)
  BY <1>5 DEF Good, GoodOwner, GoodTypes
<1>8. GoodPipe(tab1, f)
  BY Constants DEF Good, GoodPipe
<1>9. Users(tab1, c) = {g}
  BY DEF Users
<1>. QED  BY <1>1, <1>2, <1>3, <1>4, <1>6, <1>7, <1>8, <1>9 DEF Good

\* ... and then its place in the list.
LEMMA ListedGood ==
    ASSUME NEW tab, NEW ino, NEW opn, NEW f, NEW o, NEW ex, NEW g \in Slot,
           Good(tab, ino, opn, f, o, ex, {g}),
           NEW c \in Page, ~Find(opn, c), Users(tab, c) = {g},
           NEW ino1 \in [Page -> InodeType],
           \A d \in Page : d # c => ino1[d] = ino[d],
           ino1[c].no \in ex, ino1[c].cnt = 1,
           \A d \in Page : Find(opn, d) => ino[d].no # ino1[c].no
    PROVE  Good(tab, ino1, Push(opn, c), f, o, ex, {})
<1> DEFINE opn1 == Push(opn, c)
<1>1. /\ opn1 \in Seq(Page) /\ NoDup(opn1)
      /\ \A u : Find(opn1, u) <=> Find(opn, u) \/ u = c
  BY PushFacts DEF Good, GoodTypes
<1> HIDE DEF opn1
<1>2. GoodTypes(tab, ino1, opn1, f, o)
  BY <1>1 DEF Good, GoodTypes
<1>3. GoodList(ino1, opn1, ex)
  BY <1>1 DEF Good, GoodList
<1>4. GoodCount(tab, ino1, opn1)
  <2>1. Cardinality(Users(tab, c)) = 1
    BY FS_Singleton
  <2>. QED  BY <1>1, <2>1 DEF Good, GoodCount
<1>5. GoodTable(tab, opn1, {})
  <2>1. tab[g].inode = c
    BY DEF Users
  <2>. QED  BY <1>1, <2>1 DEF Good, GoodTable
<1>6. GoodFd(tab, ino1, opn1, f, o)
  BY <1>1 DEF Good, GoodFd
<1>. QED  BY <1>2, <1>3, <1>4, <1>5, <1>6 DEF Good, opn1
-----------------------------------------------------------------------------
\* sys_close frees the descriptor k of p, here as one turn of the loop.
Freed(f, f1, p, k) ==
    \A q \in Proc, l \in Local : IF q = p /\ l = k THEN f1[q][l] = -1
                                 ELSE f1[q][l] = f[q][l]
Kept(o, o1, p, k) ==
    \A q \in Proc, l \in Local : ~(q = p /\ l = k) => o1[q][l] = o[q][l]

\* The descriptor is of a pipe: its entry is freed with the last one.
LEMMA ClosePipeGood ==
    ASSUME NEW tab, NEW ino, NEW opn, NEW f, NEW o, NEW ex,
           Good(tab, ino, opn, f, o, ex, {}),
           NEW p \in Proc, NEW k \in Local, f[p][k] # -1, tab[f[p][k]].inode = Ring,
           NEW f1 \in [Proc -> [Local -> Slot \cup {-1}]], Freed(f, f1, p, k),
           NEW o1 \in [Proc -> [Local -> File \cup {NULL, Ring}]], Kept(o, o1, p, k),
           NEW e, e = IF tab[f[p][k]].pos = 1 THEN FreeEntry
                      ELSE [tab[f[p][k]] EXCEPT !.pos = @ - 1]
    PROVE  Good([tab EXCEPT ![f[p][k]] = e], ino, opn, f1, o1, ex, {})
<1> DEFINE g == f[p][k]
           tab1 == [tab EXCEPT ![g] = e]
<1>1. g \in Slot
  BY DEF Good, GoodTypes
<1>2. tab \in [Slot -> EntryType] /\ tab[g] \in EntryType /\ tab[g].pos \in Nat
  BY <1>1 DEF Good, GoodTypes, EntryType
<1>3. /\ Cardinality(On(f1, g)) = Cardinality(On(f, g)) - 1
      /\ Cardinality(On(f1, g)) = 0 => On(f1, g) = {}
      /\ \A h \in Slot : h # g => On(f1, h) = On(f, h)
  <2>1. <<p, k>> \in On(f, g)
    BY DEF On
  <2>2. On(f1, g) = On(f, g) \ {<<p, k>>}
    BY <1>1, Constants DEF On, Freed
  <2>3. \A h \in Slot : h # g => On(f1, h) = On(f, h)
    BY <1>1, Constants DEF On, Freed
  <2>4. IsFiniteSet(On(f, g))
    BY OnFinite
  <2> HIDE DEF g
  <2>5. /\ Cardinality(On(f1, g)) = Cardinality(On(f, g)) - 1
        /\ Cardinality(On(f1, g)) = 0 => On(f1, g) = {}
    BY <2>1, <2>2, <2>4, CardinalityLess, SMTT(30)
  <2>. QED  BY <2>3, <2>5
<1>4. tab[g].pos >= Cardinality(On(f, g)) /\ Cardinality(On(f1, g)) \in Nat
      /\ Cardinality(On(f, g)) \in Nat
  BY <1>1, OnFinite DEF Good, GoodPipe
<1>5. /\ e \in EntryType
      /\ IF tab[g].pos = 1 THEN e.inode = NULL /\ ~e.pipe
         ELSE e.inode = Ring /\ e.pipe /\ e.pos = tab[g].pos - 1
  <2>1. CASE tab[g].pos = 1
    BY <2>1 DEF FreeEntry, EntryType
  <2>2. CASE tab[g].pos # 1
    <3>1. tab[g].pos - 1 \in Nat
      BY <1>2, <1>3, <1>4
    <3>2. tab[g].pipe = TRUE /\ tab[g].inode = Ring
      BY <1>1, <1>2 DEF Good, GoodTable, EntryType
    <3>. QED  BY <1>2, <2>2, <3>1, <3>2 DEF EntryType
  <2>. QED  BY <2>1, <2>2
<1>6. /\ tab1 \in [Slot -> EntryType]
      /\ tab1[g] = e /\ \A h \in Slot : h # g => tab1[h] = tab[h]
  BY <1>1, <1>2, <1>5
\* What was the last descriptor on the entry, if the entry is freed.
<1>7. ASSUME tab[g].pos = 1, NEW q \in Proc, NEW l \in Local, f1[q][l] # -1
      PROVE  f1[q][l] # g
  <2>1. Cardinality(On(f1, g)) = 0
    BY <1>3, <1>4, <1>7
  <2>2. On(f1, g) = {}
    BY <1>3, <2>1
  <2>3. f1[q][l] = g => <<q, l>> \in On(f1, g)
    BY DEF On
  <2>. QED  BY <2>2, <2>3
<1> HIDE DEF tab1, g
<1>8. GoodTypes(tab1, ino, opn, f1, o1)
  BY <1>6 DEF Good, GoodTypes
<1>9. GoodCount(tab1, ino, opn)
  <2> SUFFICES ASSUME NEW c \in Page, Find(opn, c)
               PROVE  ino[c].cnt = Cardinality(Users(tab1, c))
    BY DEF GoodCount
  <2>1. tab[g].inode # c /\ tab1[g].inode # c
    BY <1>5, <1>6, Constants DEF g
  <2>2. Users(tab1, c) = Users(tab, c)
    BY <1>6, <2>1 DEF Users
  <2>. QED  BY <2>2 DEF Good, GoodCount
<1>10. GoodTable(tab1, opn, {})
  <2> SUFFICES ASSUME NEW h \in Slot
               PROVE  /\ tab1[h].pipe <=> tab1[h].inode = Ring
                      /\ tab1[h].inode \in Page => Find(opn, tab1[h].inode)
    BY DEF GoodTable
  <2>1. CASE h = g
    BY <1>5, <1>6, <2>1, Constants
  <2>2. CASE h # g
    BY <1>6, <2>2 DEF Good, GoodTable
  <2>. QED  BY <2>1, <2>2
<1>11. GoodFd(tab1, ino, opn, f1, o1)
  <2> SUFFICES ASSUME NEW q \in Proc, NEW l \in Local, f1[q][l] # -1
               PROVE  LET d == tab1[f1[q][l]].inode
                      IN  IF o1[q][l] = Ring THEN d = Ring
                          ELSE d \in Page /\ Find(opn, d) /\ ino[d].no = o1[q][l]
    BY DEF GoodFd
  <2>1. f1[q][l] = f[q][l] /\ o1[q][l] = o[q][l] /\ f[q][l] \in Slot
    BY DEF Freed, Kept, Good, GoodTypes
  <2>2. tab1[f1[q][l]].inode = tab[f[q][l]].inode
    <3>1. CASE f[q][l] = g
      <4>1. tab[g].pos # 1
        BY <1>7, <2>1, <3>1
      <4>2. tab1[g].inode = Ring /\ tab[g].inode = Ring
        BY <1>5, <1>6, <4>1 DEF g
      <4>. QED  BY <2>1, <3>1, <4>2
    <3>2. CASE f[q][l] # g
      BY <1>6, <2>1, <3>2
    <3>. QED  BY <3>1, <3>2
  <2>. QED  BY <2>1, <2>2 DEF Good, GoodFd
<1>12. GoodOwner(tab1, f1)
  <2> SUFFICES ASSUME NEW q \in Proc, NEW r \in Proc, NEW l \in Local, NEW m \in Local,
                      f1[q][l] # -1, f1[r][m] = f1[q][l], tab1[f1[q][l]].inode # Ring
               PROVE  q = r /\ l = m
    BY DEF GoodOwner
  <2>1. f1[q][l] = f[q][l] /\ f1[r][m] = f[r][m] /\ f[q][l] \in Slot
    BY DEF Freed, Good, GoodTypes
  <2>2. tab1[f1[q][l]].inode = tab[f[q][l]].inode
    <3>1. CASE f[q][l] = g
      <4>1. tab[g].pos # 1
        BY <1>7, <2>1, <3>1
      <4>2. tab1[g].inode = Ring /\ tab[g].inode = Ring
        BY <1>5, <1>6, <4>1 DEF g
      <4>. QED  BY <2>1, <3>1, <4>2
    <3>2. CASE f[q][l] # g
      BY <1>6, <2>1, <3>2
    <3>. QED  BY <3>1, <3>2
  <2>. QED  BY <2>1, <2>2 DEF Good, GoodOwner
<1>13. GoodPipe(tab1, f1)
  <2> SUFFICES ASSUME NEW h \in Slot, tab1[h].inode = Ring
               PROVE  tab1[h].pos >= Cardinality(On(f1, h))
    BY DEF GoodPipe
  <2>1. CASE h = g
    <3>1. tab[g].pos # 1
      BY <1>5, <1>6, <2>1, Constants
    <3>2. tab1[h].pos = tab[g].pos - 1
      BY <1>5, <1>6, <2>1, <3>1
    <3>. QED  BY <1>2, <1>3, <1>4, <2>1, <3>2
  <2>2. CASE h # g
    BY <1>3, <1>6, <2>2 DEF Good, GoodPipe
  <2>. QED  BY <2>1, <2>2
<1>. QED  BY <1>8, <1>9, <1>10, <1>11, <1>12, <1>13 DEF Good, tab1, g

\* The descriptor is of a file: its entry is freed, and the inode with the last entry
\* that shows it.
LEMMA CloseFileGood ==
    ASSUME NEW tab, NEW ino, NEW opn, NEW f, NEW o, NEW ex,
           Good(tab, ino, opn, f, o, ex, {}),
           NEW p \in Proc, NEW k \in Local, f[p][k] # -1,
           NEW c \in Page, c = tab[f[p][k]].inode,
           NEW f1 \in [Proc -> [Local -> Slot \cup {-1}]], Freed(f, f1, p, k),
           NEW o1 \in [Proc -> [Local -> File \cup {NULL, Ring}]], Kept(o, o1, p, k),
           NEW cnt, cnt = ino[c].cnt - 1,
           NEW r, r = IF cnt = 0 THEN Unused ELSE [ino[c] EXCEPT !.cnt = cnt, !.deny = FALSE],
           NEW opn1, opn1 = IF cnt = 0 THEN Remove(opn, c) ELSE opn
    PROVE  Good([tab EXCEPT ![f[p][k]] = FreeEntry], [ino EXCEPT ![c] = r], opn1,
                f1, o1, ex, {})
<1> DEFINE g == f[p][k]
           tab1 == [tab EXCEPT ![g] = FreeEntry]
           ino1 == [ino EXCEPT ![c] = r]
<1>1. g \in Slot /\ tab[g].inode = c
  BY DEF Good, GoodTypes
<1>2. /\ tab1 \in [Slot -> EntryType]
      /\ tab1[g] = FreeEntry /\ \A h \in Slot : h # g => tab1[h] = tab[h]
  BY <1>1 DEF Good, GoodTypes, EntryType, FreeEntry
<1>3. Find(opn, c)
  BY <1>1 DEF Good, GoodTable
<1>4. ino \in [Page -> InodeType] /\ ino[c] \in InodeType /\ ino[c].cnt \in Nat
  BY DEF Good, GoodTypes, InodeType
<1>5. /\ Users(tab1, c) = Users(tab, c) \ {g}
      /\ \A d \in Page : d # c => Users(tab1, d) = Users(tab, d)
  BY <1>1, <1>2, Constants DEF Users, FreeEntry
<1>6. cnt \in Nat /\ cnt = Cardinality(Users(tab1, c))
  <2>1. g \in Users(tab, c)
    BY <1>1 DEF Users
  <2>2. ino[c].cnt = Cardinality(Users(tab, c))
    BY <1>3 DEF Good, GoodCount
  <2>3. IsFiniteSet(Users(tab, c))
    BY UsersFinite
  <2> HIDE DEF g, tab1
  <2>4. /\ Cardinality(Users(tab1, c)) = Cardinality(Users(tab, c)) - 1
        /\ Cardinality(Users(tab1, c)) \in Nat
    BY <1>5, <2>1, <2>3, CardinalityLess
  <2>. QED  BY <2>2, <2>4
<1>7. /\ r \in InodeType
      /\ cnt # 0 => r.cnt = cnt /\ r.no = ino[c].no
  BY <1>4, <1>6 DEF InodeType, Unused
<1>8. /\ ino1 \in [Page -> InodeType]
      /\ ino1[c] = r /\ \A d \in Page : d # c => ino1[d] = ino[d]
  BY <1>4, <1>7
<1>9. /\ opn1 \in Seq(Page) /\ NoDup(opn1)
      /\ \A d : Find(opn1, d) <=> Find(opn, d) /\ (cnt = 0 => d # c)
  <2>1. opn \in Seq(Page) /\ NoDup(opn)
    BY DEF Good, GoodTypes
  <2>2. /\ Remove(opn, c) \in Seq(Page) /\ NoDup(Remove(opn, c))
        /\ \A d : Find(Remove(opn, c), d) <=> Find(opn, d) /\ d # c
    BY <1>3, <2>1, RemoveFacts, SMTT(30)
  <2>3. CASE cnt = 0
    <3>1. opn1 = Remove(opn, c)
      BY <2>3
    <3>. QED  BY <2>2, <2>3, <3>1, Zenon
  <2>4. CASE cnt # 0
    <3>1. opn1 = opn
      BY <2>4
    <3>. QED  BY <2>1, <2>4, <3>1, Zenon
  <2>. QED  BY <2>3, <2>4
\* No other entry, and no other descriptor, shows an inode that is freed.
<1>10. cnt = 0 => \A h \in Slot : tab1[h].inode # c
  <2>1. cnt = 0 => Users(tab1, c) = {}
    BY <1>6, UsersFinite, FS_EmptySet
  <2>. QED  BY <2>1 DEF Users
<1>11. ASSUME NEW q \in Proc, NEW l \in Local, f1[q][l] # -1
       PROVE  /\ f1[q][l] = f[q][l] /\ o1[q][l] = o[q][l] /\ f[q][l] \in Slot
              /\ f1[q][l] # g
              /\ tab1[f1[q][l]] = tab[f[q][l]]
  <2>1. f1[q][l] = f[q][l] /\ o1[q][l] = o[q][l] /\ f[q][l] \in Slot /\ ~(q = p /\ l = k)
    BY <1>11 DEF Freed, Kept, Good, GoodTypes
  <2>2. f[q][l] # g
    BY <1>1, <2>1, Constants DEF Good, GoodOwner
  <2>. QED  BY <1>2, <2>1, <2>2
<1> HIDE DEF tab1, ino1, g
<1>12. GoodTypes(tab1, ino1, opn1, f1, o1)
  BY <1>2, <1>8, <1>9 DEF Good, GoodTypes
<1>13. GoodList(ino1, opn1, ex)
  <2>1. \A d \in Page : Find(opn1, d) => Find(opn, d) /\ ino1[d].no = ino[d].no
    BY <1>7, <1>8, <1>9
  <2>. QED  BY <2>1 DEF Good, GoodList
<1>14. GoodCount(tab1, ino1, opn1)
  BY <1>5, <1>6, <1>7, <1>8, <1>9 DEF Good, GoodCount
<1>15. GoodTable(tab1, opn1, {})
  <2> SUFFICES ASSUME NEW h \in Slot
               PROVE  /\ tab1[h].pipe <=> tab1[h].inode = Ring
                      /\ tab1[h].inode \in Page => Find(opn1, tab1[h].inode)
    BY DEF GoodTable
  <2>1. CASE h = g
    <3>1. ~tab1[g].pipe /\ tab1[g].inode = NULL
      BY <1>2 DEF FreeEntry
    <3>. QED  BY <2>1, <3>1, Constants
  <2>2. CASE h # g
    <3>1. tab1[h] = tab[h] /\ (cnt = 0 => tab[h].inode # c)
      BY <1>2, <1>10, <2>2
    <3>. QED  BY <1>9, <3>1 DEF Good, GoodTable
  <2>. QED  BY <2>1, <2>2
<1>16. GoodFd(tab1, ino1, opn1, f1, o1)
  <2> SUFFICES ASSUME NEW q \in Proc, NEW l \in Local, f1[q][l] # -1
               PROVE  LET d == tab1[f1[q][l]].inode
                      IN  IF o1[q][l] = Ring THEN d = Ring
                          ELSE d \in Page /\ Find(opn1, d) /\ ino1[d].no = o1[q][l]
    BY DEF GoodFd
  <2>1. f1[q][l] = f[q][l] /\ o1[q][l] = o[q][l] /\ f1[q][l] \in Slot
        /\ tab1[f1[q][l]] = tab[f[q][l]]
    BY <1>11
  <2>2. LET d == tab1[f1[q][l]].inode
        IN  IF o1[q][l] = Ring THEN d = Ring
            ELSE d \in Page /\ Find(opn, d) /\ ino[d].no = o1[q][l]
    BY <2>1 DEF Good, GoodFd
  <2>3. cnt = 0 => tab1[f1[q][l]].inode # c
    BY <1>10, <2>1
  <2>. QED  BY <1>7, <1>8, <1>9, <2>2, <2>3
<1>17. GoodOwner(tab1, f1)
  <2> SUFFICES ASSUME NEW q \in Proc, NEW t \in Proc, NEW l \in Local, NEW m \in Local,
                      f1[q][l] # -1, f1[t][m] = f1[q][l], tab1[f1[q][l]].inode # Ring
               PROVE  q = t /\ l = m
    BY DEF GoodOwner
  <2>1. f1[t][m] # -1
    OBVIOUS
  <2>2. f1[q][l] = f[q][l] /\ tab1[f1[q][l]] = tab[f[q][l]]
    BY <1>11
  <2>3. f1[t][m] = f[t][m]
    BY <1>11, <2>1
  <2>. QED  BY <2>2, <2>3 DEF Good, GoodOwner
<1>18. GoodPipe(tab1, f1)
  <2> SUFFICES ASSUME NEW h \in Slot, tab1[h].inode = Ring
               PROVE  tab1[h].pos >= Cardinality(On(f1, h))
    BY DEF GoodPipe
  <2>1. h # g
    BY <1>2, Constants DEF FreeEntry
  <2>2. On(f1, h) = On(f, h)
    BY <2>1, Constants, SMTT(30) DEF On, Freed, g
  <2>. QED  BY <1>2, <2>1, <2>2 DEF Good, GoodPipe
<1>. QED  BY <1>12, <1>13, <1>14, <1>15, <1>16, <1>17, <1>18 DEF Good, tab1, ino1, g
LEMMA StateFields ==
    ASSUME NEW tab, NEW ino, NEW opn, NEW b, NEW s, s = State(tab, ino, opn, b)
    PROVE  s.table = tab /\ s.inode = ino /\ s.open = opn /\ s.fault = b
BY DEF State

\* One turn of the loop.
LEMMA CloseOneGood ==
    ASSUME NEW tab, NEW ino, NEW opn, NEW f, NEW o, NEW ex,
           NEW b, NEW s, s = State(tab, ino, opn, b), Good(tab, ino, opn, f, o, ex, {}),
           NEW p \in Proc, NEW k \in Local, f[p][k] # -1,
           NEW f1 \in [Proc -> [Local -> Slot \cup {-1}]], Freed(f, f1, p, k),
           NEW o1 \in [Proc -> [Local -> File \cup {NULL, Ring}]], Kept(o, o1, p, k)
    PROVE  \E tab1, ino1, opn1 : /\ CloseOne(s, f[p][k]) = State(tab1, ino1, opn1, b)
                                 /\ Good(tab1, ino1, opn1, f1, o1, ex, {})
<1> DEFINE g == f[p][k]
           c == tab[g].inode
           cnt == ino[c].cnt - 1
<1>1. g \in Slot /\ c # NULL /\ (c = Ring \/ c \in Page)
  BY Constants DEF Good, GoodTypes, GoodFd
<1>2. tab[g].pipe <=> c = Ring
  BY <1>1 DEF Good, GoodTable
<1>3. s.table = tab /\ s.inode = ino /\ s.open = opn
      /\ s.fault = b
  BY StateFields
<1>4. CASE c = Ring
  <2> DEFINE e == IF tab[g].pos = 1 THEN FreeEntry ELSE [tab[g] EXCEPT !.pos = @ - 1]
             tab1 == [tab EXCEPT ![g] = e]
  <2>1. CloseOne(s, g) = State(tab1, ino, opn, b)
    BY <1>1, <1>2, <1>3, <1>4 DEF CloseOne
  <2>2. Good(tab1, ino, opn, f1, o1, ex, {})
    BY <1>4, ClosePipeGood
  <2> HIDE DEF tab1
  <2>. QED  BY <2>1, <2>2
<1>5. CASE c \in Page
  <2> DEFINE r == IF cnt = 0 THEN Unused
                  ELSE [ino[c] EXCEPT !.cnt = cnt, !.deny = FALSE]
             tab1 == [tab EXCEPT ![g] = FreeEntry]
             ino1 == [ino EXCEPT ![c] = r]
             opn1 == IF cnt = 0 THEN Remove(opn, c) ELSE opn
  <2>1. CloseOne(s, g) = State(tab1, ino1, opn1, b)
    BY <1>1, <1>2, <1>3, <1>5, Constants DEF CloseOne
  <2>2. Good(tab1, ino1, opn1, f1, o1, ex, {})
    BY <1>5, CloseFileGood
  <2> HIDE DEF tab1, ino1, opn1
  <2>. QED  BY <2>1, <2>2
<1>. QED  BY <1>1, <1>4, <1>5

\* The whole loop: Close leaves a consistent table, for any set of open descriptors.
LEMMA CloseGood ==
    ASSUME NEW p \in Proc, NEW ls \in SUBSET Local, \A l \in ls : fd[p][l] # -1,
           Good(table, inode, open_inodes, fd, opened, exists, {}), Close(p, ls)
    PROVE  /\ fault' = FALSE
           /\ Good(table', inode', open_inodes', fd', opened', exists, {})
<1> DEFINE fdAt(n) == [fd EXCEPT ![p] = [l \in Local |->
                           IF l \in ls /\ l < n THEN -1 ELSE @[l]]]
           openedAt(n) == [opened EXCEPT ![p] = [l \in Local |->
                           IF l \in ls /\ l < n THEN NULL ELSE @[l]]]
           last == MAX_FILES_OPEN_PER_PROC
<1>1. PICK a : /\ a[0] = LoopStart
               /\ \A n \in Nat : a[n + 1] = CloseNext(p, ls, a[n], n)
               /\ CloseAll(p, ls) = a[last]
  BY LoopFacts
<1> DEFINE b == LoopStart.fault
<1>0. b = FALSE /\ LoopStart = State(table, inode, open_inodes, b)
  BY DEF LoopStart, State
<1> HIDE DEF b
<1>2. /\ fd \in [Proc -> [Local -> Slot \cup {-1}]]
      /\ opened \in [Proc -> [Local -> File \cup {NULL, Ring}]]
  BY DEF Good, GoodTypes
<1>3. ASSUME NEW n \in Nat
      PROVE  /\ fdAt(n) \in [Proc -> [Local -> Slot \cup {-1}]]
             /\ openedAt(n) \in [Proc -> [Local -> File \cup {NULL, Ring}]]
             /\ \A q \in Proc, l \in Local :
                   /\ fdAt(n)[q][l] = IF q = p /\ l \in ls /\ l < n THEN -1 ELSE fd[q][l]
                   /\ openedAt(n)[q][l] = IF q = p /\ l \in ls /\ l < n THEN NULL
                                          ELSE opened[q][l]
  BY <1>2
<1> DEFINE Ok(n) == \E tab, ino, opn :
        /\ a[n] = State(tab, ino, opn, b)
        /\ Good(tab, ino, opn, fdAt(n), openedAt(n), exists, {})
<1>4. Ok(0)
  <2>1. fdAt(0) = fd /\ openedAt(0) = opened
    BY <1>2, Constants
  <2>2. a[0] = State(table, inode, open_inodes, b)
    BY <1>1, <1>0
  <2> HIDE DEF fdAt, openedAt
  <2>. QED  BY <2>1, <2>2
<1>5. ASSUME NEW n \in Nat, Ok(n) PROVE Ok(n + 1)
  <2>1. n + 1 \in Nat /\ \A l \in Local : l < n + 1 <=> l < n \/ l = n
    BY Constants
  <2>2. a[n + 1] = CloseNext(p, ls, a[n], n)
    BY <1>1
  <2>3. PICK tab, ino, opn : /\ a[n] = State(tab, ino, opn, b)
                             /\ Good(tab, ino, opn, fdAt(n), openedAt(n), exists, {})
    BY <1>5
  <2>4. CASE n \in ls
    <3> DEFINE f == fdAt(n)  f1 == fdAt(n + 1)  o == openedAt(n)  o1 == openedAt(n + 1)
    <3>1. n \in Local /\ f[p][n] = fd[p][n] /\ fd[p][n] # -1
      BY <1>3, <2>4
    <3>2. Freed(f, f1, p, n) /\ Kept(o, o1, p, n)
      BY <1>3, <2>1, <2>4 DEF Freed, Kept
    <3>3. /\ f1 \in [Proc -> [Local -> Slot \cup {-1}]]
          /\ o1 \in [Proc -> [Local -> File \cup {NULL, Ring}]]
      BY <1>3, <2>1
    <3>4. a[n + 1] = CloseOne(a[n], f[p][n])
      <4>1. ~a[n].fault
        BY <1>0, <2>3, StateFields
      <4>. QED  BY <2>2, <2>4, <3>1, <4>1 DEF CloseNext
    <3> HIDE DEF f, f1, o, o1
    <3>5. Good(tab, ino, opn, f, o, exists, {})
      BY <2>3 DEF f, o
    <3>6. \E tab1, ino1, opn1 : /\ CloseOne(a[n], f[p][n]) = State(tab1, ino1, opn1, b)
                                /\ Good(tab1, ino1, opn1, f1, o1, exists, {})
      <4>1. f[p][n] # -1
        BY <3>1
      <4>2. a[n] = State(tab, ino, opn, b)
        BY <2>3
      <4>. QED  BY <3>1, <3>2, <3>3, <3>5, <4>1, <4>2, CloseOneGood
    <3>. QED  BY <3>4, <3>6 DEF f1, o1
  <2>5. CASE n \notin ls
    <3>1. fdAt(n + 1) = fdAt(n) /\ openedAt(n + 1) = openedAt(n)
      BY <2>1, <2>5
    <3>2. a[n + 1] = a[n]
      BY <2>2, <2>5 DEF CloseNext
    <3> HIDE DEF fdAt, openedAt
    <3>. QED  BY <2>3, <3>1, <3>2
  <2>. QED  BY <2>4, <2>5
<1>6. Ok(last)
  <2> DEFINE Bad == {n \in Nat : ~Ok(n)}
  <2> HIDE DEF Ok
  <2> SUFFICES ASSUME Bad # {} PROVE FALSE
    BY FilesAssumption
  <2>1. PICK m \in Bad : \A i \in Bad : m <= i
    <3>1. Bad \in SUBSET Nat
      OBVIOUS
    <3>. QED  BY <3>1, Least
  <2>2. m # 0
    BY <1>4
  <2>3. m - 1 \in Nat /\ m - 1 \notin Bad /\ (m - 1) + 1 = m
    BY <2>1, <2>2
  <2>4. Ok((m - 1) + 1)
    BY <1>5, <2>3
  <2>. QED  BY <2>3, <2>4
<1>7. fd' = fdAt(last) /\ opened' = openedAt(last)
  <2>1. \A l \in Local : l < last
    BY FilesAssumption DEF Local
  <2>. QED  BY <2>1 DEF Close
<1>8. PICK tab, ino, opn : /\ a[last] = State(tab, ino, opn, b)
                           /\ Good(tab, ino, opn, fdAt(last), openedAt(last), exists, {})
  BY <1>6
<1>9. table' = tab /\ inode' = ino /\ open_inodes' = opn /\ fault' = FALSE
  BY <1>1, <1>8, <1>0, StateFields DEF Close
<1> HIDE DEF fdAt, openedAt
<1>. QED  BY <1>7, <1>8, <1>9

TwoFree(f, p, two) == (\E k, m : two \subseteq {k, m}) /\ \A l \in two : f[p][l] = -1
Put(f, f1, p, two, x) ==
    \A q \in Proc, l \in Local : f1[q][l] = IF q = p /\ l \in two THEN x ELSE f[q][l]

\* sys_pipe: a free entry that counts two descriptors, of which at most two are made.
LEMMA PipeGood ==
    ASSUME NEW tab, NEW ino, NEW opn, NEW f, NEW o, NEW ex,
           Good(tab, ino, opn, f, o, ex, {}),
           NEW g \in Slot, tab[g].inode = NULL, NEW p \in Proc,
           NEW two, TwoFree(f, p, two),
           NEW tab1 \in [Slot -> EntryType], \A h \in Slot : h # g => tab1[h] = tab[h],
           tab1[g].inode = Ring, tab1[g].pipe, tab1[g].pos = 2,
           NEW f1 \in [Proc -> [Local -> Slot \cup {-1}]], Put(f, f1, p, two, g),
           NEW o1 \in [Proc -> [Local -> File \cup {NULL, Ring}]], Put(o, o1, p, two, Ring)
    PROVE  Good(tab1, ino, opn, f1, o1, ex, {})
<1>1. /\ tab1 \in [Slot -> EntryType] /\ tab1[g].inode = Ring
      /\ tab1[g].pipe /\ tab1[g].pos = 2 /\ \A h \in Slot : h # g => tab1[h] = tab[h]
      /\ \A q \in Proc, l \in Local :
             /\ f1[q][l] = IF q = p /\ l \in two THEN g ELSE f[q][l]
             /\ o1[q][l] = IF q = p /\ l \in two THEN Ring ELSE o[q][l]
      /\ \A l \in two : f[p][l] = -1
  BY DEF Put, TwoFree
<1>2. \A q \in Proc, l \in Local : f[q][l] # g
  BY FreeUnused DEF Good
<1>3. GoodTypes(tab1, ino, opn, f1, o1)
  BY <1>1 DEF Good, GoodTypes
<1>4. GoodCount(tab1, ino, opn)
  <2> SUFFICES ASSUME NEW c \in Page, Find(opn, c)
               PROVE  ino[c].cnt = Cardinality(Users(tab1, c))
    BY DEF GoodCount
  <2>0. tab[g].inode # c /\ tab1[g].inode # c
    BY <1>1, Constants
  <2>1. Users(tab1, c) = Users(tab, c)
    BY <1>1, <2>0 DEF Users
  <2>. QED  BY <2>1 DEF Good, GoodCount
<1>5. GoodTable(tab1, opn, {})
  <2> SUFFICES ASSUME NEW h \in Slot
               PROVE  /\ tab1[h].pipe <=> tab1[h].inode = Ring
                      /\ tab1[h].inode \in Page => Find(opn, tab1[h].inode)
    BY DEF GoodTable
  <2>1. CASE h = g
    BY <1>1, <2>1, Constants
  <2>2. CASE h # g
    BY <1>1, <2>2 DEF Good, GoodTable
  <2>. QED  BY <2>1, <2>2
<1>6. GoodFd(tab1, ino, opn, f1, o1)
  <2> SUFFICES ASSUME NEW q \in Proc, NEW l \in Local, f1[q][l] # -1
               PROVE  LET d == tab1[f1[q][l]].inode
                      IN  IF o1[q][l] = Ring THEN d = Ring
                          ELSE d \in Page /\ Find(opn, d) /\ ino[d].no = o1[q][l]
    BY DEF GoodFd
  <2>1. CASE q = p /\ l \in two
    BY <1>1, <2>1
  <2>2. CASE ~(q = p /\ l \in two)
    <3>1. f1[q][l] = f[q][l] /\ o1[q][l] = o[q][l] /\ f[q][l] \in Slot /\ f[q][l] # g
      BY <1>1, <1>2, <2>2 DEF Good, GoodTypes
    <3>2. tab1[f1[q][l]] = tab[f[q][l]]
      BY <1>1, <3>1
    <3>. QED  BY <3>1, <3>2 DEF Good, GoodFd
  <2>. QED  BY <2>1, <2>2
<1>7. GoodOwner(tab1, f1)
  <2> SUFFICES ASSUME NEW q \in Proc, NEW r \in Proc, NEW l \in Local, NEW n \in Local,
                      f1[q][l] # -1, f1[r][n] = f1[q][l], tab1[f1[q][l]].inode # Ring
               PROVE  q = r /\ l = n
    BY DEF GoodOwner
  <2>1. f1[q][l] # g
    BY <1>1
  <2>2. f1[q][l] = f[q][l] /\ f1[r][n] = f[r][n] /\ f[q][l] \in Slot
    BY <1>1, <2>1 DEF Good, GoodTypes
  <2>3. tab1[f1[q][l]] = tab[f[q][l]]
    BY <1>1, <2>1, <2>2
  <2>. QED  BY <2>2, <2>3 DEF Good, GoodOwner
<1>8. GoodPipe(tab1, f1)
  <2> SUFFICES ASSUME NEW h \in Slot, tab1[h].inode = Ring
               PROVE  tab1[h].pos >= Cardinality(On(f1, h))
    BY DEF GoodPipe
  <2>1. CASE h = g
    <3>0. PICK k, m : two \subseteq {k, m}
      BY DEF TwoFree
    <3>1. On(f1, g) \subseteq {<<p, k>>, <<p, m>>}
      BY <1>1, <1>2, <3>0 DEF On
    <3>2. /\ IsFiniteSet({<<p, k>>, <<p, m>>})
          /\ Cardinality({<<p, k>>, <<p, m>>}) \in Nat
          /\ Cardinality({<<p, k>>, <<p, m>>}) <= 2
      BY PairCardinality
    <3>3. Cardinality(On(f1, g)) <= Cardinality({<<p, k>>, <<p, m>>})
      BY <3>1, <3>2, FS_Subset
    <3>. QED  BY <1>1, <2>1, <3>2, <3>3, OnFinite
  <2>2. CASE h # g
    <3>1. On(f1, h) = On(f, h)
      <4>1. h # -1
        BY Constants
      <4>2. \A q \in Proc, l \in Local : f1[q][l] = h <=> f[q][l] = h
        BY <1>1, <2>2, <4>1
      <4>. QED  BY <4>2 DEF On
    <3>. QED  BY <1>1, <2>2, <3>1 DEF Good, GoodPipe
  <2>. QED  BY <2>1, <2>2
<1>. QED  BY <1>3, <1>4, <1>5, <1>6, <1>7, <1>8 DEF Good

\* sys_fork of a process without open files: the child starts without any.
LEMMA ForkGood ==
    ASSUME NEW tab, NEW ino, NEW opn, NEW f, NEW o, NEW ex,
           Good(tab, ino, opn, f, o, ex, {}), NEW p \in Proc, NEW q \in Proc,
           \A l \in Local : f[p][l] = -1
    PROVE  Good(tab, ino, opn, [f EXCEPT ![q] = f[p]], [o EXCEPT ![q] = o[p]], ex, {})
<1> DEFINE f1 == [f EXCEPT ![q] = f[p]]
           o1 == [o EXCEPT ![q] = o[p]]
<1>1. /\ f1 \in [Proc -> [Local -> Slot \cup {-1}]]
      /\ o1 \in [Proc -> [Local -> File \cup {NULL, Ring}]]
      /\ \A r \in Proc, l \in Local : f1[r][l] # -1 => f1[r][l] = f[r][l] /\ o1[r][l] = o[r][l]
  BY DEF Good, GoodTypes
<1> HIDE DEF f1, o1
<1>2. GoodTypes(tab, ino, opn, f1, o1)
  BY <1>1 DEF Good, GoodTypes
<1>3. GoodFd(tab, ino, opn, f1, o1)
  BY <1>1, SMTT(30) DEF Good, GoodFd
<1>4. GoodOwner(tab, f1)
  BY <1>1, SMTT(30) DEF Good, GoodOwner
<1>5. GoodPipe(tab, f1)
  <2> SUFFICES ASSUME NEW g \in Slot, tab[g].inode = Ring
               PROVE  tab[g].pos >= Cardinality(On(f1, g))
    BY DEF GoodPipe
  <2>1. On(f1, g) \subseteq On(f, g)
    BY <1>1, Constants DEF On
  <2>2. Cardinality(On(f1, g)) <= Cardinality(On(f, g))
    BY <2>1, OnFinite, FS_Subset
  <2>3. tab[g].pos \in Nat
    BY DEF Good, GoodTypes, EntryType
  <2>4. tab[g].pos >= Cardinality(On(f, g))
    BY DEF Good, GoodPipe
  <2>. QED  BY <2>2, <2>3, <2>4, OnFinite
<1>. QED  BY <1>2, <1>3, <1>4, <1>5 DEF Good, f1, o1
-----------------------------------------------------------------------------
\* Without overlapping calls, the other processes are at their own code.
LEMMA Alone ==
    ASSUME Habit = {}, IInv, NEW p \in Proc, NEW l, Runs(p, l)
    PROVE  /\ fault = FALSE /\ p \in alive /\ pc[p] = l
           /\ \A q \in Proc : q # p => pc[q] = "user"
           /\ l = "user" => Busy = {}
           /\ l = "user" => Good(table, inode, open_inodes, fd, opened, exists, {})
           /\ l = "reading" => Busy = {}
           /\ l \in {"linking", "syncing"} => Busy = {req[p].slot}
<1>1. /\ fault = FALSE /\ p \in alive /\ pc[p] = l
      /\ \A q \in Proc : q # p => pc[q] = "user"
  BY DEF Runs, IInv
<1>2. l \in {"user", "reading"} => Busy = {}
  BY <1>1 DEF Busy
<1>3. ASSUME l \in {"linking", "syncing"} PROVE Busy = {req[p].slot}
  <2>1. req[p].slot \in Slot
    BY <1>1, <1>3 DEF IInv, Requests, Creating
  <2>. QED  BY <1>1, <1>3, <2>1 DEF Busy
<1>. QED  BY <1>1, <1>2, <1>3 DEF IInv

\* A call that has returned has no request.
LEMMA Returned ==
    ASSUME \A q \in Proc : pc'[q] = "user"
    PROVE  Busy' = {} /\ Requests'
BY DEF Busy, Requests

LEMMA InstallStep ==
    ASSUME NEW tab, NEW ino, NEW opn, NEW ex,
           Good(tab, ino, opn, fd, opened, ex, {}), NEW p \in Proc,
           NEW g \in Slot, \A q \in Proc, l \in Local : fd[q][l] # g,
           tab[g].inode \in Page, Find(opn, tab[g].inode),
           NEW i \in File, ino[tab[g].inode].no = i, Install(p, g, i)
    PROVE  Good(tab, ino, opn, fd', opened', ex, {})
<1>1. CASE FreeFds(p) = {}
  BY <1>1 DEF Install
<1>2. CASE FreeFds(p) # {}
  <2> DEFINE k == Lowest(FreeFds(p))
  <2>1. k \in FreeFds(p)
    <3>1. FreeFds(p) \in SUBSET Nat
      BY Constants DEF FreeFds
    <3>. QED  BY <1>2, <3>1, LowestIn
  <2>2. k \in Local /\ fd[p][k] = -1
    BY <2>1 DEF FreeFds
  <2>3. fd' = [fd EXCEPT ![p][k] = g] /\ opened' = [opened EXCEPT ![p][k] = i]
    BY <1>2 DEF Install
  <2> HIDE DEF k
  <2>. QED  BY <2>2, <2>3, InstallGood
<1>. QED  BY <1>1, <1>2

LEMMA FreeSlot ==
    ASSUME FreeSlots # {}
    PROVE  Lowest(FreeSlots) \in Slot /\ table[Lowest(FreeSlots)].inode = NULL
<1>1. FreeSlots \in SUBSET Nat
  BY Constants DEF FreeSlots
<1>2. Lowest(FreeSlots) \in FreeSlots
  BY <1>1, LowestIn
<1>. QED  BY <1>2 DEF FreeSlots

\* file_open: with the inode in the list and its entry in place, the descriptor follows,
\* or the entry stays behind without one.
LEMMA FileOpenStep ==
    ASSUME NEW p \in Proc, NEW g \in Slot, NEW c \in Page, NEW write \in BOOLEAN,
           NEW pages \in [Page -> InodeType], NEW opn, NEW ex,
           FileOpen(p, g, c, write, pages),
           Good(table', inode', opn, fd, opened, ex, {}),
           \A q \in Proc, l \in Local : fd[q][l] # g,
           table'[g].inode = c, Find(opn, c), inode'[c].no = pages[c].no, pages[c].no \in File
    PROVE  Good(table', inode', opn, fd', opened', ex, {})
<1>1. CASE write /\ pages[c].deny
  BY <1>1 DEF FileOpen
<1>2. CASE ~(write /\ pages[c].deny)
  <2>1. Install(p, g, pages[c].no)
    BY <1>2 DEF FileOpen
  <2> DEFINE tab == table'  ino == inode'
  <2>2. /\ Good(tab, ino, opn, fd, opened, ex, {})
        /\ tab[g].inode = c /\ ino[c].no = pages[c].no
    OBVIOUS
  <2> HIDE DEF tab, ino
  <2>3. Good(tab, ino, opn, fd', opened', ex, {})
    BY <2>1, <2>2, InstallStep
  <2>. QED  BY <2>3 DEF tab, ino
<1>. QED  BY <1>1, <1>2

\* What file_open writes.
LEMMA FileOpenWrites ==
    ASSUME table \in [Slot -> EntryType],
           NEW p \in Proc, NEW g \in Slot, NEW c \in Page, NEW write \in BOOLEAN,
           NEW pages \in [Page -> InodeType], FileOpen(p, g, c, write, pages)
    PROVE  /\ table' \in [Slot -> EntryType] /\ inode' \in [Page -> InodeType]
           /\ table'[g].inode = c /\ ~table'[g].pipe
           /\ \A h \in Slot : h # g => table'[h] = table[h]
           /\ \A d \in Page : d # c => inode'[d] = pages[d]
           /\ inode'[c].no = pages[c].no /\ inode'[c].cnt = pages[c].cnt
<1> DEFINE e == [FreeEntry EXCEPT !.inode = c, !.write = write]
           r == [pages[c] EXCEPT !.deny = @ \/ write]
<1>1. e \in EntryType /\ e.inode = c /\ ~e.pipe
  BY DEF FreeEntry, EntryType
<1>2. r \in InodeType /\ r.no = pages[c].no /\ r.cnt = pages[c].cnt
  BY DEF InodeType
<1>3. table' = [table EXCEPT ![g] = e] /\ inode' = [pages EXCEPT ![c] = r]
  BY DEF FileOpen
<1> HIDE DEF e, r
<1>. QED  BY <1>1, <1>2, <1>3
-----------------------------------------------------------------------------
\* One lemma per action.
LEMMA OpenCachedStep ==
    ASSUME Habit = {}, IInv, NEW p \in Proc, NEW i \in File, NEW write \in BOOLEAN,
           OpenCached(p, i, write)
    PROVE  IInv'
<1> DEFINE g == Lowest(FreeSlots)
           hits == {d \in Page : Listed(d) /\ inode[d].no = i}
           c == Traversal(open_inodes, hits)
           pages == [inode EXCEPT ![c].cnt = @ + 1]
<1>1. /\ Runs(p, "user") /\ FreeSlots # {} /\ hits # {}
      /\ FileOpen(p, g, c, write, pages)
      /\ UNCHANGED <<exists, open_inodes, alive, pc, req, fault>>
  BY DEF OpenCached
<1>2. /\ Good(table, inode, open_inodes, fd, opened, exists, {})
      /\ \A q \in Proc : pc[q] = "user"
  BY <1>1, Alone
<1>3. g \in Slot /\ table[g].inode = NULL
  BY <1>1, FreeSlot
<1>4. c \in hits
  <2>1. PICK d \in hits : TRUE
    BY <1>1
  <2>2. Find(open_inodes, d)
    BY <2>1 DEF Listed
  <2>3. open_inodes \in Seq(Page)
    BY <1>2 DEF Good, GoodTypes
  <2> HIDE DEF hits
  <2>. QED  BY <2>2, <2>3, TraversalFound
<1>5. c \in Page /\ Find(open_inodes, c) /\ inode[c].no = i
  BY <1>4 DEF Listed
<1> HIDE DEF g, c
<1>6. /\ table \in [Slot -> EntryType] /\ inode \in [Page -> InodeType]
  BY <1>2 DEF Good, GoodTypes
<1>7. /\ pages \in [Page -> InodeType]
      /\ pages[c].cnt = inode[c].cnt + 1 /\ pages[c].no = i
      /\ \A d \in Page : d # c => pages[d] = inode[d]
  BY <1>5, <1>6 DEF InodeType
<1> HIDE DEF pages
<1>8. /\ table' \in [Slot -> EntryType] /\ inode' \in [Page -> InodeType]
      /\ table'[g].inode = c /\ ~table'[g].pipe
      /\ \A h \in Slot : h # g => table'[h] = table[h]
      /\ \A d \in Page : d # c => inode'[d] = pages[d]
      /\ inode'[c].no = pages[c].no /\ inode'[c].cnt = pages[c].cnt
  <2>1. FileOpen(p, g, c, write, pages)
    BY <1>1
  <2>2. pages \in [Page -> InodeType]
    BY <1>7
  <2>. QED  BY <1>3, <1>5, <1>6, <2>1, <2>2, FileOpenWrites
<1>9. Good(table', inode', open_inodes, fd, opened, exists, {})
  <2>1. \A d \in Page : inode'[d].no = inode[d].no /\ (d # c => inode'[d] = inode[d])
    BY <1>5, <1>7, <1>8
  <2>2. inode'[c].cnt = inode[c].cnt + 1
    BY <1>7, <1>8
  <2>. QED  BY <1>2, <1>3, <1>5, <1>8, <2>1, <2>2, CountedGood
<1>10. \A q \in Proc, l \in Local : fd[q][l] # g
  BY <1>2, <1>3, FreeUnused DEF Good
<1>11. Good(table', inode', open_inodes, fd', opened', exists, {})
  BY <1>1, <1>3, <1>5, <1>7, <1>8, <1>9, <1>10, FileOpenStep
<1>12. Busy' = {} /\ Requests'
  BY <1>1, <1>2, Returned
<1>. QED  BY <1>1, <1>11, <1>12 DEF IInv

LEMMA OpenMissingStep ==
    ASSUME Habit = {}, IInv, NEW p \in Proc, NEW i \in File, NEW write \in BOOLEAN,
           OpenMissing(p, i, write)
    PROVE  IInv'
<1> DEFINE r == [NoReq EXCEPT !.slot = Lowest(FreeSlots), !.file = i, !.write = write]
<1>1. /\ Runs(p, "user") /\ i \in exists /\ FreeSlots # {}
      /\ \A c \in Page : Find(open_inodes, c) => inode[c].no # i
      /\ pc' = [pc EXCEPT ![p] = "reading"] /\ req' = [req EXCEPT ![p] = r]
      /\ UNCHANGED <<exists, table, inode, open_inodes, fd, alive, opened, fault>>
  BY DEF OpenMissing, Listed
<1>2. /\ Good(table, inode, open_inodes, fd, opened, exists, {})
      /\ \A q \in Proc : pc[q] = "user"
  BY <1>1, Alone
<1>3. Lowest(FreeSlots) \in Slot /\ table[Lowest(FreeSlots)].inode = NULL
  BY <1>1, FreeSlot
<1>4. r \in ReqType /\ r.slot = Lowest(FreeSlots) /\ r.file = i
  BY <1>3 DEF NoReq, ReqType
<1> HIDE DEF r
<1>5. /\ pc' \in [Proc -> {"user", "reading", "linking", "syncing"}]
      /\ req' \in [Proc -> ReqType] /\ pc'[p] = "reading" /\ req'[p] = r
      /\ \A q \in Proc : q # p => pc'[q] = "user"
  BY <1>1, <1>2, <1>4 DEF IInv
<1>6. Busy' = {}
  BY <1>5 DEF Busy
<1>7. Requests'
  BY <1>1, <1>3, <1>4, <1>5 DEF Requests, Reading, Unlisted
<1>. QED  BY <1>1, <1>2, <1>5, <1>6, <1>7 DEF IInv

LEMMA OpenReadStep ==
    ASSUME Habit = {}, IInv, NEW p \in Proc, NEW c \in Page, OpenRead(p, c)
    PROVE  IInv'
<1> DEFINE g == req[p].slot
           i == req[p].file
           write == req[p].write
           pages == [inode EXCEPT ![c] = [no |-> i, cnt |-> 1, deny |-> FALSE]]
<1>1. /\ Runs(p, "reading") /\ ~Find(open_inodes, c) /\ \A h \in Slot : table[h].inode # c
      /\ open_inodes' = Push(open_inodes, c)
      /\ FileOpen(p, g, c, write, pages)
      /\ pc' = [pc EXCEPT ![p] = "user"] /\ req' = [req EXCEPT ![p] = NoReq]
      /\ UNCHANGED <<exists, alive, fault>>
  BY DEF OpenRead, Listed, Referred
<1>2. /\ Good(table, inode, open_inodes, fd, opened, exists, {})
      /\ pc[p] = "reading" /\ \A q \in Proc : q # p => pc[q] = "user"
  BY <1>1, Alone DEF IInv
<1>3. /\ g \in Slot /\ table[g].inode = NULL /\ i \in exists /\ i \in File
      /\ \A d \in Page : Find(open_inodes, d) => inode[d].no # i
  BY <1>2 DEF IInv, Requests, Reading, Unlisted
<1>4. write \in BOOLEAN
  BY DEF IInv, ReqType
<1>5. table \in [Slot -> EntryType] /\ inode \in [Page -> InodeType]
  BY <1>2 DEF Good, GoodTypes
<1>6. /\ pages \in [Page -> InodeType]
      /\ pages[c].cnt = 1 /\ pages[c].no = i
      /\ \A d \in Page : d # c => pages[d] = inode[d]
  BY <1>3, <1>5 DEF InodeType
<1> HIDE DEF g, i, write, pages
<1>7. /\ table' \in [Slot -> EntryType] /\ inode' \in [Page -> InodeType]
      /\ table'[g].inode = c /\ ~table'[g].pipe
      /\ \A h \in Slot : h # g => table'[h] = table[h]
      /\ \A d \in Page : d # c => inode'[d] = pages[d]
      /\ inode'[c].no = pages[c].no /\ inode'[c].cnt = pages[c].cnt
  <2>1. FileOpen(p, g, c, write, pages)
    BY <1>1
  <2>2. pages \in [Page -> InodeType]
    BY <1>6
  <2>. QED  BY <1>3, <1>4, <1>5, <2>1, <2>2, FileOpenWrites
<1>8. \A d \in Page : d # c => inode'[d] = inode[d]
  BY <1>6, <1>7
<1>9. Good(table', inode', open_inodes, fd, opened, exists, {g}) /\ Users(table', c) = {g}
  <2> DEFINE tab1 == table'  ino1 == inode'
  <2>1. /\ tab1 \in [Slot -> EntryType] /\ ino1 \in [Page -> InodeType]
        /\ tab1[g].inode = c /\ ~tab1[g].pipe
        /\ \A h \in Slot : h # g => tab1[h] = table[h]
        /\ \A d \in Page : d # c => ino1[d] = inode[d]
    BY <1>7, <1>8
  <2>2. ~Find(open_inodes, c) /\ \A h \in Slot : table[h].inode # c
    BY <1>1
  <2> HIDE DEF tab1, ino1
  <2>3. Good(tab1, ino1, open_inodes, fd, opened, exists, {g}) /\ Users(tab1, c) = {g}
    BY <1>2, <1>3, <2>1, <2>2, TakenGood
  <2>. QED  BY <2>3 DEF tab1, ino1
<1>10. Good(table', inode', open_inodes', fd, opened, exists, {})
  <2>1. /\ inode'[c].no \in exists /\ inode'[c].cnt = 1
        /\ \A d \in Page : Find(open_inodes, d) => inode'[d].no # inode'[c].no
    BY <1>1, <1>3, <1>6, <1>7, <1>8
  <2>. QED  BY <1>1, <1>3, <1>7, <1>9, <2>1, ListedGood
<1>11. \A q \in Proc, l \in Local : fd[q][l] # g
  BY <1>2, <1>3, FreeUnused DEF Good
<1>12. Find(open_inodes', c)
  BY <1>1, <1>2, PushFacts DEF Good, GoodTypes
<1>13. Good(table', inode', open_inodes', fd', opened', exists, {})
  BY <1>1, <1>3, <1>4, <1>6, <1>7, <1>10, <1>11, <1>12, FileOpenStep
<1>14. /\ pc' \in [Proc -> {"user", "reading", "linking", "syncing"}]
       /\ \A q \in Proc : pc'[q] = "user"
  BY <1>1, <1>2 DEF IInv
<1>15. req' \in [Proc -> ReqType]
  BY <1>1 DEF IInv, ReqType, NoReq
<1>16. Busy' = {} /\ Requests'
  BY <1>14, Returned
<1>. QED  BY <1>1, <1>13, <1>14, <1>15, <1>16 DEF IInv

LEMMA CreateStep ==
    ASSUME Habit = {}, IInv, NEW p \in Proc, NEW i \in File, NEW c \in Page, Create(p, i, c)
    PROVE  IInv'
<1> DEFINE g == Lowest(FreeSlots)
           e == [FreeEntry EXCEPT !.inode = c, !.write = TRUE]
           r == [slot |-> g, file |-> i, write |-> TRUE, page |-> c]
           n == [no |-> i, cnt |-> 0, deny |-> FALSE]
<1>1. /\ Runs(p, "user") /\ i \notin exists /\ FreeSlots # {}
      /\ ~Find(open_inodes, c) /\ \A h \in Slot : table[h].inode # c
      /\ table' = [table EXCEPT ![g] = e] /\ req' = [req EXCEPT ![p] = r]
      /\ inode' = [inode EXCEPT ![c] = n] /\ pc' = [pc EXCEPT ![p] = "linking"]
      /\ UNCHANGED <<exists, open_inodes, fd, alive, opened, fault>>
  BY DEF Create, Listed, Referred
<1>2. /\ Good(table, inode, open_inodes, fd, opened, exists, {})
      /\ \A q \in Proc : pc[q] = "user"
  BY <1>1, Alone
<1>3. g \in Slot /\ table[g].inode = NULL
  BY <1>1, FreeSlot
<1> HIDE DEF g
<1>4. e \in EntryType /\ e.inode = c /\ ~e.pipe
  BY DEF FreeEntry, EntryType
<1>5. n \in InodeType /\ n.no = i
  BY DEF InodeType
<1>6. r \in ReqType /\ r.slot = g /\ r.file = i /\ r.page = c
  BY <1>3 DEF ReqType
<1> HIDE DEF e, r, n
<1> DEFINE tab1 == table'  ino1 == inode'
<1>7. /\ tab1 \in [Slot -> EntryType] /\ ino1 \in [Page -> InodeType]
      /\ tab1[g].inode = c /\ ~tab1[g].pipe /\ ino1[c].no = i
      /\ \A h \in Slot : h # g => tab1[h] = table[h]
      /\ \A d \in Page : d # c => ino1[d] = inode[d]
  <2>1. table \in [Slot -> EntryType] /\ inode \in [Page -> InodeType]
    BY <1>2 DEF Good, GoodTypes
  <2>. QED  BY <1>1, <1>3, <1>4, <1>5, <2>1
<1>8. ~Find(open_inodes, c) /\ \A h \in Slot : table[h].inode # c
  BY <1>1
<1> HIDE DEF tab1, ino1
<1>9. Good(tab1, ino1, open_inodes, fd, opened, exists, {g}) /\ Users(tab1, c) = {g}
  BY <1>2, <1>3, <1>7, <1>8, TakenGood, SMTT(30)
<1>10. /\ pc' \in [Proc -> {"user", "reading", "linking", "syncing"}]
       /\ req' \in [Proc -> ReqType] /\ pc'[p] = "linking" /\ req'[p] = r
       /\ \A q \in Proc : q # p => pc'[q] = "user"
  BY <1>1, <1>2, <1>6 DEF IInv
<1>11. Busy' = {g}
  BY <1>3, <1>6, <1>10 DEF Busy
<1>12. Good(table', inode', open_inodes', fd', opened', exists', Busy')
  BY <1>1, <1>9, <1>11 DEF tab1, ino1
<1>13. Requests'
  <2>1. \A d \in Page : Find(open_inodes, d) => ino1[d].no # i
    BY <1>1, <1>2, <1>7 DEF Good, GoodList
  <2>2. Creating(req[p])'
    <3>1. /\ Users(table', c) = {g} /\ inode'[c].no = i
          /\ \A d \in Page : Find(open_inodes, d) => inode'[d].no # i
      BY <1>7, <1>9, <2>1 DEF tab1, ino1
    <3>2. req'[p].slot = g /\ req'[p].page = c /\ req'[p].file = i
      BY <1>6, <1>10
    <3>. QED  BY <1>1, <1>3, <1>8, <3>1, <3>2 DEF Creating, Unlisted
  <2>. QED  BY <1>10, <2>2 DEF Requests
<1>. QED  BY <1>1, <1>10, <1>12, <1>13 DEF IInv

LEMMA CreateLinkedStep ==
    ASSUME Habit = {}, IInv, NEW p \in Proc, CreateLinked(p)
    PROVE  IInv'
<1>1. /\ Runs(p, "linking") /\ exists' = exists \cup {req[p].file}
      /\ pc' = [pc EXCEPT ![p] = "syncing"]
      /\ UNCHANGED <<table, inode, open_inodes, fd, alive, req, opened, fault>>
  BY DEF CreateLinked
<1>2. pc[p] = "linking" /\ \A q \in Proc : q # p => pc[q] = "user"
  BY <1>1, Alone
<1>3. Creating(req[p])
  BY <1>2 DEF IInv, Requests
<1>4. /\ pc' \in [Proc -> {"user", "reading", "linking", "syncing"}]
      /\ pc'[p] = "syncing" /\ \A q \in Proc : q # p => pc'[q] = "user"
  BY <1>1, <1>2 DEF IInv
<1>5. Busy' = Busy
  BY <1>1, <1>2, <1>4 DEF Busy
<1>6. Good(table, inode, open_inodes, fd, opened, exists', Busy)
  BY <1>1 DEF IInv, Good, GoodList
<1>7. Requests'
  BY <1>1, <1>3, <1>4 DEF Requests, Creating, Unlisted
<1>8. exists' \subseteq File
  BY <1>1, <1>3 DEF IInv, Creating
<1>. QED  BY <1>1, <1>4, <1>5, <1>6, <1>7, <1>8 DEF IInv

LEMMA CreateDoneStep ==
    ASSUME Habit = {}, IInv, NEW p \in Proc, CreateDone(p)
    PROVE  IInv'
<1> DEFINE g == req[p].slot
           c == req[p].page
           i == req[p].file
<1>1. /\ Runs(p, "syncing") /\ open_inodes' = Push(open_inodes, c)
      /\ inode' = [inode EXCEPT ![c].cnt = 1] /\ Install(p, g, i)
      /\ pc' = [pc EXCEPT ![p] = "user"] /\ req' = [req EXCEPT ![p] = NoReq]
      /\ UNCHANGED <<exists, table, alive, fault>>
  BY DEF CreateDone
<1>2. /\ pc[p] = "syncing" /\ \A q \in Proc : q # p => pc[q] = "user"
      /\ Busy = {g}
  BY <1>1, Alone
<1>3. Good(table, inode, open_inodes, fd, opened, exists, {g})
  BY <1>2 DEF IInv
<1>4. Creating(req[p]) /\ i \in exists
  BY <1>2 DEF IInv, Requests
<1>5. /\ g \in Slot /\ c \in Page /\ i \in File
      /\ Users(table, c) = {g} /\ ~Find(open_inodes, c) /\ inode[c].no = i
      /\ \A d \in Page : Find(open_inodes, d) => inode[d].no # i
  BY <1>4 DEF Creating, Unlisted
<1> HIDE DEF g, c, i
<1> DEFINE ino1 == inode'
<1>6. /\ ino1 \in [Page -> InodeType] /\ ino1[c].no = i /\ ino1[c].cnt = 1
      /\ \A d \in Page : d # c => ino1[d] = inode[d]
  <2>1. inode \in [Page -> InodeType]
    BY <1>3 DEF Good, GoodTypes
  <2>. QED  BY <1>1, <1>5, <2>1 DEF InodeType
<1> HIDE DEF ino1
<1>7. Good(table, ino1, Push(open_inodes, c), fd, opened, exists, {})
  BY <1>3, <1>4, <1>5, <1>6, ListedGood
<1>8. table[g].inode = c /\ \A q \in Proc, l \in Local : fd[q][l] # g
  <2>1. table[g].inode = c
    BY <1>5 DEF Users
  <2>. QED  BY <1>3, <1>5, <2>1, Constants DEF Good, GoodFd
<1>9. Find(Push(open_inodes, c), c)
  BY <1>3, <1>5, PushFacts DEF Good, GoodTypes
<1>10. Good(table, ino1, Push(open_inodes, c), fd', opened', exists, {})
  <2>1. Install(p, g, i)
    BY <1>1
  <2>. QED  BY <1>5, <1>6, <1>7, <1>8, <1>9, <2>1, InstallStep
<1>11. /\ pc' \in [Proc -> {"user", "reading", "linking", "syncing"}]
       /\ \A q \in Proc : pc'[q] = "user"
  BY <1>1, <1>2 DEF IInv
<1>12. req' \in [Proc -> ReqType]
  BY <1>1 DEF IInv, ReqType, NoReq
<1>13. Busy' = {} /\ Requests'
  BY <1>11, Returned
<1>. QED  BY <1>1, <1>10, <1>11, <1>12, <1>13 DEF IInv, ino1

\* sys_close of one descriptor, and of all when a process ends.
LEMMA CloseStep ==
    ASSUME Habit = {}, IInv, NEW p \in Proc, Runs(p, "user"), NEW ls \in SUBSET Local,
           \A l \in ls : fd[p][l] # -1, Close(p, ls), alive' \subseteq alive,
           UNCHANGED <<exists, pc, req>>
    PROVE  IInv'
<1>1. /\ Good(table, inode, open_inodes, fd, opened, exists, {})
      /\ \A q \in Proc : pc[q] = "user"
  BY Alone
<1>2. fault' = FALSE /\ Good(table', inode', open_inodes', fd', opened', exists, {})
  BY <1>1, CloseGood
<1>3. Busy' = {} /\ Requests'
  BY <1>1, Returned
<1>. QED  BY <1>2, <1>3 DEF IInv

LEMMA SysForkStep ==
    ASSUME Habit = {}, IInv, NEW p \in Proc, NEW q \in Proc, SysFork(p, q)
    PROVE  IInv'
<1>1. /\ Runs(p, "user") /\ FreeFds(p) = Local
      /\ fd' = [fd EXCEPT ![q] = fd[p]] /\ opened' = [opened EXCEPT ![q] = opened[p]]
      /\ alive' = alive \cup {q} /\ UNCHANGED <<exists, open_inodes, pc, req>>
  BY DEF SysFork
<1>2. /\ Good(table, inode, open_inodes, fd, opened, exists, {})
      /\ \A r \in Proc : pc[r] = "user"
  BY <1>1, Alone
<1>3. \A l \in Local : fd[p][l] = -1
  BY <1>1 DEF FreeFds
<1>4. fault' = FALSE
  BY <1>3 DEF SysFork
<1>5. table \in [Slot -> EntryType] /\ inode \in [Page -> InodeType]
  BY <1>2 DEF Good, GoodTypes
<1>6. Cardinality({}) = 0
  BY FS_EmptySet
<1>7. table' = table
  <2>1. table' = [g \in Slot |-> IF table[g].pipe
                     THEN [table[g] EXCEPT !.pos = @ + Cardinality({l \in Local : fd[p][l] = g})]
                     ELSE table[g]]
    BY DEF SysFork
  <2>2. ASSUME NEW g \in Slot
        PROVE  [table[g] EXCEPT !.pos = @ + Cardinality({l \in Local : fd[p][l] = g})] = table[g]
    <3>1. {l \in Local : fd[p][l] = g} = {}
      BY <1>3, Constants
    <3>2. table[g] \in EntryType
      BY <1>5
    <3>. QED  BY <1>6, <3>1, <3>2 DEF EntryType
  <2>3. \A g \in Slot : table'[g] = table[g]
    BY <2>1, <2>2
  <2>. QED  BY <1>5, <2>1, <2>3
<1>8. inode' = inode
  <2> DEFINE used(c) == {l \in Local : /\ fd[p][l] # -1
                                       /\ table[fd[p][l]].inode = c /\ ~table[fd[p][l]].pipe}
  <2>1. inode' = [c \in Page |-> [inode[c] EXCEPT !.cnt = @ + Cardinality(used(c))]]
    BY DEF SysFork
  <2>2. ASSUME NEW c \in Page
        PROVE  [inode[c] EXCEPT !.cnt = @ + Cardinality(used(c))] = inode[c]
    <3>1. used(c) = {}
      BY <1>3
    <3>2. inode[c] \in InodeType
      BY <1>5
    <3> HIDE DEF used
    <3>. QED  BY <1>6, <3>1, <3>2 DEF InodeType
  <2> HIDE DEF used
  <2>3. \A c \in Page : inode'[c] = inode[c]
    BY <2>1, <2>2
  <2>. QED  BY <1>5, <2>1, <2>3
<1>9. Good(table, inode, open_inodes, fd', opened', exists, {})
  BY <1>1, <1>2, <1>3, ForkGood
<1>10. Busy' = {} /\ Requests'
  BY <1>1, <1>2, Returned
<1>. QED  BY <1>1, <1>4, <1>7, <1>8, <1>9, <1>10 DEF IInv

LEMMA SysPipeStep ==
    ASSUME Habit = {}, IInv, NEW p \in Proc, SysPipe(p)
    PROVE  IInv'
<1> DEFINE g == Lowest(FreeSlots)
           one == IF FreeFds(p) = {} THEN {} ELSE {Lowest(FreeFds(p))}
           rest == FreeFds(p) \ one
           two == IF rest = {} THEN one ELSE one \cup {Lowest(rest)}
           e == [FreeEntry EXCEPT !.inode = Ring, !.pipe = TRUE, !.pos = 2]
<1>1. /\ Runs(p, "user") /\ FreeSlots # {}
      /\ table' = [table EXCEPT ![g] = e]
      /\ fd' = [fd EXCEPT ![p] = [l \in Local |-> IF l \in two THEN g ELSE @[l]]]
      /\ opened' = [opened EXCEPT ![p] = [l \in Local |-> IF l \in two THEN Ring ELSE @[l]]]
      /\ UNCHANGED <<exists, inode, open_inodes, alive, pc, req, fault>>
  BY DEF SysPipe
<1>2. /\ Good(table, inode, open_inodes, fd, opened, exists, {})
      /\ \A r \in Proc : pc[r] = "user"
  BY <1>1, Alone
<1>3. g \in Slot /\ table[g].inode = NULL
  BY <1>1, FreeSlot
<1>4. /\ two \subseteq {Lowest(FreeFds(p)), Lowest(rest)}
      /\ \A l \in two : fd[p][l] = -1
  <2>1. FreeFds(p) \in SUBSET Nat /\ rest \in SUBSET Nat /\ rest \subseteq FreeFds(p)
    BY Constants DEF FreeFds
  <2>2. one \subseteq FreeFds(p) /\ one \subseteq {Lowest(FreeFds(p))}
    BY <2>1, LowestIn
  <2> HIDE DEF one, rest
  <2>3. rest # {} => Lowest(rest) \in FreeFds(p)
    BY <2>1, LowestIn
  <2>4. two \subseteq FreeFds(p) /\ two \subseteq {Lowest(FreeFds(p)), Lowest(rest)}
    BY <2>2, <2>3
  <2>. QED  BY <2>4 DEF FreeFds
<1> HIDE DEF g, two, rest
<1>5. e \in EntryType /\ e.inode = Ring /\ e.pipe /\ e.pos = 2
  BY DEF FreeEntry, EntryType
<1> HIDE DEF e
<1> DEFINE tab1 == table'  f1 == fd'  o1 == opened'
<1>6. /\ f1 \in [Proc -> [Local -> Slot \cup {-1}]] /\ Put(fd, f1, p, two, g)
      /\ o1 \in [Proc -> [Local -> File \cup {NULL, Ring}]] /\ Put(opened, o1, p, two, Ring)
  BY <1>1, <1>2, <1>3 DEF Good, GoodTypes, Put
<1>7. /\ tab1 \in [Slot -> EntryType] /\ \A h \in Slot : h # g => tab1[h] = table[h]
      /\ tab1[g].inode = Ring /\ tab1[g].pipe /\ tab1[g].pos = 2
  BY <1>1, <1>2, <1>3, <1>5 DEF Good, GoodTypes
<1> HIDE DEF tab1, f1, o1
<1>8. Good(tab1, inode, open_inodes, f1, o1, exists, {})
  <2>1. TwoFree(fd, p, two)
    BY <1>4 DEF TwoFree
  <2>. QED  BY <1>2, <1>3, <1>6, <1>7, <2>1, PipeGood
<1>9. Busy' = {} /\ Requests'
  BY <1>1, <1>2, Returned
<1>. QED  BY <1>1, <1>8, <1>9 DEF IInv, tab1, f1, o1
-----------------------------------------------------------------------------
LEMMA InitIInv == Init => IInv
<1> SUFFICES ASSUME Init PROVE IInv
  OBVIOUS
<1>1. GoodTypes(table, inode, open_inodes, fd, opened)
  BY EmptyFacts, Constants DEF Init, GoodTypes, FreeEntry, EntryType, Unused, InodeType
<1>2. \A g \in Slot : table[g].inode = NULL /\ ~table[g].pipe
  BY DEF Init, FreeEntry
<1>3. \A c : ~Find(open_inodes, c)
  BY EmptyFacts DEF Init
<1>4. \A p \in Proc, l \in Local : fd[p][l] = -1
  BY DEF Init
<1>5. Good(table, inode, open_inodes, fd, opened, exists, Busy)
  BY <1>1, <1>2, <1>3, <1>4, Constants
     DEF Good, GoodList, GoodCount, GoodTable, GoodFd, GoodOwner, GoodPipe
<1>6. req \in [Proc -> ReqType]
  BY DEF Init, NoReq, ReqType
<1>7. Requests
  BY DEF Init, Requests
<1>. QED  BY <1>5, <1>6, <1>7, FilesAssumption DEF Init, IInv

LEMMA StepIInv == ASSUME Habit = {} PROVE IInv /\ [Next]_vars => IInv'
<1> SUFFICES ASSUME IInv, [Next]_vars PROVE IInv'
  OBVIOUS
<1>1. CASE UNCHANGED vars
  BY <1>1 DEF vars, IInv, Busy, Requests, Reading, Creating, Unlisted
<1>2. CASE Next
  <2>1. PICK p \in Proc :
            \/ \E i \in File, write \in BOOLEAN : OpenCached(p, i, write)
                                                \/ OpenMissing(p, i, write)
            \/ \E c \in Page : OpenRead(p, c)
            \/ \E i \in File, c \in Page : Create(p, i, c)
            \/ CreateLinked(p) \/ CreateDone(p)
            \/ \E l \in Local : SysClose(p, l)
            \/ SysExit(p) \/ SysPipe(p)
            \/ \E q \in Proc : SysFork(p, q)
    BY <1>2 DEF Next
  <2>2. ASSUME NEW l \in Local, SysClose(p, l) PROVE IInv'
    <3>1. Runs(p, "user") /\ Close(p, {l}) /\ fd[p][l] # -1 /\ alive' \subseteq alive
          /\ UNCHANGED <<exists, pc, req>>
      BY <2>2 DEF SysClose
    <3>2. {l} \in SUBSET Local /\ \A k \in {l} : fd[p][k] # -1
      BY <3>1
    <3>. QED  BY <3>1, <3>2, CloseStep
  <2>3. ASSUME SysExit(p) PROVE IInv'
    <3> DEFINE ls == Local \ FreeFds(p)
    <3>1. Runs(p, "user") /\ Close(p, ls) /\ alive' \subseteq alive
          /\ UNCHANGED <<exists, pc, req>>
      BY <2>3 DEF SysExit
    <3>2. ls \in SUBSET Local /\ \A k \in ls : fd[p][k] # -1
      BY DEF FreeFds
    <3> HIDE DEF ls
    <3>. QED  BY <3>1, <3>2, CloseStep
  <2>. QED  BY <2>1, <2>2, <2>3, OpenCachedStep, OpenMissingStep, OpenReadStep, CreateStep,
               CreateLinkedStep, CreateDoneStep, SysPipeStep, SysForkStep
<1>. QED  BY <1>1, <1>2

LEMMA GivesFilesInv == IInv => FilesInv
<1> SUFFICES ASSUME IInv PROVE FilesInv
  OBVIOUS
<1>1. /\ GoodTypes(table, inode, open_inodes, fd, opened) /\ GoodList(inode, open_inodes, exists)
      /\ GoodCount(table, inode, open_inodes) /\ GoodTable(table, open_inodes, Busy)
  BY DEF IInv, Good
<1>2. TypeOK
  BY <1>1 DEF TypeOK, IInv, GoodTypes, EntryType, InodeType
<1>3. \A k \in 1..Len(open_inodes) : open_inodes[k] \in Page /\ Find(open_inodes, open_inodes[k])
  BY <1>1 DEF GoodTypes, Find
<1>4. OneCopy
  BY <1>1, <1>3 DEF OneCopy, GoodTypes, GoodList, NoDup
<1>5. CountExact
  <2>1. ASSUME NEW k \in 1..Len(open_inodes)
        PROVE  inode[open_inodes[k]].cnt = Cardinality({g \in Slot : table[g].inode = open_inodes[k]})
    BY <1>1, <1>3 DEF GoodCount, Users
  <2>2. ASSUME NEW g \in Slot, table[g].inode \in Page
        PROVE  \/ Listed(table[g].inode)
               \/ \E p \in Proc : pc[p] \in {"linking", "syncing"} /\ req[p].slot = g
    BY <1>1, <2>2 DEF GoodTable, Busy, Listed
  <2>. QED  BY <2>1, <2>2 DEF CountExact
<1>. QED  BY <1>2, <1>4, <1>5 DEF FilesInv, NoFault, IInv

LEMMA GivesFdShowsFile == IInv => FdShowsFile
<1> SUFFICES ASSUME IInv, NEW x \in OpenFds
             PROVE  LET e == Entry(x)
                    IN  IF opened[x[1]][x[2]] = Ring THEN e.pipe /\ e.inode = Ring
                        ELSE e.inode \in Page /\ inode[e.inode].no = opened[x[1]][x[2]]
  BY DEF FdShowsFile
<1>1. x[1] \in Proc /\ x[2] \in Local /\ fd[x[1]][x[2]] # -1
  BY DEF OpenFds
<1>2. fd[x[1]][x[2]] \in Slot
  BY <1>1 DEF IInv, Good, GoodTypes
<1>. QED  BY <1>1, <1>2, SMTT(30) DEF IInv, Good, GoodFd, GoodTable, Entry

LEMMA GivesPipeCounted == IInv => PipeCounted
<1> SUFFICES ASSUME IInv, NEW g \in Slot, table[g].inode = Ring
             PROVE  table[g].pos >= Cardinality({x \in OpenFds : fd[x[1]][x[2]] = g})
  BY DEF PipeCounted
<1> DEFINE S == {x \in OpenFds : fd[x[1]][x[2]] = g}
<1>1. S \subseteq On(fd, g)
  BY DEF OpenFds, On
<1>2. Cardinality(S) <= Cardinality(On(fd, g)) /\ Cardinality(S) \in Nat
  BY <1>1, OnFinite, FS_Subset, FS_CardinalityType
<1>3. table[g].pos >= Cardinality(On(fd, g)) /\ table[g].pos \in Nat
  BY DEF IInv, Good, GoodPipe, GoodTypes, EntryType
<1> HIDE DEF S
<1>4. table[g].pos >= Cardinality(S)
  BY <1>2, <1>3, OnFinite
<1>. QED  BY <1>4 DEF S

\* file_table, the inodes in memory and their list agree, for any number of processes,
\* files and entries, as long as the file system calls of two processes do not overlap
\* and none forks with files open: a file has one inode, i_open_cnts is the number of
\* its entries, and no call uses one that has been freed.
THEOREM FilesConsistent == ASSUME Habit = {} PROVE Spec => []FilesInv
<1>1. Spec => []IInv
  BY InitIInv, StepIInv, PTL DEF Spec
<1>. QED  BY <1>1, GivesFilesInv, PTL

\* Under the same conditions a descriptor shows the file it was opened for, through
\* every open, close and exit of the other processes.
THEOREM DescriptorsShowTheirFile == ASSUME Habit = {} PROVE Spec => []FdShowsFile
<1>1. Spec => []IInv
  BY InitIInv, StepIInv, PTL DEF Spec
<1>. QED  BY <1>1, GivesFdShowsFile, PTL

\* And fd_pos of a pipe is never less than the number of its descriptors, so that no
\* close but the last one frees its page.
THEOREM PipesCounted == ASSUME Habit = {} PROVE Spec => []PipeCounted
<1>1. Spec => []IInv
  BY InitIInv, StepIInv, PTL DEF Spec
<1>. QED  BY <1>1, GivesPipeCounted, PTL
==============================================================================
