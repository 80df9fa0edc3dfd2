------------------------------- MODULE Memory -------------------------------
(***************************************************************************)
(* The memory of user processes (kern/memory.c): the pool of page frames   *)
(* they share, the address bitmap and page table of each, the heap that    *)
(* sys_malloc and sys_free keep in it, and the calls that build and remove *)
(* whole address spaces: fork, execv and exit.                             *)
(*                                                                         *)
(* Every call runs with interrupts off and does not block while it changes *)
(* this state, so each is one step, and user_pool.lock is always free.     *)
(* The calls of the file system take their buffers from the heap of the    *)
(* process that makes them, and give them back: steps of malloc and free.  *)
(* The TLB is left out: a page is gone as soon as its entry is cleared.    *)
(*                                                                         *)
(* A process is its PCB page, which holds its block descriptors.  Calls    *)
(* that go wrong set fault, after which nothing is claimed:                *)
(*   "full"    bitmap_scan's ASSERT on a full bitmap                       *)
(*   "panic"   another ASSERT                                              *)
(*   "segment" a page fault while a program is loaded                      *)
(*   "list"    a block is linked into another process's free list          *)
(*   "heap"    a program is loaded over a block that is in a free list, or *)
(*             over the buffers it is read with                            *)
(***************************************************************************)
EXTENDS Lists, Integers, FiniteSets

CONSTANTS
    Proc, First,    \* the processes besides init, and the one init has forked
    Stack,          \* the number of the page of the user stack, the last one
    PerTable,       \* the pages one page table covers
    Frames,         \* the number of page frames in user_pool
    ByteBits,       \* the bits of a byte of a bitmap
    BlockSize,      \* per descriptor, the size of its blocks
    PageSize, Header,   \* PG_SIZE and sizeof(struct arena)
    Size,           \* the sizes that are asked for; 0 or more than the pool
                    \* returns NULL and changes nothing
    Buffer,         \* of these, the sizes of the buffers of file_read
    MaxLive,        \* bound: the pointers a process holds at a time
    Segment,        \* programs: <<first page, number of pages>>
    NULL

ASSUME MemoryAssumption ==
    /\ First \in Proc
    /\ Stack \in Nat \ {0} /\ PerTable \in Nat \ {0} /\ Frames \in Nat \ {0}
    /\ ByteBits \in Nat \ {0} /\ (Stack + 1) % ByteBits = 0 /\ Frames % ByteBits = 0
    /\ Header \in Nat \ {0}
    /\ BlockSize \in Seq(Nat \ {0}) /\ BlockSize # <<>>
    /\ \A c, d \in 1..Len(BlockSize) : c < d => BlockSize[c] < BlockSize[d]
    /\ PageSize \in Nat /\ \A c \in 1..Len(BlockSize) : Header + 2 * BlockSize[c] <= PageSize
    /\ Size \subseteq Nat \ {0} /\ MaxLive \in Nat
    /\ Segment \subseteq (1..Stack - 1) \X (1..Stack)
    /\ \A s \in Segment : s[1] + s[2] <= Stack
    /\ NULL \notin Nat

Page == 0..Stack
Frame == 0..Frames - 1
Class == 1..Len(BlockSize)
Table(v) == v \div PerTable

VARIABLES
    alive,      \* the processes that exist
    pool,       \* user_pool.pool_bitmap: the frames in use
    vused,      \* userproc_vaddr.vaddr_bitmap of each process: its pages in use
    pte, pde,   \* its page table (the frame of each page), and the tables it has
    arena,      \* the struct arena at the start of each of its pages
    free,       \* the free_list of each of its descriptors: <<page, index>>
    live,       \* the blocks it has been given and has not freed
    copied,     \* history: the pages it has from its parent
    fault

vars == <<alive, pool, vused, pte, pde, arena, free, live, copied, fault>>

NoArena == [home |-> NULL, class |-> 0, cnt |-> 0, large |-> FALSE]
EmptyLists == [c \in Class |-> <<>>]

\* init forks a process whose only page is its stack.
Init ==
    /\ alive = {First}
    /\ pool = {0}
    /\ vused = [p \in Proc |-> IF p = First THEN {Stack} ELSE {}]
    /\ pte = [p \in Proc |-> [v \in Page |-> IF p = First /\ v = Stack THEN 0 ELSE NULL]]
    /\ pde = [p \in Proc |-> IF p = First THEN {Table(Stack)} ELSE {}]
    /\ arena = [p \in Proc |-> [v \in Page |-> NoArena]]
    /\ free = [p \in Proc |-> EmptyLists]
    /\ live = [p \in Proc |-> {}]
    /\ copied = [p \in Proc |-> {}]
    /\ fault = "no"

Runs(p) == p \in alive /\ fault = "no"
MayAsk(p) == Runs(p) /\ Cardinality(live[p]) < MaxLive
Fails(kind) ==
    /\ fault' = kind
    /\ UNCHANGED <<alive, pool, vused, pte, pde, arena, free, live, copied>>

Members(s) == {s[k] : k \in 1..Len(s)}
Lowest(S) == CHOOSE n \in S : \A k \in S : n <= k
\* The pages from v on
Run(v, n) == v..v + n - 1

\* The first free bit of a map of len bits that is not full: in the first byte that
\* has one.
FirstFree(used, len) ==
    LET idx_byte == Lowest({b \in 0..len \div ByteBits - 1 : ~(Run(b * ByteBits, ByteBits) \subseteq used)})
    IN  Lowest(Run(idx_byte * ByteBits, ByteBits) \ used)

\* bitmap_scan: from there on the first cnt free bits in a row, or -1.  The search
\* ends one bit late: bit len is tested too.
\* Mutants: the count is not reset by a set bit; the run starts one bit too far.
ScanCountsAll(used, len, cnt) ==
    LET start == FirstFree(used, len)
        ends == {k \in start + 1..len : Cardinality(start..k \ used) = cnt}
    IN  IF cnt = 1 THEN start ELSE IF ends = {} THEN -1 ELSE Lowest(ends) - cnt + 1
ScanStartsLate(used, len, cnt) ==
    LET start == FirstFree(used, len)
        ends == {k \in start + 1..len : Run(k - cnt + 1, cnt) \cap used = {} /\ k - cnt + 1 >= start}
    IN  IF cnt = 1 THEN start ELSE IF ends = {} THEN -1 ELSE Lowest(ends) - cnt + 2
bitmap_scan(used, len, cnt) ==
    LET start == FirstFree(used, len)
        count[k \in start..len] == IF k = start THEN 1 ELSE IF k \in used THEN 0 ELSE count[k - 1] + 1
        ends == {k \in start + 1..len : count[k] = cnt}
    IN  IF cnt = 1 THEN start ELSE IF ends = {} THEN -1 ELSE Lowest(ends) - cnt + 1

\* vaddr_get: where n pages in a row are free.  The last bit is the stack's, so that
\* what is behind the map does not matter.
HasFree(p) == vused[p] # Page
Scan(p, n) == bitmap_scan(vused[p], Stack + 1, n)

\* The member of S that has k smaller ones
NthOf(S, k) == CHOOSE n \in S : Cardinality({m \in S : m < n}) = k

\* The frame that the call number k + 1 of pmalloc returns: the lowest free one
Unused == Frame \ pool
Nth(k) == NthOf(Unused, k)

\* pmalloc and page_table_add for the pages of S, in their order: the pool and
\* the page table, and the tables that exist then.  The caller has enough frames.
Place(S, v) == Nth(Cardinality({w \in S : w < v}))
PoolWith(S) == pool \cup {Place(S, v) : v \in S}
Mapped(table, S) == [v \in Page |-> IF v \in S THEN Place(S, v) ELSE table[v]]
TablesOf(S) == {Table(v) : v \in S}
Enough(n) == Cardinality(Unused) >= n

\* malloc_page(PF_USER, n) at page v, with the struct arena a put there
MallocPage(p, v, n, a) ==
    /\ pool' = PoolWith(Run(v, n))
    /\ vused' = [vused EXCEPT ![p] = @ \cup Run(v, n)]
    /\ pte' = [pte EXCEPT ![p] = Mapped(@, Run(v, n))]
    /\ pde' = [pde EXCEPT ![p] = @ \cup TablesOf(Run(v, n))]
    /\ arena' = [arena EXCEPT ![p][v] = a]
    /\ copied' = [copied EXCEPT ![p] = @ \ Run(v, n)]

\* Mutant: mfree_page leaves the bits of the address bitmap set.
FreeKeepsPages(p, v, n) ==
    /\ pool' = pool \ {pte[p][w] : w \in Run(v, n)}
    /\ pte' = [pte EXCEPT ![p] = [w \in Page |-> IF w \in Run(v, n) THEN NULL ELSE @[w]]]
    /\ arena' = [arena EXCEPT ![p][v] = NoArena]
    /\ UNCHANGED vused

\* mfree_page(PF_USER, v, n): pfree, page_table_pte_remove and vaddr_remove
MfreePage(p, v, n) ==
    /\ pool' = pool \ {pte[p][w] : w \in Run(v, n)}
    /\ vused' = [vused EXCEPT ![p] = @ \ Run(v, n)]
    /\ pte' = [pte EXCEPT ![p] = [w \in Page |-> IF w \in Run(v, n) THEN NULL ELSE @[w]]]
    /\ arena' = [arena EXCEPT ![p][v] = NoArena]

\* block_desc_init: blocks_per_arena, and the descriptor that sys_malloc finds
Blocks(c) == (PageSize - Header) \div BlockSize[c]
Small(size) == size <= BlockSize[Len(BlockSize)]
ClassOf(size) == Lowest({c \in Class : size <= BlockSize[c]})
\* DIV_ROUND_UP(size + sizeof(struct arena), PG_SIZE)
PageCount(size) == (size + Header + PageSize - 1) \div PageSize

\* The buffers are blocks, no two of the same class (512 and 560 bytes).
ASSUME BufferAssumption ==
    /\ Buffer \subseteq Size /\ \A size \in Buffer : Small(size)
    /\ \A a, b \in Buffer : ClassOf(a) = ClassOf(b) => a = b

\* sys_malloc of more than the largest block; without n pages in a row it returns
\* NULL and changes nothing.
MallocLarge(p, size) ==
    LET n == PageCount(size)
        v == Scan(p, n)
    IN  /\ MayAsk(p) /\ ~Small(size)
        /\ HasFree(p) /\ v # -1 /\ Enough(n)
        /\ MallocPage(p, v, n, [home |-> NULL, class |-> 0, cnt |-> n, large |-> TRUE])
        /\ live' = [live EXCEPT ![p] = @ \cup {<<v, 0>>}]
        /\ UNCHANGED <<alive, free, fault>>

\* sys_malloc of a block when free_list has one
MallocBlock(p, size) ==
    LET c == ClassOf(size)
        b == Head(free[p][c])
    IN  /\ MayAsk(p) /\ Small(size) /\ free[p][c] # <<>>
        /\ free' = [free EXCEPT ![p][c] = Tail(@)]
        /\ arena' = [arena EXCEPT ![p][b[1]].cnt = @ - 1]
        /\ live' = [live EXCEPT ![p] = @ \cup {b}]
        /\ UNCHANGED <<alive, pool, vused, pte, pde, copied, fault>>

\* sys_malloc of a block when free_list is empty: a new arena is cut into blocks
\* and the first of them is given out.
MallocArena(p, size) ==
    LET c == ClassOf(size)
        v == Scan(p, 1)
    IN  /\ MayAsk(p) /\ Small(size) /\ free[p][c] = <<>>
        /\ HasFree(p) /\ Enough(1)
        /\ MallocPage(p, v, 1, [home |-> p, class |-> c, cnt |-> Blocks(c) - 1, large |-> FALSE])
        /\ free' = [free EXCEPT ![p][c] = [k \in 1..Blocks(c) - 1 |-> <<v, k>>]]
        /\ live' = [live EXCEPT ![p] = @ \cup {<<v, 0>>}]
        /\ UNCHANGED <<alive, fault>>

\* bitmap_scan on a bitmap without a free bit fails its ASSERT, in vaddr_get or
\* in pmalloc.
MallocFull(p, size) ==
    /\ MayAsk(p)
    /\ Small(size) => free[p][ClassOf(size)] = <<>>
    /\ LET n == IF Small(size) THEN 1 ELSE PageCount(size)
       IN  \/ ~HasFree(p)
           \/ HasFree(p) /\ Scan(p, n) # -1 /\ ~Enough(n)
    /\ Fails("full")

\* sys_free of memory in large mode
FreeLarge(p, b) ==
    /\ Runs(p) /\ b \in live[p] /\ arena[p][b[1]].large
    /\ MfreePage(p, b[1], arena[p][b[1]].cnt)
    /\ live' = [live EXCEPT ![p] = @ \ {b}]
    /\ UNCHANGED <<alive, pde, free, copied, fault>>

\* p holds the block b of an arena that points to p's own descriptors; b is the
\* last one of its arena in use.
HomeBlock(p, b) == /\ Runs(p) /\ b \in live[p]
                   /\ ~arena[p][b[1]].large /\ arena[p][b[1]].home = p
LastBlock(p, b) == arena[p][b[1]].cnt + 1 = Blocks(arena[p][b[1]].class)

\* sys_free of a block: it is linked into the list of the descriptor its arena
\* points to.
FreeBlock(p, b) ==
    LET a == arena[p][b[1]]
    IN  /\ HomeBlock(p, b) /\ ~LastBlock(p, b)
        /\ free' = [free EXCEPT ![p][a.class] = Append(@, b)]
        /\ arena' = [arena EXCEPT ![p][b[1]].cnt = @ + 1]
        /\ live' = [live EXCEPT ![p] = @ \ {b}]
        /\ UNCHANGED <<alive, pool, vused, pte, pde, copied, fault>>

\* list_remove of every block of page v: what is left, in its order
Without(list, v) ==
    LET rest == {i \in 1..Len(list) : list[i][1] # v}
    IN  [k \in 1..Cardinality(rest) |-> list[NthOf(rest, k - 1)]]

\* sys_free of the last block in use of an arena: all blocks of the arena, which
\* ASSERT expects in the list, are unlinked and the page is given back.
FreeArena(p, b) ==
    LET a == arena[p][b[1]]
        list == Append(free[p][a.class], b)
    IN  /\ HomeBlock(p, b) /\ LastBlock(p, b)
        /\ \A k \in 0..Blocks(a.class) - 1 : <<b[1], k>> \in Members(list)
        /\ MfreePage(p, b[1], 1)
        /\ free' = [free EXCEPT ![p][a.class] = Without(list, b[1])]
        /\ live' = [live EXCEPT ![p] = @ \ {b}]
        /\ UNCHANGED <<alive, pde, copied, fault>>

\* The ASSERT fails: the arena was copied by a fork, and its other free blocks
\* are in no list of this process.
FreeAssert(p, b) ==
    LET a == arena[p][b[1]]
    IN  /\ HomeBlock(p, b) /\ LastBlock(p, b)
        /\ \E k \in 0..Blocks(a.class) - 1 :
              <<b[1], k>> \notin Members(Append(free[p][a.class], b))
        /\ Fails("panic")

\* The arena was copied by a fork and points to the descriptors of another PCB.
FreeForeign(p, b) ==
    /\ Runs(p) /\ b \in live[p]
    /\ ~arena[p][b[1]].large /\ arena[p][b[1]].home # p
    /\ Fails("list")

\* sys_fork: every page is copied, the struct arena in it too; the descriptors of
\* the child start with empty lists.
Fork(p, q) ==
    /\ Runs(p) /\ q \notin alive /\ Enough(Cardinality(vused[p]))
    /\ alive' = alive \cup {q}
    /\ pool' = PoolWith(vused[p])
    /\ vused' = [vused EXCEPT ![q] = vused[p]]
    /\ pte' = [pte EXCEPT ![q] = Mapped(@, vused[p])]
    /\ pde' = [pde EXCEPT ![q] = TablesOf(vused[p])]
    /\ arena' = [arena EXCEPT ![q] = arena[p]]
    /\ free' = [free EXCEPT ![q] = EmptyLists]
    /\ live' = [live EXCEPT ![q] = live[p]]
    /\ copied' = [copied EXCEPT ![q] = vused[p]]
    /\ UNCHANGED fault

ForkFull(p, q) ==
    /\ Runs(p) /\ q \notin alive /\ ~Enough(Cardinality(vused[p]))
    /\ Fails("full")

\* The classes of which file_read makes an arena for its buffers, having no free block,
\* and the pages, the lowest that are not in used, where it does.
BufferClass == {ClassOf(size) : size \in Buffer}
NewArenas(p) == {c \in BufferClass : free[p][c] = <<>>}
BufferPages(p, used) ==
    {v \in Page \ used : Cardinality({w \in Page \ used : w < v}) < Cardinality(NewArenas(p))}
\* With S mapped too, there are pages and frames for them.
MayRead(p, S) ==
    LET n == Cardinality(NewArenas(p))
    IN  Cardinality(Page \ (vused[p] \cup S)) >= n /\ Enough(Cardinality(S) + n)
\* A block from a list goes back to its end; new arenas are gone again.
AfterRead(p) ==
    [c \in Class |-> IF c \in BufferClass /\ free[p][c] # <<>>
                      THEN Append(Tail(free[p][c]), Head(free[p][c])) ELSE free[p][c]]

\* load has just read the program's headers: the arenas for it are gone, the page
\* tables are not.
HeadersRead(p) == MayRead(p, {}) /\ TablesOf(BufferPages(p, vused[p])) \subseteq pde[p]

\* segment_load takes a page only where the page table is missing, because its
\* pte is a second pde.
Seg(s) == Run(s[1], s[2])
Loaded(p, s) == {v \in Seg(s) : /\ Table(v) \notin pde[p]
                                /\ \A w \in Seg(s) : w < v => Table(w) # Table(v)}
Present(p) == {v \in Page : pte[p][v] # NULL}

\* sys_read fills pages that segment_load has not mapped, and memory that a free list
\* still leads to.
Missing(p, s) == Seg(s) \ (Present(p) \cup Loaded(p, s))
OnHeap(p, s) == \E c \in Class : \E b \in Members(free[p][c]) : b[1] \in Seg(s)
BuffersThen(p, s) == BufferPages(p, vused[p] \cup Loaded(p, s))

\* sys_execv from segment_load on, of a program with one segment, whose pages are all
\* there: the heap of the old program stays, its pointers are gone.
Execv(p, s) ==
    /\ Runs(p) /\ HeadersRead(p) /\ MayRead(p, Loaded(p, s))
    /\ Missing(p, s) = {} /\ ~OnHeap(p, s)
    /\ pool' = PoolWith(Loaded(p, s))
    /\ vused' = [vused EXCEPT ![p] = @ \cup Loaded(p, s)]
    /\ pte' = [pte EXCEPT ![p] = Mapped(@, Loaded(p, s))]
    /\ pde' = [pde EXCEPT ![p] = @ \cup TablesOf(Loaded(p, s) \cup BuffersThen(p, s))]
    /\ arena' = [arena EXCEPT ![p] = [v \in Page |-> IF v \in Seg(s) THEN NoArena ELSE @[v]]]
    /\ free' = [free EXCEPT ![p] = AfterRead(p)]
    /\ live' = [live EXCEPT ![p] = {}]
    /\ UNCHANGED <<alive, copied, fault>>

ExecvFails(p, s) ==
    /\ Runs(p) /\ HeadersRead(p)
    /\ \/ ~MayRead(p, Loaded(p, s)) /\ Fails("full")
       \/ /\ MayRead(p, Loaded(p, s)) /\ ~(Missing(p, s) \subseteq BuffersThen(p, s))
          /\ Fails("segment")
       \/ /\ MayRead(p, Loaded(p, s))
          /\ OnHeap(p, s) \/ Missing(p, s) \cap BuffersThen(p, s) # {}
          /\ Fails("heap")

\* sys_exit: release_proc_resource walks the page table; with the PCB, which the
\* parent or init frees, everything else of the process is gone.
Exit(p) ==
    /\ Runs(p)
    /\ alive' = alive \ {p}
    /\ pool' = pool \ {pte[p][v] : v \in Present(p)}
    /\ vused' = [vused EXCEPT ![p] = {}]
    /\ pte' = [pte EXCEPT ![p] = [v \in Page |-> NULL]]
    /\ pde' = [pde EXCEPT ![p] = {}]
    /\ arena' = [arena EXCEPT ![p] = [v \in Page |-> NoArena]]
    /\ free' = [free EXCEPT ![p] = EmptyLists]
    /\ live' = [live EXCEPT ![p] = {}]
    /\ copied' = [copied EXCEPT ![p] = {}]
    /\ UNCHANGED fault

Next ==
    \E p \in Proc :
        \/ \E size \in Size : \/ MallocLarge(p, size) \/ MallocBlock(p, size)
                              \/ MallocArena(p, size) \/ MallocFull(p, size)
        \/ \E b \in live[p] : \/ FreeLarge(p, b) \/ FreeBlock(p, b) \/ FreeArena(p, b)
                              \/ FreeAssert(p, b) \/ FreeForeign(p, b)
        \/ \E q \in Proc : Fork(p, q) \/ ForkFull(p, q)
        \/ \E s \in Segment : Execv(p, s) \/ ExecvFails(p, s)
        \/ Exit(p)

Spec == Init /\ [][Next]_vars

-----------------------------------------------------------------------------
Pointer == (0..Stack - 1) \X (0..PageSize)
Arena == [home : Proc \cup {NULL}, class : Class \cup {0},
          cnt : 0..Stack + PageSize, large : BOOLEAN]

TypeOK ==
    /\ alive \subseteq Proc
    /\ pool \subseteq Frame
    /\ vused \in [Proc -> SUBSET Page] /\ copied \in [Proc -> SUBSET Page]
    /\ pte \in [Proc -> [Page -> Frame \cup {NULL}]]
    /\ pde \in [Proc -> SUBSET TablesOf(Page)]
    /\ arena \in [Proc -> [Page -> Arena]]
    /\ free \in [Proc -> [Class -> Seq(Pointer)]]
    /\ live \in [Proc -> SUBSET Pointer]
    /\ fault \in {"no", "full", "panic", "segment", "list", "heap"}

\* The three records of who has which memory agree: the pages in a process's
\* bitmap are those its page table maps, its stack among them, no frame is mapped
\* twice, in one process or in two, and the pool's bitmap is exactly the frames
\* that are mapped, so none is lost and none is handed out while in use.
FramesExact ==
    /\ \A p \in Proc : vused[p] = Present(p) /\ (p \in alive <=> Stack \in vused[p])
    /\ \A p \in Proc : TablesOf(vused[p]) \subseteq pde[p]
    /\ \A p, q \in Proc : \A v \in vused[p], w \in vused[q] :
          pte[p][v] = pte[q][w] => p = q /\ v = w
    /\ pool = UNION {{pte[p][v] : v \in vused[p]} : p \in Proc}

OnList(p, v) == {k \in 0..PageSize : \E c \in Class : <<v, k>> \in Members(free[p][c])}

\* The heap of a process: a free list holds blocks of its own size, each once and
\* none of them in use; cnt of an arena that the process has made is the number
\* of its blocks in the list, and an arena without a block in use is gone.
BlocksExact ==
    \A p \in alive :
        /\ \A c \in Class : \A b \in Members(free[p][c]) :
              /\ arena[p][b[1]].home = p /\ arena[p][b[1]].class = c
              /\ b[2] < Blocks(c) /\ b \notin live[p]
        /\ \A c \in Class : NoDup(free[p][c])
        /\ \A v \in Page : arena[p][v].class # 0 =>
              /\ v \in vused[p] /\ arena[p][v].cnt < Blocks(arena[p][v].class)
              /\ arena[p][v].cnt >= Cardinality(OnList(p, v))
              /\ v \notin copied[p] => arena[p][v].cnt = Cardinality(OnList(p, v))

\* Bitmaps, page tables, frames and the blocks of the heap agree, in every process,
\* through malloc, free, fork, execv and exit.
MemoryInv == TypeOK /\ FramesExact /\ BlocksExact

\* Whatever malloc and free have made of them, bitmap_scan finds the lowest run of cnt
\* free pages in the bitmap of a process, or -1 if there is none, and the lowest free
\* frame in the pool's, whatever is behind the end of the map: the bit it tests too
\* many never counts, because the last page is the stack's.
ScanExact ==
    /\ \A p \in alive, cnt \in 1..Stack, behind \in SUBSET {Stack + 1} :
          LET starts == {v \in 0..Stack - cnt : Run(v, cnt) \cap vused[p] = {}}
          IN  HasFree(p) => bitmap_scan(vused[p] \cup behind, Stack + 1, cnt) =
                                IF starts = {} THEN -1 ELSE Lowest(starts)
    /\ Unused # {} => bitmap_scan(pool, Frames, 1) = Nth(0)

\* The pages a pointer stands for: those of its large memory, or its arena.
Extent(p, b) == IF arena[p][b[1]].large THEN Run(b[1], arena[p][b[1]].cnt) ELSE {b[1]}

\* What a process has been given stays its own until it frees it or execs: no
\* step of anybody moves the pages below it or takes its arena away, and what is
\* given out next is in other pages or another block of the same arena.
LiveKept ==
    [][\A p \in alive \cap alive' : \A b \in live[p] \cap live'[p] :
          /\ \A v \in Extent(p, b) : pte'[p][v] = pte[p][v]
          /\ arena'[p][b[1]] = [arena[p][b[1]] EXCEPT !.cnt = arena'[p][b[1]].cnt]
          /\ \A x \in live'[p] \ {b} :
                \/ Extent(p, b)' \cap Extent(p, x)' = {}
                \/ x[1] = b[1] /\ ~arena'[p][b[1]].large]_vars

\* "If the pde or the pte is missing, memory is allocated" (the comment in
\* segment_load): a program is never loaded to a page that is not mapped.
SegmentMapped == fault # "segment"

\* "The list of the mem_blocks that can be used now" (memory.h on free_list): a
\* process links no block into the list of another, where it is no such block.
ListsPrivate == fault # "list"
=============================================================================
