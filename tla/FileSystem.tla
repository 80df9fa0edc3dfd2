----------------------------- MODULE FileSystem -----------------------------
(***************************************************************************)
(* Files and directories on the disk (fs/file.c, dir.c, inode.c, fs.c):    *)
(* the two bitmaps, the inode table, directory entries and file contents,  *)
(* and what of them is in memory.                                          *)
(*                                                                         *)
(* A call changes memory and the disk by a fixed sequence of ide_writes.   *)
(* Calls do not overlap here, so nobody sees memory in the middle of one,  *)
(* and a call is a function from the state it finds to the memory and the  *)
(* writes it makes.  The writes then reach the disk one sector at a time,  *)
(* the power may fail between any two of them, and calls go on with what   *)
(* the next mount finds.                                                   *)
(*                                                                         *)
(* A sector is a number of units: a directory entry is one unit, and so is *)
(* a piece of a file.  Sizes count units.  Zero stands for every zero on   *)
(* the disk: no entry, no data, no block.                                  *)
(***************************************************************************)
EXTENDS Integers, Sequences, FiniteSets, SequencesExt

CONSTANTS
    Name,           \* file names
    InodeCount,     \* MAX_FILES_PER_PART
    BlockCount,     \* data blocks of the partition, block_bitmap_bit_len
    BitsPerSector,  \* bits of a bitmap that bitmap_sync writes at once
    SectorWords,    \* words in a sector of the inode table
    Units,          \* units per block
    Direct,         \* direct blocks of an inode
    Indirect,       \* blocks in the indirect table
    Counts,         \* the counts of a write or a read
    Depth,          \* bound: names in a path
    MaxOpen,        \* bound: i_open_cnts of one inode
    MaxCalls,       \* bound: calls that write
    MaxCuts,        \* bound: calls cut off by a power failure
    Habit,          \* what else happens: rmdir of a directory in use, unlink of a path
                    \* that goes on below a file, calls on a disk with a torn name
    Zero, Absent, Directory, Torn, NoCall

ASSUME FileSystemAssumption ==
    /\ {InodeCount, BlockCount, BitsPerSector, Direct, Depth, MaxOpen, MaxCalls} \subseteq Nat \ {0}
    /\ Units \in Nat /\ Units > 2 /\ Indirect \in 1..Units /\ Counts \subseteq Nat \ {0}
    /\ MaxCuts \in Nat /\ SectorWords \in Nat /\ SectorWords >= Direct + 7
    /\ Habit \subseteq {"remove_used", "through_file", "use_torn"}

Ino == 0..InodeCount - 1
Root == 0
Unit == 0..Units - 1
Limit == Direct + Indirect        \* 140, the blocks a file or directory can have
Path == UNION {[1..n -> Name] : n \in 1..Depth}

\* partition_format: bits past the partition are set, but the loop that clears the
\* valid bits of the last byte runs one bit too far (fs.c:132), so bit BlockCount is
\* free: see BlocksInPartition.  (The model's small BlockCount stands for one that
\* fills more than a byte.)
Block == 0..BlockCount

VARIABLES
    sector, itable,     \* on disk: the data blocks and the inode table
    dbmap, dimap,       \* on disk: the bits set in the block and inode bitmaps
    bmap, imap,         \* cur_part->block_bitmap and inode_bitmap
    open,               \* the structs in open_inodes, the newest with the largest key
    fd,                 \* the open file: its struct and path; or NoCall
    dir,                \* the struct of the open directory, or NoCall
    cwd,                \* cwd_inode_nr
    calls,              \* how many calls have written
    pending,            \* the ide_writes the call has still to make
    halt,               \* why the kernel has stopped
    req,                \* the call in progress
    cuts,               \* how many calls a power failure has cut off
    lost,               \* one of them left a torn name
    tree                \* DiskTree(Disk), kept in a variable until then

disk == <<sector, itable, dbmap, dimap>>
memory == <<bmap, imap, open, halt>>
user == <<fd, dir, cwd>>
power == <<cuts, lost>>
vars == <<disk, tree, memory, user, pending, req, power, calls>>

NoBlocks == [k \in 0..Direct |-> Zero]
NewInode(i) == [no |-> i, size |-> 0, sec |-> NoBlocks]         \* inode_init
ZeroInode == NewInode(0)                        \* a table entry that is all zeros
DirInode(i, b) == [NewInode(i) EXCEPT !.size = 2, !.sec[0] = b]
ZeroSector == [k \in Unit |-> Zero]
Entry(n, i, type) == [name |-> n, i_no |-> i, type |-> type]
Dots(i, up) == [ZeroSector EXCEPT ![0] = Entry(".", i, "dir"), ![1] = Entry("..", up, "dir")]
InMemory(inode, n) == [no |-> inode.no, cnt |-> n, size |-> inode.size, sec |-> inode.sec]
OnDisk(inode) == [no |-> inode.no, size |-> inode.size, sec |-> inode.sec]

\* root_dir.inode, the struct that open_root_dir puts first into the list
RootInode == 0
Mounted(itab) == [h \in {RootInode} |-> InMemory(itab[Root], 1)]

\* partition_format, then mount_partition and open_root_dir
Init ==
    /\ sector = [b \in Block |-> IF b = 0 THEN Dots(Root, Root) ELSE ZeroSector]
    /\ itable = [i \in Ino |-> IF i = Root THEN DirInode(Root, 0) ELSE ZeroInode]
    /\ dbmap = {0} /\ dimap = {Root}
    /\ bmap = dbmap /\ imap = dimap
    /\ open = Mounted(itable)
    /\ fd = NoCall /\ dir = NoCall /\ cwd = Root
    /\ pending = <<>> /\ halt = "" /\ req = NoCall /\ cuts = 0 /\ lost = FALSE
    /\ tree = [p \in Path |-> Absent] /\ calls = 0

-----------------------------------------------------------------------------
(***************************************************************************)
(* A call works on a state s: memory, the disk as the call has written it, *)
(* the writes so far (log) and whether an ASSERT has stopped it.           *)
(***************************************************************************)
Now == [sector |-> sector, itable |-> itable, bmap |-> bmap, imap |-> imap,
        open |-> open, log |-> <<>>, halt |-> ""]

\* The disk as the next mount would find it.  An inode without its bit is free, and
\* counts as empty: it will be given away.
DiskView(sec, itab, bits, ibits) ==
    [sector |-> sec, bmap |-> bits, open |-> Mounted(itab),
     itable |-> [i \in Ino |-> IF i \in ibits THEN itab[i] ELSE ZeroInode]]
Disk == DiskView(sector, itable, dbmap, dimap)

Runs(s) == s.halt = ""
Require(s, ok, why) == IF Runs(s) /\ ~ok THEN [s EXCEPT !.halt = why] ELSE s
Write(s, to, at, val) ==
    IF Runs(s) THEN [s EXCEPT !.log = Append(@, [to |-> to, at |-> at, val |-> val])] ELSE s
Least(S) == CHOOSE n \in S : \A m \in S : n <= m
Ints(lo, hi) == [k \in 1..(hi - lo + 1) |-> lo + k - 1]

\* bitmap_scan(map, 1) and bitmap_set; a full map fails the ASSERT of bitmap_scan
FreeBlock(s) == Least(Block \ s.bmap)
BlockAlloc(s) == LET t == Require(s, ~(Block \subseteq s.bmap), "full")
                 IN  IF Runs(t) THEN [t EXCEPT !.bmap = @ \cup {FreeBlock(t)}] ELSE t
FreeInode(s) == Least(Ino \ s.imap)
InodeAlloc(s) == LET t == Require(s, ~(Ino \subseteq s.imap), "full")
                 IN  IF Runs(t) THEN [t EXCEPT !.imap = @ \cup {FreeInode(t)}] ELSE t

\* bitmap_sync writes the sector that holds the bit.
BitsWith(map, bit) == {x \in map : x \div BitsPerSector = bit \div BitsPerSector}
SyncBlockMap(s, b) == Write(s, "bmap", b \div BitsPerSector, BitsWith(s.bmap, b))
SyncInodeMap(s, i) == Write(s, "imap", i \div BitsPerSector, BitsWith(s.imap, i))

\* ide_write of a data block
WriteSector(s, b, content) ==
    IF Runs(s) THEN [Write(s, "sector", b, content) EXCEPT !.sector[b] = content] ELSE s

\* inode_locate: struct inode is i_no, i_size, two words that mean nothing on disk,
\* i_sectors and the two words of inode_tag.
InodeWords == Direct + 7
WordsLeft(i) == SectorWords - ((i * InodeWords) % SectorWords)
TwoSec(i) == WordsLeft(i) < InodeWords

\* What is in the table when only the first of the two sectors has been written
FirstSector(old, new, words) ==
    [no |-> new.no,
     size |-> IF words > 1 THEN new.size ELSE old.size,
     sec |-> [k \in 0..Direct |-> IF words > 4 + k THEN new.sec[k] ELSE old.sec[k]]]

\* inode_sync and inode_delete
WriteInode(s, i, inode) ==
    LET half == FirstSector(s.itable[i], inode, WordsLeft(i))
        t == IF TwoSec(i) THEN Write(s, "inode", i, half) ELSE s
    IN  IF Runs(s) THEN [Write(t, "inode", i, inode) EXCEPT !.itable[i] = inode] ELSE s

\* inode_sync writes where the struct's own number says, kept in a uint8_t.
SyncInode(s, inode) == WriteInode(s, inode.no % 256, inode)
InodeSync(s, h) == SyncInode(s, OnDisk(s.open[h]))

SetBlock(s, h, k, b) == IF Runs(s) THEN [s EXCEPT !.open[h].sec[k] = b] ELSE s
AddSize(s, h, n) == IF Runs(s) THEN [s EXCEPT !.open[h].size = @ + n] ELSE s
DropBlock(s, b) == IF Runs(s) THEN [s EXCEPT !.bmap = @ \ {b}] ELSE s

\* inode_open and inode_close.  The list is searched from the front, for the number
\* in the struct; what is read from the disk says its number itself.
Newest(S) == CHOOSE n \in S : \A m \in S : n >= m
Listed(s, i) == {h \in DOMAIN s.open : s.open[h].no = i}
Fresh(s) == Newest(DOMAIN s.open) + 1
Struct(s, i) == IF Listed(s, i) # {} THEN Newest(Listed(s, i)) ELSE Fresh(s)
ListPush(s, inode) ==
    LET new == Fresh(s)
    IN  [s EXCEPT !.open = [h \in DOMAIN @ \cup {new} |->
                               IF h = new THEN InMemory(inode, 1) ELSE @[h]]]
InodeOpen(s, i) ==
    IF Listed(s, i) # {} THEN [s EXCEPT !.open[Struct(s, i)].cnt = @ + 1]
    ELSE ListPush(s, s.itable[i])
\* Mutant: an inode whose count reaches 0 stays in open_inodes.
InodeCloseKeeps(s, h) == IF Runs(s) THEN [s EXCEPT !.open[h].cnt = @ - 1] ELSE s
InodeClose(s, h) ==
    IF ~Runs(s) THEN s
    ELSE IF s.open[h].cnt > 1 THEN [s EXCEPT !.open[h].cnt = @ - 1]
    ELSE [s EXCEPT !.open = [g \in DOMAIN @ \ {h} |-> @[g]]]
Inode(s, i) == IF Listed(s, i) # {} THEN OnDisk(s.open[Struct(s, i)]) ELSE s.itable[i]

-----------------------------------------------------------------------------
(***************************************************************************)
(* Directories                                                             *)
(***************************************************************************)

\* all_blocks: the direct blocks and, if there is one, the table read from disk
Blocks(s, inode) ==
    [k \in 0..Limit - 1 |->
        IF k < Direct THEN inode.sec[k]
        ELSE IF inode.sec[Direct] = Zero THEN Zero
        ELSE s.sector[inode.sec[Direct]][k - Direct]]

\* Where the entries of a directory are: pairs of block index and slot
Used(s, inode) == {x \in (0..Limit - 1) \X Unit :
                      LET b == Blocks(s, inode)[x[1]]
                      IN  b # Zero /\ s.sector[b][x[2]] # Zero}
EntryAt(s, inode, x) == s.sector[Blocks(s, inode)[x[1]]][x[2]]
Entries(s, inode) == {EntryAt(s, inode, x) : x \in Used(s, inode)}

\* search_file: from the root down, until a name is missing or a regular file is
\* found, wherever in the path that is.  no = -1 is "not found"; depth is the number
\* of names in searched_path, block where the last entry is.  up is the directory
\* searched_record leaves open: root_dir itself, or one opened by its number.
RootDir == -1
SearchName(s, r, n) ==
    LET inode == IF r.at = RootDir THEN s.open[RootInode] ELSE Inode(s, r.at)
        hits == {x \in Used(s, inode) : EntryAt(s, inode, x).name = n}
        x == CHOOSE x \in hits : TRUE
        e == EntryAt(s, inode, x)
        hit == [r EXCEPT !.depth = @ + 1, !.no = e.i_no, !.block = Blocks(s, inode)[x[1]]]
    IN  IF r.stop THEN r
        ELSE IF hits = {}
        THEN [r EXCEPT !.depth = @ + 1, !.no = -1, !.type = "none", !.stop = TRUE, !.up = r.at]
        ELSE IF e.type = "file" THEN [hit EXCEPT !.type = "file", !.stop = TRUE, !.up = r.at]
        ELSE [hit EXCEPT !.up = inode.no, !.at = e.i_no]
SearchFile(s, path) ==
    LET walk[n \in 0..Len(path)] ==
            IF n = 0 THEN [no |-> Root, type |-> "dir", up |-> RootDir, at |-> RootDir,
                           block |-> 0, depth |-> 0, stop |-> FALSE]
            ELSE SearchName(s, walk[n - 1], path[n])
    IN  walk[Len(path)]

Found(r, p, type) == r.no # -1 /\ r.type = type /\ r.depth = Len(p)

\* What is on the disk, seen as a tree of names.  A name is torn when the next mount
\* cannot use it: its inode is not there or is free, its entry is in a free block, or
\* a block its size calls for is missing.
Contents(s, inode) ==
    [o \in 1..inode.size |-> s.sector[Blocks(s, inode)[(o - 1) \div Units]][(o - 1) % Units]]
IsTorn(s, r) ==
    \/ s.itable[r.no].no # r.no \/ r.block \notin s.bmap
    \/ /\ r.type = "file" /\ s.itable[r.no].size > 0
       /\ \E k \in 0..s.itable[r.no].size \div Units : Blocks(s, s.itable[r.no])[k] = Zero
DiskTree(s) ==
    [p \in Path |-> LET r == SearchFile(s, p)
                    IN  IF ~(Found(r, p, "dir") \/ Found(r, p, "file")) THEN Absent
                        ELSE IF IsTorn(s, r) THEN Torn
                        ELSE IF r.type = "dir" THEN Directory
                        ELSE Contents(s, s.itable[r.no])]

\* The directory searched_record leaves open, and its dir_close.  root_dir is never
\* closed.
ParentOpen(s, up) == IF up = RootDir THEN s ELSE InodeOpen(s, up)
ParentStruct(s, up) == IF up = RootDir THEN RootInode ELSE Struct(s, up)
ParentClose(s, up, h) == IF up = RootDir THEN s ELSE InodeClose(s, h)

\* sync_dir_entry: the first empty slot in the blocks the directory has, or the
\* first slot of a new block.  The indirect table is never read.
SyncDirEntry(s, h, e) ==
    LET Own(k) == IF k < Direct THEN s.open[h].sec[k] ELSE Zero
        Slots(k) == {x \in Unit : s.sector[Own(k)][x] = Zero}
        k == Least({j \in 0..Limit - 1 : Own(j) = Zero \/ Slots(j) # {}})
        b == FreeBlock(s)
        one == SyncBlockMap(BlockAlloc(s), b)
        b2 == FreeBlock(one)
        two == SyncBlockMap(BlockAlloc(SetBlock(one, h, Direct, b)), b2)
        first(c) == [ZeroSector EXCEPT ![0] = c]
    IN  IF ~Runs(s) THEN s
        ELSE AddSize(
            IF Own(k) # Zero
            THEN WriteSector(s, Own(k), [s.sector[Own(k)] EXCEPT ![Least(Slots(k))] = e])
            ELSE IF k < Direct
            THEN WriteSector(SetBlock(one, h, k, b), b, first(e))
            ELSE WriteSector(WriteSector(two, b, first(b2)), b2, first(e)),
            h, 1)

\* delete_dir_entry: clears the entry, or gives back the block if it holds no other
\* entry and is not the first.  For a block of the indirect table the loop that
\* counts its blocks never ends.
DeleteDirEntry(s, h, no) ==
    LET all == Blocks(s, s.open[h])
        Names(k) == {x \in Unit : /\ s.sector[all[k]][x] # Zero
                                  /\ s.sector[all[k]][x].name \notin {".", ".."}}
        Hits(k) == {x \in Names(k) : s.sector[all[k]][x].i_no = no}
        hits == {k \in 0..Limit - 1 : all[k] # Zero /\ Hits(k) # {}}
        k == Least(hits)
        b == all[k]
        first == \E x \in Unit : s.sector[b][x] # Zero /\ s.sector[b][x].name = "."
        t == Require(s, Cardinality(Hits(k)) = 1, "entries")
        freed == SyncBlockMap(DropBlock(t, b), b)
    IN  IF ~Runs(s) \/ hits = {} THEN s
        ELSE LET u == IF Cardinality(Names(k)) = 1 /\ ~first
                      THEN IF k < Direct THEN SetBlock(freed, h, k, Zero)
                           ELSE Require(freed, FALSE, "loop")
                      ELSE WriteSector(t, b, [s.sector[b] EXCEPT ![Least(Hits(k))] = Zero])
                 v == AddSize(Require(u, u.open[h].size >= 1, "assert"), h, -1)
             IN  IF Runs(v) THEN InodeSync(v, h) ELSE v

\* inode_release: the blocks one by one, the bit of the inode, the inode itself
\* Mutant: the bit is cleared in memory only.
ReleaseBlockUnsynced(s, b) ==
    IF b = Zero THEN s ELSE DropBlock(Require(s, b > 0, "assert"), b)
ReleaseBlock(s, b) ==
    IF b = Zero THEN s
    ELSE SyncBlockMap(DropBlock(Require(s, b > 0, "assert"), b), b)
InodeRelease(s, i) ==
    LET h == Struct(s, i)
        opened == InodeOpen(s, i)
        t == Require(opened, opened.open[h].no = i, "i_no")
        all == Blocks(t, t.open[h])
        u == FoldLeft(LAMBDA r, k : ReleaseBlock(r, all[k]),
                      ReleaseBlock(t, t.open[h].sec[Direct]), Ints(0, Limit - 1))
        v == SyncInodeMap([u EXCEPT !.imap = @ \ {i}], i)
    IN  IF ~Runs(s) THEN s
        ELSE IF ~Runs(u) THEN u ELSE InodeClose(WriteInode(v, i, ZeroInode), h)

\* dir_read: the entry at a position, counted over the entries there are; NoCall
\* (NULL) past i_size.
DirRead(s, inode, pos) ==
    LET before(x, y) == x[1] < y[1] \/ (x[1] = y[1] /\ x[2] < y[2])
        at == {x \in Used(s, inode) : Cardinality({y \in Used(s, inode) : before(y, x)}) = pos}
    IN  IF pos >= inode.size \/ at = {} THEN NoCall
        ELSE EntryAt(s, inode, CHOOSE x \in at : TRUE)

\* sys_getcwd: upwards by the second entry of the first block, then the name that
\* the parent has for the child.  NoCall stands for an ASSERT that fails and for a
\* parent without the child.
GetcwdStep(s, r) ==
    LET b == Inode(s, r.at).sec[0]
        up == s.sector[b][1]
        hits == {e \in Entries(s, Inode(s, up.i_no)) : e.i_no = r.at}
    IN  IF r.path = NoCall \/ r.at = Root THEN r
        ELSE IF b = Zero THEN [r EXCEPT !.path = NoCall]
        ELSE IF up = Zero THEN [r EXCEPT !.path = NoCall]
        ELSE IF up.type # "dir" \/ hits = {} THEN [r EXCEPT !.path = NoCall]
        ELSE [at |-> up.i_no, path |-> <<(CHOOSE e \in hits : TRUE).name>> \o r.path]
Getcwd(s, i) ==
    FoldLeft(LAMBDA r, k : GetcwdStep(s, r), [at |-> i, path |-> <<>>], Ints(1, Depth)).path

-----------------------------------------------------------------------------
(***************************************************************************)
(* Contents of files                                                       *)
(***************************************************************************)
\* What a process writes at offset o of file p.  Taken for a directory entry, it has
\* no name that is searched for.
Data(p, o) == [name |-> Absent, i_no |-> -1, type |-> "data", is |-> <<p, o>>]

\* block_bitmap_alloc for block k of a file: an element of i_sectors, or of the
\* table that is kept in all_blocks until it is written.
\* Mutants: the bitmap is not written; block 12 counts as a direct block.
GrowBlockUnsynced(r, h, k) ==
    LET b == FreeBlock(r.s)
        t == BlockAlloc(r.s)
    IN  IF ~Runs(t) THEN [r EXCEPT !.s = t]
        ELSE IF k < Direct THEN [r EXCEPT !.s = SetBlock(t, h, k, b)]
        ELSE [s |-> t, table |-> [r.table EXCEPT ![k - Direct] = b]]
GrowBlockOneMore(r, h, k) ==
    LET b == FreeBlock(r.s)
        t == BlockAlloc(r.s)
    IN  IF ~Runs(t) THEN [r EXCEPT !.s = t]
        ELSE IF k <= Direct
        THEN [r EXCEPT !.s = SyncBlockMap(
                                SetBlock(Require(t, t.open[h].sec[k] = Zero, "assert"), h, k, b), b)]
        ELSE [s |-> SyncBlockMap(t, b), table |-> [r.table EXCEPT ![k - Direct] = b]]
GrowBlock(r, h, k) ==
    LET b == FreeBlock(r.s)
        t == BlockAlloc(r.s)
    IN  IF ~Runs(t) THEN [r EXCEPT !.s = t]
        ELSE IF k < Direct
        THEN [r EXCEPT !.s = SyncBlockMap(
                                SetBlock(Require(t, t.open[h].sec[k] = Zero, "assert"), h, k, b), b)]
        ELSE [s |-> SyncBlockMap(t, b), table |-> [r.table EXCEPT ![k - Direct] = b]]

\* The first block of a file, allocated by the first write
FirstBlock(s, h) ==
    LET b == FreeBlock(s)
        t == BlockAlloc(s)
    IN  IF Runs(t) THEN SyncBlockMap(Require(SetBlock(t, h, 0, b), b # 0, "assert"), b) ELSE t

\* One turn of the loop that writes: the first block is read and written over, the
\* others are filled up with zeros.
\* Mutant: the first block is not read before it is written.
WriteChunkBlind(s, p, b, k, size, count) ==
    WriteSector(s, b, [x \in Unit |-> IF k * Units + x \in size..size + count - 1
                                      THEN Data(p, k * Units + x) ELSE Zero])
WriteChunk(s, p, b, k, size, count) ==
    LET new == [x \in Unit |->
                  IF k * Units + x \in size..size + count - 1 THEN Data(p, k * Units + x)
                  ELSE IF k = size \div Units THEN s.sector[b][x] ELSE Zero]
    IN  WriteSector(s, b, new)

\* file_write: count units at the end of the file, wherever fd_pos is
FileWrite(s, h, p, count) ==
    LET size == s.open[h].size
        has == size \div Units + 1
        will == (size + count) \div Units + 1
        t == Require(IF s.open[h].sec[0] = Zero THEN FirstBlock(s, h) ELSE s,
                    will <= Limit, "limit")
        b == FreeBlock(t)
        tabled == IF has <= Direct /\ will > Direct
                  THEN SetBlock(Require(BlockAlloc(t), t.open[h].sec[Direct] = Zero, "assert"),
                                h, Direct, b)
                  ELSE Require(t, has <= Direct \/ t.open[h].sec[Direct] # Zero, "assert")
        grown == FoldLeft(LAMBDA r, k : GrowBlock(r, h, k),
                          [s |-> tabled,
                           table |-> IF has > Direct THEN s.sector[s.open[h].sec[Direct]]
                                     ELSE ZeroSector],
                          Ints(has, will - 1))
        u == IF will > has /\ will > Direct
             THEN WriteSector(grown.s, grown.s.open[h].sec[Direct], grown.table)
             ELSE grown.s
        at(k) == IF k < Direct THEN u.open[h].sec[k] ELSE grown.table[k - Direct]
        v == FoldLeft(LAMBDA r, k : WriteChunk(r, p, at(k), k, size, count), u,
                      Ints(size \div Units, (size + count - 1) \div Units))
    IN  IF ~Runs(tabled) THEN tabled
        ELSE IF ~Runs(u) THEN u ELSE InodeSync(AddSize(v, h, count), h)

\* file_read: up to count units from pos on
ReadSize(s, h, pos, count) ==
    IF pos + count > s.open[h].size THEN s.open[h].size - pos ELSE count
ReadAsserts(s, h, pos, n) ==
    /\ pos \div Units < Limit - 1 /\ (pos + n) \div Units < Limit - 1
    /\ (pos + n) \div Units >= Direct => s.open[h].sec[Direct] # Zero
\* Mutant: the block is looked up once and not for every piece.
FileReadOneBlock(s, h, pos, n) ==
    [o \in 1..n |-> s.sector[Blocks(s, s.open[h])[pos \div Units]][(pos + o - 1) % Units]]
FileRead(s, h, pos, n) ==
    [o \in 1..n |-> LET b == Blocks(s, s.open[h])[(pos + o - 1) \div Units]
                    IN  s.sector[b][(pos + o - 1) % Units]]

-----------------------------------------------------------------------------
(***************************************************************************)
(* Calls.  One that returns -1 without a write leaves everything as it was *)
(* and is not an action.  Bounds: one file and one directory are open at a *)
(* time; MaxOpen, MaxCalls.                                                *)
(***************************************************************************)
Idle == /\ pending = <<>> /\ req = NoCall /\ halt = ""
        /\ ~lost \/ "use_torn" \in Habit

\* Memory after the call, its writes, and what it is for
Begin(s, r) ==
    /\ bmap' = s.bmap /\ imap' = s.imap /\ open' = s.open /\ halt' = s.halt
    /\ pending' = s.log
    /\ req' = IF s.log = <<>> THEN NoCall ELSE r
    /\ calls' = calls + (IF r # NoCall THEN 1 ELSE 0)
    /\ calls' <= MaxCalls
    /\ UNCHANGED <<disk, tree, power>>
Then(s, new, old) == IF Runs(s) THEN new ELSE old

Missing(r, p) == r.no = -1 /\ r.depth = Len(p)
InUse(i) == fd # NoCall /\ open[fd.inode].no = i    \* some entry of file_table shows it
RoomToOpen(i) == \A h \in Listed(Now, i) \ {RootInode} : open[h].cnt < MaxOpen

\* sys_open with O_CREAT, and file_create
FileCreate(s, up, n) ==
    LET i == FreeInode(s)
        h == ParentStruct(s, up)
        t == SyncDirEntry(InodeAlloc(ParentOpen(s, up)), h, Entry(n, i, "file"))
        u == SyncInodeMap(SyncInode(InodeSync(t, h), NewInode(i)), i)
    IN  IF ~Runs(t) THEN t ELSE ParentClose(ListPush(u, NewInode(i)), up, h)
Create(p) ==
    LET r == SearchFile(Now, p)
        s == FileCreate(Now, r.up, Last(p))
    IN  /\ Idle /\ fd = NoCall /\ dir = NoCall /\ Missing(r, p)
        /\ Begin(s, [op |-> "create", path |-> p])
        /\ fd' = Then(s, [inode |-> Fresh(ParentOpen(Now, r.up)), path |-> p], fd)
        /\ UNCHANGED <<dir, cwd>>

\* sys_open of a file that exists.  The parent directory is not closed.
OpenFile(p) ==
    LET r == SearchFile(Now, p)
        s == ParentOpen(Now, r.up)
    IN  /\ Idle /\ fd = NoCall /\ dir = NoCall /\ Found(r, p, "file")
        /\ RoomToOpen(r.up)
        /\ Begin(InodeOpen(s, r.no), NoCall)
        /\ fd' = [inode |-> Struct(s, r.no), path |-> p]
        /\ UNCHANGED <<dir, cwd>>

CloseFile ==
    /\ Idle /\ fd # NoCall
    /\ Begin(InodeClose(Now, fd.inode), NoCall)
    /\ fd' = NoCall /\ UNCHANGED <<dir, cwd>>

\* sys_write to a file.  fd_pos, which only reads use, is not kept: what a read
\* returns is asked for every position.
WriteFile(count) ==
    LET size == open[fd.inode].size
        s == FileWrite(Now, fd.inode, fd.path, count)
    IN  /\ Idle /\ fd # NoCall /\ size + count <= Units * Limit
        /\ Begin(s, [op |-> "write", path |-> fd.path,
                     data |-> [o \in 1..size + count |-> Data(fd.path, o - 1)]])
        /\ UNCHANGED user

\* sys_unlink.  The depth is not tested: a path that goes on below a file is taken
\* for the file.
Unlink(p) ==
    LET r == SearchFile(Now, p)
        h == ParentStruct(Now, r.up)
        s == InodeRelease(DeleteDirEntry(ParentOpen(Now, r.up), h, r.no), r.no)
    IN  /\ Idle /\ r.type = "file" /\ ~InUse(r.no)
        /\ r.depth = Len(p) \/ "through_file" \in Habit
        /\ Begin(ParentClose(s, r.up, h), [op |-> "unlink", path |-> p])
        /\ UNCHANGED user

Mkdir(p) ==
    LET r == SearchFile(Now, p)
        s == ParentOpen(Now, r.up)
        h == ParentStruct(Now, r.up)
        i == FreeInode(s)
        b == FreeBlock(s)
        t == BlockAlloc(InodeAlloc(s))
        u == WriteSector(SyncBlockMap(Require(t, b # 0, "assert"), b), b, Dots(i, s.open[h].no))
        v == InodeSync(SyncDirEntry(u, h, Entry(Last(p), i, "dir")), h)
        w == SyncInodeMap(SyncInode(v, DirInode(i, b)), i)
    IN  /\ Idle /\ Missing(r, p)
        /\ Begin(IF ~Runs(t) THEN t ELSE ParentClose(w, r.up, h), [op |-> "mkdir", path |-> p])
        /\ UNCHANGED user

\* sys_rmdir, dir_is_empty and dir_remove.  Without the habit, processes leave alone
\* a directory that is open or is their cwd: sys_rmdir does not ask.
Rmdir(p) ==
    LET r == SearchFile(Now, p)
        h == ParentStruct(Now, r.up)
        up == ParentOpen(Now, r.up)
        c == Struct(up, r.no)
        s == InodeOpen(up, r.no)
        no == s.open[c].no
        t == Require(s, \A k \in 1..Direct : s.open[c].sec[k] = Zero, "assert")
        u == InodeRelease(DeleteDirEntry(t, h, no), no)
    IN  /\ Idle /\ Found(r, p, "dir") /\ s.open[c].size = 2
        /\ (Listed(Now, r.no) = {} /\ cwd # r.no) \/ "remove_used" \in Habit
        /\ Begin(ParentClose(InodeClose(u, c), r.up, h), [op |-> "rmdir", path |-> p])
        /\ UNCHANGED user

\* sys_opendir and sys_closedir below the root.  sys_readdir and sys_rewinddir move
\* dir_pos, which no other call reads: DirRead is what they return.
OpenDir(p) ==
    LET r == SearchFile(Now, p)
    IN  /\ Idle /\ fd = NoCall /\ dir = NoCall /\ Found(r, p, "dir")
        /\ RoomToOpen(r.no)
        /\ Begin(InodeOpen(Now, r.no), NoCall)
        /\ dir' = Struct(Now, r.no) /\ UNCHANGED <<fd, cwd>>
CloseDir ==
    /\ Idle /\ dir # NoCall
    /\ Begin(InodeClose(Now, dir), NoCall)
    /\ dir' = NoCall /\ UNCHANGED <<fd, cwd>>

Chdir(p) ==
    LET r == SearchFile(Now, p)
    IN  /\ Idle /\ (p = <<>> \/ Found(r, p, "dir"))
        /\ cwd' = r.no
        /\ UNCHANGED <<disk, tree, memory, fd, dir, pending, req, power, calls>>

-----------------------------------------------------------------------------
(***************************************************************************)
(* The disk                                                                *)
(***************************************************************************)
WithBits(map, k, bits) == {x \in map : x \div BitsPerSector # k} \cup bits

\* The next sector of the call's ide_writes reaches the disk.
DiskWrite ==
    LET w == Head(pending)
        last == Len(pending) = 1 /\ halt = ""
    IN  /\ pending # <<>>
        /\ pending' = Tail(pending)
        /\ sector' = IF w.to = "sector" THEN [sector EXCEPT ![w.at] = w.val] ELSE sector
        /\ itable' = IF w.to = "inode" THEN [itable EXCEPT ![w.at] = w.val] ELSE itable
        /\ dbmap' = IF w.to = "bmap" THEN WithBits(dbmap, w.at, w.val) ELSE dbmap
        /\ dimap' = IF w.to = "imap" THEN WithBits(dimap, w.at, w.val) ELSE dimap
        /\ tree' = IF lost THEN tree ELSE DiskTree(DiskView(sector', itable', dbmap', dimap'))
        /\ req' = IF last THEN NoCall ELSE req
        /\ UNCHANGED <<memory, user, power, calls>>

\* The power fails, and the next mount_partition and open_root_dir
PowerFail ==
    /\ req # NoCall /\ halt = "" => cuts < MaxCuts
    /\ bmap' = dbmap /\ imap' = dimap
    /\ open' = Mounted(itable)
    /\ fd' = NoCall /\ dir' = NoCall /\ cwd' = Root
    /\ pending' = <<>> /\ halt' = ""
    /\ cuts' = cuts + (IF req = NoCall THEN 0 ELSE 1)
    /\ lost' = (lost \/ \E p \in Path : tree[p] = Torn)
    /\ req' = NoCall
    /\ UNCHANGED <<disk, tree, calls>>

Next ==
    \/ \E p \in Path : \/ Create(p) \/ OpenFile(p) \/ Unlink(p) \/ Mkdir(p) \/ Rmdir(p)
                       \/ OpenDir(p)
    \/ \E p \in Path \cup {<<>>} : Chdir(p)
    \/ \E n \in Counts : WriteFile(n)
    \/ CloseFile \/ CloseDir
    \/ DiskWrite \/ PowerFail

Spec == Init /\ [][Next]_vars

-----------------------------------------------------------------------------
(***************************************************************************)
(* Properties                                                              *)
(***************************************************************************)

\* Every variable has its type.
TypeOK ==
    LET block == Block \cup {Zero}
        inode == [no : Ino, size : 0..Units * Limit, sec : [0..Direct -> block]]
    IN  /\ DOMAIN sector = Block /\ itable \in [Ino -> inode]
        /\ dbmap \subseteq Block /\ bmap \subseteq Block
        /\ dimap \subseteq Ino /\ imap \subseteq Ino
        /\ RootInode \in DOMAIN open
        /\ \A h \in DOMAIN open : OnDisk(open[h]) \in inode /\ open[h].cnt \in 1..MaxOpen + 1
        /\ dir \in DOMAIN open \cup {NoCall} /\ cwd \in Ino /\ lost \in BOOLEAN
        /\ halt \in {"", "full", "limit", "assert", "entries", "i_no", "loop"}

Tree == INSTANCE FileTree

\* The disk implements a tree of names.  A call takes effect in its writes, one name
\* at a time, and while it does so the name may be torn.  A power failure leaves the
\* tree as it was before or as it is after the call, and calls go on, unless the name
\* is torn: nothing is promised then (the order of writes in file_create, sys_mkdir,
\* file_write and delete_dir_entry).
ImplementsTree == Tree!TreeSpec

\* The inodes of the names on the disk, and the blocks each one has
Named == {p \in Path : tree[p] # Absent}
InodeOf(p) == SearchFile(Disk, p).no
Whole == {Root} \cup {InodeOf(p) : p \in {q \in Named : tree[q] # Torn}}
Owned(inode) == {b \in {inode.sec[Direct]} \cup Range(Blocks(Disk, inode)) : b # Zero}
Held(i) == Cardinality({k \in 0..Direct : itable[i].sec[k] # Zero})
           + Cardinality({k \in Direct..Limit - 1 : Blocks(Disk, itable[i])[k] # Zero})

\* Until a power failure has left a torn name, no two names share a block or an
\* inode, at any moment and in any call, before and after power failures.  What the
\* whole ones have is marked as used, so that later calls do not give it away, except
\* the block that delete_dir_entry frees before it writes the parent's inode.  Torn
\* can only be the name the call in progress is about, and in file_write only when
\* its inode is in two sectors.
SafeOnDisk ==
    ~lost =>
        /\ \A p, q \in Named : p # q => InodeOf(p) # InodeOf(q)
        /\ \A i \in Whole :
              /\ i \in dimap /\ itable[i].no = i
              /\ Cardinality(Owned(itable[i])) = Held(i)
              /\ \A j \in Whole \ {i} : Owned(itable[i]) \cap Owned(itable[j]) = {}
              /\ \/ Owned(itable[i]) \subseteq dbmap
                 \/ /\ req # NoCall /\ req.op \in {"unlink", "rmdir"} /\ tree[req.path] = Torn
                    /\ i = InodeOf(Front(req.path))
        /\ \A p \in Named :
              tree[p] = Torn => /\ req # NoCall /\ p = req.path
                                /\ req.op = "write" => TwoSec(InodeOf(p))

\* Between calls nothing is stale: the bitmaps in memory are the ones on disk and
\* cover what is in use, an inode is in memory at most once and is the one on disk,
\* the size of a directory counts its entries, and a file has the blocks file_write
\* and file_read compute from its size.  As long as no call has been cut off nothing
\* is lost either; after that, bits may stay set, a directory may count an entry too
\* many (it can then not be removed), and an indirect table may have spare blocks.
Exact ==
    Idle /\ ~lost =>
        LET blocks == UNION {Owned(itable[i]) : i \in Whole}
        IN  /\ blocks \subseteq bmap /\ Whole \subseteq imap /\ dbmap = bmap /\ dimap = imap
            /\ cuts = 0 => bmap = blocks /\ imap = Whole
            /\ \A h \in DOMAIN open :
                  /\ open[h].no \in Whole /\ OnDisk(open[h]) = itable[open[h].no]
                  /\ \A g \in DOMAIN open : open[g].no = open[h].no => g = h
            /\ \A p \in Named :
                  LET inode == itable[InodeOf(p)]
                      entries == Cardinality(Used(Disk, inode))
                      has == inode.size \div Units + 1
                      will_have == IF inode.sec[0] = Zero THEN 0
                                   ELSE IF has > Direct THEN has + 1 ELSE has
                  IN  IF tree[p] = Directory
                      THEN inode.size >= entries /\ (cuts = 0 => inode.size = entries)
                      ELSE /\ Held(inode.no) >= will_have
                           /\ cuts = 0 \/ has <= Direct => Held(inode.no) = will_have

\* No sequence of calls, with power failures that leave no torn name, makes an ASSERT
\* fail other than the known limits: a bitmap without a free bit (bitmap_scan) and a
\* write that fills the last block of a file (file.c:326).  The instance has no
\* directory so large that it needs its indirect table, where delete_dir_entry does
\* not come to an end (dir.c:334).
StopsAtLimits ==
    ~lost =>
        /\ halt \in {"", "full", "limit"}
        /\ halt = "full" => bmap = Block \/ imap = Ino
        /\ halt = "limit" => \E n \in Counts : open[fd.inode].size + n = Units * Limit

\* What calls return is what the tree holds: a read from any position that does not
\* reach the last block (file.c:522 stops there), the entries of sys_readdir (each
\* once), the path sys_getcwd finds for a directory.
AnswersRight ==
    Idle /\ ~lost =>
        /\ fd # NoCall =>
              \A pos \in 0..open[fd.inode].size, count \in Counts :
                 LET n == ReadSize(Now, fd.inode, pos, count)
                 IN  (pos + n) \div Units < Limit - 1 =>
                        /\ ReadAsserts(Now, fd.inode, pos, n)
                        /\ FileRead(Now, fd.inode, pos, n) = SubSeq(tree[fd.path], pos + 1, pos + n)
        /\ \A p \in Path :
              LET inode == Inode(Now, InodeOf(p))
                  read == [k \in 0..inode.size - 1 |-> DirRead(Now, inode, k)]
                  answers == {k \in DOMAIN read : read[k] # NoCall}
              IN  tree[p] = Directory =>
                    /\ Getcwd(Now, inode.no) = p
                    /\ {read[k].name : k \in answers} =
                          {".", ".."} \cup {n \in Name : /\ Append(p, n) \in Path
                                                         /\ tree[Append(p, n)] # Absent}
                    /\ \A j, k \in answers : read[j] = read[k] => j = k

\* The next four are what the code says of itself and does not keep.

\* "Reset the valid bits of the last byte" (fs.c:130): the bitmaps give away blocks of
\* the partition only.
BlocksInPartition == bmap \subseteq 0..BlockCount - 1

\* inode_release opens the inode it was asked for (the ASSERT at inode.c:192), also on
\* a disk that a power failure has left with a torn name.
ReleasesItsInode == halt # "i_no"

\* An inode has one entry in a directory (the ASSERT at dir.c:299), also on a disk
\* that a power failure has left with a torn name.
OneEntry == halt # "entries"

\* The working directory has a first block, where sys_getcwd looks for its parent (the
\* ASSERT at fs.c:795), also when processes remove a directory that is in use.
CwdHasBlock == Idle => Inode(Now, cwd).sec[0] # Zero
=============================================================================
