-------------------------------- MODULE Files --------------------------------
(***************************************************************************)
(* Open files: the descriptors of the processes, the global file_table     *)
(* (fs/file.c), the list of inodes in memory (fs/inode.c) and the calls    *)
(* that tie them together: open, create, close, pipe, fork and exit.       *)
(*                                                                         *)
(* A call runs with interrupts off and gives the CPU away only where it    *)
(* waits for the disk.  What it does between two such points is one step,  *)
(* and between its steps other processes take theirs.                      *)
(*                                                                         *)
(* Use of a NULL or wild pointer sets fault, after which nothing is        *)
(* claimed.                                                                *)
(***************************************************************************)
EXTENDS Lists, Integers, FiniteSets

CONSTANTS
    Proc, First,    \* the processes, and the one that runs at first
    File,           \* inode numbers
    MAX_FILE_OPEN, MAX_FILES_OPEN_PER_PROC,     \* the sizes of file_table and fd_table
    Page,           \* the memory sys_malloc returns for an inode
    NULL, Ring,     \* a null pointer, and the page of a pipe
    Habit           \* what processes do: "overlap" their calls, "fork" with
                    \* files open

ASSUME FilesAssumption ==
    /\ First \in Proc /\ IsFiniteSet(Proc)
    /\ MAX_FILE_OPEN \in Nat /\ MAX_FILES_OPEN_PER_PROC \in Nat
    /\ {NULL, Ring} \cap (Page \cup File) = {} /\ NULL # Ring
    /\ Habit \subseteq {"overlap", "fork"}

VARIABLES
    exists,         \* the files that have a directory entry
    table,          \* file_table: inode, whether opened for writing, and for a
                    \* pipe fd_pos, which counts its descriptors
    inode,          \* what is in each page: i_no, i_open_cnts, write_deny
    open_inodes,    \* cur_part->open_inodes
    fd,             \* fd_table of each process; -1 is free
    alive,          \* the processes that exist
    pc, req,        \* where a process waits for the disk, and its local variables
    opened,         \* per descriptor, the file the process has asked for
    fault           \* the kernel has used a wild pointer

vars == <<exists, table, inode, open_inodes, fd, alive, pc, req, opened, fault>>

\* The indices above those of the standard streams.
Slot == 3..MAX_FILE_OPEN - 1
Local == 3..MAX_FILES_OPEN_PER_PROC - 1

FreeEntry == [inode |-> NULL, write |-> FALSE, pipe |-> FALSE, pos |-> 0]
Unused == [no |-> NULL, cnt |-> 0, deny |-> FALSE]
NoReq == [slot |-> -1, file |-> NULL, write |-> FALSE, page |-> NULL]

Init ==
    /\ exists \in SUBSET File
    /\ table = [g \in Slot |-> FreeEntry]
    /\ inode = [c \in Page |-> Unused]
    /\ open_inodes = <<>>
    /\ fd = [p \in Proc |-> [l \in Local |-> -1]]
    /\ alive = {First}
    /\ pc = [p \in Proc |-> "user"]
    /\ req = [p \in Proc |-> NoReq]
    /\ opened = [p \in Proc |-> [l \in Local |-> NULL]]
    /\ fault = FALSE

Listed(c) == Find(open_inodes, c)
Referred(c) == \E g \in Slot : table[g].inode = c

\* Mutant: get_free_slot_in_global does not look whether an entry is in use.
AnySlot == Slot

\* get_free_slot_in_global and the loop of pcb_fd_install: the lowest free index
FreeSlots == {g \in Slot : table[g].inode = NULL}
FreeFds(p) == {l \in Local : fd[p][l] = -1}
Lowest(S) == CHOOSE n \in S : \A k \in S : n <= k

\* The process has the CPU and is in its call at l.
Runs(p, l) ==
    /\ ~fault /\ p \in alive /\ pc[p] = l
    /\ "overlap" \notin Habit => \A q \in Proc \ {p} : pc[q] = "user"

\* pcb_fd_install(g) by process p for the given file; without a free index the
\* entry of file_table stays as it is.
Install(p, g, file) ==
    IF FreeFds(p) = {} THEN UNCHANGED <<fd, opened>>
    ELSE /\ fd' = [fd EXCEPT ![p][Lowest(FreeFds(p))] = g]
         /\ opened' = [opened EXCEPT ![p][Lowest(FreeFds(p))] = file]

\* file_open once the inode is in memory: pages gives the inodes after
\* inode_open.  A second writer gets -1 and leaves the entry behind.
FileOpen(p, g, c, write, pages) ==
    /\ table' = [table EXCEPT ![g] = [FreeEntry EXCEPT !.inode = c, !.write = write]]
    /\ inode' = [pages EXCEPT ![c].deny = @ \/ write]
    /\ IF write /\ pages[c].deny THEN UNCHANGED <<fd, opened>>
       ELSE Install(p, g, pages[c].no)

\* sys_open of a file that exists and whose inode is in open_inodes
OpenCached(p, i, write) ==
    /\ Runs(p, "user") /\ i \in exists /\ FreeSlots # {}
    /\ LET hits == {c \in Page : Listed(c) /\ inode[c].no = i}
           c == Traversal(open_inodes, hits)
       IN  /\ hits # {}
           /\ FileOpen(p, Lowest(FreeSlots), c, write,
                       [inode EXCEPT ![c].cnt = @ + 1])
    /\ UNCHANGED <<exists, open_inodes, alive, pc, req, fault>>

\* Mutant: inode_open does not search the list.
OpenUnsearched(p, i, write) ==
    /\ Runs(p, "user") /\ i \in exists /\ FreeSlots # {}
    /\ pc' = [pc EXCEPT ![p] = "reading"]
    /\ req' = [req EXCEPT ![p] = [NoReq EXCEPT !.slot = Lowest(FreeSlots),
                                               !.file = i, !.write = write]]
    /\ UNCHANGED <<exists, table, inode, open_inodes, fd, alive, opened, fault>>

\* The inode is not in the list: inode_open reads it, with the entry of
\* file_table chosen but not yet taken.
OpenMissing(p, i, write) ==
    /\ Runs(p, "user") /\ i \in exists /\ FreeSlots # {}
    /\ \A c \in Page : Listed(c) => inode[c].no # i
    /\ pc' = [pc EXCEPT ![p] = "reading"]
    /\ req' = [req EXCEPT ![p] = [NoReq EXCEPT !.slot = Lowest(FreeSlots),
                                               !.file = i, !.write = write]]
    /\ UNCHANGED <<exists, table, inode, open_inodes, fd, alive, opened, fault>>

\* The inode has been read; it goes to the front of the list.
OpenRead(p, c) ==
    /\ Runs(p, "reading") /\ ~Listed(c) /\ ~Referred(c)
    /\ open_inodes' = Push(open_inodes, c)
    /\ FileOpen(p, req[p].slot, c, req[p].write,
                [inode EXCEPT ![c] = [no |-> req[p].file, cnt |-> 1, deny |-> FALSE]])
    /\ pc' = [pc EXCEPT ![p] = "user"]
    /\ req' = [req EXCEPT ![p] = NoReq]
    /\ UNCHANGED <<exists, alive, fault>>

\* file_create takes an entry and a page, then writes the directory ...
Create(p, i, c) ==
    /\ Runs(p, "user") /\ i \notin exists /\ FreeSlots # {}
    /\ ~Listed(c) /\ ~Referred(c)
    /\ \A q \in Proc : pc[q] \in {"linking", "syncing"} => req[q].file # i
    /\ LET g == Lowest(FreeSlots)
       IN  /\ table' = [table EXCEPT ![g] = [FreeEntry EXCEPT !.inode = c,
                                                              !.write = TRUE]]
           /\ req' = [req EXCEPT ![p] = [slot |-> g, file |-> i, write |-> TRUE,
                                         page |-> c]]
    /\ inode' = [inode EXCEPT ![c] = [no |-> i, cnt |-> 0, deny |-> FALSE]]
    /\ pc' = [pc EXCEPT ![p] = "linking"]
    /\ UNCHANGED <<exists, open_inodes, fd, alive, opened, fault>>

\* ... sync_dir_entry is done, the inodes and the bitmap are still to be written ...
CreateLinked(p) ==
    /\ Runs(p, "linking")
    /\ exists' = exists \cup {req[p].file}
    /\ pc' = [pc EXCEPT ![p] = "syncing"]
    /\ UNCHANGED <<table, inode, open_inodes, fd, alive, req, opened, fault>>

\* ... and only now is the inode in the list.
CreateDone(p) ==
    /\ Runs(p, "syncing")
    /\ open_inodes' = Push(open_inodes, req[p].page)
    /\ inode' = [inode EXCEPT ![req[p].page].cnt = 1]
    /\ Install(p, req[p].slot, req[p].file)
    /\ pc' = [pc EXCEPT ![p] = "user"]
    /\ req' = [req EXCEPT ![p] = NoReq]
    /\ UNCHANGED <<exists, table, alive, fault>>

(***************************************************************************)
(* sys_close of the descriptors ls of p, in increasing order, as the state *)
(* [table, inode, open, fault] it leaves.                                  *)
(***************************************************************************)
State(tab, ino, opn, wild) == [table |-> tab, inode |-> ino, open |-> opn, fault |-> wild]

CloseOne(s, g) ==
    LET e == s.table[g]
        c == e.inode
        cnt == s.inode[c].cnt - 1
    IN  IF c = NULL THEN State(s.table, s.inode, s.open, TRUE)
        ELSE IF e.pipe
        THEN State([s.table EXCEPT ![g] = IF e.pos = 1 THEN FreeEntry
                                          ELSE [e EXCEPT !.pos = @ - 1]],
                   s.inode, s.open, s.fault)
        ELSE State([s.table EXCEPT ![g] = FreeEntry],
                   [s.inode EXCEPT ![c] = IF cnt = 0 THEN Unused
                                          ELSE [@ EXCEPT !.cnt = cnt, !.deny = FALSE]],
                   IF cnt = 0 THEN Remove(s.open, c) ELSE s.open, s.fault)

\* One turn of the loop of release_proc_resource.
CloseNext(p, ls, s, l) ==
    IF l \in ls /\ ~s.fault THEN CloseOne(s, fd[p][l]) ELSE s

CloseAll(p, ls) ==
    LET after[n \in Nat] ==         \* when local_fd has become n
            IF n = 0 THEN State(table, inode, open_inodes, FALSE)
            ELSE CloseNext(p, ls, after[n - 1], n - 1)
    IN  after[MAX_FILES_OPEN_PER_PROC]

Close(p, ls) ==
    LET s == CloseAll(p, ls)
    IN  /\ table' = s.table /\ inode' = s.inode /\ open_inodes' = s.open
        /\ fault' = s.fault
        /\ fd' = [fd EXCEPT ![p] = [l \in Local |-> IF l \in ls THEN -1 ELSE @[l]]]
        /\ opened' = [opened EXCEPT ![p] = [l \in Local |->
                                            IF l \in ls THEN NULL ELSE @[l]]]

\* sys_close of a descriptor that is open
SysClose(p, l) ==
    /\ Runs(p, "user") /\ fd[p][l] # -1
    /\ Close(p, {l})
    /\ UNCHANGED <<exists, alive, pc, req>>

\* sys_exit, through release_proc_resource
SysExit(p) ==
    /\ Runs(p, "user") /\ p # First
    /\ Close(p, Local \ FreeFds(p))
    /\ alive' = alive \ {p}
    /\ UNCHANGED <<exists, pc, req>>

\* update_inode_open_cnts in sys_fork: the child shares the entries of file_table.
SysFork(p, q) ==
    /\ Runs(p, "user") /\ q \notin alive
    /\ "fork" \in Habit \/ FreeFds(p) = Local
    /\ LET used(g) == Cardinality({l \in Local : fd[p][l] = g})
       IN  /\ table' = [g \in Slot |-> IF table[g].pipe
                                       THEN [table[g] EXCEPT !.pos = @ + used(g)]
                                       ELSE table[g]]
           /\ inode' = [c \in Page |->
                  [inode[c] EXCEPT !.cnt = @ + Cardinality({l \in Local :
                      /\ fd[p][l] # -1
                      /\ table[fd[p][l]].inode = c /\ ~table[fd[p][l]].pipe})]]
    /\ fault' = (\E l \in Local : fd[p][l] # -1 /\ table[fd[p][l]].inode = NULL
                                                /\ ~table[fd[p][l]].pipe)
    /\ fd' = [fd EXCEPT ![q] = fd[p]]
    /\ opened' = [opened EXCEPT ![q] = opened[p]]
    /\ alive' = alive \cup {q}
    /\ UNCHANGED <<exists, open_inodes, pc, req>>

\* Mutant: sys_pipe counts one descriptor.
PipeCountsOne(p) ==
    /\ Runs(p, "user") /\ Cardinality(FreeFds(p)) >= 2 /\ FreeSlots # {}
    /\ LET g == Lowest(FreeSlots)
           one == Lowest(FreeFds(p))
           two == {one, Lowest(FreeFds(p) \ {one})}
       IN  /\ table' = [table EXCEPT ![g] = [FreeEntry EXCEPT
                            !.inode = Ring, !.pipe = TRUE, !.pos = 1]]
           /\ fd' = [fd EXCEPT ![p] = [l \in Local |-> IF l \in two THEN g ELSE @[l]]]
           /\ opened' = [opened EXCEPT ![p] = [l \in Local |->
                                         IF l \in two THEN Ring ELSE @[l]]]
    /\ UNCHANGED <<exists, inode, open_inodes, alive, pc, req, fault>>

\* sys_pipe, which does not look whether its descriptors could be installed.  The
\* bound is that file_table has a free entry: without one the code writes to the
\* entry -1.
SysPipe(p) ==
    /\ Runs(p, "user") /\ FreeSlots # {}
    /\ LET g == Lowest(FreeSlots)
           one == IF FreeFds(p) = {} THEN {} ELSE {Lowest(FreeFds(p))}
           rest == FreeFds(p) \ one
           two == IF rest = {} THEN one ELSE one \cup {Lowest(rest)}
       IN  /\ table' = [table EXCEPT ![g] = [FreeEntry EXCEPT
                            !.inode = Ring, !.pipe = TRUE, !.pos = 2]]
           /\ fd' = [fd EXCEPT ![p] = [l \in Local |-> IF l \in two THEN g ELSE @[l]]]
           /\ opened' = [opened EXCEPT ![p] = [l \in Local |->
                                         IF l \in two THEN Ring ELSE @[l]]]
    /\ UNCHANGED <<exists, inode, open_inodes, alive, pc, req, fault>>

Next ==
    \E p \in Proc :
        \/ \E i \in File, write \in BOOLEAN : OpenCached(p, i, write)
                                            \/ OpenMissing(p, i, write)
        \/ \E c \in Page : OpenRead(p, c)
        \/ \E i \in File, c \in Page : Create(p, i, c)
        \/ CreateLinked(p) \/ CreateDone(p)
        \/ \E l \in Local : SysClose(p, l)
        \/ SysExit(p) \/ SysPipe(p)
        \/ \E q \in Proc : SysFork(p, q)

Spec == Init /\ [][Next]_vars

-----------------------------------------------------------------------------
TypeOK ==
    /\ exists \subseteq File
    /\ table \in [Slot -> [inode : Page \cup {NULL, Ring}, write : BOOLEAN,
                           pipe : BOOLEAN, pos : Nat]]
    /\ inode \in [Page -> [no : File \cup {NULL}, cnt : Nat, deny : BOOLEAN]]
    /\ open_inodes \in Seq(Page)
    /\ fd \in [Proc -> [Local -> Slot \cup {-1}]]
    /\ opened \in [Proc -> [Local -> File \cup {NULL, Ring}]]
    /\ alive \subseteq Proc
    /\ fault \in BOOLEAN

\* The descriptors that are open, as pairs of process and index.
OpenFds == {x \in Proc \X Local : x[1] \in alive /\ fd[x[1]][x[2]] # -1}
Entry(x) == table[fd[x[1]][x[2]]]

\* "Opens the file of inode inode_no and returns its descriptor" (the comment on
\* file_open): a descriptor shows the file it was opened for as long as it is open,
\* whatever other processes open and close meanwhile.
FdShowsFile ==
    \A x \in OpenFds :
        LET e == Entry(x)
        IN  IF opened[x[1]][x[2]] = Ring THEN e.pipe /\ e.inode = Ring
            ELSE e.inode \in Page /\ inode[e.inode].no = opened[x[1]][x[2]]

\* "The inode is shared by all processes" (the comment in inode_open): a file has
\* one inode in memory, so that its size and its writer are known to everybody.
OneCopy ==
    \A j, k \in 1..Len(open_inodes) :
        inode[open_inodes[j]].no = inode[open_inodes[k]].no => j = k

\* i_open_cnts of an inode in the list is the number of entries that show it, and
\* an entry shows no inode that has been freed.
CountExact ==
    /\ \A k \in 1..Len(open_inodes) :
          inode[open_inodes[k]].cnt =
              Cardinality({g \in Slot : table[g].inode = open_inodes[k]})
    /\ \A g \in Slot : table[g].inode \in Page =>
          \/ Listed(table[g].inode)
          \/ \E p \in Proc : pc[p] \in {"linking", "syncing"} /\ req[p].slot = g

\* fd_pos of a pipe is never less than the number of descriptors on it, so that no
\* close but the last one frees its page.  (It is more, and the page is never
\* freed, where sys_pipe found no free descriptor.)
PipeCounted ==
    \A g \in Slot : table[g].inode = Ring =>
        table[g].pos >= Cardinality({x \in OpenFds : fd[x[1]][x[2]] = g})

\* No call uses the inode of an entry that another descriptor has closed.
NoFault == ~fault

\* The table of open files and the list of inodes agree: one inode in memory per
\* file, counted exactly, and none used after it has been freed.
FilesInv == TypeOK /\ OneCopy /\ CountExact /\ NoFault
==============================================================================
