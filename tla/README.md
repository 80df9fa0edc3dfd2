# A TLA+ model of the x86_system kernel

x86_system is a small 32-bit kernel for one processor: threads and processes, a
timer that preempts them, semaphores and re-entrant locks, a keyboard buffer and
pipes, an IDE driver, a file system and a shell. This directory holds TLA+
modules of the parts where the order of events decides whether the kernel works,
TLC configurations that check them, and TLAPS proofs about the scheduler, the
lock, the ring buffer, the disk driver, the processes and the open files. The file
system and the shell, which are sequential but long, are here too, as far as a power
failure, a long sequence of calls or an odd line can break them. `PROJECT.json` maps
every definition to the lines it models.

Run a check with `tlc -config X.cfg M` and a proof with `tlapm M.tla`; the table
of runs below says which module belongs to which configuration.

## 1. The system

| Part | State | Operations | Works with |
|---|---|---|---|
| scheduler (`thread/thread.c`) | running thread, `thread_ready_list`, `thread_all_list`, status and ticks of each PCB | `schedule`, `thread_start`, `thread_block`, `thread_unblock`, `thread_yield`, `thread_exit`, `idle` | everything that sleeps or wakes |
| timer (`dev/timer.c`) | `ticks` | tick handler, `mtime_sleep` | calls `schedule` |
| interrupts (`kern/interrupt.c`, `intr_entry.S`) | the flag IF, handler table | `intr_disable`, `intr_set_status`, gates | the only protection of kernel data |
| locks (`thread/sync.c`) | semaphore value and waiters, holder, `holder_repeat_nr` | `sema_down/up`, `lock_acquire/release` | scheduler; used by console, memory, disk, ring buffers |
| ring buffer (`dev/ioqueue.c`) | buffer, `head`, `tail`, `producer`, `consumer`, lock | `ioq_getchar`, `ioq_putchar` | keyboard handler, `sys_read`, pipes |
| pipes (`shell/pipe.c`) | a ring buffer in a `file_table` entry, descriptor count in `fd_pos` | `sys_pipe`, `pipe_read`, `pipe_write`, `sys_dup2` | open files, fork, exit |
| processes (`userproc/`) | PID pool, parent PIDs, exit status, names | `sys_fork`, `sys_execv`, `sys_exit`, `sys_wait` | scheduler, memory, open files |
| disk (`dev/ide.c`) | channel lock, `expecting_intr`, `disk_done` | `ide_read`, `ide_write`, interrupt handler | scheduler; every file system call blocks here |
| open files (`fs/file.c`, `fs/inode.c`, `fs/fs.c`) | `fd_table` of each process, `file_table`, `open_inodes`, `i_open_cnts`, `write_deny` | `sys_open`, `sys_close`, exit, fork | disk |
| file contents, directories (`fs/`) | inode and block bitmaps, directory entries, inodes and blocks on disk and their copies in memory | create, read, write, unlink, mkdir, rmdir, opendir, chdir, getcwd; mount and format | disk, open files |
| memory (`kern/memory.c`) | page pools, address bitmaps, arenas | `malloc_page`, `mfree_page`, `sys_malloc`, `sys_free` | locks, bitmaps |
| bitmaps, lists (`lib/kern/`) | | scan, set; push, append, remove | everywhere |
| shell (`shell/`) | `cmd_line`, `argv`, `cwd_cache`, standard input and output | `readline`, `cmd_parse`, pipelines, built-in commands | pipes, file system |
| console, keyboard decoding, boot | cursor, modifier keys | | |

What is hard about it:

* **Interrupts are the concurrency.** A system call enters through an interrupt
  gate, so it runs with interrupts off and gives the processor away only where it
  blocks: in a lock, on `disk_done`, in `ioq_wait`, in `busy_wait`, in
  `sys_wait`. Kernel threads run with interrupts on and can be preempted between
  any two instructions. The flag is saved and restored with each thread.
* **A test and the step that relies on it lie on two sides of a block** in
  `ioq_getchar`, `inode_open`, `file_open` and `sys_unlink`.
* **Wake-ups** come from interrupt handlers and from other threads, before or
  after the sleeper sleeps.
* **An ASSERT stops the machine**: it ends in an endless loop with interrupts
  off. An assertion that a legal sequence of calls can make false is a hang.
* **Shared entries**: fork makes parent and child share `file_table` entries.
* **A call is many disk writes**: create, mkdir, write and unlink change entries,
  inodes and two bitmaps one sector at a time, and there is no check of the disk at
  the next boot. What a power failure leaves is what later calls work on.

`PROJECT.json` lists 40 hazards of this kind, each at its line.

## 2. The modules

A step of a module is what the processor does between two points where something
else can happen: with interrupts off that is everything up to the next block,
with interrupts on it is one assignment. Definitions keep the names of the C
functions (`sema_down` becomes `SemaDown...`).

| Module | Models | State | Composes |
|---|---|---|---|
| `Scheduler` | what a scheduler promises: one runs, some may run, some sleep | `running`, `runnable`, `asleep` | |
| `Lists` | the linked lists of `list.c` as sequences | | used by `Threads`, `Files`, `Memory` |
| `Threads` | `thread.c`, the tick handler, the flag IF, `idle` | `cur`, `status`, `ready`, `ticks`, `intr`, `saved` (the flag each thread gets back), `idle_pc`, `panic` | implements `Scheduler` |
| `Sync` | one lock and its semaphore | `value`, `waiters`, `holder`, `repeat`, `pc` and `old` (the flag `sema_down` and `sema_up` restore) of each thread | `Threads` |
| `ByteQueue` | what a ring buffer promises: a bounded FIFO | `q`, `got` | |
| `IoQueue` | one ring buffer with the keyboard handler and `sys_read`, or with `pipe_write` and `pipe_read` | `buf`, `head`, `tail`, `producer`, `consumer`, the lock's semaphore, `pc`, `left` | `Threads`; implements `ByteQueue` |
| `Process` | fork, execv, exit, wait, PID pool, list of all threads | `pid`, `parent`, `name` (its length), `used`, `all_list`, `lost`, `leaked`, `pc` | `Threads` |
| `Ide` | one channel: `ide_read`, `ide_write`, the interrupt, the disk | lock, `done`, `done_waiters`, `expecting`, `disk`, `irq`, `pc`, `op`, `cmds` | `Threads` |
| `Files` | descriptors, `file_table`, open inodes: open, create, close, pipe, fork, exit | `fd`, `table`, `inode`, `open_inodes`, `pc`, `req`, ... | stands alone |
| `Memory` | the memory of user processes: malloc, free, fork, execv, exit | `pool`, `vused` (address bitmap), `pte`, `pde`, `arena`, `free` (free lists), `live`, `copied`, `fault` | stands alone |
| `FileTree` | what a file system promises: a tree of names that calls change one name at a time, when a power failure may leave a name torn, and that calls go on after it | `tree`, `req`, `lost` | |
| `FileSystem` | `file.c`, `dir.c`, `inode.c` and the calls of `fs.c` on a formatted partition | `sector`, `itable`, `dbmap`, `dimap` (disk); `bmap`, `imap`, `open` (memory); `fd`, `dir`, `cwd`; `pending` (writes of the call still to come), `halt`, `cuts`, `lost` | stands alone; implements `FileTree` |
| `Shell` | `readline`, `cmd_parse`, `my_shell`, the built-in commands and their paths | `buf`, `pos`, `typed`, `each_cmd`, `stage`, `fd_table`, `pipe`, `users`, `tree`, `cwd`, `cwd_cache`, `halt` | stands alone, on a tree as in `FileTree` |
| `ThreadsProofs`, `SyncProofs`, `IoQueueProofs`, `IdeProofs`, `ProcessProofs`, `FilesProofs`, `MemoryProofs`, `ShellProofs` | theorems | | each EXTENDS the module it is named for, those about threads `ThreadsProofs` too; each begins with the lemmas about lists that it uses |
| `MC...` | the instances TLC checks | | |

The modules that use the scheduler EXTEND `Threads` and call its operators
(`Block`, `Unblock`, `Schedule`), as the C code calls the functions, so an
interleaving is one that `schedule()` can produce. `Files` does not: its calls
differ only in where they wait for the disk, and any order of these waits is
possible, so its processes are interleaved freely at those points. The calls of
`Memory` do not block while they change its state, so each is one step.

`FileSystem` assumes what `Files` shows to be false in general: that the calls of
different processes do not overlap. Then a call is a function from the state it
finds to the memory it leaves and the list of its `ide_write`s, in the order of the
code; the writes reach the disk one sector at a time (`DiskWrite`), an inode that lies in
two sectors as two writes, and `PowerFail` may come between any two and mounts the disk
again; the calls that follow work on what it finds there. The helpers have the names and
the order of the C functions (`SyncDirEntry`, `InodeSync`, `SyncBlockMap`, ...).
An inode carries its own number, as `struct inode` does, on disk and in memory:
`inode_open` searches for it, `inode_sync` writes to where it says, and an inode that was
never written says 0.

Abstractions that matter:

* The ready list and all other lists are sequences. `list_find` before
  `list_append` is the ASSERT of the code and sets `panic` when it fails.
* In `IoQueue` and `Ide` a lock is its semaphore only. `Sync` shows, and
  `SyncProofs` proves, that holder and nesting count follow the semaphore.
* `pid_lock` is not modelled in `Process`: everything that takes it there has
  interrupts off and does not block while it holds it.
* PCB pages are the threads themselves: a page that is freed is a `DIED` thread,
  which a later fork takes again. Pages that a failed fork loses are in `lost`, or in
  `leaked` when they have no PID yet.
* `thread_exit` reads the PID from a PCB it has just unmapped. Whether this works depends
  on the TLB, so `SysWaitReap` and `SysWaitFaults` have both outcomes.
* The reads of `load` are a sleep in `Process` that the disk's interrupt, or another
  `load` that releases the channel, ends (`LoadBlock`, `LoadWake`), any number of times;
  in `Memory` they are the buffers that a read takes from the user's heap and gives back.
* Process names are lengths, because the only thing the kernel does with a name
  that can go wrong is to append to it.
* The disk and the interrupt controller are hardware. They are modelled from what
  the driver expects of them and are marked external in the map.
* A null or wild pointer in `Files` sets `fault`, after which nothing is claimed.
  So does everything in `Memory` that ends in a panic, a page fault or a list that
  is no longer one.
* In `Memory` a bitmap is the set of its set bits, a block is a page and an index,
  and a process is its PCB page, so the pointer of an arena to its descriptor is a
  process and a class. Sizes are sizes: which descriptor serves them and how many
  pages large memory takes is computed as the code does. `bitmap_scan` is the
  search of the code, byte by byte and then bit by bit.
* In `FileSystem` a sector holds a few units; an entry is a unit and so is a piece of
  a file, which carries the file and offset it was written for. The 12 direct blocks,
  128 indirect ones and 4096 inodes are constants. Positions (`fd_pos`, `dir_pos`)
  are not kept; `AnswersRight` asks for a read or an entry at every position instead.
* In `Shell` a character is a letter, a blank (`"sp"`) or a bar. Which command a word is and
  which path the next one is, is chosen when the command runs; paths are sequences of
  names and slashes, so that washing them is still a rewriting; the loops over a path
  and over the words of a command are recursive functions of the position. A file is the number
  of pieces written to it. The shell stops (`halt`) where the code fails an ASSERT,
  never returns or leaves an array.

## 3. Runs

| Run (cfg) | Distinct states | What it shows |
|---|---|---|
| `threads` (`Threads.cfg`, `MCThreads`) | 89,000 | five threads that block, wake, yield, start, exit and are preempted at will: the ready list is exactly the ready threads, no ASSERT fails, list order is kept, all of it implements `Scheduler`, and a ready thread gets the processor unless wake-ups never stop (`thread_unblock` pushes to the front, so endless wake-ups do starve others) |
| `sync` (`Sync.cfg`, `MCSync`) | 132,000 | one lock, nested, preempted anywhere: exclusion, no lost wake-up, holder and count agree with the threads; when somebody waits, somebody gets the lock. No more: a woken thread can be overtaken for ever by threads that never waited |
| `keyboard` (`Keyboard.cfg`, `MCIoQueue`) | 115,000 | keyboard buffer with two readers: no ASSERT fails, every sleeper stays recorded, no wake-up of the lock is lost |
| `pipe` (`Pipe.cfg`, `MCIoQueue`) | 10,200 | pipe with a writer and a reader: FIFO, the reader never blocks, the writer sleeps only while the pipe is full and is woken |
| `process` (`Process.cfg`, `MCProcess`) | 465,000 | fork and each of its failures, execv that sleeps and may fail, exit, wait, down to the last PID: list of threads, PIDs, parents, no missed exit; the only calls that stop the machine are a fork under too long a name, a fork without a free PID and a wait that finds the page of a PCB gone. Allowed to stop: a panic stops the machine |
| `process_liveness` (`Process_liveness.cfg`, `MCProcess`) | 13,000 | `sys_wait` comes back once a child has exited, unless the machine stops or wake-ups from the disk never end (they go to the front of the ready list) |
| `ide` (`Ide.cfg`, `MCIde`) | 13,100 | two threads on a channel: one command at a time, no interrupt lost, none counted for another, every transfer ends |
| `files` (`Files.cfg`, `MCFiles`) | 113,000 | calls that do not overlap and no fork with files open: descriptors, entries, inodes and counts agree |
| `files_overlap` (`Files_overlap.cfg`, `MCFiles`) | violation | two opens that overlap share an entry of `file_table` |
| `memory` (`Memory.cfg`, `MCMemory`) | 397,000 | two processes that malloc, free, fork, exec and exit: bitmaps, page tables and the pool agree, free lists and counts agree, no frame and no block is handed out twice, what a process holds stays its own; `bitmap_scan` finds the lowest run of free pages in every map the calls produce. Allowed to stop: a panic stops the machine |
| `filesystem` (`FileSystem.cfg`, `MCFileSystem`) | 91,100 | four calls that write, any others, a power failure between any two sectors that reach the disk, and the calls that follow it: the disk implements `FileTree`; as long as the failure has left no torn name, no two names share a block or an inode at any moment; between calls bitmaps, inodes and directories agree on disk and in memory, and nothing is lost if no call was cut off; reads, `sys_readdir` and `sys_getcwd` answer what the tree holds; only a full bitmap and a full file stop the kernel |
| `shell` (`Shell.cfg`, `MCShell`) | 101,000 | what is typed and edited is what runs; pipelines of one to three commands redirect and restore; every built-in command does what it says to the file its path means, in every directory and spelling. Allowed to stop where the shell does |

Every property of a passing run has a mutant in `PROJECT.json`: an operator next
to the original, marked "Mutant", with a plausible bug in it (a missing status
assignment, a test that is not repeated, a reset left out) that makes TLC report
the property.

### What the violations say

`files_overlap`: `file_open` takes its entry of `file_table` after the disk read
(`fs/file.c:223`), so two opens share one entry, against the comment above the
function. `PROJECT.json` quotes it under "findings".

Other disagreements the models show and that have no run of their own, with the
change that makes TLC report them. First what a power failure leaves behind:

* `file_create` and `sys_mkdir` write the directory entry before the inode it names
  (`fs/file.c:170-183`, `fs/fs.c:652-665`). A power failure in between leaves a name whose
  inode is all zeros, its number included: it opens as inode 0, and `sys_unlink` of it
  fails the ASSERT at `fs/inode.c:192`. A file that is opened so and written is synced over
  the inode of the root, and a directory of this kind has neither `.` nor `..`.
  `ReleasesItsInode` in `FileSystem.cfg` with `Habit = {"use_torn"}`, which lets calls go
  on with such a disk.
* The bit of the new inode is written last (`fs/file.c:185`). After a power failure before
  that the next create gives the inode to a second name, and `delete_dir_entry` fails its
  ASSERT on the second entry (`fs/dir.c:299`). `OneEntry` with `Habit = {"use_torn"}` and
  `Units = 4`, so that both entries are in one block.

Then what calls do without one:

* The loop that clears the valid bits of the last byte of the block bitmap clears one more
  (`fs/fs.c:132`), against its comments "what is past the sectors there are is marked as
  used" and "the valid bits of the last byte are reset" (`fs/fs.c:127`, `130`): the block
  behind the last one is given away. `Block` has it, because the code treats it like the
  others. `BlocksInPartition` in `FileSystem.cfg`.
* `sys_rmdir` does not ask whether the directory is in use; in a removed working directory
  `sys_getcwd` fails the ASSERT at `fs/fs.c:795`. `CwdHasBlock` with
  `Habit = {"remove_used"}`.
* `segment_load` takes the directory entry for the page table entry
  (`userproc/exec.c:82`), against its comment "if the pde or the pte is missing, memory is
  allocated". The page table of the heap is there whenever a program is loaded, because
  `load` has read its headers through buffers of that heap, and the second page of a
  segment finds the table that the first has made. `SegmentMapped` in `Memory.cfg`.
* A child that frees a block it has from its parent links it into the parent's list,
  because the copied arena points there (`kern/memory.c:595`). `ListsPrivate` in
  `Memory.cfg`. If the parent's PCB page has been reused for the child itself, the ASSERT
  at `kern/memory.c:605` fails instead (`FreeAssert`).
* `pipe_write` computes the free space one byte too large (`shell/pipe.c:66`), against
  its comment that the write is cut short so as not to block: `PipeWriteNeverBlocks`
  in `Pipe.cfg`. The shell runs both ends of a pipeline in one process, so the writer
  that blocks is never woken (`halt = "blocked"` in `Shell`).
* `copy_pcb` asserts a name shorter than 11 and appends `_fork`
  (`userproc/fork.c:37`): a process two forks away from init stops the machine by
  forking. It is the first exception of `KnownStops`; the second is the PID pool,
  which empties because init never waits for the children it adopts
  (`kern/main.c:36`); the third is `thread_exit`, which frees the page of a PCB and then
  reads the PID in it (`thread/thread.c:342-346`).
* After a fork the first `file_close` empties the entry that parent and child share
  (`fs/file.c:259`). `FdShowsFile` in `Files.cfg` with `Habit = {"fork"}`.
* `ioq_getchar` does not look at the buffer again once it has the lock
  (`dev/ioqueue.c:57-62`): with two readers, one sleeps beside a byte until the
  next key. `SleepsWithReason` as an invariant of `Keyboard.cfg`.
* `inode_open` does not search again after the disk read (`fs/inode.c:85`): two
  inodes for one file. `OneCopy` in `Files_overlap.cfg`.
* `sys_pipe` counts two descriptors whatever `pcb_fd_install` returned
  (`shell/pipe.c:30`): `PipeCounted` holds with `>=` and fails with `=`.
* `write_deny` is cleared by a reader's close and never set by `file_create`
  (`fs/file.c:257`, `160`): a file can have two writers.
* `sys_open` of an existing file leaves the parent directory open for ever
  (`fs/fs.c:347`): after an rmdir the removed directory stays in memory. `Exact` with
  `Habit = {"remove_used"}` in `FileSystem.cfg`.
* `sys_unlink` does not compare the depth (`fs/fs.c:518`): unlink of `/f/x` deletes
  the file `/f`. `ImplementsTree` with `Habit = {"through_file"}`.
* A directory that needs the indirect table loses what is in it (`fs/dir.c:157` never
  reads the table) or hangs (`fs/dir.c:334`). `StopsAtLimits` with `Direct = 1`.
* The bit of a file's indirect table is set but not written by `file_write`
  (`fs/file.c:388`); the sync of the next block writes the same sector, so only a bit
  in another sector is lost. `SafeOnDisk` with `BitsPerSector = 2`.
* A file cannot be filled (`fs/file.c:326`), and a read that reaches the last block
  panics (`fs/file.c:522`): the exceptions in `StopsAtLimits` and `AnswersRight`.
* `bitmap_scan` tests one bit behind the map (`lib/kern/bitmap.c:52`). It does no harm
  when the last bit is set or one bit is asked for. That covers the pools, the PIDs, the
  bitmaps of the disk and the addresses of a user process, whose last page is the stack;
  it does not cover the kernel's addresses, where several pages are asked for and the last
  bit is like any other.
* `file_write` hands `inode_sync` a buffer of 512 bytes (`fs/file.c:272`, `486`); for an
  inode in two sectors 1024 bytes are transferred through it (`fs/inode.c:114-118`), over
  whatever lies behind it. `FileSystem` has the two sectors, not the memory.
* `page_table_pte_remove` gives `invlpg` its local variable as the operand
  (`kern/memory.c:475`), so what it drops from the TLB is the entry of the stack, and the
  page it has unmapped stays accessible until the next switch. In `Memory` an unmapped
  page is gone at once.
* Shell (each is a value of `halt`, or an exception named in `CommandsMean`): a line of
  128 characters is stored past `cmd_line` (`shell.c:39`); `cmd_parse` stores a word
  too many before it tests, against its comment (`shell.c:120`), and the -1 is not
  looked at in a pipeline; an empty command of a pipeline passes a null pointer to
  `strcmp`; `cat` of a path that ends in a slash reads the keyboard for ever, `echo x >
  f/` deletes `f` and writes nothing, `echo x > /` fails an ASSERT, `>>` to such a path
  seeks in standard input; `cat` without a path reads 512 characters from the keyboard
  and prints them without a 0 at the end. (From a pipe it reads what is there, at most
  the 63 characters a pipe can hold, so `buildin_cat` empties it: `CatAssumption`.)
* Seen in the shell and outside the model: `cwd_cache` has 64 bytes and is cleared with
  512 (`shell.c:158`), `help` says ctrl+w for ctrl+u (`shell.c:145`), `cat` keeps its
  buffer when the open fails, and `ls` returns without `closedir` on some paths.

### Interrupts that come late

For a transfer of several sectors the driver waits for one interrupt only. The
disk may raise one for each later sector, and while interrupts are off the
controller keeps it until the next command of the same system call is under way.
The variable `late` of `Ide` says whether the disk does so, or stays busy for longer than
`busy_wait` polls; it never changes and has either value at the start. For both, one thread owns the channel, `disk_done`
stays binary and no wake-up is lost. `CommandWhenIdle` and `OwnerFinishes` are
claimed for `late = FALSE` only: a late interrupt is taken for the end of a write,
the next command meets a busy disk, and `busy_wait` may end in the driver's own
PANIC (`BusyGivesUp`, `NoData`). The limit is long: `time_limit -= 10 >= 0` subtracts 1
(`dev/ide.c:139`), so the disk is polled 29,999 times, 10 ms apart, and not for the 30
seconds of the comment. Whether a disk is that slow is outside the repository, so this is a
hazard and not a finding. The run allows deadlock because a panic ends the model.

### Bounds, and why they are enough

* Threads: main, idle, init and one to three more. The scheduler's cases are an
  empty, a one-element and a longer ready list, with the idle thread in or out;
  two threads besides main and idle give all of them.
* `Priority` (time slices) is 0 or 1: a tick that ends a slice and one that does
  not.
* `MaxRepeat` 2: an outer and an inner `lock_acquire`.
* `BufSize` 3, `MaxCount` 3: the ring wraps and is full, a pipe is asked for
  less than, exactly and more than it holds. Two byte values tell order apart.
* `PidCount` 6 for seven PCB pages: PIDs are reused, and the pool runs empty before
  the pages do. (`process_liveness` is smaller: init, two processes and the PIDs
  they need.)
* `NameBound` 15 caps the length of a name; the ASSERT is at 10. `PathLen` is the
  lengths of names execv sets: 14, which makes any process one that cannot fork; in
  `process_liveness` 5, so that forks go on after an execv.
* `MaxCmds` 2: a transfer of one command and one of several.
* `Files`: two processes, two files, three entries (`MAX_FILE_OPEN` 6) and two
  descriptors each (`MAX_FILES_OPEN_PER_PROC` 5) above the standard ones, three inode
  pages; `Habit` says which of overlapping calls ("overlap") and forks with
  open files ("fork") a run includes. `sys_pipe` is called only while
  `file_table` has a free entry.
* `Memory`: two processes, pages 0 to 4 below the stack, two to a page table, and
  four frames, so that a fork with a heap fits and the pool runs empty; arenas of three and
  of two blocks, large memory of two pages; `Buffer` is the two classes that a read
  of a file takes a block of. `MaxLive` 2 pointers at a time, but blocks of an old program
  and of a parent stay allocated beyond them. The stack has a page table of its own, as in
  the code. A program has one segment, of one or two pages, with its first page in the
  table of the heap's first pages or in the next. The frame of init's own stack is not
  counted. `ByteBits` 2: a map has a full byte before, and a run across, a boundary.
* `FileSystem`: `MaxCalls` 4 calls that write, one of which a power failure may cut off
  (`MaxCuts` 1; between calls it may fail at any time), any number of others; two names, paths of two names; blocks of three units,
  two direct blocks and two indirect ones, so that a write crosses blocks, needs the table,
  fills the file, and a directory grows a second block and gives it back; sectors of the
  inode table such that inode 1 lies in two of them and the others do not; few enough
  inodes and blocks that both bitmaps run full. No directory gets as far as its indirect
  table, so `StopsAtLimits` says nothing of the hang there. One file and one directory are
  open at a time.
* `Shell`: a line of ten characters and four words (`Line` has lines of one to three
  commands, with spaces, empty commands, too many words, too many characters),
  `MaxEdits` 2 editing keys per line, two names, paths to depth two in seventeen
  spellings (`MCArg`), `MaxNodes` 3 files and directories; `rmdir` of the working
  directory is left to `FileSystem`.
* Symmetry is used only for PCB pages, inode pages and file names, which no definition
  tells apart, and in no run with a liveness property.

### Fairness

* `Tick` is strongly fair: the interrupt controller latches the timer interrupt,
  so it is taken once the flag is on again and again. So is the disk's interrupt.
* `IdleBlock`, `IdleHlt` and the end of a section with interrupts off are weakly
  fair: they are the next instructions of the thread that has the processor.
* The next step of a call is strongly fair per thread: a thread has the processor
  again and again, not continuously, and then executes its next instruction.
* The disk completes its command (weak). No process has to call anything and
  nobody has to press a key.

## 4. Proofs

`ThreadsProofs` (from `ThreadAssumption`: main, idle and init are three different
threads, priorities are natural numbers) proves for any set of threads:

* `ThreadsTyped`: `TSpec => []TTypeOK`
* `SchedulerCorrect`: `TSpec => []SchedInv`
* `ThreadsImplementScheduler`: `TSpec => AbstractScheduler`
* `NobodyOvertakes`: `TSpec => NoOvertaking`

`SchedInv` is inductive together with the type invariant. "The ready list is
exactly the ready threads" and "no ASSERT fails" are not inductive alone:
`schedule()` unblocks the idle thread when the list is empty, which asserts that
it sleeps. That needs `IdleSleeps` (idle is running, ready or blocked) and
`OneRunning`, and idle's loop keeps it only because idle always runs with
interrupts on (`HltInterruptible`) and gets them back on (`saved[Idle]`): a
wake-up while idle runs must be taken. The lemma `ScheduleCorrect` states once
what a call of `schedule()` needs and preserves; `ExpiredPre`, `BlockPre` and
`YieldPre` show that the tick, `thread_block` and `thread_yield` meet it. The
refinement maps the list to the set of its members; `ScheduleAbstract` and
`StepAbstract` show that each action is `Preempt`, `Sleep`, `Wake` or a stutter.
For `NoOvertaking` every action is shown to move the list by some number of places
(`Moved`): what stands at a place stood that many places further on, is new at the
end, or was asleep; two threads that stay keep their distance. `BlockStep`,
`WakeAndBlock` and `QuietStatus` say what the scheduler does to a caller and to
everybody else; the other modules rest on them and never open `Schedule`.

`SyncProofs` (adding `SyncAssumption`: `NULL` is no thread, nesting is bounded)
proves `SyncTyped`, `SyncScheduler`, `LockExcludes`, `WakeupNotLost` and
`LockConsistent`. The inductive invariant is `TypeOK /\ SchedInv /\ SyncInv`.
`SyncInv` ties the semaphore to the program counters: the value is 0 exactly when
a thread is at one of the steps between `sema_down` and `sema_up`, `holder` and
`repeat` are what that step says, the list of waiters is the threads blocked in
`sema_down`, and if the value is 1 while somebody waits, a thread that was woken
is on its way. The last clause is what barging makes delicate: a waiter that is
woken does not own the semaphore, and if another thread takes it first the waiter
has to test again and join the list again.

`IoQueueProofs` (adding the assumptions of `IoQueue`: the buffer has two slots or
more, readers and writers are threads) proves, for a keyboard or a pipe with any
buffer and any number of threads:

* `IoQueueRefines`: `Spec => ImplementsByteQueue`. The ring is mapped to the sequence
  of the bytes from `tail` to `head`; `GetRefines` and `PutRefines` show that a step of
  the indices modulo the size takes the first or adds a last element, which is a fact
  about `%` (`Wrap`, `NextPosFacts`, `RingStep`) and about the slot that is always
  empty.
* `QueueTyped`, `QueueNeverPanics`, `QueueRecordsSleepers`, `QueueLockWakes`. The
  inductive invariant `IInv` adds to the run's properties which status and which flag a
  thread has at each place (`CallersInv`), that at most one thread is inside the lock
  (`OneOwner`), and that a thread in `ioq_wait` is blocked and is recorded until it is
  woken (`RecordedSleep`): without these an `ioq_putchar` could wake somebody who does
  not sleep, and the scheduler's ASSERT would fail.
* `PipeReaderNeverBlocks` and `PipeSleepsWithReason`, of a pipe with one reader and one
  writer (`OnePair`), as `pipe_read` and `pipe_write` rely on a length they have read
  before: the invariant `PromisesKept` says that what was promised is still there,
  because the only other thread can but add to it. With two readers both are false.

`IdeProofs` proves of a channel with any number of threads and of commands per
transfer `ChannelConsistent` (`IdeInv`), `DiskWakes` and `CommandsWait`, and that
without late interrupts, on a disk that answers within the limit of `busy_wait`, no
assertion fails and no wait ends in the driver's PANIC (`DriverNeverPanics`). The invariant relates the owner's place in `ide_read` or
`ide_write`, `expecting_intr`, `disk_done`, the disk and the latched interrupt
(`SignalInv`, `DiskInv`); what holds only without late interrupts is kept apart in
`OnTime`, so that the rest is proved for both kinds of disk.

`ProcessProofs` (adding `ProcessAssumption`: three PIDs or more, paths have lengths)
proves `ProcessesConsistent` (`ProcessInv`) and `StopsAreKnown` (`KnownStops`)
for any number of PCB pages and PIDs. `ProcessInv` needs the scheduler's invariant,
because `sys_exit` wakes its parent and `sys_wait` takes an exited child off the lists
(the ASSERTs are that these are, or are not, in the ready list); that init keeps PID 1
and neither waits nor exits (`KernelsInv`), because it inherits; that what a failed
fork loses, with a PID or without, is nobody's page (`LostInv`), because PIDs are counted
with it; and that a
process inside a call finds interrupts off when it comes back (`FlagsInv`). The heart
is the parent: it is alive and has not exited as long as the child lives, so a PID that
is reused never names a stranger as a parent. `bitmap_scan` and `list_traversal` return
the first of what they look for; that there is a first one is the lemma `Least`, from
the well-foundedness of the natural numbers.

`FilesProofs` (from `FilesAssumption`: finitely many processes, `NULL` and the page of a
pipe are no inode) proves `FilesConsistent` (`FilesInv`), `DescriptorsShowTheirFile`
(`FdShowsFile`) and `PipesCounted` (`PipeCounted`) for any number of processes, files,
entries, descriptors and inode pages, where `Habit = {}`: calls do not overlap and no
process forks with files open. Both conditions are needed, as `files_overlap` and the
fork of section 3 show. The inductive invariant `IInv` adds to the runs' properties that
an entry of a file belongs to one descriptor (`GoodOwner`), so that a close takes the
entry from nobody; that an inode in the list is of a file with a directory entry, so that
`file_create` meets no second copy; and what a call that waits for the disk may rely on
when it goes on (`Reading`, `Creating`): its entry is still free, and its inode is still
in no list. The counts are cardinalities of the sets of users (`Users`, `On`), and that a
count drops to zero exactly when the last user goes is where `CloseFileGood` and
`ClosePipeGood` use them. An exit closes in a loop: `Good` holds of the state between any
two turns (`CloseGood`), and `LoopFacts` shows that the recursive function of `CloseAll`
is that loop. Induction over data is not available as a rule, so both argue with `Least`:
the first turn that fails would follow one that does not.

`MemoryProofs` (from `MemoryAssumption`: bitmaps are whole bytes, an arena has room for two
blocks of every class, programs end below the stack; and `BufferAssumption`: the buffers of
a read are small and of different classes) proves for any number of processes,
pages, frames and block sizes:

* `MemoryConsistent`: `Spec => []MemoryInv`
* `ScansExact`: `Spec => []ScanExact`
* `LiveMemoryKept`: `Spec => LiveKept`

`MemoryInv` is not inductive. `sys_malloc` writes an arena into a page it takes from the
bitmap, so a page that is not in use must have no arena left (`Blank`); `sys_free` gives a
page back when the count of its arena says so, so the count must be the number of blocks of
that page on the lists (`Counts`), and be kept by every other list operation; and what is
held must be large memory of its own pages or a block on no list (`Held`). `IInv` puts
these together per process (`Heap`) beside the agreement of bitmap, page table and pool
(`FramesOf`). After a fork the child's copies of arenas carry counts of the parent's lists:
`Counts` then only says that a count is not too small for the pages in `copied`, which is
what the code keeps; a free into the parent's descriptor is a fault. There is one lemma for
what each operation does to a heap (`HeapLarge`, `HeapTake`, `HeapCut`, `HeapGive`,
`HeapDropLarge`, `HeapDropArena`, `HeapCopy`, `HeapExec`, and `HeapOrder` for the blocks
that a read takes and puts back at the end of their list), two for frames (`AddPages`,
`DropPages`), and one for each action that joins them. `bitmap_scan` is the one algorithm
with a loop: `FirstFreeIs` shows that the byte that is not full holds the first free bit,
`CountIs` that the loop's count at a bit is the length of the free run that ends there, as
the first bit where it is not would follow one where it is, and `ScanIs` that the answer
is the lowest run. `LiveKept` follows from the invariant after the step: what two pointers
stand for is apart in it (`Disjoint`).

Before it was proved, TLC checked an equivalent form of `IInv`, with the pool's quantifier
bounded by the frames, in all states of the run `memory`.

`ShellProofs` (from `ShellAssumption`: the sizes are positive, the names are not `/`, `.`
or `..`, a typed path has a name in it or is `/`) proves for lines, pipelines, trees and
paths of any size and depth:

* `ShellConsistent`: `Spec => []ShellInv`
* `LinesExecuted`: `Spec => []LineExecuted`
* `CommandsDoWhatTheyMean`: `Spec => []CommandsMean`

The inductive invariant `IInv` has four parts. `LineInv`: while a line is read the array
holds what has been typed up to `pos`, which is why looking at its first cell tells
`readline` that there is nothing to delete; while it runs, what is left begins behind a
bar, and as many bars are before it as commands have run. `FdInv`: the redirection of
`ShellInv`. `TreeInv`: every file is in a directory (`Closed`), the working directory is
one and the prompt shows it. `Closed` is what makes a search that ends early tell that
nothing is there, and `rmdir`, `rm` and `echo >`, which deletes the file first, have to
keep it. `HaltInv`: why the shell has stopped.

The loops are proved right by what they mean. `IsNames` says what the beginnings of a
path mean, name by name; such a function exists (`LoopExists`) and is the only one
(`LoopUnique`), both by the least counterexample. `WashIs` shows that `wash_path` spells
what its text means, because cutting at the last slash is going to the parent
(`SpellFront`); `AbsIs` joins it with the spelled working directory; `SearchIs` shows that
`search_file` follows the same names up to the first that is no directory, and counts
them, so that comparing depths (`mkdir`, `touch`, `cat`, `echo`) tells a missing last name
from a missing directory (`WashedIs`, `OpenIs`). `cat` and `echo` do not wash their
path, so for them every directory on the way must exist (`walked` in `CommandsMean`).
From these each command is described by the path that is meant (`CdIs` to `EchoIs`), and
from that come `CommandsMean` at the prompt (`Means`) and, inside a pipeline, that no
command touches the descriptors or leaves the tree or the pipe in disorder
(`CommandOutcome`). `ParseIs` and `WordsIs` show that `cmd_parse` finds the words of a
command, `StageIs` that the next bar ends it, and `AfterIs` that what `my_shell` does with
`sys_dup2` and `sys_close` between commands is what the next one, or the prompt, needs.
`rmdir` of the working directory is excluded by the guard `InBounds`, here as in the run.

TLC checked `IInv` in all states of the run `shell` before it was proved.

Only model-checked: `FileSystem`, whose invariants follow paths through directories while
its calls are folds over blocks and entries, so that both sides need induction over data,
and whose steps are single writes of calls that may be cut off anywhere (nor do they
hold for every value of the constants: a directory that outgrows its direct blocks and
an inode numbered 256 break `Exact`, see section 3 and section 5); and every
liveness property (`StarvedOnlyByWakeups`, `LockLive`, `SleepersWoken`, `WaitReturns`,
`OwnerFinishes`), as fairness and ENABLED are outside the prover.

## 5. Not modelled

* The kernel's own heap and pages: `sys_malloc` runs the same code for kernel
  threads on the kernel's pool, and fork and exit take and give back pages for the
  PCB, the page directory, its tables and the address bitmap. `Process` keeps only
  that this memory may run out.
* ELF headers, stack frames and registers of a new or forked process.
* Calls of different processes that overlap inside the file system, beyond the opens
  of `Files`: two writers of one inode (`fs/file.c:301`), an open during an unlink
  (`fs/fs.c:533`). The calls block at every disk read and write, about forty places;
  `Files` has the few where descriptors are at stake.
* More than 256 inodes, where `inode_sync` writes inode 256 over inode 0
  (`fs/inode.c:96`): `SyncInode` has the eight bits, no instance is that large.
* `sys_lseek`, `sys_stat`, memory that runs out inside a file system call, the scan
  for partitions and the choice of the one to mount.
* Scan codes and modifier keys of the keyboard; what `ls`, `ps`, `pwd` and `help`
  print; the lengths of file names and paths.
* Boot code, descriptor tables, TSS, console output, string functions: they run
  once, or change no state that another part reads.
* `ticks` and real time: a sleep lasts any number of yields; `busy_wait` may give up
  where `late` allows it (section 3).
* The TLB, and what lies behind a buffer that is too small (section 3).

## 6. Plan

1. (done) `Threads`, `Scheduler`, `Sync` with proofs; `IoQueue`, `ByteQueue`,
   `Process`, `Ide`, `Files`, `Memory` with runs; `bitmap_scan` in `Memory`;
   `FileSystem` with `FileTree`; `Shell`.
2. Proofs: (done) the ring buffer implements `ByteQueue` and never forgets a sleeper;
   `IdeInv`; `ProcessInv`; `NoOvertaking`; `FilesInv` and `FdShowsFile` for calls that
   do not overlap; `MemoryInv`, `ScanExact` and `LiveKept`; `ShellInv`, `LineExecuted`
   and `CommandsMean`. Left: the lemmas about the
   bitmaps and the writes of `FileSystem` that do not need its trees.
3. Overlapping calls in the file system: an unlink with an open, two writes, with the
   steps of `FileSystem` cut at the disk operations of these calls.
4. `Memory`: the kernel's pool and the pages a process costs it, with the page of
   the address bitmap that every exit loses (`userproc/wait_exit.c:63`).
5. Scan codes: make and break codes, modifiers, the extended prefix.
