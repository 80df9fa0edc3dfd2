------------------------------- MODULE Shell -------------------------------
(***************************************************************************)
(* The shell (shell/shell.c, buildin_cmd.c): the line editor, the words of *)
(* a command, pipelines with the redirection of sys_dup2, the built-in     *)
(* commands and what they make of a path.                                  *)
(*                                                                         *)
(* A character is Word (a character of a word), "sp" (a blank) or "|", and *)
(* "nul" ends a string.  Which command the first word is, and which path   *)
(* the next one, is chosen when the command runs.  A path is a sequence of *)
(* names and "/".  The files are a tree (FileSystem shows that the calls   *)
(* implement it); a file is the number of pieces written to it.            *)
(*                                                                         *)
(* The shell stops (halt) where the code fails an ASSERT, never returns,   *)
(* or goes past the end of an array, after which nothing is known.         *)
(***************************************************************************)
EXTENDS Integers, Sequences, FiniteSets, SequencesExt

CONSTANTS
    cmd_len,        \* size of cmd_line
    MAX_ARG_NR,     \* size of argv
    bufsize,        \* size of a pipe
    Name,           \* file names
    Arg,            \* the paths that are typed, each with a name in it or just "/"
    Output,         \* how much a command prints
    Line,           \* bound: what is typed is the beginning of one of these
    MaxEdits,       \* bound: editing keys per line
    Depth,          \* bound: names in the path of a file
    MaxNodes,       \* bound: files and directories
    MaxSize,        \* bound: pieces of a file
    Word, None, Dir, NoPipe

ASSUME ShellAssumption ==
    /\ {cmd_len, MAX_ARG_NR, bufsize, Depth} \subseteq Nat \ {0}
    /\ {MaxEdits, MaxNodes, MaxSize} \subseteq Nat
    /\ Output \subseteq Nat \ {0}
    /\ Word \notin {"sp", "|", "nul", "bs", "^u"} /\ Name \cap {"/", ".", ".."} = {}
    /\ Arg \subseteq Seq(Name \cup {"/", ".", ".."})
    /\ \A a \in Arg : a = <<"/">> \/ \E i \in 1..Len(a) : a[i] # "/"
    /\ None \notin Nat /\ Dir \notin Nat /\ NoPipe \notin Nat /\ None # Dir

Path == UNION {[1..n -> Name] : n \in 1..Depth}
Char == {Word, "sp", "|"}
Pipe == 3                   \* the entry of file_table that sys_pipe finds

VARIABLES
    buf, pos,       \* cmd_line and the pos of readline
    typed,          \* what the user means: the line as an editor would show it
    edits,          \* editing keys used
    each_cmd,       \* the rest of the line that is still to run
    stage,          \* the command that runs; 0 while a line is read
    fd_table,       \* of the shell's thread
    pipe,           \* characters in the pipe, or NoPipe
    users,          \* fd_pos of the pipe: how many descriptors show it
    tree,           \* per path: None, Dir or the size of a file
    cwd,            \* cwd_inode_nr, as the path of the directory
    cwd_cache,      \* the path in the prompt
    halt

line_vars == <<buf, pos, typed, edits>>
run_vars == <<fd_table, pipe, users, tree, cwd, cwd_cache>>
vars == <<line_vars, each_cmd, stage, run_vars, halt>>

NoLine == [i \in 0..cmd_len |-> "nul"]         \* one cell more than the array has
Std == [d \in 0..4 |-> IF d < 3 THEN d ELSE -1]

Init ==
    /\ buf = NoLine /\ pos = 0 /\ typed = <<>> /\ edits = 0
    /\ each_cmd = <<>> /\ stage = 0
    /\ fd_table = Std /\ pipe = NoPipe /\ users = 0
    /\ tree = [p \in Path |-> None] /\ cwd = <<>> /\ cwd_cache = <<"/">>
    /\ halt = "no"

-----------------------------------------------------------------------------
(***************************************************************************)
(* readline: the key is stored before it is looked at, and before the test *)
(* that there is room for it.                                              *)
(***************************************************************************)
Reading == stage = 0 /\ halt = "no"
IsTyped(s) == \E l \in Line : IsPrefix(s, l)

Type(c) ==
    /\ Reading /\ pos < cmd_len /\ IsTyped(Append(typed, c))
    /\ buf' = [buf EXCEPT ![pos] = c] /\ pos' = pos + 1
    /\ typed' = Append(typed, c)
    /\ UNCHANGED <<edits, each_cmd, stage, run_vars, halt>>

\* Mutant: the first character cannot be deleted.
BackspaceKeepsFirst ==
    /\ Reading /\ pos < cmd_len /\ edits < MaxEdits
    /\ buf' = [buf EXCEPT ![pos] = "bs"]
    /\ pos' = IF pos > 1 THEN pos - 1 ELSE pos
    /\ typed' = IF typed = <<>> THEN typed ELSE Front(typed)
    /\ edits' = edits + 1
    /\ UNCHANGED <<each_cmd, stage, run_vars, halt>>
Backspace ==
    /\ Reading /\ pos < cmd_len /\ edits < MaxEdits
    /\ buf' = [buf EXCEPT ![pos] = "bs"]
    /\ pos' = IF buf'[0] # "bs" THEN pos - 1 ELSE pos
    /\ typed' = IF typed = <<>> THEN typed ELSE Front(typed)
    /\ edits' = edits + 1
    /\ UNCHANGED <<each_cmd, stage, run_vars, halt>>

CtrlL ==
    /\ Reading /\ pos < cmd_len /\ edits < MaxEdits
    /\ buf' = [buf EXCEPT ![pos] = "nul"]
    /\ edits' = edits + 1
    /\ UNCHANGED <<pos, typed, each_cmd, stage, run_vars, halt>>

CtrlU ==
    /\ Reading /\ pos < cmd_len /\ edits < MaxEdits
    /\ buf' = [i \in DOMAIN buf |-> IF i \in 1..pos THEN "nul"
                                    ELSE IF i = pos THEN "^u" ELSE buf[i]]
    /\ pos' = 0 /\ typed' = <<>>
    /\ edits' = edits + 1
    /\ UNCHANGED <<each_cmd, stage, run_vars, halt>>

\* The line is full: whatever the key is, it is stored behind the array, and the
\* line is taken without a 0 at its end.
TooLong ==
    /\ Reading /\ pos = cmd_len
    /\ halt' = "line"
    /\ UNCHANGED <<line_vars, each_cmd, stage, run_vars>>

\* The string that cmd_line holds
CString(b) == LET n == CHOOSE n \in DOMAIN b : b[n] = "nul" /\ \A i \in 0..n - 1 : b[i] # "nul"
              IN  [i \in 1..n |-> b[i - 1]]

-----------------------------------------------------------------------------
(***************************************************************************)
(* Descriptors.  A state s has the variables that a command changes.       *)
(***************************************************************************)
Now == [fds |-> fd_table, pipe |-> pipe, users |-> users, tree |-> tree, cwd |-> cwd,
        cache |-> cwd_cache, halt |-> "no"]
Stop(s, why) == IF s.halt = "no" THEN [s EXCEPT !.halt = why] ELSE s

sys_pipe(s) == [s EXCEPT !.pipe = 0, !.users = 2, !.fds[3] = Pipe, !.fds[4] = Pipe]
\* Mutant: descriptors below 3 are copied like the others.
dup2_copies(s, fd1, fd2) == [s EXCEPT !.fds[fd2] = s.fds[fd1]]
sys_dup2(s, fd1, fd2) == [s EXCEPT !.fds[fd2] = IF fd1 < 3 THEN fd1 ELSE s.fds[fd1]]
sys_close(s, fd) ==
    [s EXCEPT !.fds[fd] = -1, !.users = @ - 1,
              !.pipe = IF s.users = 1 THEN NoPipe ELSE @]

\* printf of n characters.  pipe_write takes the ring to hold bufsize characters, and
\* it holds one less: the last one waits for a reader that never comes.
printf(s, n) ==
    IF s.fds[1] # Pipe THEN s
    ELSE IF n >= bufsize - s.pipe THEN Stop(s, "blocked")
    ELSE [s EXCEPT !.pipe = @ + n]

-----------------------------------------------------------------------------
(***************************************************************************)
(* Paths                                                                   *)
(***************************************************************************)

\* Each function below goes through a path as path_parse does, name by name: a "/"
\* only separates.

\* path_depth_cnt
path_depth_cnt(path) == Cardinality({i \in 1..Len(path) : path[i] # "/"})

\* wash_path: the new path after a name
\* Mutant: "." is a name like any other.
WashKeepsDot(new, n) ==
    LET slash == SelectLastInSeq(new, LAMBDA t : t = "/")
    IN  CASE n = "/" -> new
          [] n = ".." -> SubSeq(new, 1, IF slash > 1 THEN slash - 1 ELSE 1)
          [] OTHER -> IF new = <<"/">> THEN Append(new, n) ELSE new \o <<"/", n>>
Wash(new, n) ==
    LET slash == SelectLastInSeq(new, LAMBDA t : t = "/")
    IN  CASE n = "/" -> new
          [] n = ".." -> SubSeq(new, 1, IF slash > 1 THEN slash - 1 ELSE 1)
          [] n = "." -> new
          [] OTHER -> IF new = <<"/">> THEN Append(new, n) ELSE new \o <<"/", n>>
wash_path(path) ==
    LET new[n \in 0..Len(path)] == IF n = 0 THEN <<"/">> ELSE Wash(new[n - 1], path[n])
    IN  new[Len(path)]

\* A path as text, and sys_getcwd
Spell(p) == IF p = <<>> THEN <<"/">>
            ELSE [i \in 1..2 * Len(p) |-> IF i % 2 = 1 THEN "/" ELSE p[i \div 2]]
getcwd(s) == Spell(s.cwd)
make_clear_abs_path(s, path) ==
    wash_path(IF path[1] = "/" THEN path
              ELSE IF s.cwd = <<>> THEN getcwd(s) \o path ELSE Append(getcwd(s), "/") \o path)

\* cat and echo do not wash the path.
abs_path(s, path) == IF path[1] = "/" THEN path ELSE Append(getcwd(s), "/") \o path

\* search_dir_entry, of a name in the directory at; "." and ".." are entries of every
\* directory.
Value(t, p) == IF p = <<>> THEN Dir ELSE IF p \in Path THEN t[p] ELSE None
Entry(at, n) == CASE n = "." -> at
                  [] n = ".." -> (IF at = <<>> THEN at ELSE Front(at))
                  [] OTHER -> Append(at, n)

\* search_file: it goes on while it finds directories; depth counts the names in
\* searched_path.
SearchName(t, r, n) ==
    LET to == Entry(r.at, n)
        v == Value(t, to)
    IN  IF n = "/" \/ r.type # "dir" THEN r
        ELSE [type |-> IF v = None THEN "none" ELSE IF v = Dir THEN "dir" ELSE "file",
              at |-> to, depth |-> r.depth + 1]
search_file(s, path) ==
    LET walk[n \in 0..Len(path)] ==
            IF n = 0 THEN [type |-> "dir", at |-> <<>>, depth |-> 0]
            ELSE SearchName(s.tree, walk[n - 1], path[n])
    IN  walk[Len(path)]

Put(s, p, v) == [s EXCEPT !.tree[p] = v]

\* sys_open: a path that ends in "/" is answered with descriptor 0.
sys_open(s, path, create) ==
    LET r == search_file(s, path)
    IN  IF Last(path) = "/" THEN 0
        ELSE IF r.type = "dir" \/ r.depth # path_depth_cnt(path) THEN -1
        ELSE IF (r.type = "file") = create THEN -1 ELSE 5

\* sys_unlink: the depth is not compared.
sys_unlink(s, path) ==
    LET r == search_file(s, path)
    IN  IF r.type = "dir" /\ r.at = <<>> THEN Stop(s, "root")
        ELSE IF r.type = "file" THEN Put(s, r.at, None) ELSE s

-----------------------------------------------------------------------------
(***************************************************************************)
(* Built-in commands.  c has the command (op), the path it is given (arg), *)
(* the operator of echo (how) and the length of what it prints (out).      *)
(***************************************************************************)
Complain(s, c) == printf(s, c.out)

buildin_cd(s, argc, c) ==
    LET path == IF argc = 1 THEN <<"/">> ELSE make_clear_abs_path(s, c.arg)
        r == search_file(s, path)
    IN  IF argc > 2 \/ r.type # "dir" THEN Complain(s, c)
        ELSE [s EXCEPT !.cwd = r.at, !.cache = path]

buildin_mkdir(s, argc, c) ==
    LET path == make_clear_abs_path(s, c.arg)
        r == search_file(s, path)
    IN  IF argc # 2 THEN Complain(s, c)
        ELSE IF path = <<"/">> THEN s
        ELSE IF r.type = "none" /\ r.depth = path_depth_cnt(path) THEN Put(s, r.at, Dir)
        ELSE Complain(s, c)

Children(t, p) == {q \in Path : t[q] # None /\ Front(q) = p}
buildin_rmdir(s, argc, c) ==
    LET path == make_clear_abs_path(s, c.arg)
        r == search_file(s, path)
    IN  IF argc # 2 THEN Complain(s, c)
        ELSE IF path = <<"/">> THEN s
        ELSE IF r.type = "dir" /\ Children(s.tree, r.at) = {} THEN Put(s, r.at, None)
        ELSE Complain(s, c)

buildin_touch(s, argc, c) ==
    LET path == make_clear_abs_path(s, c.arg)
    IN  IF argc # 2 \/ Last(path) = "/" THEN Complain(s, c)
        ELSE IF sys_open(s, path, TRUE) > 2 THEN Put(s, search_file(s, path).at, 0)
        ELSE Complain(s, c)

buildin_rm(s, argc, c) ==
    LET path == make_clear_abs_path(s, c.arg)
    IN  IF argc # 2 THEN Complain(s, c)
        ELSE IF path = <<"/">> THEN s
        ELSE IF search_file(s, path).type = "file" THEN sys_unlink(s, path)
        ELSE Complain(s, c)

\* Without a path: one read of 512 characters of standard input, which from the keyboard
\* fill the array that is then printed as a string, and which are more than a pipe has
\* (its bufsize is 64).  With one: reads until -1, which descriptor 0 never answers.
ASSUME CatAssumption == bufsize <= 512
buildin_cat(s, argc, c) ==
    LET path == abs_path(s, c.arg)
        fd == sys_open(s, path, FALSE)
    IN  IF argc > 2 THEN Complain(s, c)
        ELSE IF argc = 1
        THEN IF s.fds[0] = Pipe THEN printf([s EXCEPT !.pipe = 0], s.pipe) ELSE Stop(s, "stdin")
        ELSE IF fd = -1 THEN Complain(s, c)
        ELSE IF fd = 0 THEN Stop(s, "loop")
        ELSE printf(s, s.tree[search_file(s, path).at])

\* ">" deletes the file and creates it again.  A write to descriptor 0 is refused
\* for want of O_WRONLY unless standard input is the pipe.  ">>" calls sys_lseek,
\* which takes the entry of standard input for a file.
buildin_echo(s, argc, c) ==
    LET path == abs_path(s, c.arg)
        fd == sys_open(s, path, FALSE)
        at == search_file(s, path).at
        cleared == sys_unlink(s, path)
        WriteStdin(t) == IF t.fds[0] # Pipe THEN t
                         ELSE IF c.out >= bufsize - t.pipe THEN Stop(t, "blocked")
                         ELSE [t EXCEPT !.pipe = @ + c.out]
    IN  IF argc \notin {2, 4} THEN Complain(s, c)
        ELSE IF argc = 2 THEN printf(s, c.out)
        ELSE IF fd = -1 THEN Complain(s, c)
        ELSE CASE c.how = ">" -> IF cleared.halt # "no" THEN cleared
                                 ELSE IF fd = 0 THEN WriteStdin(cleared)
                                 ELSE Put(cleared, at, 1)
               [] c.how = ">>" -> IF fd = 0 THEN Stop(s, "seek") ELSE Put(s, at, s.tree[at] + 1)
               [] OTHER -> printf(s, c.out)

\* ls, pwd, ps, clear, help and an unknown command only print.
cmd_execute(s, argc, c) ==
    CASE c.op = "cd" -> buildin_cd(s, argc, c)
      [] c.op = "mkdir" -> buildin_mkdir(s, argc, c)
      [] c.op = "rmdir" -> buildin_rmdir(s, argc, c)
      [] c.op = "touch" -> buildin_touch(s, argc, c)
      [] c.op = "rm" -> buildin_rm(s, argc, c)
      [] c.op = "cat" -> buildin_cat(s, argc, c)
      [] c.op = "echo" -> buildin_echo(s, argc, c)
      [] OTHER -> printf(s, c.out)

Command(argc) ==
    LET arg == IF argc = 2 \/ argc = 4 THEN Arg ELSE {<<"/">>}
    IN  [op : {"cd", "mkdir", "rmdir", "touch", "rm", "cat", "print"},
         arg : IF argc = 2 THEN Arg ELSE {<<"/">>}, how : {"no"}, out : Output]
        \cup [op : {"echo"}, arg : arg, how : IF argc = 4 THEN {"no", ">", ">>"} ELSE {"no"},
              out : Output]

-----------------------------------------------------------------------------
(***************************************************************************)
(* my_shell                                                                *)
(***************************************************************************)

\* cmd_parse: how many words it finds.  words[i] are those from position i on, next
\* in the code.
FirstChar(str, i) == Min({j \in i..Len(str) + 1 : j > Len(str) \/ str[j] # "sp"})
FirstBlank(str, i) == Min({j \in i..Len(str) + 1 : j > Len(str) \/ str[j] = "sp"})
cmd_parse(str) ==
    LET words[i \in 1..Len(str) + 2] ==
            IF i > Len(str) \/ FirstChar(str, i) > Len(str) THEN 0
            ELSE 1 + words[FirstBlank(str, FirstChar(str, i)) + 1]
    IN  words[1]

Bar(str) == SelectInSeq(str, LAMBDA c : c = "|")
CmdText == IF Bar(each_cmd) = 0 THEN each_cmd ELSE SubSeq(each_cmd, 1, Bar(each_cmd) - 1)

\* The end of the line: an empty one is not run, one with "|" gets a pipe.
Enter ==
    LET str == CString([buf EXCEPT ![pos] = "nul"])
        s == IF Bar(str) = 0 THEN Now ELSE sys_dup2(sys_pipe(Now), 4, 1)
    IN  /\ Reading /\ pos < cmd_len
        /\ stage' = IF str = <<>> THEN 0 ELSE 1
        /\ each_cmd' = str
        /\ buf' = NoLine /\ pos' = 0 /\ edits' = 0
        /\ typed' = IF str = <<>> THEN <<>> ELSE typed
        /\ fd_table' = s.fds /\ pipe' = s.pipe /\ users' = s.users
        /\ UNCHANGED <<tree, cwd, cwd_cache, halt>>

\* The command runs; argv has no entry for a word too many, and NULL for none.
RunCmd(c) ==
    LET argc == cmd_parse(CmdText)
    IN  IF argc > MAX_ARG_NR THEN Stop(Now, "argv")
        ELSE IF argc = 0 THEN Stop(Now, "null")
        ELSE cmd_execute(Now, argc, c)

\* Bounds: rmdir of the working directory, and of one that sys_open has left in
\* memory, is in FileSystem.
InBounds(s) ==
    /\ Cardinality({p \in Path : s.tree[p] # None}) <= MaxNodes
    /\ \A p \in Path : s.tree[p] \notin {None, Dir} => s.tree[p] <= MaxSize
    /\ s.cwd # <<>> => s.tree[s.cwd] = Dir
NewNode(c) == c.op \in {"mkdir", "touch"} => path_depth_cnt(make_clear_abs_path(Now, c.arg)) <= Depth

\* What the next command, or the prompt, finds after a command that leaves s
AfterCmd(s) ==
    LET rest == SubSeq(each_cmd, Bar(each_cmd) + 1, Len(each_cmd))
        Input(t) == IF stage = 1 THEN sys_dup2(t, 3, 0) ELSE t
    IN  IF s.halt # "no" THEN Stop(Now, s.halt)
        ELSE IF Bar(each_cmd) = 0
        THEN IF pipe = NoPipe THEN s ELSE sys_close(sys_close(sys_dup2(s, 0, 0), 3), 4)
        ELSE IF Bar(rest) = 0 THEN sys_dup2(Input(s), 1, 1) ELSE Input(s)

\* A command, and what my_shell does before the next one
Run(c) ==
    /\ stage > 0 /\ halt = "no" /\ NewNode(c)
    /\ \E s \in {RunCmd(c)} :
          /\ InBounds(s)
          /\ \E u \in {AfterCmd(s)} :
                /\ fd_table' = u.fds /\ pipe' = u.pipe /\ users' = u.users
                /\ tree' = u.tree /\ cwd' = u.cwd /\ cwd_cache' = u.cache /\ halt' = u.halt
    /\ IF halt' # "no" THEN UNCHANGED <<stage, each_cmd, typed>>
       ELSE IF Bar(each_cmd) = 0 THEN stage' = 0 /\ each_cmd' = <<>> /\ typed' = <<>>
       ELSE /\ stage' = stage + 1
            /\ each_cmd' = SubSeq(each_cmd, Bar(each_cmd) + 1, Len(each_cmd))
            /\ UNCHANGED typed
    /\ UNCHANGED <<buf, pos, edits>>

Next ==
    \/ \E c \in Char : Type(c)
    \/ Backspace \/ CtrlL \/ CtrlU \/ Enter \/ TooLong
    \/ \E c \in Command(cmd_parse(CmdText)) : Run(c)

Spec == Init /\ [][Next]_vars

-----------------------------------------------------------------------------
(***************************************************************************)
(* Properties                                                              *)
(***************************************************************************)
Bars == {i \in 1..Len(typed) : typed[i] = "|"}
Stages == Cardinality(Bars) + 1
\* Where stage k of the typed line begins and ends, and the words in it
From(k) == IF k = 1 THEN 1
           ELSE 1 + CHOOSE i \in Bars : Cardinality({j \in Bars : j <= i}) = k - 1
To(k) == IF k = Stages THEN Len(typed) ELSE From(k + 1) - 2
Words(k) == Cardinality({i \in From(k)..To(k) : /\ typed[i] # "sp"
                                                /\ i = From(k) \/ typed[i - 1] = "sp"})

\* Types, and the redirection: a command of a pipeline reads from the pipe unless it
\* is the first and writes to it unless it is the last, and at the prompt standard
\* input and output are the keyboard and the screen again and the pipe is freed.
\* The prompt shows the working directory.  A command blocks on a pipe only when
\* there is no room for what it prints, and reads past its buffer only from the
\* keyboard.
ShellInv ==
    /\ pos \in 0..cmd_len /\ typed \in Seq(Char) /\ stage \in 0..cmd_len
    /\ tree \in [Path -> {None, Dir} \cup 0..MaxSize]
    /\ halt \in {"no", "line", "argv", "null", "blocked", "stdin", "loop", "seek", "root"}
    /\ IF stage = 0 \/ Stages = 1
       THEN fd_table = Std /\ pipe = NoPipe /\ users = 0
       ELSE /\ users = 2 /\ pipe \in 0..bufsize - 1
            /\ fd_table = [d \in 0..4 |-> CASE d = 0 -> IF stage = 1 THEN 0 ELSE Pipe
                                             [] d = 1 -> IF stage = Stages THEN 1 ELSE Pipe
                                             [] d = 2 -> 2
                                             [] OTHER -> Pipe]
    /\ cwd_cache = getcwd(Now)
    /\ halt = "blocked" => /\ Stages > 1
                           /\ \E n \in Output \cup 0..MaxSize : pipe + n >= bufsize
    /\ halt = "stdin" => stage = 1

\* What runs is what the user has typed and edited: the commands between the bars,
\* each with its words, whatever keys were used on the way.  The line is lost only
\* when it fills the array (readline), has too many words (cmd_parse) or none.
LineExecuted ==
    /\ stage > 0 => /\ stage <= Stages
                    /\ each_cmd = SubSeq(typed, From(stage), Len(typed))
                    /\ cmd_parse(CmdText) = Words(stage)
    /\ halt = "line" => Len(typed) = cmd_len
    /\ halt = "argv" => Words(stage) > MAX_ARG_NR
    /\ halt = "null" => Words(stage) = 0

\* The path a word means, by names
Resolve(arg) ==
    LET name[n \in 0..Len(arg)] ==
            IF n = 0 THEN IF arg[1] = "/" THEN <<>> ELSE cwd
            ELSE IF arg[n] \in {"/", "."} THEN name[n - 1]
            ELSE IF arg[n] # ".." THEN Append(name[n - 1], arg[n])
            ELSE IF name[n - 1] = <<>> THEN <<>> ELSE Front(name[n - 1])
    IN  name[Len(arg)]

\* Each command does what help says to the file or directory its path means, and
\* nothing else, in every directory, for every spelling of the path.  Left out: a
\* path below a file (sys_unlink deletes that file) and, for cat and echo, a path
\* that ends in "/" (sys_open answers it with standard input).  echo, which takes the
\* path as it is typed, changes a file only if every directory the spelling passes
\* through is there (walked): "x/../f" is refused while there is no x.
CommandsMean ==
    Reading /\ pos = 0 =>
        \A c \in Command(2) \cup Command(4) :
        \A s \in {cmd_execute(Now, IF c.how = "no" THEN 2 ELSE 4, c)} :
            LET p == Resolve(c.arg)
                v == Value(tree, p)
                up == Value(tree, IF p = <<>> THEN p ELSE Front(p))
                Becomes(ok, new) == s.tree = IF ok THEN [tree EXCEPT ![p] = new] ELSE tree
                thru == \E i \in 1..Len(p) - 1 : Value(tree, SubSeq(p, 1, i)) \notin {None, Dir}
                walked == \A i \in 1..Len(c.arg) - 1 : Value(tree, Resolve(SubSeq(c.arg, 1, i))) = Dir
                IsFile == v \notin {None, Dir}
            IN  p \in Path \cup {<<>>} =>
                /\ CASE c.op = "mkdir" -> Becomes(v = None /\ up = Dir, Dir)
                     [] c.op = "touch" -> Becomes(v = None /\ up = Dir, 0)
                     [] c.op = "rmdir" -> Becomes(v = Dir /\ p # <<>> /\ Children(tree, p) = {}, None)
                     [] c.op = "rm" -> thru \/ Becomes(IsFile, None)
                     [] c.op = "echo" -> \/ Last(c.arg) = "/"
                                         \/ c.how = ">" /\ Becomes(IsFile /\ walked, 1)
                                         \/ c.how = ">>" /\ Becomes(IsFile /\ walked, v + 1)
                                         \/ c.how = "no" /\ Becomes(FALSE, None)
                     [] OTHER -> Becomes(FALSE, None)
                /\ s.cwd = IF c.op = "cd" /\ v = Dir THEN p ELSE cwd
                /\ s.cache = getcwd(s)
                /\ s.halt = "no" \/ (Last(c.arg) = "/" /\ c.op \in {"cat", "echo"})
=============================================================================
