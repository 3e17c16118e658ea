------------------------------ MODULE LogFile -------------------------------
(***************************************************************************)
(* log(): one process-wide lock around opening a file, writing a line in   *)
(* parts, and closing the file once it is long.  The name is made of 16    *)
(* bits of the process id and a number; all processes run in one directory *)
(* and open with "w".                                                      *)
(***************************************************************************)
EXTENDS Naturals, Sequences, SequencesExt

CONSTANTS
  Writers, Procs,
  ProcOf,    \* the process of a thread
  Pid,       \* the id of a process
  PidWrap,      \* 2^16
  MaxSize,   \* MAX_LOG_FILE_SIZE, counted in parts of lines
  MaxLines,  \* bound on the calls of each thread
  Nobody

ASSUME LogAssumption ==
  /\ ProcOf \in [Writers -> Procs] /\ Pid \in [Procs -> Nat]
  /\ PidWrap \in Nat \ {0} /\ MaxSize \in Nat
  /\ MaxLines \in [Writers -> Nat]
  /\ Nobody \notin Writers

VARIABLES
  pc,       \* where a thread is in log()
  line,     \* number of its call
  lock,     \* the owner of s_log_lock of a process
  fileNo,   \* file_no
  opened,   \* log_fp is not NULL
  pos,      \* its position
  files,    \* contents, by name
  written   \* history: what a process wrote, in order

logVars == <<pc, line, lock, fileNo, opened, pos, files, written>>

Hole == <<Nobody, 0, "hole">>

Name(p) == <<Pid[p] % PidWrap, fileNo[p]>>
Content(name) == IF name \in DOMAIN files THEN files[name] ELSE <<>>
Namesakes(p) == {q \in Procs : Pid[q] % PidWrap = Pid[p] % PidWrap}

\* What a write of x at position n leaves of content s.
WrittenAt(s, n, x) ==
  [i \in 1..(IF n < Len(s) THEN Len(s) ELSE n + 1) |->
     IF i = n + 1 THEN x ELSE IF i <= Len(s) THEN s[i] ELSE Hole]

LogInit ==
  /\ pc = [t \in Writers |-> "idle"]
  /\ line = [t \in Writers |-> 0]
  /\ lock = [p \in Procs |-> Nobody]
  /\ fileNo = [p \in Procs |-> 1]
  /\ opened = [p \in Procs |-> FALSE]
  /\ pos = [p \in Procs |-> 0]
  /\ files = [n \in {} |-> <<>>]
  /\ written = [p \in Procs |-> <<>>]

GoTo(t, step) == pc' = [pc EXCEPT ![t] = step]

-----------------------------------------------------------------------------

Call(t) ==
  /\ pc[t] = "idle" /\ line[t] < MaxLines[t]
  /\ line' = [line EXCEPT ![t] = @ + 1]
  /\ GoTo(t, "lock")
  /\ UNCHANGED <<lock, fileNo, opened, pos, files, written>>

\* Mutant: no lock is taken.
Bug_TakeLock_None(t) ==
  /\ pc[t] = "lock"
  /\ GoTo(t, "open")
  /\ UNCHANGED <<line, lock, fileNo, opened, pos, files, written>>

\* CFuncLock func_lock(&s_log_lock).
TakeLock(t) ==
  /\ pc[t] = "lock" /\ lock[ProcOf[t]] = Nobody
  /\ lock' = [lock EXCEPT ![ProcOf[t]] = t]
  /\ GoTo(t, "open")
  /\ UNCHANGED <<line, fileNo, opened, pos, files, written>>

AlreadyOpen(t) ==
  /\ pc[t] = "open" /\ opened[ProcOf[t]]
  /\ GoTo(t, "head")
  /\ UNCHANGED <<line, lock, fileNo, opened, pos, files, written>>

\* fopen() makes the file empty.
OpenFile(t) ==
  LET p == ProcOf[t] IN
  /\ pc[t] = "open" /\ ~opened[p]
  /\ opened' = [opened EXCEPT ![p] = TRUE]
  /\ pos' = [pos EXCEPT ![p] = 0]
  /\ files' = [n \in DOMAIN files \union {Name(p)} |-> IF n = Name(p) THEN <<>> ELSE files[n]]
  /\ GoTo(t, "head")
  /\ UNCHANGED <<line, lock, fileNo, written>>

\* fopen() fails: the line is lost.
OpenFails(t) ==
  /\ pc[t] = "open" /\ ~opened[ProcOf[t]]
  /\ GoTo(t, "unlock")
  /\ UNCHANGED <<line, lock, fileNo, opened, pos, files, written>>

\* fprintf() of a part of the line.
WritePart(t, part, next) ==
  LET p == ProcOf[t]
      x == <<t, line[t], part>>
  IN  /\ files' = [files EXCEPT ![Name(p)] = WrittenAt(@, pos[p], x)]
      /\ pos' = [pos EXCEPT ![p] = @ + 1]
      /\ written' = [written EXCEPT ![p] = Append(@, x)]
      /\ GoTo(t, next)
      /\ UNCHANGED <<line, lock, fileNo, opened>>

\* print_tread_id() and print_format_time(); vfprintf() and fflush().
WriteHead(t) == pc[t] = "head" /\ WritePart(t, "head", "text")
WriteText(t) == pc[t] = "text" /\ WritePart(t, "text", "size")

\* The next call opens another file when this one is long.
Rotate(t) ==
  LET p == ProcOf[t] IN
  /\ pc[t] = "size"
  /\ opened' = [opened EXCEPT ![p] = pos[p] <= MaxSize]
  /\ fileNo' = IF pos[p] > MaxSize THEN [fileNo EXCEPT ![p] = @ + 1] ELSE fileNo
  /\ GoTo(t, "unlock")
  /\ UNCHANGED <<line, lock, pos, files, written>>

\* ~CFuncLock().
ReleaseLock(t) ==
  /\ pc[t] = "unlock"
  /\ lock' = [lock EXCEPT ![ProcOf[t]] = Nobody]
  /\ GoTo(t, "idle")
  /\ UNCHANGED <<line, fileNo, opened, pos, files, written>>

LogStep(t) ==
  \/ AlreadyOpen(t) \/ OpenFile(t) \/ OpenFails(t)
  \/ WriteHead(t) \/ WriteText(t) \/ Rotate(t) \/ ReleaseLock(t)

LogNext == \E t \in Writers : Call(t) \/ TakeLock(t) \/ LogStep(t)

LogSpec == LogInit /\ [][LogNext]_logVars

-----------------------------------------------------------------------------

\* util.cpp:498: the parts of a line are together, in whatever order threads
\* write theirs.
LinesWhole ==
  \A p \in Procs : \A i \in 1..Len(written[p]) :
    written[p][i][3] = "text" =>
      i > 1 /\ written[p][i - 1] = <<written[p][i][1], written[p][i][2], "head">>

\* util.cpp:511,529: a process finds all it wrote in its files, in order, over
\* every rotation, unless another process has the same 16 bits of process id.
FilesKept ==
  \A p \in Procs : Namesakes(p) = {p} =>
    FlattenSeq([n \in 1..fileNo[p] |-> Content(<<Pid[p] % PidWrap, n>>)]) = written[p]

\* Both, whatever threads and processes log at a time.
LogKept == LinesWhole /\ FilesKept
=============================================================================
