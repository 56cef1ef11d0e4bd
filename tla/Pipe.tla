-------------------------------- MODULE Pipe --------------------------------
(***************************************************************************)
(* A pipe shared by several processes: lib/pipe.c, with close, dup,         *)
(* close_all and exit of lib/fd.c and lib/exit.c, the copying of shared     *)
(* pages by fork, and the reference counts pageref reads.                   *)
(*                                                                         *)
(* The pipe has three physical pages: the descriptor of the read end, the   *)
(* descriptor of the write end, and the data page.  Slot s of a process     *)
(* maps a descriptor page at INDEX2FD(s) and the data page at               *)
(* INDEX2DATA(s).  Every system call is one step, and so is every access    *)
(* to the shared data; the clock may interrupt between any two.             *)
(*                                                                         *)
(* env_runs only serves to see whether it changed between two reads:        *)
(* moved[p] says whether p was switched to since it last read env_runs.     *)
(***************************************************************************)
EXTENDS Integers, Sequences, FiniteSets

CONSTANTS Proc, NoProc,
          NFD,        \* descriptors of a process
          BufSize,    \* PIPEBUFSIZ
          Byte, NoByte,
          Calls,      \* the calls each process makes
          InitFd,     \* the ends each process holds at first
          MaxPos,     \* bound: bytes written
          MaxCall,    \* bound: calls that change mappings
          MaxTick     \* bound: clock interrupts

Slot == 0 .. (NFD - 1)
End  == {"r", "w"}

ASSUME PipeAssumption ==
  /\ NFD \in Nat \ {0} /\ BufSize \in Nat \ {0}
  /\ MaxPos \in Nat /\ MaxCall \in Nat /\ MaxTick \in Nat
  /\ Calls \in [Proc -> SUBSET {"READ", "WRITE", "CLOSE", "DUP", "FORK", "EXIT"}]
  /\ InitFd \in [Proc -> [Slot -> End \cup {"none"}]]
  /\ NoProc \notin Proc /\ NoByte \notin Byte

VARIABLES
  fd, dat,           \* what each process maps at INDEX2FD(s), and whether at INDEX2DATA(s)
  p_rpos, p_wpos, p_buf,   \* struct Pipe
  status,            \* "none" (no process yet), "new", "runnable" or "gone"
  cur,               \* the process that runs
  moved,
  pc, loc,           \* where each process is, and its local variables
  last,              \* the byte read last
  ticks, calls       \* used up of MaxTick and MaxCall

pipevars == <<p_rpos, p_wpos, p_buf, last>>
mapvars  == <<fd, dat>>
runvars  == <<status, cur, moved>>
vars == <<mapvars, pipevars, runvars, pc, loc, ticks, calls>>

NoLoc == [s |-> 0, t |-> 0, c |-> NoProc, n |-> 0, i |-> 0, ref |-> 0, closed |-> FALSE, byte |-> NoByte]

\* pp_ref of the descriptor page of an end, and of the data page.
FdRef(e) == Cardinality({x \in Proc \X Slot : fd[x[1]][x[2]] = e})
DataRef  == Cardinality({x \in Proc \X Slot : dat[x[1]][x[2]]})

At(p, l)   == cur = p /\ pc[p] = l
Goto(p, l) == pc' = [pc EXCEPT ![p] = l]
Set(p, r)  == loc' = [loc EXCEPT ![p] = r]

\* A call of the program that changes mappings.
Call(p, k) == /\ At(p, "run") /\ k \in Calls[p]
              /\ calls < MaxCall /\ calls' = calls + 1

-----------------------------------------------------------------------------
(* Scheduling *)

\* sched_yield and env_run pick q, and the caller only if no other is runnable.
SwitchTo(q, st) == /\ st[q] = "runnable"
                   /\ q = cur => \A o \in Proc \ {q} : st[o] # "runnable"
                   /\ cur' = q
                   /\ moved' = IF q # cur THEN [moved EXCEPT ![q] = TRUE] ELSE moved

Tick == /\ ticks < MaxTick /\ ticks' = ticks + 1
        /\ \E q \in Proc \ {cur} : SwitchTo(q, status)
        /\ UNCHANGED <<mapvars, pipevars, status, pc, loc, calls>>

-----------------------------------------------------------------------------
(* Read and write *)

Read(p, s, n) ==
  /\ At(p, "run") /\ "READ" \in Calls[p] /\ fd[p][s] = "r"
  /\ Goto(p, "read") /\ Set(p, [NoLoc EXCEPT !.s = s, !.n = n])
  /\ UNCHANGED <<mapvars, pipevars, runvars, ticks, calls>>

HasByte     == p_rpos # p_wpos

\* The loop of devpipe_read: done, nothing there, or a byte.
ReadLoop(p) ==
  /\ At(p, "read")
  /\ Goto(p, IF loc[p].i = loc[p].n THEN "run"
             ELSE IF HasByte THEN "take"
             ELSE IF loc[p].i > 0 THEN "run" ELSE "closed_runs")
  /\ UNCHANGED <<mapvars, pipevars, runvars, loc, ticks, calls>>

\* The byte is copied, then p_rpos moves.
ReadTake(p) ==
  /\ At(p, "take")
  /\ Goto(p, "took") /\ Set(p, [loc[p] EXCEPT !.byte = p_buf[p_rpos % BufSize]])
  /\ UNCHANGED <<mapvars, pipevars, runvars, ticks, calls>>
ReadTook(p) ==
  /\ At(p, "took")
  /\ p_rpos' = p_rpos + 1 /\ last' = loc[p].byte
  /\ Goto(p, "read") /\ Set(p, [loc[p] EXCEPT !.i = @ + 1])
  /\ UNCHANGED <<mapvars, p_wpos, p_buf, runvars, ticks, calls>>

Write(p, s, n) ==
  /\ At(p, "run") /\ "WRITE" \in Calls[p] /\ fd[p][s] = "w"
  /\ p_wpos + n <= MaxPos
  /\ Goto(p, "write") /\ Set(p, [NoLoc EXCEPT !.s = s, !.n = n])
  /\ UNCHANGED <<mapvars, pipevars, runvars, ticks, calls>>

\* Mutant: one byte too many.
FullLate == p_wpos > p_rpos + BufSize
Full     == p_wpos >= p_rpos + BufSize

WriteLoop(p) ==
  /\ At(p, "write")
  /\ Goto(p, IF loc[p].i = loc[p].n THEN "run" ELSE IF Full THEN "closed_runs" ELSE "store")
  /\ UNCHANGED <<mapvars, pipevars, runvars, loc, ticks, calls>>

\* The byte is stored, then p_wpos moves.
WriteStore(p) ==
  /\ At(p, "store")
  /\ \E b \in Byte : p_buf' = [p_buf EXCEPT ![p_wpos % BufSize] = b]
  /\ Goto(p, "stored")
  /\ UNCHANGED <<mapvars, p_rpos, p_wpos, last, runvars, loc, ticks, calls>>
WriteStored(p) ==
  /\ At(p, "stored")
  /\ p_wpos' = p_wpos + 1
  /\ Goto(p, "write") /\ Set(p, [loc[p] EXCEPT !.i = @ + 1])
  /\ UNCHANGED <<mapvars, p_rpos, p_buf, last, runvars, ticks, calls>>

-----------------------------------------------------------------------------
(* _pipeisclosed *)

ClosedRuns(p) ==
  /\ At(p, "closed_runs")
  /\ moved' = [moved EXCEPT ![p] = FALSE]
  /\ Goto(p, "closed_fd")
  /\ UNCHANGED <<mapvars, pipevars, status, cur, loc, ticks, calls>>
ClosedFd(p) ==
  /\ At(p, "closed_fd")
  /\ Goto(p, "closed_data") /\ Set(p, [loc[p] EXCEPT !.ref = FdRef(fd[p][loc[p].s])])
  /\ UNCHANGED <<mapvars, pipevars, runvars, ticks, calls>>
ClosedData(p) ==
  /\ At(p, "closed_data")
  /\ Goto(p, "closed_again") /\ Set(p, [loc[p] EXCEPT !.closed = (loc[p].ref = DataRef)])
  /\ UNCHANGED <<mapvars, pipevars, runvars, ticks, calls>>

\* env_runs is looked at again.
RunAgain(p) == moved[p]

\* Counted again, end of file, or yield and look at the buffer again.
ClosedAgain(p) ==
  /\ At(p, "closed_again")
  /\ Goto(p, IF RunAgain(p) THEN "closed_runs" ELSE IF loc[p].closed THEN "eof" ELSE "yield")
  /\ UNCHANGED <<mapvars, pipevars, runvars, loc, ticks, calls>>

\* read or write returns 0.
Eof(p) ==
  /\ At(p, "eof")
  /\ Goto(p, "run") /\ Set(p, NoLoc)
  /\ UNCHANGED <<mapvars, pipevars, runvars, ticks, calls>>

Yield(p) ==
  /\ At(p, "yield")
  /\ Goto(p, IF fd[p][loc[p].s] = "r" THEN "read" ELSE "write")
  /\ \E q \in Proc : SwitchTo(q, status)
  /\ UNCHANGED <<mapvars, pipevars, status, loc, ticks, calls>>

\* The program itself yields.
Pause(p) ==
  /\ At(p, "run")
  /\ \E q \in Proc \ {p} : SwitchTo(q, status)
  /\ UNCHANGED <<mapvars, pipevars, status, pc, loc, ticks, calls>>

-----------------------------------------------------------------------------
(* close, dup, fork and exit *)

UnmapFd(p, s)   == fd' = [fd EXCEPT ![p][s] = "none"] /\ UNCHANGED dat
UnmapData(p, s) == dat' = [dat EXCEPT ![p][s] = FALSE] /\ UNCHANGED fd

\* Mutants: the first call unmaps the data page; the second is left out.
DataFirst(p, s)   == UnmapData(p, s)
KeepData(p, s)    == UNCHANGED mapvars

\* devpipe_close, first and second call.
CloseFirst(p, s)  == UnmapFd(p, s)
CloseSecond(p, s) == UnmapData(p, s)

Close(p, s) ==
  /\ Call(p, "CLOSE") /\ fd[p][s] # "none"
  /\ CloseFirst(p, s)
  /\ Goto(p, "close") /\ Set(p, [NoLoc EXCEPT !.s = s])
  /\ UNCHANGED <<pipevars, runvars, ticks>>
CloseEnd(p) ==
  /\ At(p, "close")
  /\ CloseSecond(p, loc[p].s)
  /\ Goto(p, "run") /\ Set(p, NoLoc)
  /\ UNCHANGED <<pipevars, runvars, ticks, calls>>

\* dup(s, t): close t if it is open, map the data page, map the descriptor.
Dup(p, s, t) ==
  /\ Call(p, "DUP") /\ fd[p][s] # "none" /\ s # t
  /\ IF fd[p][t] = "none" THEN Goto(p, "dup_data") /\ UNCHANGED mapvars
     ELSE Goto(p, "dup_close") /\ CloseFirst(p, t)
  /\ Set(p, [NoLoc EXCEPT !.s = s, !.t = t])
  /\ UNCHANGED <<pipevars, runvars, ticks>>
DupClose(p) ==
  /\ At(p, "dup_close")
  /\ CloseSecond(p, loc[p].t)
  /\ Goto(p, "dup_data")
  /\ UNCHANGED <<pipevars, runvars, loc, ticks, calls>>

MapData(p) == dat' = [dat EXCEPT ![p][loc[p].t] = dat[p][loc[p].s]] /\ UNCHANGED fd
MapFd(p)   == fd' = [fd EXCEPT ![p][loc[p].t] = fd[p][loc[p].s]] /\ UNCHANGED dat

\* Each of the two calls may run out of memory; dup then unmaps both.
DupData(p) ==
  /\ At(p, "dup_data")
  /\ \/ MapData(p) /\ Goto(p, "dup_fd") /\ UNCHANGED loc
     \/ UNCHANGED mapvars /\ Goto(p, "run") /\ Set(p, NoLoc)
  /\ UNCHANGED <<pipevars, runvars, ticks, calls>>
DupFd(p) ==
  /\ At(p, "dup_fd")
  /\ \/ MapFd(p) /\ Goto(p, "run") /\ Set(p, NoLoc)
     \/ UNCHANGED mapvars /\ Goto(p, "dup_err") /\ UNCHANGED loc
  /\ UNCHANGED <<pipevars, runvars, ticks, calls>>
DupErr(p) ==
  /\ At(p, "dup_err")
  /\ UnmapData(p, loc[p].t)
  /\ Goto(p, "run") /\ Set(p, NoLoc)
  /\ UNCHANGED <<pipevars, runvars, ticks, calls>>

\* fork: sys_exofork, then the mapped pages in the order of their addresses, all
\* the descriptors before all the data pages, then the child may run.
Fork(p, c) ==
  /\ Call(p, "FORK") /\ status[c] = "none"
  /\ status' = [status EXCEPT ![c] = "new"]
  /\ Goto(p, "fork") /\ Set(p, [NoLoc EXCEPT !.c = c])
  /\ UNCHANGED <<mapvars, pipevars, cur, moved, ticks>>

ForkPage(p) ==
  LET k == loc[p].i
      c == loc[p].c
  IN  /\ At(p, "fork") /\ k < 2 * NFD
      /\ IF k < NFD
         THEN fd' = [fd EXCEPT ![c][k] = fd[p][k]] /\ UNCHANGED dat
         ELSE dat' = [dat EXCEPT ![c][k - NFD] = dat[p][k - NFD]] /\ UNCHANGED fd
      /\ Set(p, [loc[p] EXCEPT !.i = k + 1])
      /\ UNCHANGED <<pipevars, runvars, pc, ticks, calls>>
ForkEnd(p) ==
  /\ At(p, "fork") /\ loc[p].i = 2 * NFD
  /\ status' = [status EXCEPT ![loc[p].c] = "runnable"]
  /\ Goto(p, "run") /\ Set(p, NoLoc)
  /\ UNCHANGED <<mapvars, pipevars, cur, moved, ticks, calls>>

\* exit: close_all closes the descriptors in order, and the environment is freed.
Exit(p) ==
  /\ Call(p, "EXIT")
  /\ Goto(p, "exit") /\ Set(p, NoLoc)
  /\ UNCHANGED <<mapvars, pipevars, runvars, ticks>>
ExitClose(p) ==
  LET s == loc[p].i
  IN  /\ At(p, "exit") /\ s < NFD
      /\ IF fd[p][s] # "none" THEN CloseFirst(p, s) /\ Goto(p, "exit_data") /\ UNCHANGED loc
         ELSE Set(p, [loc[p] EXCEPT !.i = s + 1]) /\ UNCHANGED <<mapvars, pc>>
      /\ UNCHANGED <<pipevars, runvars, ticks, calls>>
ExitData(p) ==
  /\ At(p, "exit_data")
  /\ CloseSecond(p, loc[p].i)
  /\ Goto(p, "exit") /\ Set(p, [loc[p] EXCEPT !.i = @ + 1])
  /\ UNCHANGED <<pipevars, runvars, ticks, calls>>
ExitEnd(p) ==
  /\ At(p, "exit") /\ loc[p].i = NFD
  /\ status' = [status EXCEPT ![p] = "gone"]
  /\ IF \E q \in Proc : status'[q] = "runnable"
     THEN \E q \in Proc : SwitchTo(q, status')
     ELSE cur' = NoProc /\ UNCHANGED moved
  /\ UNCHANGED <<mapvars, pipevars, pc, loc, ticks, calls>>

-----------------------------------------------------------------------------
\* pipe() has returned, and the ends have been passed to the first processes.
Init ==
  /\ fd = InitFd
  /\ dat = [p \in Proc |-> [s \in Slot |-> InitFd[p][s] # "none"]]
  /\ p_rpos = 0 /\ p_wpos = 0 /\ p_buf = [k \in 0 .. (BufSize - 1) |-> NoByte]
  /\ last = NoByte
  /\ status = [p \in Proc |-> IF \E s \in Slot : InitFd[p][s] # "none" THEN "runnable" ELSE "none"]
  /\ cur \in {p \in Proc : status[p] = "runnable"}
  /\ moved = [p \in Proc |-> FALSE]
  /\ pc = [p \in Proc |-> "run"]
  /\ loc = [p \in Proc |-> NoLoc]
  /\ ticks = 0 /\ calls = 0

Step(p) ==
  \/ \E s \in Slot : \/ \E n \in 1 .. 2 : Read(p, s, n) \/ Write(p, s, n)
                     \/ Close(p, s)
                     \/ \E t \in Slot : Dup(p, s, t)
  \/ ReadLoop(p) \/ ReadTake(p) \/ ReadTook(p)
  \/ WriteLoop(p) \/ WriteStore(p) \/ WriteStored(p)
  \/ ClosedRuns(p) \/ ClosedFd(p) \/ ClosedData(p) \/ ClosedAgain(p) \/ Eof(p) \/ Yield(p)
  \/ CloseEnd(p) \/ DupClose(p) \/ DupData(p) \/ DupFd(p) \/ DupErr(p)
  \/ \E c \in Proc : Fork(p, c)
  \/ ForkPage(p) \/ ForkEnd(p)
  \/ Exit(p) \/ ExitClose(p) \/ ExitData(p) \/ ExitEnd(p)
  \/ Pause(p)

Next == Tick \/ \E p \in Proc : Step(p)

Spec == Init /\ [][Next]_vars

\* The scheduler lets every runnable process go on.
FairSpec == Spec /\ \A p \in Proc : SF_vars(Step(p))

-----------------------------------------------------------------------------
\* Type invariant: struct Pipe, the descriptor and data mappings, and the locals
\* of the library calls; a read never passes the last byte written.
TypeOK ==
  /\ fd \in [Proc -> [Slot -> End \cup {"none"}]]
  /\ dat \in [Proc -> [Slot -> BOOLEAN]]
  /\ p_rpos \in 0 .. MaxPos /\ p_wpos \in 0 .. MaxPos
  /\ p_buf \in [0 .. (BufSize - 1) -> Byte \cup {NoByte}]
  /\ status \in [Proc -> {"none", "new", "runnable", "gone"}]
  /\ cur \in Proc \cup {NoProc}
  /\ moved \in [Proc -> BOOLEAN]
  /\ ticks \in 0 .. MaxTick /\ calls \in 0 .. MaxCall

Holds(e) == {p \in Proc : \E s \in Slot : fd[p][s] = e}

\* "if all the writers are gone, note eof" (devpipe_read), and the same for
\* readers in devpipe_write: read or write returns 0 only when no process
\* holds the other end, whatever close, dup or exit is half way through.
EofTrue ==
  \A p \in Proc : pc[p] = "eof" =>
    Holds(IF fd[p][loc[p].s] = "r" THEN "w" ELSE "r") = {}

\* "pipe is empty" (devpipe_read): read returns 0 only when every byte that was
\* written has been read.
EofEmpty == \A p \in Proc : pc[p] = "eof" /\ fd[p][loc[p].s] = "r" => p_rpos = p_wpos

\* A read or a write ends when nobody holds the other end, instead of yielding
\* for ever.
EofSeen == \A p \in Proc, e \in End :
  (pc[p] = "yield" /\ fd[p][loc[p].s] # e /\ Holds(e) = {}) ~> (pc[p] = "run")

-----------------------------------------------------------------------------
\* With one reading and one writing process, the buffer and its two positions
\* implement a bounded queue: every byte is read once, in order and unchanged,
\* and none is overwritten before it is read.
F == INSTANCE Fifo WITH
       Cap <- BufSize,
       queue <- [k \in 1 .. (p_wpos - p_rpos) |-> p_buf[(p_rpos + k - 1) % BufSize]]

ImplementsFifo == F!Spec
=============================================================================
