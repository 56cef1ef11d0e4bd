------------------------------- MODULE Kernel -------------------------------
(***************************************************************************)
(* Environments, the scheduler and IPC: kern/env.c, kern/sched.c, the       *)
(* system calls of kern/syscall.c on environments, the return to user mode  *)
(* in kern/trap.c, and the user-level loops around them in lib/ipc.c and    *)
(* lib/wait.c.                                                             *)
(*                                                                         *)
(* A system call runs with interrupts disabled and is one action; only      *)
(* curenv takes steps; a clock interrupt may come between any two steps.    *)
(* An environment id is an index into envs[] and a generation.  A user      *)
(* panic and the idle environment's breakpoint enter the kernel monitor,    *)
(* and the machine stops.                                                  *)
(*                                                                         *)
(* Abstractions.  A page sent with a message is abstracted to whether it    *)
(* is mapped, and writable, in the sender; reference counts are in Pages.   *)
(***************************************************************************)
EXTENDS Integers, Sequences, FiniteSets

CONSTANTS NENV,      \* environments, envs[0] the idle one
          NBoot,     \* environments i386_init creates
          MaxGen,    \* bound: generations of one envs[] entry
          Val,       \* values sent
          Perms,     \* permissions of the pages sent with them, "none" for no page
          Ops,       \* the kinds of call each environment makes
          Wakes,     \* do parents make a receiving child runnable?
          Dstvas,    \* where receivers ask for a page: "none", "null" or "va"
          Nobody, Empty, Waiting

ASSUME KernelAssumption ==
  /\ NENV \in Nat
  /\ NBoot \in 2 .. NENV
  /\ MaxGen \in Nat \ {0}
  /\ Ops \in [0 .. (NENV - 1) -> SUBSET {"RECV", "SEND", "FORK", "STATUS", "DESTROY", "WAIT"}]
  /\ Ops[0] = {}
  /\ Perms \subseteq {"none", "ro", "rw"}
  /\ Wakes \in BOOLEAN
  /\ Dstvas \subseteq {"none", "null", "va"}
  /\ Nobody \notin 0 .. (NENV - 1)
  /\ 0 \notin Val

Env  == 0 .. (NENV - 1)
Id   == [ix : Env, gen : 0 .. MaxGen]
Perm == {"none", "ro", "rw"}
Message == [from : Id, perm : Perm, val : Val \cup {0}]

VARIABLES
  env_status, env_gen, env_parent_id,   \* struct Env
  env_ipc_recving, env_ipc_dstva,
  env_ipc_from, env_ipc_perm, env_ipc_value,
  eax,             \* env_tf.tf_regs.reg_eax of an environment in sys_ipc_recv
  env_free_list,   \* indices, first to be allocated first
  curenv,
  monitor,         \* has the machine stopped in the kernel monitor?
  upc,             \* where each environment is in its user code
  loc,             \* its local variables there
  got              \* what its last ipc_recv returned

ipcvars == <<env_ipc_recving, env_ipc_dstva, env_ipc_from, env_ipc_perm, env_ipc_value, eax>>
vars == <<env_status, env_gen, env_parent_id, ipcvars, env_free_list, curenv,
          monitor, upc, loc, got>>

IdOf(i) == [ix |-> i, gen |-> env_gen[i]]

\* envid2env: the entry id names, when it is not stale.  With checkperm it must
\* be the caller i or its child.
\* Mutants: a freed entry is found; a stale id is.
ExistsFree(id)   == env_gen[id.ix] = id.gen
ExistsStale(id)  == env_status[id.ix] # "FREE"
Exists(id)       == env_status[id.ix] # "FREE" /\ env_gen[id.ix] = id.gen
Permitted(i, id) == Exists(id) /\ (id.ix = i \/ env_parent_id[id.ix] = IdOf(i))

\* Ids that have been handed out, stale ones included.
Known == {id \in Id : id.ix # 0 /\ id.gen \in 1 .. env_gen[id.ix]}

-----------------------------------------------------------------------------
(* sched_yield *)

\* The k-th entry the search looks at, after c.
Cand(c, k) == LET start == IF c \in {Nobody, NENV - 1} THEN 1 ELSE c + 1
              IN  1 + ((start - 1 + k) % (NENV - 1))

\* Mutants: the search starts at envs[1] every time; it includes envs[0].
FromStart(st, c) ==
  LET R == {i \in 1 .. (NENV - 1) : st[i] = "RUNNABLE"}
  IN  IF R # {} THEN CHOOSE i \in R : \A j \in R : i <= j
      ELSE IF st[0] = "RUNNABLE" THEN 0 ELSE Nobody
WithIdle(st, c) ==
  LET R == {k \in 1 .. NENV : st[((IF c = Nobody THEN 0 ELSE c) + k) % NENV] = "RUNNABLE"}
  IN  IF R # {} THEN ((IF c = Nobody THEN 0 ELSE c) + CHOOSE k \in R : \A j \in R : k <= j) % NENV
      ELSE Nobody

\* The environment sched_yield runs, given the status of all and curenv.
Chosen(st, c) ==
  LET R == {k \in 0 .. (NENV - 2) : st[Cand(c, k)] = "RUNNABLE"}
  IN  IF R # {} THEN Cand(c, CHOOSE k \in R : \A j \in R : k <= j)
      ELSE IF st[0] = "RUNNABLE" THEN 0 ELSE Nobody

Sched(st, c) == /\ curenv' = Chosen(st, c)
                /\ monitor' = (Chosen(st, c) = Nobody)

\* Mutant: back to the caller whatever its status.
ReturnAlways(st, i) == UNCHANGED <<curenv, monitor>>

\* The end of trap: back to the caller i if it is still runnable.
Return(st, i) == IF st[i] = "RUNNABLE" THEN UNCHANGED <<curenv, monitor>> ELSE Sched(st, i)

\* A breakpoint in user mode, as in panic().
Breakpoint == monitor' = TRUE /\ curenv' = curenv

\* Environment i, at p in its user code, takes a step.
At(i, p) == ~monitor /\ curenv = i /\ upc[i] = p
Goto(i, p) == upc' = [upc EXCEPT ![i] = p]

-----------------------------------------------------------------------------
(* Environments *)

Timer == /\ ~monitor
         /\ Sched(env_status, curenv)
         /\ UNCHANGED <<env_status, env_gen, env_parent_id, ipcvars, env_free_list, upc, loc, got>>

\* user/idle.c: yield once, then break into the monitor.
IdleYield == /\ At(0, "run")
             /\ Sched(env_status, 0)
             /\ Goto(0, "break")
             /\ UNCHANGED <<env_status, env_gen, env_parent_id, ipcvars, env_free_list, loc, got>>
IdleBreak == /\ At(0, "break")
             /\ Breakpoint
             /\ UNCHANGED <<env_status, env_gen, env_parent_id, ipcvars, env_free_list, upc, loc, got>>

NoId  == [ix |-> 0, gen |-> 0]
NoLoc == [to |-> NoId, rc |-> "ok", msg |-> Empty, pg |-> "none"]

ClearedRecving(c) == [env_ipc_recving EXCEPT ![c] = FALSE]

\* sys_exofork and env_alloc.
Exofork(i) ==
  /\ At(i, "run") /\ "FORK" \in Ops[i]
  /\ env_free_list # <<>>
  /\ LET c == Head(env_free_list)
     IN  /\ env_gen[c] < MaxGen
         /\ env_gen' = [env_gen EXCEPT ![c] = @ + 1]
         /\ env_parent_id' = [env_parent_id EXCEPT ![c] = IdOf(i)]
         /\ env_status' = [env_status EXCEPT ![c] = "NOT_RUNNABLE"]
         /\ env_ipc_recving' = ClearedRecving(c)
  /\ env_free_list' = Tail(env_free_list)
  /\ UNCHANGED <<env_ipc_dstva, env_ipc_from, env_ipc_perm, env_ipc_value, eax, curenv, monitor,
                 upc, loc, got>>

\* sys_env_set_status.
SetStatus(i, id, status) ==
  /\ At(i, "run") /\ "STATUS" \in Ops[i]
  /\ Wakes \/ ~env_ipc_recving[id.ix]
  /\ Permitted(i, id)
  /\ env_status[id.ix] # status
  /\ env_status' = [env_status EXCEPT ![id.ix] = status]
  /\ Return(env_status', i)
  /\ UNCHANGED <<env_gen, env_parent_id, ipcvars, env_free_list, upc, loc, got>>

\* sys_env_destroy, env_destroy and env_free; also a fault nobody handles.
Destroy(i, id) ==
  /\ At(i, "run") /\ "DESTROY" \in Ops[i]
  /\ Permitted(i, id)
  /\ env_status' = [env_status EXCEPT ![id.ix] = "FREE"]
  /\ env_free_list' = <<id.ix>> \o env_free_list
  /\ IF id.ix = i THEN Sched(env_status', Nobody) ELSE UNCHANGED <<curenv, monitor>>
  /\ upc' = [upc EXCEPT ![id.ix] = "run"]
  /\ loc' = [loc EXCEPT ![id.ix] = NoLoc]
  /\ got' = [got EXCEPT ![id.ix] = Empty]
  /\ UNCHANGED <<env_gen, env_parent_id, ipcvars>>

\* wait: reads env_id, then env_status, and yields until the environment is gone.
WaitCall(i, id) ==
  /\ At(i, "run") /\ "WAIT" \in Ops[i]
  /\ id.ix # i
  /\ Goto(i, "wait_id")
  /\ loc' = [loc EXCEPT ![i].to = id]
  /\ UNCHANGED <<env_status, env_gen, env_parent_id, ipcvars, env_free_list, curenv, monitor, got>>

WaitId(i) ==
  /\ At(i, "wait_id")
  /\ Goto(i, IF env_gen[loc[i].to.ix] = loc[i].to.gen THEN "wait_status" ELSE "waited")
  /\ UNCHANGED <<env_status, env_gen, env_parent_id, ipcvars, env_free_list, curenv, monitor, loc, got>>

\* Mutant: an environment that is not runnable counts as gone.
WaitRunnable(i) ==
  /\ At(i, "wait_status")
  /\ IF env_status[loc[i].to.ix] = "RUNNABLE"
     THEN Goto(i, "wait_id") /\ Sched(env_status, i)
     ELSE Goto(i, "waited") /\ UNCHANGED <<curenv, monitor>>
  /\ UNCHANGED <<env_status, env_gen, env_parent_id, ipcvars, env_free_list, loc, got>>

WaitStatus(i) ==
  /\ At(i, "wait_status")
  /\ IF env_status[loc[i].to.ix] # "FREE"
     THEN Goto(i, "wait_id") /\ Sched(env_status, i)
     ELSE Goto(i, "waited") /\ UNCHANGED <<curenv, monitor>>
  /\ UNCHANGED <<env_status, env_gen, env_parent_id, ipcvars, env_free_list, loc, got>>

Waited(i) ==
  /\ At(i, "waited")
  /\ Goto(i, "run")
  /\ loc' = [loc EXCEPT ![i] = NoLoc]
  /\ UNCHANGED <<env_status, env_gen, env_parent_id, ipcvars, env_free_list, curenv, monitor, got>>

-----------------------------------------------------------------------------
(* IPC *)

\* What sys_ipc_recv keeps of its argument: an address that is not below UTOP
\* ("none") is kept as NULL.  Mutants: it is kept as it is; NULL whatever it is.
RawDstva(dstva)    == dstva
StoredDstva(dstva) == IF dstva = "none" THEN "null" ELSE dstva

\* sys_ipc_recv, called by ipc_recv.
Recv(i, dstva) ==
  /\ At(i, "run") /\ "RECV" \in Ops[i]
  /\ env_ipc_dstva' = [env_ipc_dstva EXCEPT ![i] = StoredDstva(dstva)]
  /\ loc' = [loc EXCEPT ![i].pg = dstva]
  /\ env_ipc_recving' = [env_ipc_recving EXCEPT ![i] = TRUE]
  /\ env_status' = [env_status EXCEPT ![i] = "NOT_RUNNABLE"]
  /\ eax' = [eax EXCEPT ![i] = "SYS_ipc_recv"]
  /\ Goto(i, "recv")
  /\ Sched(env_status', i)
  /\ UNCHANGED <<env_gen, env_parent_id, env_ipc_from, env_ipc_perm, env_ipc_value, env_free_list,
                 got>>

\* The library's check of the value the system call returned.
RecvReturn(i) ==
  /\ At(i, "recv")
  /\ IF eax[i] = "zero" THEN Goto(i, "read_from") /\ UNCHANGED <<curenv, monitor>>
     ELSE Goto(i, "panic") /\ Breakpoint
  /\ UNCHANGED <<env_status, env_gen, env_parent_id, ipcvars, env_free_list, loc, got>>

\* ipc_recv reads the three fields one after the other.
ReadFrom(i) ==
  /\ At(i, "read_from")
  /\ Goto(i, "read_perm")
  /\ loc' = [loc EXCEPT ![i].msg = [from |-> env_ipc_from[i]]]
  /\ UNCHANGED <<env_status, env_gen, env_parent_id, ipcvars, env_free_list, curenv, monitor, got>>

ReadPerm(i) ==
  /\ At(i, "read_perm")
  /\ Goto(i, "read_value")
  /\ loc' = [loc EXCEPT ![i].msg = [from |-> @.from, perm |-> env_ipc_perm[i]]]
  /\ UNCHANGED <<env_status, env_gen, env_parent_id, ipcvars, env_free_list, curenv, monitor, got>>

ReadValue(i) ==
  /\ At(i, "read_value")
  /\ Goto(i, "run")
  /\ got' = [got EXCEPT ![i] = [from |-> loc[i].msg.from, perm |-> loc[i].msg.perm,
                                val  |-> env_ipc_value[i]]]
  /\ loc' = [loc EXCEPT ![i] = NoLoc]
  /\ UNCHANGED <<env_status, env_gen, env_parent_id, ipcvars, env_free_list, curenv, monitor>>

\* ipc_send starts: the value, and the page with the permission asked for.
Send(i, id, v, perm) ==
  /\ At(i, "run") /\ "SEND" \in Ops[i]
  /\ Goto(i, "try_send")
  /\ loc' = [loc EXCEPT ![i] = [NoLoc EXCEPT !.to = id,
                                !.msg = [from |-> IdOf(i), perm |-> perm, val |-> v]]]
  /\ UNCHANGED <<env_status, env_gen, env_parent_id, ipcvars, env_free_list, curenv, monitor, got>>

\* The sender is told rc, and the target, if any, is as it was.
SendFails(i, rc) ==
  /\ loc' = [loc EXCEPT ![i].rc = rc]
  /\ UNCHANGED <<env_status, env_ipc_recving, env_ipc_from, env_ipc_value, eax>>

\* Mutant: env_ipc_recving stays set.
StillReceiving(j) == env_ipc_recving
NotReceiving(j)   == [env_ipc_recving EXCEPT ![j] = FALSE]

\* sys_ipc_try_send.  page says what is mapped at srcva in the sender; full,
\* that no page table could be allocated for the target.
TrySend(i, page, full) ==
  LET id  == loc[i].to
      j   == id.ix
      m   == loc[i].msg
      pg  == m.perm # "none" /\ env_ipc_dstva[j] = "va"
  IN  /\ At(i, "try_send")
      /\ Goto(i, "sent")
      /\ IF ~Exists(id)
         THEN SendFails(i, "E_BAD_ENV") /\ UNCHANGED env_ipc_perm
         ELSE IF ~env_ipc_recving[j]
         THEN SendFails(i, "E_IPC_NOT_RECV") /\ UNCHANGED env_ipc_perm
         ELSE IF pg /\ (page = "unmapped" \/ (m.perm = "rw" /\ page = "ro"))
         THEN SendFails(i, "E_INVAL") /\ env_ipc_perm' = [env_ipc_perm EXCEPT ![j] = "none"]
         ELSE IF pg /\ full
         THEN SendFails(i, "E_NO_MEM") /\ env_ipc_perm' = [env_ipc_perm EXCEPT ![j] = "none"]
         ELSE /\ env_ipc_perm' = [env_ipc_perm EXCEPT ![j] = IF pg THEN m.perm ELSE "none"]
              /\ env_ipc_recving' = NotReceiving(j)
              /\ env_ipc_from' = [env_ipc_from EXCEPT ![j] = IdOf(i)]
              /\ env_ipc_value' = [env_ipc_value EXCEPT ![j] = m.val]
              /\ eax' = [eax EXCEPT ![j] = "zero"]
              /\ env_status' = [env_status EXCEPT ![j] = "RUNNABLE"]
              /\ loc' = [loc EXCEPT ![i].rc = "ok"]
      /\ UNCHANGED <<env_gen, env_parent_id, env_ipc_dstva, env_free_list, curenv, monitor, got>>

\* ipc_send yields after every try.
SendYield(i) ==
  /\ At(i, "sent")
  /\ Goto(i, "sent_yielded")
  /\ Sched(env_status, i)
  /\ UNCHANGED <<env_status, env_gen, env_parent_id, ipcvars, env_free_list, loc, got>>

\* Mutant: it does not try again.
SendOnce(i) ==
  /\ At(i, "sent_yielded")
  /\ Goto(i, "run")
  /\ loc' = [loc EXCEPT ![i] = NoLoc]
  /\ UNCHANGED <<env_status, env_gen, env_parent_id, ipcvars, env_free_list, curenv, monitor, got>>

\* It tries again, returns, or panics.
SendLoop(i) ==
  /\ At(i, "sent_yielded")
  /\ CASE loc[i].rc = "E_IPC_NOT_RECV" ->
            Goto(i, "try_send") /\ UNCHANGED <<loc, curenv, monitor>>
       [] loc[i].rc = "ok" ->
            Goto(i, "run") /\ loc' = [loc EXCEPT ![i] = NoLoc] /\ UNCHANGED <<curenv, monitor>>
       [] OTHER -> Goto(i, "panic") /\ Breakpoint /\ UNCHANGED loc
  /\ UNCHANGED <<env_status, env_gen, env_parent_id, ipcvars, env_free_list, got>>

-----------------------------------------------------------------------------
\* i386_init, up to the end of its sched_yield.
Init ==
  /\ env_status = [i \in Env |-> IF i < NBoot THEN "RUNNABLE" ELSE "FREE"]
  /\ env_gen = [i \in Env |-> IF i < NBoot THEN 1 ELSE 0]
  /\ env_parent_id = [i \in Env |-> NoId]
  /\ env_free_list = [k \in 1 .. (NENV - NBoot) |-> NBoot + k - 1]
  /\ env_ipc_recving = [i \in Env |-> FALSE]
  /\ env_ipc_dstva = [i \in Env |-> "null"]
  /\ env_ipc_from = [i \in Env |-> NoId]
  /\ env_ipc_perm = [i \in Env |-> "none"]
  /\ env_ipc_value = [i \in Env |-> 0]
  /\ eax = [i \in Env |-> "zero"]
  /\ curenv = 1 /\ monitor = FALSE
  /\ upc = [i \in Env |-> "run"]
  /\ loc = [i \in Env |-> NoLoc]
  /\ got = [i \in Env |-> Empty]

Step(i) ==
  \/ Exofork(i)
  \/ \E id \in Known : \/ \E s \in {"RUNNABLE", "NOT_RUNNABLE"} : SetStatus(i, id, s)
                       \/ Destroy(i, id)
                       \/ WaitCall(i, id)
                       \/ \E v \in Val, p \in Perms : Send(i, id, v, p)
  \/ WaitId(i) \/ WaitStatus(i) \/ Waited(i)
  \/ \E d \in Dstvas : Recv(i, d)
  \/ RecvReturn(i) \/ ReadFrom(i) \/ ReadPerm(i) \/ ReadValue(i)
  \/ \E page \in {"unmapped", "ro", "rw"}, full \in BOOLEAN : TrySend(i, page, full)
  \/ SendYield(i) \/ SendLoop(i)

Next == Timer \/ IdleYield \/ IdleBreak \/ \E i \in Env : Step(i)

Spec == Init /\ [][Next]_vars

\* The clock keeps interrupting, and what runs again and again gets a step done.
FairSpec == /\ Spec
            /\ WF_vars(Timer)
            /\ \A i \in Env : SF_vars(Step(i))

-----------------------------------------------------------------------------
\* Type invariant: what the fields of struct Env, the free list and the locals of
\* ipc_send, ipc_recv and wait may hold.
TypeOK ==
  /\ env_status \in [Env -> {"FREE", "RUNNABLE", "NOT_RUNNABLE"}]
  /\ env_gen \in [Env -> 0 .. MaxGen]
  /\ env_parent_id \in [Env -> Id]
  /\ env_ipc_recving \in [Env -> BOOLEAN]
  /\ env_ipc_dstva \in [Env -> {"null", "va"}]
  /\ env_ipc_from \in [Env -> Id]
  /\ env_ipc_perm \in [Env -> Perm]
  /\ env_ipc_value \in [Env -> Val \cup {0}]
  /\ eax \in [Env -> {"zero", "SYS_ipc_recv"}]
  /\ env_free_list \in Seq(Env)
  /\ curenv \in Env \cup {Nobody}
  /\ monitor \in BOOLEAN
  /\ DOMAIN upc = Env /\ DOMAIN loc = Env
  /\ got \in [Env -> Message \cup {Empty}]

\* env_alloc and env_free keep the free list: it holds every free entry once,
\* and no entry in use.
FreeListExact ==
  /\ {env_free_list[k] : k \in DOMAIN env_free_list} = {i \in Env : env_status[i] = "FREE"}
  /\ \A k, l \in DOMAIN env_free_list : env_free_list[k] = env_free_list[l] => k = l

\* "never choose envs[0] unless NOTHING else is runnable" (sched_yield): while
\* the idle environment runs, and so when it stops the machine, no other is
\* runnable.
IdleLast == curenv = 0 => \A i \in Env \ {0} : env_status[i] # "RUNNABLE"

\* What trap and sched_yield return to is runnable, also after a system call
\* that changed the caller's own status or freed it.
CurRunnable == ~monitor => curenv \in Env /\ env_status[curenv] = "RUNNABLE"


\* wait() returns only when the environment it was called for is gone, even if
\* its entry was reused between wait's two reads.
WaitedGone == \A i \in Env : upc[i] = "waited" => ~Exists(loc[i].to)


\* A message reaches the environment it was sent to, never another one that got
\* the same entry of envs[] while the sender was retrying (envid2env).
Addressed ==
  [][\A i, j \in Env :
       (curenv = i /\ upc[i] = "try_send" /\ env_ipc_recving[j] /\ ~env_ipc_recving'[j])
       => loc[i].to = IdOf(j)]_vars


\* A runnable environment gets the processor, unless it stops being runnable.
RunnableRuns ==
  \A i \in Env \ {0} :
    (env_status[i] = "RUNNABLE") ~> (curenv = i \/ env_status[i] # "RUNNABLE" \/ monitor)

\* No lost wakeup: a receiver to whom someone is sending gets a message, whoever
\* wins the race between the senders and whatever the clock interrupts.
ReceiverServed ==
  \A i, j \in Env \ {0} :
    (/\ env_ipc_recving[j] /\ loc[i].to = IdOf(j)
     /\ upc[i] = "try_send" \/ loc[i].rc = "E_IPC_NOT_RECV")
    ~> (~env_ipc_recving[j] \/ monitor)

-----------------------------------------------------------------------------
\* The kernel's IPC and lib/ipc.c implement Rendezvous: what ipc_recv puts
\* together from three reads is one message, delivered once, while it waited.
Delivered(i) == [from |-> env_ipc_from[i], perm |-> env_ipc_perm[i], val |-> env_ipc_value[i]]

Box(i) == CASE env_status[i] # "FREE" /\ upc[i] = "recv" /\ env_ipc_recving[i] -> Waiting
            [] env_status[i] # "FREE" /\ upc[i] \in {"read_from", "read_perm", "read_value"} -> Delivered(i)
            [] env_status[i] # "FREE" /\ upc[i] = "recv" -> Delivered(i)
            [] OTHER -> Empty

R == INSTANCE Rendezvous WITH Proc <- Env, box <- [i \in Env |-> Box(i)]

ImplementsRendezvous == R!Spec
=============================================================================
