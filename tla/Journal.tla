------------------------------ MODULE Journal ------------------------------
(***************************************************************************)
(* The journal of the file server (fs/jbd.c), with the block cache and the *)
(* disk under it (fs/bc.c), the block allocator and the file operations it *)
(* protects (fs/fs.c), the request handlers that drive it (fs/serv.c) and  *)
(* a crash of the machine between any two disk writes.                     *)
(*                                                                         *)
(* The server is one environment that serves one request at a time, so a   *)
(* request runs to its end unless the machine crashes.  An action performs *)
(* at most one write of a File, a data block or a journal block; pc names  *)
(* the write that comes next.  The bitmap is written through by free_block *)
(* and occupy_block and is kept once, in free.                             *)
(*                                                                         *)
(* Abstractions.  All File structs lie in one directory block, so flushing *)
(* one flushes them all.  A file has at most one data block, of FileLen    *)
(* cells; a client writes one cell at a time.  A block is reached through  *)
(* an open file only while its directory entry is in use.                  *)
(***************************************************************************)
EXTENDS Integers, Sequences, FiniteSets

CONSTANTS Env,             \* client environments
          Name,            \* file names
          Val,             \* what a client may write in a cell
          NTrans,          \* MAX_NTRANS
          TransPerSector,  \* SECTSIZE / sizeof(Transaction_t)
          MaxHandles,      \* MAX_NHANDLES_INTRANS
          HandleCap,       \* cells in Handle_t's p_data
          FileLen,         \* cells in a file's data block
          NBlocks,         \* blocks after the journal superblock
          Ops,             \* the kinds of request the clients issue
          Seeks,           \* do clients write elsewhere than at the end?
          Mixes,           \* do they mix kinds of request in a transaction?
          MaxReq,          \* bound: requests under one transaction
          MaxCrash,        \* bound: crashes in a behaviour
          NoEnv, NoTrans, NoName, Zero, Junk

ASSUME ConstAssumption ==
  /\ NTrans \in Nat \ {0} /\ TransPerSector \in Nat \ {0}
  /\ MaxHandles \in Nat \ {0} /\ HandleCap \in Nat \ {0}
  /\ FileLen \in Nat \ {0} /\ NBlocks \in Nat \ {0}
  /\ MaxReq \in Nat /\ MaxCrash \in Nat /\ Seeks \in BOOLEAN /\ Mixes \in BOOLEAN
  /\ Ops \subseteq {"CREAT", "WRITE", "TRUNC", "DELET", "SYNC", "EXIT"}
  /\ NoEnv \notin Env /\ NoName \notin Name
  /\ NoTrans \notin 0 .. (NTrans - 1)
  /\ Zero \notin Val /\ Junk \notin Val /\ Zero # Junk
  /\ Junk \notin Nat

Slot  == 0 .. (NTrans - 1)
Block == 1 .. NBlocks
Hno   == 0 .. (MaxHandles - 1)
Off   == 0 .. (FileLen - 1)

VARIABLES
  jc, jd,      \* jsuper->j_trans: in the block cache, on the disk
  free,        \* blocks whose bit is set in the bitmap
  bc, bd,      \* contents of the other blocks: cached, on the disk
  env_trans,   \* envs[ENVX(e)].env_trans
  fc, fd,      \* File structs: cached, on the disk
  pc, cur,     \* the disk write the server does next, and for which request
  why,         \* the assertion or panic that stopped the server
  crashes,     \* crashes so far
  intent,      \* history: the requests made under each transaction
  claim        \* history: what the active transaction has promised

vars == <<jc, jd, free, bc, bd, env_trans, fc, fd, pc, cur, why, crashes,
          intent, claim>>

-----------------------------------------------------------------------------
(* What the disk holds *)

\* struct Transaction; t_id is the slot, t_ref is unused.
NoTransaction == [active |-> FALSE, envid |-> NoEnv, nh |-> 0, hi |-> 0]

\* A request as the handlers put it in a Handle_t.  For a write, off, len and
\* data are p_off, p_dsize and p_data; for a truncation off is the new size.
Req(op, n, off, v) ==
  [op |-> op, name |-> n, off |-> off, len |-> 1,
   data |-> [i \in 0 .. (HandleCap - 1) |-> IF i = 0 THEN v ELSE Zero]]

NoReq == Req("none", NoName, 0, Zero)

\* What a block was last used for: nothing, a handle indirect block, a handle,
\* a file's data.
Blank    == [kind |-> "blank"]
Ind(p)   == [kind |-> "ind", ptr |-> p]
Handle(r) == [kind |-> "handle", req |-> r]
Data(d)  == [kind |-> "data", cell |-> d]

NoPtrs == [h \in Hno |-> 0]
Zeros  == [o \in Off |-> Zero]

\* A block read as an indirect block, as a handle, or as file data, whatever
\* it holds.
PtrIn(blk, hno) == IF blk.kind = "ind" THEN blk.ptr[hno]
                   ELSE IF blk.kind = "blank" THEN 0 ELSE Junk
ReqIn(blk)      == IF blk.kind = "handle" THEN blk.req ELSE NoReq
CellsIn(blk)    == IF blk.kind = "data" THEN blk.cell
                   ELSE IF blk.kind = "blank" THEN Zeros ELSE [o \in Off |-> Junk]

NoFile == [there |-> FALSE, size |-> 0, ptr |-> 0]

NoCur == [env |-> NoEnv, slot |-> NoTrans, hno |-> 0, req |-> NoReq,
          trunc |-> FALSE, boot |-> FALSE]

-----------------------------------------------------------------------------
(* Steps shared by the handlers *)

Goto(p)  == pc' = p /\ why' = why
Panic(w) == pc' = "panic" /\ why' = w

\* The request is answered.
Done == pc' = "idle" /\ why' = why /\ cur' = NoCur

Lowest(S) == CHOOSE x \in S : \A y \in S : x <= y

\* alloc_block: the lowest free block.
AllocFrom(f) == Lowest(f)

\* flush_sector: the Transaction structs that share t's sector reach the disk.
FlushSector(s, j) ==
  [t \in Slot |-> IF t \div TransPerSector = s \div TransPerSector
                  THEN j[t] ELSE jd[t]]

\* start_transaction: the slot the environment has, else the one after the
\* last slot in use.
InUse       == {s \in Slot : jc[s].envid # NoEnv}
\* Mutant: the last slot in use itself, ++next forgotten.
LastSlot    == Lowest({n \in 0 .. NTrans : \A s \in InUse : s <= n})
NextSlot    == Lowest({n \in 0 .. NTrans : \A s \in InUse : s < n})
HasTrans(e) == env_trans[e] # NoTrans
SlotFor(e)  == IF HasTrans(e) THEN env_trans[e] ELSE NextSlot
JStarted(e) == [jc EXCEPT ![SlotFor(e)].envid = e]

NoSlotLeft(e) == ~HasTrans(e) /\ NextSlot = NTrans

(* add_handle_to_transaction.  A write is merged into the last logged write *)
(* of the same file when it fits; the scan for that handle runs off the     *)
(* front of the table when there is none, and the function returns.         *)
LogPtr(s, h)   == PtrIn(bc[jc[s].hi], h)
HandleAt(s, h) == IF LogPtr(s, h) \in Block THEN ReqIn(bc[LogPtr(s, h)]) ELSE NoReq

WritesTo(s, n) ==
  {h \in 0 .. (jc[s].nh - 1) : HandleAt(s, h).op = "WRITE" /\ HandleAt(s, h).name = n}

Last(H) == CHOOSE h \in H : \A g \in H : g <= h

Merge(old, r) ==
  [old EXCEPT !.len  = @ + r.len,
              !.data = [i \in 0 .. (HandleCap - 1) |->
                          IF i \in (r.off - old.off) .. (r.off - old.off + r.len - 1)
                          THEN r.data[i - (r.off - old.off)] ELSE old.data[i]]]

Fits(old, r) == r.off - old.off + r.len <= HandleCap

\* The ways a handle is added to transaction s, where j is j_trans with s
\* already taken.
AppendHandle(s, r, j, next) ==
  LET b1   == IF j[s].hi = 0 THEN AllocFrom(free) ELSE j[s].hi
      left == free \ {b1}
      b2   == AllocFrom(left)
      ptrs == IF j[s].hi = 0 THEN NoPtrs ELSE [h \in Hno |-> PtrIn(bc[b1], h)]
  IN  IF j[s].nh >= MaxHandles \/ free = {} \/ left = {}
      THEN /\ Panic("transaction_get_handle failed")
           /\ jc' = j
           /\ free' = IF j[s].nh >= MaxHandles \/ free = {} THEN free ELSE left
           /\ bc' = bc
      ELSE /\ jc' = [j EXCEPT ![s].nh = @ + 1, ![s].hi = b1]
           /\ free' = left \ {b2}
           /\ bc' = [bc EXCEPT ![b1] = Ind([ptrs EXCEPT ![j[s].nh] = b2]),
                               ![b2] = Handle(r)]
           /\ Goto(next)

MergeHandle(s, r, j, next) ==
  LET h   == Last(WritesTo(s, r.name))
      old == HandleAt(s, h)
  IN  IF r.off < old.off
      THEN Panic("off2 >= off1") /\ jc' = j /\ UNCHANGED <<free, bc>>
      ELSE /\ jc' = j /\ free' = free
           /\ bc' = [bc EXCEPT ![LogPtr(s, h)] = Handle(Merge(old, r))]
           /\ Goto(next)

AddHandle(s, r, j, next) ==
  LET scan == r.op = "WRITE" /\ j[s].nh > 0
      hits == WritesTo(s, r.name)
      old  == HandleAt(s, Last(hits))
  IN  \/ /\ ~scan \/ (hits # {} /\ r.off >= old.off /\ ~Fits(old, r))
         /\ AppendHandle(s, r, j, next)
      \/ /\ scan /\ hits # {} /\ (r.off < old.off \/ Fits(old, r))
         /\ MergeHandle(s, r, j, next)
      \/ /\ scan /\ hits = {}
         /\ jc' = j /\ Goto(next) /\ UNCHANGED <<free, bc>>

-----------------------------------------------------------------------------
(* The request handlers, up to the file operation they call *)

\* The request is logged under the environment's transaction.
Log(e, r, trunc, next) ==
  /\ pc = "idle"
  /\ r.op \in Ops
  /\ HasTrans(e) => LET logged == intent[env_trans[e]]
                    IN  /\ Len(logged) < MaxReq
                        /\ Mixes \/ \A k \in DOMAIN logged : logged[k].op = r.op
  /\ IF NoSlotLeft(e)
     THEN /\ Panic("no transaction id")
          /\ UNCHANGED <<jc, free, bc, env_trans, intent, cur>>
     ELSE /\ AddHandle(SlotFor(e), r, JStarted(e), next)
          /\ env_trans' = [env_trans EXCEPT ![e] = SlotFor(e)]
          /\ intent' = [intent EXCEPT ![SlotFor(e)] =
                          IF HasTrans(e) THEN Append(@, r) ELSE <<r>>]
          /\ cur' = [NoCur EXCEPT !.env = e, !.slot = SlotFor(e), !.req = r, !.trunc = trunc]
  /\ UNCHANGED <<jd, bd, fc, fd, crashes, claim>>

\* serve_open with O_CREAT, and possibly O_TRUNC.
OpenCreate(e, n, trunc) ==
  /\ trunc => "TRUNC" \in Ops
  /\ Log(e, Req("CREAT", n, 0, Zero), trunc, "apply")

\* The second half of serve_open when O_TRUNC is set too.
OpenTruncate ==
  /\ pc = "open_trunc"
  /\ LET r == Req("TRUNC", cur.req.name, 0, Zero)
     IN  /\ AddHandle(cur.slot, r, jc, "apply")
         /\ cur' = [cur EXCEPT !.req = r, !.trunc = FALSE]
         /\ intent' = [intent EXCEPT ![cur.slot] = Append(@, r)]
  /\ UNCHANGED <<jd, bd, env_trans, fc, fd, crashes, claim>>

\* A request that starts a transaction and logs nothing: serve_open with
\* O_WRONLY or O_RDWR, or serve_read and serve_stat of a file open for writing.
Open(e) ==
  /\ pc = "idle"
  /\ ~HasTrans(e)
  /\ IF NoSlotLeft(e)
     THEN /\ Panic("no transaction id")
          /\ UNCHANGED <<jc, env_trans, intent>>
     ELSE /\ jc' = JStarted(e) /\ Goto("idle")
          /\ env_trans' = [env_trans EXCEPT ![e] = SlotFor(e)]
          /\ intent' = [intent EXCEPT ![SlotFor(e)] = <<>>]
  /\ UNCHANGED <<jd, free, bc, bd, fc, fd, cur, crashes, claim>>

\* serve_write of one cell at fd_offset.
Write(e, n, off, v) ==
  /\ fc[n].there
  /\ Seeks \/ off = fc[n].size
  /\ Log(e, Req("WRITE", n, off, v), FALSE, "apply")

\* serve_set_size.
SetSize(e, n, size) ==
  /\ fc[n].there
  /\ Log(e, Req("TRUNC", n, size, Zero), FALSE, "apply")

\* serve_remove: logged, committed, then executed.
Remove(e, n) == Log(e, Req("DELET", n, 0, Zero), FALSE, "commit")

\* serve_flush: openfile_lookup starts a transaction if there is none;
\* commit_transaction does nothing for an empty one.
Flush(e, n) ==
  /\ pc = "idle"
  /\ fc[n].there
  /\ IF NoSlotLeft(e)
     THEN /\ Panic("no transaction id")
          /\ UNCHANGED <<jc, env_trans, intent, cur>>
     ELSE /\ jc' = JStarted(e)
          /\ env_trans' = [env_trans EXCEPT ![e] = SlotFor(e)]
          /\ intent' = IF HasTrans(e) THEN intent
                       ELSE [intent EXCEPT ![SlotFor(e)] = <<>>]
          /\ cur' = [NoCur EXCEPT !.env = e, !.slot = SlotFor(e), !.req.name = n]
          /\ Goto(IF jc[SlotFor(e)].nh = 0 THEN "flush_data" ELSE "commit")
  /\ UNCHANGED <<jd, free, bc, bd, fc, fd, crashes, claim>>

\* serve_sync: fs_sync walks the blocks upwards, the journal superblock first.
Sync ==
  /\ pc = "idle" /\ "SYNC" \in Ops
  /\ jd' = jc
  /\ Goto("sync")
  /\ UNCHANGED <<jc, free, bc, bd, env_trans, fc, fd, cur, crashes, intent, claim>>

SyncBlocks ==
  /\ pc = "sync"
  /\ bd' = bc /\ fd' = fc
  /\ Goto("idle")
  /\ UNCHANGED <<jc, jd, free, bc, env_trans, fc, cur, crashes, intent, claim>>

\* The client is destroyed; the next environment in its place starts with
\* env_trans = NULL (env_alloc).
EnvExit(e) ==
  /\ pc = "idle" /\ "EXIT" \in Ops
  /\ HasTrans(e)
  /\ env_trans' = [env_trans EXCEPT ![e] = NoTrans]
  /\ UNCHANGED <<jc, jd, free, bc, bd, fc, fd, pc, cur, why, crashes, intent, claim>>

-----------------------------------------------------------------------------
(* The file operations of fs/fs.c, called by a handler or by handle_replay *)

\* transaction_replay's hno++, and a mutant without it.
SameHandle == cur
NextHandle == [cur EXCEPT !.hno = @ + 1]

\* Where control goes after the file operation succeeds or fails.
AfterOp(ok) ==
  LET op == cur.req.op
      p  == IF cur.boot
            THEN IF ~ok THEN "clear"
                 ELSE IF op \in {"WRITE", "TRUNC"} THEN "flush_data" ELSE "replay"
            ELSE IF op = "DELET" THEN "clear"
                 ELSE IF op = "CREAT" /\ cur.trunc THEN "open_trunc" ELSE "idle"
  IN  /\ Goto(p)
      /\ cur' = IF p = "idle" THEN NoCur
                ELSE IF p = "replay" THEN NextHandle ELSE cur

CurFile == fc[cur.req.name]
opvars == <<jc, jd, bd, env_trans, crashes, intent, claim>>

\* file_create: a new entry, and the directory is flushed.
FileCreate ==
  /\ pc = "apply" /\ cur.req.op = "CREAT"
  /\ IF CurFile.there
     THEN AfterOp(FALSE) /\ UNCHANGED <<fc, fd>>
     ELSE /\ fc' = [fc EXCEPT ![cur.req.name] = [NoFile EXCEPT !.there = TRUE]]
          /\ fd' = fc'
          /\ AfterOp(TRUE)
  /\ UNCHANGED <<opvars, free, bc>>

\* file_write, first part: file_set_size to extend the file, flushing it.
FileExtend ==
  /\ pc = "apply" /\ cur.req.op = "WRITE"
  /\ IF ~CurFile.there
     THEN AfterOp(FALSE) /\ UNCHANGED <<fc, fd>>
     ELSE /\ IF cur.req.off + cur.req.len > CurFile.size
             THEN /\ fc' = [fc EXCEPT ![cur.req.name].size = cur.req.off + cur.req.len]
                  /\ fd' = fc'
             ELSE UNCHANGED <<fc, fd>>
          /\ Goto("apply2") /\ cur' = cur
  /\ UNCHANGED <<opvars, free, bc>>

\* file_write, second part: file_get_block, then the copy into the cache.
Written(cells) ==
  [o \in Off |-> IF o \in cur.req.off .. (cur.req.off + cur.req.len - 1)
                 THEN IF o - cur.req.off < HandleCap
                      THEN cur.req.data[o - cur.req.off] ELSE Junk
                 ELSE cells[o]]

FileWriteData ==
  /\ pc = "apply2" /\ cur.req.op = "WRITE"
  /\ IF CurFile.ptr = 0
     THEN IF free = {}
          THEN AfterOp(FALSE) /\ UNCHANGED <<free, bc, fc>>
          ELSE /\ free' = free \ {AllocFrom(free)}
               /\ fc' = [fc EXCEPT ![cur.req.name].ptr = AllocFrom(free)]
               /\ bc' = [bc EXCEPT ![AllocFrom(free)] = Data(Written(Zeros))]
               /\ AfterOp(TRUE)
     ELSE IF CurFile.ptr \in free
          THEN Panic("file block is free") /\ UNCHANGED <<cur, free, bc, fc>>
          ELSE /\ bc' = [bc EXCEPT ![CurFile.ptr] = Data(Written(CellsIn(@)))]
               /\ AfterOp(TRUE)
               /\ UNCHANGED <<free, fc>>
  /\ UNCHANGED <<opvars, fd>>

\* file_free_block's *ptr = 0, and a mutant without it.
KeptLink(f) == f
Unlinked(f) == [f EXCEPT !.ptr = 0]

\* file_truncate_blocks: the block goes back to the bitmap, on the disk too.
FileFreeBlock ==
  /\ pc = "apply" /\ cur.req.op \in {"TRUNC", "DELET"}
  /\ IF ~CurFile.there
     THEN AfterOp(FALSE) /\ UNCHANGED <<free, fc>>
     ELSE /\ IF CurFile.ptr # 0 /\ cur.req.off = 0 /\ CurFile.size > 0
             THEN /\ free' = free \cup {CurFile.ptr}
                  /\ fc' = [fc EXCEPT ![cur.req.name] = Unlinked(@)]
             ELSE UNCHANGED <<free, fc>>
          /\ Goto("apply2") /\ cur' = cur
  /\ UNCHANGED <<opvars, bc, fd>>

\* The rest of file_set_size and of file_remove: the File is flushed.
Shrunk == [fc EXCEPT ![cur.req.name] =
             IF cur.req.op = "DELET" THEN [@ EXCEPT !.there = FALSE, !.size = 0]
             ELSE [@ EXCEPT !.size = cur.req.off]]

\* Mutant: the File is not flushed.
FileShrinkUnflushed ==
  /\ pc = "apply2" /\ cur.req.op \in {"TRUNC", "DELET"}
  /\ fc' = Shrunk /\ fd' = fd
  /\ AfterOp(TRUE)
  /\ UNCHANGED <<opvars, free, bc>>

FileShrink ==
  /\ pc = "apply2" /\ cur.req.op \in {"TRUNC", "DELET"}
  /\ fc' = Shrunk /\ fd' = fc'
  /\ AfterOp(TRUE)
  /\ UNCHANGED <<opvars, free, bc>>

\* file_flush: the data block, then the File.
FileFlushData ==
  /\ pc = "flush_data"
  /\ bd' = IF CurFile.size > 0 /\ CurFile.ptr # 0
           THEN [bd EXCEPT ![CurFile.ptr] = bc[CurFile.ptr]] ELSE bd
  /\ Goto("flush_file")
  /\ UNCHANGED <<jc, jd, free, bc, env_trans, fc, fd, cur, crashes, intent, claim>>

FileFlushFile ==
  /\ pc = "flush_file"
  /\ fd' = fc
  /\ Goto(IF cur.boot THEN "replay" ELSE "clear")
  /\ cur' = IF cur.boot THEN NextHandle ELSE cur
  /\ UNCHANGED <<jc, jd, free, bc, bd, env_trans, fc, crashes, intent, claim>>

-----------------------------------------------------------------------------
(* History: what a committed transaction promises about the flushed file *)

\* The facts a request makes true.
Fact(kind, n, off, v) == [kind |-> kind, name |-> n, off |-> off, val |-> v]
FactsOf(r) ==
  CASE r.op = "CREAT" -> {Fact("there", r.name, 0, Zero)}
    [] r.op = "WRITE" -> {Fact("cell", r.name, r.off, r.data[0])}
    [] r.op = "TRUNC" -> {Fact("size", r.name, r.off, Zero)}
    [] r.op = "DELET" -> {Fact("gone", r.name, 0, Zero)}

\* Does fact x hold of the File structs f and the blocks b?
HoldsOf(x, f, b) ==
  LET file == f[x.name]
  IN  CASE x.kind = "there" -> file.there
        [] x.kind = "gone"  -> ~file.there
        [] x.kind = "size"  -> file.there /\ file.size = x.off
        [] x.kind = "cell"  -> /\ file.there /\ x.off < file.size
                               /\ file.ptr # 0 /\ CellsIn(b[file.ptr])[x.off] = x.val

\* Everything that can be said of file n.
AllFacts(n) == {Fact(k, n, 0, Zero) : k \in {"there", "gone"}}
               \cup {Fact("size", n, o, Zero) : o \in 0 .. FileLen}
               \cup {Fact("cell", n, o, v) : o \in Off, v \in Val \cup {Zero}}

\* What the requests under s said of the file now flushed, and what is on the
\* disk already, as far as the cache still agrees.
Promise(s) ==
  LET said == UNION {FactsOf(intent[s][i]) : i \in DOMAIN intent[s]}
      n    == cur.req.name
  IN  IF cur.req.op = "DELET" THEN {Fact("gone", n, 0, Zero)}
      ELSE {x \in AllFacts(n) : /\ x \in said \/ HoldsOf(x, fd, bd)
                                /\ HoldsOf(x, fc, bc)}

-----------------------------------------------------------------------------
(* commit_transaction, clear_transaction, end_transaction *)

T == jc[cur.slot]

\* transaction_get_handle's assertions on handle h of the current transaction.
BadHandle(h) == \/ T.hi \in free
                \/ LogPtr(cur.slot, h) \in free

\* 1st, flush handle blocks.
CommitHandle ==
  /\ pc = "commit" /\ cur.hno < T.nh
  /\ IF BadHandle(cur.hno)
     THEN Panic("handle block is free") /\ UNCHANGED <<bd, cur>>
     ELSE IF LogPtr(cur.slot, cur.hno) \notin Block
     THEN Panic("junk block number") /\ UNCHANGED <<bd, cur>>
     ELSE /\ bd' = [bd EXCEPT ![LogPtr(cur.slot, cur.hno)] = bc[LogPtr(cur.slot, cur.hno)]]
          /\ cur' = [cur EXCEPT !.hno = @ + 1]
          /\ Goto("commit")
  /\ UNCHANGED <<jc, jd, free, bc, env_trans, fc, fd, crashes, intent, claim>>

\* Mutant: the indirect block stays in the cache.
CommitIndirectUnflushed ==
  /\ pc = "commit" /\ cur.hno = T.nh
  /\ Goto("activate")
  /\ UNCHANGED <<jc, jd, free, bc, bd, env_trans, fc, fd, cur, crashes, intent, claim>>

\* 2nd, flush handle indirect block.
CommitIndirect ==
  /\ pc = "commit" /\ cur.hno = T.nh
  /\ bd' = [bd EXCEPT ![T.hi] = bc[T.hi]]
  /\ Goto("activate")
  /\ UNCHANGED <<jc, jd, free, bc, env_trans, fc, fd, cur, crashes, intent, claim>>

\* 3rd, flush activate Transaction; then the file operation, or file_flush.
Activate ==
  /\ pc = "activate"
  /\ jc' = [jc EXCEPT ![cur.slot].active = TRUE]
  /\ jd' = FlushSector(cur.slot, jc')
  /\ claim' = Promise(cur.slot)
  /\ Goto(IF cur.req.op = "DELET" THEN "apply" ELSE "flush_data")
  /\ UNCHANGED <<free, bc, bd, env_trans, fc, fd, cur, crashes, intent>>

\* What clear_transaction makes of the struct, first and last; with mutants
\* that leave it active, that leave the indirect block in place, and that
\* take one handle off instead of all.
StillActive(t) == [t EXCEPT !.envid = NoEnv]
Retired(t)     == [t EXCEPT !.active = FALSE, !.envid = NoEnv]
StillLogged(t) == [t EXCEPT !.nh = 0]
OneLess(t)     == [t EXCEPT !.hi = 0, !.nh = @ - 1]
Emptied(t)     == [t EXCEPT !.hi = 0, !.nh = 0]

\* clear_transaction, 1st: de-activate Transaction.
Clear ==
  /\ pc = "clear"
  /\ jc' = [jc EXCEPT ![cur.slot] = Retired(@)]
  /\ jd' = FlushSector(cur.slot, jc')
  /\ claim' = {}
  /\ intent' = [intent EXCEPT ![cur.slot] = <<>>]
  /\ cur' = [cur EXCEPT !.hno = 0]
  /\ Goto("clear_handle")
  /\ UNCHANGED <<free, bc, bd, env_trans, fc, fd, crashes>>

\* 2nd: de-allocate handle blocks, as far as the indirect block names them.
\* A block number that is not one corrupts the bitmap: the server stops.
ClearHandle ==
  /\ pc = "clear_handle" /\ cur.hno < T.nh
  /\ IF T.hi # 0 /\ T.hi \in free
     THEN Panic("indirect block is free") /\ UNCHANGED <<free, bc, cur>>
     ELSE LET p == IF T.hi = 0 THEN 0 ELSE LogPtr(cur.slot, cur.hno)
          IN  IF p = Junk
              THEN Panic("junk block number") /\ UNCHANGED <<free, bc, cur>>
              ELSE /\ IF p = 0 THEN UNCHANGED <<free, bc>>
                      ELSE /\ free' = free \cup {p}
                           /\ bc' = [bc EXCEPT ![T.hi].ptr[cur.hno] = 0]
                   /\ cur' = [cur EXCEPT !.hno = @ + 1]
                   /\ Goto("clear_handle")
  /\ UNCHANGED <<jc, jd, bd, env_trans, fc, fd, crashes, intent, claim>>

\* 3rd: de-allocate handle indirect block.
ClearIndirect ==
  /\ pc = "clear_handle" /\ cur.hno = T.nh
  /\ free' = IF T.hi = 0 THEN free ELSE free \cup {T.hi}
  /\ Goto("clear_end")
  /\ UNCHANGED <<jc, jd, bc, bd, env_trans, fc, fd, cur, crashes, intent, claim>>

\* 4th: some further changes to Transaction.  end_transaction then detaches it
\* from its environment; journal_init goes on with the next slot.
ClearEnd ==
  /\ pc = "clear_end"
  /\ jc' = [jc EXCEPT ![cur.slot] = Emptied(@)]
  /\ jd' = FlushSector(cur.slot, jc')
  /\ IF cur.boot
     THEN /\ env_trans' = env_trans
          /\ IF cur.slot + 1 < NTrans
             THEN Goto("boot") /\ cur' = [NoCur EXCEPT !.slot = cur.slot + 1, !.boot = TRUE]
             ELSE Done
     ELSE /\ env_trans' = [env_trans EXCEPT ![cur.env] = NoTrans]
          /\ Done
  /\ UNCHANGED <<free, bc, bd, fc, fd, crashes, intent, claim>>

-----------------------------------------------------------------------------
(* Crash and recovery *)

\* The machine stops between two disk writes and is started again.
Crash ==
  /\ crashes < MaxCrash
  /\ crashes' = crashes + 1
  /\ jc' = jd /\ bc' = bd /\ fc' = fd
  /\ env_trans' = [e \in Env |-> NoTrans]
  /\ intent' = [s \in Slot |-> <<>>]
  /\ pc' = "boot" /\ why' = "none"
  /\ cur' = [NoCur EXCEPT !.slot = 0, !.boot = TRUE]
  /\ UNCHANGED <<jd, free, bd, fd, claim>>

\* journal_init, one slot: replay it if it is active, clear it in any case.
Boot ==
  /\ pc = "boot"
  /\ Goto(IF T.active /\ T.hi # 0 THEN "replay" ELSE "clear")
  /\ UNCHANGED <<jc, jd, free, bc, bd, env_trans, fc, fd, cur, crashes, intent, claim>>

\* The end of transaction_replay's loop; the mutant misses the last handle.
LogEndEarly == cur.hno + 1 >= T.nh
LogEnd      == cur.hno = T.nh

\* transaction_replay: the next handle, until there is none or one fails.
Replay ==
  /\ pc = "replay"
  /\ LET p == LogPtr(cur.slot, cur.hno)
     IN  IF LogEnd THEN Goto("clear") /\ cur' = cur
         ELSE IF BadHandle(cur.hno)
         THEN Panic("handle block is free") /\ cur' = cur
         ELSE IF p \in Block /\ bc[p].kind = "handle"
         THEN Goto("apply") /\ cur' = [cur EXCEPT !.req = ReqIn(bc[p])]
         ELSE Goto("clear") /\ cur' = cur
  /\ UNCHANGED <<jc, jd, free, bc, bd, env_trans, fc, fd, crashes, intent, claim>>

-----------------------------------------------------------------------------
Init ==
  /\ jc = [s \in Slot |-> NoTransaction] /\ jd = jc
  /\ free = Block
  /\ bc = [b \in Block |-> Blank] /\ bd = bc
  /\ env_trans = [e \in Env |-> NoTrans]
  /\ fc \in [Name -> {NoFile, [NoFile EXCEPT !.there = TRUE]}] /\ fd = fc
  /\ pc = "idle" /\ cur = NoCur /\ why = "none"
  /\ crashes = 0
  /\ intent = [s \in Slot |-> <<>>]
  /\ claim = {}

Client(e) ==
  \/ Open(e)
  \/ EnvExit(e)
  \/ \E n \in Name : \/ \E t \in BOOLEAN : OpenCreate(e, n, t)
                     \/ \E o \in Off, v \in Val : Write(e, n, o, v)
                     \/ \E o \in Off : SetSize(e, n, o)
                     \/ Remove(e, n)
                     \/ Flush(e, n)

FileOp == \/ FileCreate \/ FileExtend \/ FileWriteData
          \/ FileFreeBlock \/ FileShrink
          \/ FileFlushData \/ FileFlushFile

Commit == CommitHandle \/ CommitIndirect \/ Activate

EndTransaction == Clear \/ ClearHandle \/ ClearIndirect \/ ClearEnd

\* The server carrying on with what it is doing.
Server == \/ OpenTruncate \/ SyncBlocks
          \/ FileOp \/ Commit \/ EndTransaction
          \/ Boot \/ Replay

Next == (\E e \in Env : Client(e)) \/ Sync \/ Server \/ Crash

Spec == Init /\ [][Next]_vars

FairSpec == Spec /\ WF_vars(Server)

-----------------------------------------------------------------------------
(* Properties *)

Cell        == Val \cup {Zero, Junk}
Transaction == [active : BOOLEAN, envid : Env \cup {NoEnv}, nh : 0 .. MaxHandles, hi : Block \cup {0}]
Request     == [op : {"none", "CREAT", "WRITE", "TRUNC", "DELET"}, name : Name \cup {NoName},
                off : Nat, len : Nat, data : [0 .. (HandleCap - 1) -> Cell]]
Logged      == {r \in Request : r.name \in Name}
BlockVal    == {Blank} \cup [kind : {"ind"}, ptr : [Hno -> Block \cup {0, Junk}]]
                       \cup [kind : {"handle"}, req : Logged]
                       \cup [kind : {"data"}, cell : [Off -> Cell]]
File        == [there : BOOLEAN, size : Nat, ptr : Block \cup {0}]

Busy == {"apply", "apply2", "open_trunc", "commit", "activate", "flush_data",
         "flush_file", "clear", "clear_handle", "clear_end", "boot", "replay"}

\* Type invariant: the transaction table, blocks and File structs, cached and on
\* the disk, and the place of the server in its request.
TypeOK ==
  /\ jc \in [Slot -> Transaction] /\ jd \in [Slot -> Transaction]
  /\ free \subseteq Block
  /\ bc \in [Block -> BlockVal] /\ bd \in [Block -> BlockVal]
  /\ env_trans \in [Env -> Slot \cup {NoTrans}]
  /\ fc \in [Name -> File] /\ fd \in [Name -> File]
  /\ pc \in Busy \cup {"idle", "sync", "panic"}
  /\ cur \in [env : Env \cup {NoEnv}, slot : Slot \cup {NoTrans}, hno : 0 .. MaxHandles,
               req : Request, trunc : BOOLEAN, boot : BOOLEAN]
  /\ crashes \in 0 .. MaxCrash

\* The server is past the point where end_transaction gave up the slot.
Clearing(s) == /\ pc \in {"clear_handle", "clear_end"} /\ cur.slot = s

\* Recovery is over and no assertion has stopped the server.
Serving == ~cur.boot /\ pc # "panic"

\* A transaction slot belongs to the one environment that points at it
\* (start_transaction, end_transaction).
SlotOwned ==
  Serving => \A e \in Env : HasTrans(e) /\ ~Clearing(env_trans[e])
                               => jc[env_trans[e]].envid = e

\* The assertions at the end of start_transaction.
FreshSlot ==
  Serving => \A s \in Slot : jc[s].envid = NoEnv /\ ~Clearing(s)
                                => jc[s].nh = 0 /\ jc[s].hi = 0

\* At most one transaction is active on the disk.
OneActive == \A s, t \in Slot : jd[s].active /\ jd[t].active => s = t

\* The log of an active transaction is complete on the disk: its indirect
\* block and its handle blocks are allocated, and hold the log.
ActiveLogOnDisk ==
  \A s \in Slot : jd[s].active =>
     /\ jd[s].hi \in Block \ free
     /\ bd[jd[s].hi].kind = "ind"
     /\ \A h \in 0 .. (jd[s].nh - 1) :
          LET p == bd[jd[s].hi].ptr[h]
          IN  p \in Block \ free /\ bd[p].kind = "handle"

\* No two users of a block.
IndOf(s)    == IF pc = "clear_end" /\ cur.slot = s THEN {} ELSE {jc[s].hi} \ {0}
LogOf(s)    == IF IndOf(s) = {} THEN {}
               ELSE {LogPtr(s, h) : h \in 0 .. (jc[s].nh - 1)} \ {0}
FileOf(n)   == {fc[n].ptr} \ {0}

BlocksOwned ==
  Serving =>
   /\ \A s \in Slot : /\ IndOf(s) \cap LogOf(s) = {}
                      /\ (IndOf(s) \cup LogOf(s)) \cap free = {}
   /\ \A s, t \in Slot : s # t => (IndOf(s) \cup LogOf(s)) \cap (IndOf(t) \cup LogOf(t)) = {}
   /\ \A n \in Name : /\ FileOf(n) \cap free = {}
                      /\ \A s \in Slot : FileOf(n) \cap (IndOf(s) \cup LogOf(s)) = {}
                      /\ \A m \in Name \ {n} : FileOf(m) \cap FileOf(n) = {}

\* When the active transaction is retired, by end_transaction or after replay,
\* everything it promised about the flushed file is on the disk.
PromiseKept ==
  pc = "clear" /\ jd[cur.slot].active => \A x \in claim : HoldsOf(x, fd, bd)

\* The File structs on the disk name allocated blocks, each only once.
DiskFilesSound ==
  pc = "idle" => \A m, n \in Name :
     /\ fd[n].ptr \notin free
     /\ m # n /\ fd[m].ptr = fd[n].ptr => fd[n].ptr = 0

\* assert(!block_is_free(t->t_handlei)) in transaction_handle_walk.
IndirectNeverFree == why # "indirect block is free"

\* assert(!block_is_free(*pdiskbno)) in transaction_get_handle.
HandleNeverFree == why # "handle block is free"

\* assert(off2 >= off1) in add_handle_to_transaction.
WritesGoForward == why # "off2 >= off1"

\* Every request is answered and every recovery ends, or an assertion stops the
\* server: commit, replay and clear walk the handles to the end and no further.
ServerReturns == (pc # "idle") ~> (pc \in {"idle", "panic"})

-----------------------------------------------------------------------------
(* The inductive invariant behind SlotOwned, FreshSlot and OneActive *)

\* The server's request, and the slot it works on.
CurOK ==
  /\ pc \in Busy => cur.slot \in Slot
  /\ pc \in Busy /\ ~cur.boot => cur.env \in Env /\ env_trans[cur.env] = cur.slot
  /\ pc \in Busy \ {"boot", "replay", "clear", "clear_handle", "clear_end"}
       => cur.req.name \in Name
  /\ pc \in {"idle", "sync"} => ~cur.boot
  /\ pc \in {"boot", "replay"} => cur.boot
  /\ pc \in {"open_trunc", "commit", "activate"} => ~cur.boot
  /\ pc = "open_trunc" => cur.req.op = "CREAT"
  /\ pc = "boot" => cur.hno = 0
  /\ pc \in {"replay", "commit"} => cur.hno <= jc[cur.slot].nh
  /\ cur.boot /\ pc \in {"apply", "apply2", "flush_data", "flush_file"}
       => cur.hno < jc[cur.slot].nh
  /\ cur.boot => \A e \in Env : env_trans[e] = NoTrans

\* No two environments point at one slot.
SlotsDistinct ==
  \A e, f \in Env : HasTrans(e) /\ env_trans[e] = env_trans[f] => e = f

\* A slot is active, in the cache or on the disk, only from its commit to its
\* retirement; recovery has retired the slots it is past.
Active(s) == jc[s].active \/ jd[s].active

ActiveOnlyWhenCommitted ==
  /\ \A s, t \in Slot : Active(s) /\ Active(t) => s = t
  /\ Serving => \A s \in Slot : Active(s) =>
        /\ s = cur.slot
        /\ \/ pc \in {"flush_data", "flush_file", "clear"}
           \/ pc \in {"apply", "apply2"} /\ cur.req.op = "DELET"

RetiredByRecovery ==
  cur.boot /\ pc # "panic" =>
    /\ \A s \in Slot : s < cur.slot => jc[s] = NoTransaction /\ ~jd[s].active
    /\ pc \in {"clear_handle", "clear_end"} =>
         ~Active(cur.slot) /\ jc[cur.slot].envid = NoEnv

SlotInv == /\ TypeOK /\ CurOK
           /\ SlotOwned /\ FreshSlot /\ SlotsDistinct
           /\ ActiveOnlyWhenCommitted /\ RetiredByRecovery
=============================================================================
