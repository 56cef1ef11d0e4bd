--------------------------- MODULE JournalProofs ---------------------------
(***************************************************************************)
(* The transaction slots of Journal.tla are handled correctly, for every   *)
(* number of environments, files, slots, blocks, requests and crashes.     *)
(***************************************************************************)
EXTENDS Journal, TLAPS, FiniteSetTheorems, WellFoundedInduction

-----------------------------------------------------------------------------
(* The choices start_transaction and alloc_block make *)

\* A nonempty set of naturals has a least element, and Lowest is it.
LEMMA LowestIn ==
  ASSUME NEW S \in SUBSET Nat, S # {}
  PROVE  Lowest(S) \in S /\ \A y \in S : Lowest(S) <= y
<1> DEFINE Upto(n) == S \cap (0 .. n)
           Cuts    == {Upto(n) : n \in S}
<1>1. \A n \in S : Upto(n) \in FiniteSubsetsOf(Nat)
  <2> SUFFICES ASSUME NEW n \in S PROVE Upto(n) \in FiniteSubsetsOf(Nat)
    OBVIOUS
  <2>1. IsFiniteSet(Upto(n))
    <3>1. Upto(n) \in SUBSET Nat /\ n \in Nat /\ \A s \in Upto(n) : s <= n
      OBVIOUS
    <3> HIDE DEF Upto
    <3> QED  BY <3>1, FS_BoundedSetOfNaturals
  <2> QED  BY <2>1 DEF FiniteSubsetsOf
<1>2. Cuts \subseteq FiniteSubsetsOf(Nat) /\ Cuts # {}
  BY <1>1
<1>3. PICK c \in Cuts : \A d \in Cuts : ~ (<<d, c>> \in StrictSubsetOrdering(Nat))
  <2> HIDE DEF Cuts
  <2> QED BY <1>2, FS_StrictSubsetOrderingWellFounded, WFMin
<1>4. PICK x \in S : c = Upto(x)
  BY <1>3
<1>5. ASSUME NEW y \in S  PROVE x <= y
  <2> SUFFICES ASSUME y < x PROVE FALSE
    OBVIOUS
  <2>1. Upto(y) \subseteq Upto(x) /\ x \in Upto(x) /\ x \notin Upto(y)
    OBVIOUS
  <2>2. <<Upto(y), Upto(x)>> \in StrictSubsetOrdering(Nat)
    BY <2>1 DEF StrictSubsetOrdering
  <2> QED  BY <1>3, <1>4, <2>2
<1> QED  BY <1>5 DEF Lowest

\* alloc_block takes a block that is free.
LEMMA AllocIn ==
  ASSUME NEW f \in SUBSET Block, f # {}
  PROVE  AllocFrom(f) \in f
BY LowestIn, ConstAssumption DEF AllocFrom, Block

\* start_transaction stops at a slot beyond every slot in use.
LEMMA NextSlotIn ==
  ASSUME TypeOK
  PROVE  /\ NextSlot \in 0 .. NTrans
         /\ \A s \in InUse : s < NextSlot
<1> DEFINE S == {n \in 0 .. NTrans : \A s \in InUse : s < n}
<1>1. S \in SUBSET Nat
  BY ConstAssumption
<1>2. NTrans \in S
  BY ConstAssumption DEF InUse, Slot
<1>3. Lowest(S) \in S
  BY <1>1, <1>2, LowestIn
<1> QED  BY <1>3 DEF NextSlot

-----------------------------------------------------------------------------
(* Types of what the handlers build *)

OpName == {"none", "CREAT", "WRITE", "TRUNC", "DELET"}

LEMMA ReqType ==
  ASSUME NEW op \in OpName, NEW n \in Name \cup {NoName}, NEW o \in Nat, NEW v \in Cell
  PROVE  Req(op, n, o, v) \in Request
BY DEF OpName, Req, Request, Cell

LEMMA NoReqType == NoReq \in Request
BY ReqType DEF NoReq, OpName, Cell

CurRecord == [env : Env \cup {NoEnv}, slot : Slot \cup {NoTrans}, hno : 0 .. MaxHandles,
              req : Request, trunc : BOOLEAN, boot : BOOLEAN]

LEMMA NoCurType == NoCur \in CurRecord
BY NoReqType, ConstAssumption DEF NoCur, CurRecord

LEMMA BlockTypes ==
  /\ Blank \in BlockVal
  /\ \A p \in [Hno -> Block \cup {0, Junk}] : Ind(p) \in BlockVal
  /\ \A r \in Logged : Handle(r) \in BlockVal
  /\ \A d \in [Off -> Cell] : Data(d) \in BlockVal
BY DEF Blank, Ind, Handle, Data, BlockVal

LEMMA FileTypes ==
  ASSUME NEW f \in File, NEW n \in Nat, NEW p \in Block \cup {0}
  PROVE  /\ NoFile \in File /\ [NoFile EXCEPT !.there = TRUE] \in File
         /\ [f EXCEPT !.size = n] \in File
         /\ [f EXCEPT !.ptr = p] \in File
         /\ [f EXCEPT !.there = FALSE, !.size = 0] \in File
BY DEF File, NoFile

\* What a block is read as has the type of what is read.
LEMMA ReadTypes ==
  ASSUME NEW blk \in BlockVal
  PROVE  /\ \A h \in Hno : PtrIn(blk, h) \in Block \cup {0, Junk}
         /\ ReqIn(blk) \in Request
         /\ blk.kind = "handle" => ReqIn(blk) \in Logged
         /\ CellsIn(blk) \in [Off -> Cell]
<1>1. CASE blk = Blank
  BY <1>1, NoReqType DEF Blank, PtrIn, ReqIn, CellsIn, Zeros, Cell
<1>2. CASE blk \in [kind : {"ind"}, ptr : [Hno -> Block \cup {0, Junk}]]
  BY <1>2, NoReqType DEF PtrIn, ReqIn, CellsIn, Zeros, Cell
<1>3. CASE blk \in [kind : {"handle"}, req : Logged]
  BY <1>3 DEF PtrIn, ReqIn, CellsIn, Zeros, Cell, Logged
<1>4. CASE blk \in [kind : {"data"}, cell : [Off -> Cell]]
  BY <1>4, NoReqType DEF PtrIn, ReqIn, CellsIn, Zeros, Cell
<1> QED  BY <1>1, <1>2, <1>3, <1>4 DEF BlockVal

-----------------------------------------------------------------------------
(* add_handle_to_transaction *)

\* A nonempty bounded set of naturals has a greatest element, and Last is it.
LEMMA LastIn ==
  ASSUME NEW n \in Nat, NEW S \in SUBSET (0 .. n), S # {}
  PROVE  Last(S) \in S
<1> DEFINE D == {n - x : x \in S}
<1>0. \A x \in S : x \in Nat /\ n - x \in Nat
  OBVIOUS
<1>1. D \in SUBSET Nat /\ D # {}
  BY <1>0
<1>2. Lowest(D) \in D /\ \A d \in D : Lowest(D) <= d
  BY <1>1, LowestIn
<1>3. PICK x \in S : Lowest(D) = n - x
  BY <1>2
<1>4. \A y \in S : y <= x
  <2> SUFFICES ASSUME NEW y \in S PROVE y <= x
    OBVIOUS
  <2>1. n - y \in D
    OBVIOUS
  <2>2. n - x <= n - y
    BY <1>2, <1>3, <2>1
  <2> QED  BY <1>0, <2>2
<1> QED  BY <1>4 DEF Last

\* A write found by the scan is a handle in the log.
LEMMA HitType ==
  ASSUME TypeOK, NEW s \in Slot, NEW n \in Name, WritesTo(s, n) # {}
  PROVE  LET h == Last(WritesTo(s, n))
         IN  LogPtr(s, h) \in Block /\ HandleAt(s, h) \in Logged
<1> DEFINE h == Last(WritesTo(s, n))
<1>1. h \in WritesTo(s, n)
  <2>1. jc[s].nh \in Nat
    BY ConstAssumption DEF TypeOK, Transaction
  <2>2. WritesTo(s, n) \in SUBSET (0 .. jc[s].nh)
    BY <2>1 DEF WritesTo
  <2> QED  BY <2>1, <2>2, LastIn
<1>2. HandleAt(s, h).op = "WRITE" /\ HandleAt(s, h).name = n
  BY <1>1 DEF WritesTo
<1>3. LogPtr(s, h) \in Block
  BY <1>2 DEF HandleAt, NoReq, Req
<1>4. HandleAt(s, h) \in Request
  BY <1>3, ReadTypes DEF HandleAt, TypeOK
<1> QED  BY <1>2, <1>3, <1>4 DEF Logged

LEMMA MergeType ==
  ASSUME NEW old \in Logged, NEW r \in Logged, r.off >= old.off, Fits(old, r)
  PROVE  Merge(old, r) \in Logged
<1> DEFINE d == [i \in 0 .. (HandleCap - 1) |->
                   IF i \in (r.off - old.off) .. (r.off - old.off + r.len - 1)
                   THEN r.data[i - (r.off - old.off)] ELSE old.data[i]]
<1>1. d \in [0 .. (HandleCap - 1) -> Cell]
  BY ConstAssumption DEF Fits, Logged, Request
<1> HIDE DEF d
<1>2. old.len + r.len \in Nat
  BY DEF Logged, Request
<1>3. [old EXCEPT !.len = @ + r.len, !.data = d] \in Request
  BY <1>1, <1>2 DEF Logged, Request
<1>4. [old EXCEPT !.len = @ + r.len, !.data = d].name = old.name
  BY DEF Logged, Request
<1>5. [old EXCEPT !.len = @ + r.len, !.data = d] \in Logged
  BY <1>3, <1>4 DEF Logged
<1> QED  BY <1>5 DEF Merge, d

\* What add_handle_to_transaction leaves alone, and the types it keeps.
LEMMA AddHandleEffect ==
  ASSUME TypeOK, NEW s \in Slot, NEW r \in Logged, NEW j \in [Slot -> Transaction],
         NEW next, AddHandle(s, r, j, next)
  PROVE  /\ jc' \in [Slot -> Transaction]
         /\ \A t \in Slot : /\ t # s => jc'[t] = j[t]
                            /\ jc'[t].active = j[t].active
                            /\ jc'[t].envid = j[t].envid
         /\ free' \in SUBSET Block
         /\ bc' \in [Block -> BlockVal]
         /\ pc' = next \/ pc' = "panic"
<1> DEFINE old == HandleAt(s, Last(WritesTo(s, r.name)))
<1>0. r.name \in Name
  BY DEF Logged
<1>1. CASE AppendHandle(s, r, j, next)
  <2> DEFINE b1 == IF j[s].hi = 0 THEN AllocFrom(free) ELSE j[s].hi
             left == free \ {b1}
             b2 == AllocFrom(left)
             ptrs == IF j[s].hi = 0 THEN NoPtrs ELSE [h \in Hno |-> PtrIn(bc[b1], h)]
  <2>1. CASE j[s].nh >= MaxHandles \/ free = {} \/ left = {}
    BY <1>1, <2>1 DEF AppendHandle, Panic, TypeOK
  <2>2. CASE ~(j[s].nh >= MaxHandles \/ free = {} \/ left = {})
    <3>1. b1 \in Block
      <4>1. j[s].hi \in Block \cup {0}
        BY DEF Transaction
      <4>2. AllocFrom(free) \in Block
        BY <2>2, AllocIn DEF TypeOK
      <4> QED  BY <4>1, <4>2
    <3> HIDE DEF b1
    <3>2. b2 \in left /\ left \in SUBSET Block
      <4>1. left # {} /\ left \in SUBSET Block
        BY <2>2 DEF TypeOK
      <4> QED  BY <4>1, AllocIn
    <3>3. ptrs \in [Hno -> Block \cup {0, Junk}]
      BY <3>1, ReadTypes DEF TypeOK, NoPtrs
    <3> HIDE DEF b2, ptrs
    <3>4. Ind([ptrs EXCEPT ![j[s].nh] = b2]) \in BlockVal
      BY <3>2, <3>3, BlockTypes
    <3>5. Handle(r) \in BlockVal
      BY BlockTypes
    <3>6. /\ jc' = [j EXCEPT ![s].nh = @ + 1, ![s].hi = b1]
          /\ free' = left \ {b2}
          /\ bc' = [bc EXCEPT ![b1] = Ind([ptrs EXCEPT ![j[s].nh] = b2]), ![b2] = Handle(r)]
          /\ pc' = next
      BY <1>1, <2>2 DEF AppendHandle, Goto, b1, b2, ptrs
    <3>7. j[s].nh + 1 \in 0 .. MaxHandles
      BY <2>2, ConstAssumption DEF Transaction
    <3>8. bc' \in [Block -> BlockVal]
      BY <3>4, <3>5, <3>6 DEF TypeOK
    <3> DEFINE rec == [j[s] EXCEPT !.nh = @ + 1, !.hi = b1]
    <3>9. rec \in Transaction /\ rec.active = j[s].active /\ rec.envid = j[s].envid
      BY <3>1, <3>7 DEF Transaction
    <3>10. jc' = [j EXCEPT ![s] = rec]
      BY <3>6
    <3> HIDE DEF rec
    <3>11. jc' \in [Slot -> Transaction]
      BY <3>9, <3>10
    <3>12. \A t \in Slot : /\ t # s => jc'[t] = j[t]
                          /\ jc'[t].active = j[t].active
                          /\ jc'[t].envid = j[t].envid
      BY <3>9, <3>10
    <3> QED  BY <3>2, <3>6, <3>8, <3>11, <3>12
  <2> QED  BY <2>1, <2>2
<1>2. CASE /\ WritesTo(s, r.name) # {} /\ (r.off < old.off \/ Fits(old, r))
           /\ MergeHandle(s, r, j, next)
  <2>1. LogPtr(s, Last(WritesTo(s, r.name))) \in Block /\ old \in Logged
    BY <1>0, <1>2, HitType
  <2>2. CASE r.off < old.off
    BY <1>2, <2>2 DEF MergeHandle, Panic, TypeOK
  <2>3. CASE ~(r.off < old.off)
    <3>1. r.off >= old.off /\ Fits(old, r)
      BY <1>2, <2>1, <2>3 DEF Logged, Request
    <3>2. Handle(Merge(old, r)) \in BlockVal
      BY <2>1, <3>1, MergeType, BlockTypes
    <3> QED  BY <1>2, <2>1, <2>3, <3>2 DEF MergeHandle, Goto, TypeOK
  <2> QED  BY <2>2, <2>3
<1>3. CASE jc' = j /\ Goto(next) /\ UNCHANGED <<free, bc>>
  BY <1>3 DEF Goto, TypeOK
<1> QED  BY <1>1, <1>2, <1>3 DEF AddHandle

-----------------------------------------------------------------------------
(* The initial state *)

LEMMA InitInv == Init => SlotInv
<1> SUFFICES ASSUME Init PROVE SlotInv
  OBVIOUS
<1>1. TypeOK
  <2>1. NoTransaction \in Transaction
    BY ConstAssumption DEF NoTransaction, Transaction
  <2>2. NoFile \in File /\ [NoFile EXCEPT !.there = TRUE] \in File
    BY DEF NoFile, File
  <2>3. crashes \in 0 .. MaxCrash
    BY ConstAssumption DEF Init
  <2> QED  BY <2>1, <2>2, <2>3, BlockTypes, NoCurType DEF Init, TypeOK, CurRecord
<1>2. CurOK /\ cur.boot = FALSE
  BY DEF Init, CurOK, NoCur, Busy
<1>3. SlotOwned /\ FreshSlot /\ SlotsDistinct
  BY DEF Init, SlotOwned, FreshSlot, SlotsDistinct, HasTrans, NoTransaction
<1>4. ActiveOnlyWhenCommitted /\ RetiredByRecovery
  BY <1>2 DEF Init, ActiveOnlyWhenCommitted, RetiredByRecovery, Active, NoTransaction
<1> QED  BY <1>1, <1>2, <1>3, <1>4 DEF SlotInv

-----------------------------------------------------------------------------
(* Requests: the handlers up to the file operation *)

\* Taking a slot in start_transaction.
LEMMA StartEffect ==
  ASSUME SlotInv, pc = "idle", NEW e \in Env, ~NoSlotLeft(e)
  PROVE  /\ SlotFor(e) \in Slot
         /\ JStarted(e) \in [Slot -> Transaction]
         /\ JStarted(e)[SlotFor(e)].envid = e
         /\ \A t \in Slot : /\ t # SlotFor(e) => JStarted(e)[t] = jc[t]
                            /\ JStarted(e)[t].active = jc[t].active
                            /\ JStarted(e)[t].nh = jc[t].nh
         /\ \A f \in Env : f # e => env_trans[f] # SlotFor(e)
<1>1. SlotFor(e) \in Slot
  BY NextSlotIn, ConstAssumption DEF SlotInv, TypeOK, SlotFor, NoSlotLeft, HasTrans, Slot
<1>2. ASSUME NEW f \in Env, f # e, env_trans[f] = SlotFor(e)  PROVE FALSE
  <2>1. HasTrans(f)
    BY <1>1, <1>2, ConstAssumption DEF HasTrans, Slot
  <2>2. CASE HasTrans(e)
    BY <1>2, <2>1, <2>2 DEF SlotInv, SlotsDistinct, SlotFor
  <2>3. CASE ~HasTrans(e)
    <3>1. jc[SlotFor(e)].envid = f
      BY <1>2, <2>1 DEF SlotInv, SlotOwned, Serving, Clearing, CurOK
    <3>2. SlotFor(e) \in InUse
      BY <1>1, <3>1, ConstAssumption DEF InUse
    <3>3. SlotFor(e) < SlotFor(e)
      BY <2>3, <3>2, NextSlotIn DEF SlotInv, SlotFor
    <3> QED  BY <1>1, <3>3 DEF Slot
  <2> QED  BY <2>2, <2>3
<1>3. JStarted(e) \in [Slot -> Transaction]
  BY <1>1 DEF JStarted, SlotInv, TypeOK, Transaction
<1>4. /\ JStarted(e)[SlotFor(e)].envid = e
      /\ \A t \in Slot : /\ t # SlotFor(e) => JStarted(e)[t] = jc[t]
                         /\ JStarted(e)[t].active = jc[t].active
                         /\ JStarted(e)[t].nh = jc[t].nh
  BY <1>1 DEF JStarted, SlotInv, TypeOK, Transaction
<1> QED  BY <1>1, <1>2, <1>3, <1>4

LEMMA LogInv ==
  ASSUME SlotInv, NEW e \in Env, NEW r \in Logged, NEW trunc \in BOOLEAN,
         NEW next \in {"apply", "commit"}, Log(e, r, trunc, next)
  PROVE  SlotInv'
<1>0. pc = "idle" /\ cur.boot = FALSE
  BY DEF Log, SlotInv, CurOK, TypeOK
<1>1. CASE NoSlotLeft(e)
  <2>1. pc' = "panic" /\ UNCHANGED <<jc, jd, free, bc, bd, env_trans, fc, fd, cur, crashes>>
    BY <1>1 DEF Log, Panic
  <2> QED  BY <1>0, <2>1 DEF SlotInv, TypeOK, CurOK, SlotOwned, FreshSlot, SlotsDistinct,
                   ActiveOnlyWhenCommitted, RetiredByRecovery, Active, Serving, HasTrans, Busy
<1>2. CASE ~NoSlotLeft(e)
  <2> DEFINE s == SlotFor(e)
  <2>1. /\ env_trans' = [env_trans EXCEPT ![e] = s]
        /\ cur' = [NoCur EXCEPT !.env = e, !.slot = s, !.req = r, !.trunc = trunc]
        /\ AddHandle(s, r, JStarted(e), next)
        /\ UNCHANGED <<jd, bd, fc, fd, crashes>>
    BY <1>2 DEF Log
  <2>2. /\ s \in Slot
        /\ JStarted(e) \in [Slot -> Transaction]
        /\ JStarted(e)[s].envid = e
        /\ \A t \in Slot : /\ t # s => JStarted(e)[t] = jc[t]
                           /\ JStarted(e)[t].active = jc[t].active
        /\ \A f \in Env : f # e => env_trans[f] # s
    BY <1>0, <1>2, StartEffect
  <2> HIDE DEF s
  <2>3. TypeOK
    BY DEF SlotInv
  <2>4. /\ jc' \in [Slot -> Transaction] /\ free' \in SUBSET Block /\ bc' \in [Block -> BlockVal]
        /\ pc' = next \/ pc' = "panic"
        /\ \A t \in Slot : /\ t # s => jc'[t] = jc[t]
                           /\ jc'[t].active = jc[t].active
        /\ jc'[s].envid = e
    BY <2>1, <2>2, <2>3, AddHandleEffect
  <2>5. cur' \in CurRecord /\ cur'.env = e /\ cur'.slot = s /\ cur'.req = r /\ cur'.hno = 0
        /\ cur'.boot = FALSE
    BY <2>1, <2>2, NoCurType DEF CurRecord, NoCur, Logged
  <2>6. TypeOK'
    BY <2>1, <2>2, <2>3, <2>4, <2>5 DEF TypeOK, CurRecord, Busy
  <2>7. CurOK'
    <3>1. env_trans'[e] = s
      BY <2>1, <2>3 DEF TypeOK
    <3>2. jc'[s].nh >= 0
      BY <2>2, <2>4, ConstAssumption DEF Transaction
    <3> QED  BY <2>2, <2>4, <2>5, <3>1, <3>2 DEF CurOK, Logged, Busy
  <2>8. SlotOwned' /\ FreshSlot' /\ SlotsDistinct'
    BY <1>0, <2>1, <2>2, <2>3, <2>4, <2>5, ConstAssumption
    DEF SlotInv, TypeOK, SlotOwned, FreshSlot, SlotsDistinct, Serving, Clearing, HasTrans
  <2>9. ActiveOnlyWhenCommitted' /\ RetiredByRecovery'
    BY <1>0, <2>1, <2>2, <2>4, <2>5 DEF SlotInv, ActiveOnlyWhenCommitted, RetiredByRecovery, Active, Serving
  <2> QED  BY <2>6, <2>7, <2>8, <2>9 DEF SlotInv
<1> QED  BY <1>1, <1>2

\* The four handlers that log a request.
LEMMA LoggingInv ==
  ASSUME SlotInv, NEW e \in Env, NEW n \in Name,
         \/ \E t \in BOOLEAN : OpenCreate(e, n, t)
         \/ \E o \in Off, v \in Val : Write(e, n, o, v)
         \/ \E o \in Off : SetSize(e, n, o)
         \/ Remove(e, n)
  PROVE  SlotInv'
<1>1. \A op \in OpName, o \in Nat, v \in Cell : Req(op, n, o, v) \in Logged
  BY ReqType DEF Logged, Req
<1>2. Off \subseteq Nat /\ Val \subseteq Cell /\ Zero \in Cell
      /\ {"CREAT", "WRITE", "TRUNC", "DELET"} \subseteq OpName
  BY DEF Off, Cell, OpName
<1>3. ASSUME NEW t \in BOOLEAN, OpenCreate(e, n, t)  PROVE SlotInv'
  <2>1. Req("CREAT", n, 0, Zero) \in Logged
    BY <1>1, <1>2
  <2> QED  BY <1>3, <2>1, LogInv DEF OpenCreate
<1>4. ASSUME NEW o \in Off, NEW v \in Val, Write(e, n, o, v)  PROVE SlotInv'
  <2>1. Req("WRITE", n, o, v) \in Logged
    BY <1>1, <1>2
  <2> QED  BY <1>4, <2>1, LogInv DEF Write
<1>5. ASSUME NEW o \in Off, SetSize(e, n, o)  PROVE SlotInv'
  <2>1. Req("TRUNC", n, o, Zero) \in Logged
    BY <1>1, <1>2
  <2> QED  BY <1>5, <2>1, LogInv DEF SetSize
<1>6. ASSUME Remove(e, n)  PROVE SlotInv'
  <2>1. Req("DELET", n, 0, Zero) \in Logged
    BY <1>1, <1>2
  <2> QED  BY <1>6, <2>1, LogInv DEF Remove
<1> QED  BY <1>3, <1>4, <1>5, <1>6

\* The handlers that start a transaction and log nothing.
LEMMA StartingInv ==
  ASSUME SlotInv, NEW e \in Env, Open(e) \/ \E n \in Name : Flush(e, n)
  PROVE  SlotInv'
<1>0. pc = "idle" /\ cur.boot = FALSE /\ TypeOK
  BY DEF Open, Flush, SlotInv, CurOK, TypeOK
<1>1. CASE NoSlotLeft(e)
  <2>1. pc' = "panic" /\ UNCHANGED <<jc, jd, free, bc, bd, env_trans, fc, fd, cur, crashes>>
    BY <1>1 DEF Open, Flush, Panic
  <2> QED  BY <1>0, <2>1 DEF SlotInv, TypeOK, CurOK, SlotOwned, FreshSlot, SlotsDistinct,
                   ActiveOnlyWhenCommitted, RetiredByRecovery, Active, Serving, HasTrans, Busy
<1>2. CASE ~NoSlotLeft(e)
  <2> DEFINE s == SlotFor(e)
  <2>1. /\ jc' = JStarted(e)
        /\ env_trans' = [env_trans EXCEPT ![e] = s]
        /\ UNCHANGED <<jd, free, bc, bd, fc, fd, crashes>>
    BY <1>2 DEF Open, Flush
  <2>2. /\ s \in Slot
        /\ jc' \in [Slot -> Transaction]
        /\ jc'[s].envid = e
        /\ \A t \in Slot : /\ t # s => jc'[t] = jc[t]
                           /\ jc'[t].active = jc[t].active
                           /\ jc'[t].nh = jc[t].nh
        /\ \A f \in Env : f # e => env_trans[f] # s
    BY <1>0, <1>2, <2>1, StartEffect
  <2>3. \/ pc' = "idle" /\ cur' = cur
        \/ /\ pc' \in {"flush_data", "commit"}
           /\ \E n \in Name : cur' = [NoCur EXCEPT !.env = e, !.slot = s, !.req.name = n]
    BY <1>0, <1>2 DEF Open, Flush, Goto
  <2> HIDE DEF s
  <2>4. cur' \in CurRecord /\ cur'.boot = FALSE
        /\ (pc' # "idle" => cur'.env = e /\ cur'.slot = s /\ cur'.req.name \in Name /\ cur'.hno = 0)
    <3>1. CASE pc' = "idle" /\ cur' = cur
      BY <1>0, <3>1 DEF TypeOK, CurRecord
    <3>2. CASE \E n \in Name : cur' = [NoCur EXCEPT !.env = e, !.slot = s, !.req.name = n]
      <4>1. PICK n \in Name : cur' = [NoCur EXCEPT !.env = e, !.slot = s, !.req.name = n]
        BY <3>2
      <4>2. [NoReq EXCEPT !.name = n] \in Request /\ [NoReq EXCEPT !.name = n].name = n
        BY NoReqType DEF Request
      <4> QED  BY <2>2, <4>1, <4>2, NoCurType DEF CurRecord, NoCur
    <3> QED  BY <2>3, <3>1, <3>2
  <2>5. TypeOK'
    BY <1>0, <2>1, <2>2, <2>3, <2>4 DEF TypeOK, CurRecord, Busy
  <2>6. CurOK'
    <3>1. env_trans'[e] = s
      BY <1>0, <2>1 DEF TypeOK
    <3>2. jc'[s].nh >= 0
      BY <2>2, ConstAssumption DEF Transaction
    <3> QED  BY <2>2, <2>3, <2>4, <3>1, <3>2 DEF CurOK, Busy
  <2>7. SlotOwned' /\ FreshSlot' /\ SlotsDistinct'
    <3>1. SlotOwned /\ FreshSlot /\ SlotsDistinct /\ Serving
      BY <1>0 DEF SlotInv, Serving
    <3>2. \A t \in Slot : ~Clearing(t)
      BY <1>0 DEF Clearing
    <3>3. \A f \in Env : env_trans'[f] = IF f = e THEN s ELSE env_trans[f]
      BY <1>0, <2>1 DEF TypeOK
    <3>4. SlotOwned'
      BY <1>0, <2>2, <3>1, <3>2, <3>3, SMTT(30) DEF SlotOwned, HasTrans, TypeOK
    <3>5. FreshSlot'
      BY <2>2, <3>1, <3>2, ConstAssumption DEF FreshSlot
    <3>6. SlotsDistinct'
      BY <2>2, <3>1, <3>3 DEF SlotsDistinct, HasTrans
    <3> QED  BY <3>4, <3>5, <3>6
  <2>8. ActiveOnlyWhenCommitted' /\ RetiredByRecovery'
    BY <1>0, <2>1, <2>2, <2>4 DEF SlotInv, ActiveOnlyWhenCommitted, RetiredByRecovery, Active, Serving
  <2> QED  BY <2>5, <2>6, <2>7, <2>8 DEF SlotInv
<1> QED  BY <1>1, <1>2

LEMMA EnvExitInv ==
  ASSUME SlotInv, NEW e \in Env, EnvExit(e)
  PROVE  SlotInv'
<1>1. TypeOK'
  BY DEF SlotInv, TypeOK, EnvExit, CurRecord
<1>2. \A f \in Env : env_trans'[f] = IF f = e THEN NoTrans ELSE env_trans[f]
  BY DEF SlotInv, TypeOK, EnvExit
<1>3. CurOK' /\ SlotOwned' /\ FreshSlot' /\ SlotsDistinct'
  <2>1. CurOK' /\ FreshSlot'
    BY <1>2 DEF SlotInv, EnvExit, CurOK, FreshSlot, Serving, Clearing, Busy
  <2>2. SlotOwned' /\ SlotsDistinct'
    BY <1>2 DEF SlotInv, EnvExit, SlotOwned, SlotsDistinct, Serving, Clearing, HasTrans
  <2> QED  BY <2>1, <2>2
<1>4. ActiveOnlyWhenCommitted' /\ RetiredByRecovery'
  BY DEF SlotInv, EnvExit, ActiveOnlyWhenCommitted, RetiredByRecovery, Active, Serving
<1> QED  BY <1>1, <1>3, <1>4 DEF SlotInv

LEMMA SyncInv ==
  ASSUME SlotInv, Sync \/ SyncBlocks
  PROVE  SlotInv'
<1>0. pc \in {"idle", "sync"} /\ pc' \in {"idle", "sync"} /\ cur' = cur /\ jc' = jc
      /\ env_trans' = env_trans /\ (jd' = jd \/ jd' = jc)
  BY DEF Sync, SyncBlocks, Goto
<1>1. TypeOK'
  BY DEF SlotInv, TypeOK, Sync, SyncBlocks, Goto, Busy
<1>2. CurOK' /\ SlotOwned' /\ FreshSlot' /\ SlotsDistinct'
  BY <1>0 DEF SlotInv, CurOK, SlotOwned, FreshSlot, SlotsDistinct, Serving, Clearing, HasTrans, Busy
<1>3. ActiveOnlyWhenCommitted' /\ RetiredByRecovery'
  BY <1>0 DEF SlotInv, CurOK, ActiveOnlyWhenCommitted, RetiredByRecovery, Active, Serving
<1> QED  BY <1>1, <1>2, <1>3 DEF SlotInv

LEMMA OpenTruncateInv ==
  ASSUME SlotInv, OpenTruncate
  PROVE  SlotInv'
<1> DEFINE r == Req("TRUNC", cur.req.name, 0, Zero)
           s == cur.slot
<1>0. pc = "open_trunc" /\ ~cur.boot /\ s \in Slot /\ cur.req.name \in Name /\ TypeOK /\ CurOK
  BY DEF OpenTruncate, SlotInv, CurOK, Busy
<1>1. r \in Logged
  BY <1>0, ReqType DEF Logged, Req, OpName, Cell
<1>2. /\ AddHandle(s, r, jc, "apply")
      /\ cur' = [cur EXCEPT !.req = r, !.trunc = FALSE]
      /\ UNCHANGED <<jd, bd, env_trans, fc, fd, crashes>>
  BY DEF OpenTruncate
<1>3. r.name = cur.req.name
  BY DEF Req
<1> HIDE DEF r
<1>4. /\ jc' \in [Slot -> Transaction] /\ free' \in SUBSET Block /\ bc' \in [Block -> BlockVal]
      /\ pc' = "apply" \/ pc' = "panic"
      /\ \A t \in Slot : /\ t # s => jc'[t] = jc[t]
                         /\ jc'[t].active = jc[t].active
                         /\ jc'[t].envid = jc[t].envid
  <2>1. jc \in [Slot -> Transaction]
    BY <1>0 DEF TypeOK
  <2> QED  BY <1>0, <1>1, <1>2, <2>1, AddHandleEffect
<1>5. cur' \in CurRecord /\ cur'.env = cur.env /\ cur'.slot = s /\ cur'.req = r /\ cur'.boot = cur.boot
  BY <1>0, <1>1, <1>2 DEF CurRecord, TypeOK, Logged
<1>6. TypeOK'
  BY <1>0, <1>2, <1>4, <1>5 DEF TypeOK, CurRecord, Busy
<1>7. CurOK'
  BY <1>0, <1>2, <1>3, <1>4, <1>5 DEF CurOK, Busy
<1>8. /\ SlotOwned /\ FreshSlot /\ SlotsDistinct /\ Serving
      /\ jc[s].envid = cur.env /\ cur.env \in Env
  BY <1>0, ConstAssumption DEF SlotInv, CurOK, SlotOwned, Serving, Clearing, HasTrans, Busy, Slot
<1>9. SlotOwned' /\ FreshSlot' /\ SlotsDistinct'
  BY <1>0, <1>2, <1>4, <1>8, ConstAssumption
  DEF SlotOwned, FreshSlot, SlotsDistinct, Clearing, HasTrans, TypeOK
<1>10. ActiveOnlyWhenCommitted' /\ RetiredByRecovery'
  BY <1>0, <1>2, <1>4, <1>5 DEF SlotInv, ActiveOnlyWhenCommitted, RetiredByRecovery, Active, Serving
<1> QED  BY <1>6, <1>7, <1>9, <1>10 DEF SlotInv

-----------------------------------------------------------------------------
(* The file operations *)

\* How a file operation moves the server on.  The slots play no part in it.
FileStep ==
  /\ pc \in {"apply", "apply2", "flush_data", "flush_file"}
  /\ UNCHANGED <<jc, jd, env_trans>>
  /\ \/ pc' = "panic" /\ cur' = cur
     \/ cur.boot /\ pc' \in {"apply2", "flush_data", "flush_file", "clear"} /\ cur' = cur
     \/ cur.boot /\ pc' = "replay" /\ cur' = [cur EXCEPT !.hno = @ + 1]
     \/ /\ ~cur.boot /\ pc \in {"apply", "apply2"} /\ cur.req.op # "DELET"
        /\ \/ pc' = "apply2" /\ cur' = cur
           \/ pc' = "open_trunc" /\ cur.req.op = "CREAT" /\ cur' = cur
           \/ pc' = "idle" /\ cur' = NoCur
     \/ /\ ~cur.boot /\ pc \in {"apply", "apply2"} /\ cur.req.op = "DELET"
        /\ pc' \in {"apply2", "clear"} /\ cur' = cur
     \/ /\ ~cur.boot /\ pc \in {"flush_data", "flush_file"}
        /\ pc' \in {"flush_file", "clear"} /\ cur' = cur

LEMMA FileStepInv ==
  ASSUME SlotInv, FileStep,
         free' \in SUBSET Block, bc' \in [Block -> BlockVal], bd' \in [Block -> BlockVal],
         fc' \in [Name -> File], fd' \in [Name -> File], crashes' = crashes
  PROVE  SlotInv'
<1>0. TypeOK /\ CurOK /\ cur \in CurRecord /\ cur.slot \in Slot
      /\ cur.hno \in Nat /\ jc[cur.slot].nh \in 0 .. MaxHandles
  BY ConstAssumption DEF SlotInv, TypeOK, CurOK, CurRecord, FileStep, Busy, Transaction
<1>1. cur' \in CurRecord
  <2>1. CASE cur' = cur \/ cur' = NoCur
    BY <1>0, <2>1, NoCurType
  <2>2. CASE cur.boot /\ pc' = "replay" /\ cur' = [cur EXCEPT !.hno = @ + 1]
    <3>1. cur.hno + 1 \in 0 .. MaxHandles
      BY <1>0, <2>2, ConstAssumption DEF CurOK, FileStep
    <3> QED  BY <1>0, <2>2, <3>1 DEF CurRecord
  <2> QED  BY <2>1, <2>2 DEF FileStep
<1>2. TypeOK'
  BY <1>0, <1>1 DEF TypeOK, FileStep, CurRecord, Busy
<1>3. cur'.boot = cur.boot /\ (pc' # "idle" => /\ cur'.slot = cur.slot /\ cur'.env = cur.env
                                               /\ cur'.req = cur.req)
  <2>1. cur.boot \in BOOLEAN
    BY <1>0 DEF CurRecord
  <2>2. CASE cur' = cur
    BY <2>2
  <2>3. CASE cur' = [cur EXCEPT !.hno = @ + 1]
    BY <1>0, <2>3 DEF CurRecord
  <2>4. CASE pc' = "idle" /\ cur' = NoCur /\ ~cur.boot
    BY <2>1, <2>4 DEF NoCur
  <2> QED  BY <2>2, <2>3, <2>4 DEF FileStep
<1>4. CurOK'
  <2>1. pc' = "replay" => cur'.hno <= jc[cur.slot].nh
    BY <1>0 DEF FileStep, CurOK, CurRecord
  <2>2. cur.boot /\ pc' # "panic" => cur.hno < jc[cur.slot].nh
    BY <1>0 DEF FileStep, CurOK
  <2>3. cur.boot /\ pc' \in {"apply2", "flush_data", "flush_file"} => cur' = cur
    BY DEF FileStep
  <2> QED  BY <1>0, <1>3, <2>1, <2>2, <2>3 DEF CurOK, FileStep, Busy
<1>5. SlotOwned' /\ FreshSlot' /\ SlotsDistinct'
  BY <1>0, <1>3 DEF SlotInv, FileStep, SlotOwned, FreshSlot, SlotsDistinct, Serving, Clearing, HasTrans
<1>6. ActiveOnlyWhenCommitted'
  BY <1>0, <1>3 DEF SlotInv, FileStep, ActiveOnlyWhenCommitted, Active, Serving
<1>7. RetiredByRecovery'
  BY <1>0, <1>3 DEF SlotInv, FileStep, RetiredByRecovery, Active, CurOK
<1> QED  BY <1>2, <1>4, <1>5, <1>6, <1>7 DEF SlotInv

LEMMA AfterOpStep ==
  ASSUME pc \in {"apply", "apply2"}, NEW ok \in BOOLEAN, AfterOp(ok),
         UNCHANGED <<jc, jd, env_trans>>
  PROVE  FileStep
<1> DEFINE op == cur.req.op
           p  == IF cur.boot
                 THEN IF ~ok THEN "clear"
                      ELSE IF op \in {"WRITE", "TRUNC"} THEN "flush_data" ELSE "replay"
                 ELSE IF op = "DELET" THEN "clear"
                      ELSE IF op = "CREAT" /\ cur.trunc THEN "open_trunc" ELSE "idle"
<1>1. pc' = p /\ cur' = IF p = "idle" THEN NoCur
                        ELSE IF p = "replay" THEN [cur EXCEPT !.hno = @ + 1] ELSE cur
  BY DEF AfterOp, Goto, NextHandle
<1> QED  BY <1>1 DEF FileStep

LEMMA FileOpInv ==
  ASSUME SlotInv, FileOp
  PROVE  SlotInv'
<1>0. /\ TypeOK /\ CurOK
      /\ fc \in [Name -> File] /\ fd \in [Name -> File] /\ free \in SUBSET Block
      /\ bc \in [Block -> BlockVal] /\ bd \in [Block -> BlockVal]
      /\ cur.req \in Request /\ cur.req.off \in Nat /\ cur.req.len \in Nat
      /\ cur.req.data \in [0 .. (HandleCap - 1) -> Cell]
      /\ cur.boot \in BOOLEAN
  BY DEF SlotInv, TypeOK, Request
<1>1. pc \in {"apply", "apply2", "flush_data", "flush_file"} /\ cur.req.name \in Name
  BY <1>0 DEF FileOp, FileCreate, FileExtend, FileWriteData, FileFreeBlock, FileShrink,
              FileFlushData, FileFlushFile, CurOK, Busy
<1>2. CurFile \in File /\ CurFile = fc[cur.req.name] /\ CurFile.ptr \in Block \cup {0} /\ CurFile.size \in Nat
  BY <1>0, <1>1 DEF CurFile, File
<1>3. ASSUME NEW cells \in [Off -> Cell]  PROVE Data(Written(cells)) \in BlockVal
  <2>1. Written(cells) \in [Off -> Cell]
    BY <1>0, ConstAssumption DEF Written, Off, Cell
  <2> QED  BY <2>1, BlockTypes
<1>4. ASSUME FileCreate  PROVE SlotInv'
  <2>1. FileStep
    BY <1>4, AfterOpStep DEF FileCreate, opvars
  <2>2. fc' \in [Name -> File] /\ fd' \in [Name -> File]
    BY <1>0, <1>1, <1>2, <1>4, FileTypes DEF FileCreate
  <2> QED  BY <1>0, <1>4, <2>1, <2>2, FileStepInv DEF FileCreate, opvars
<1>5. ASSUME FileExtend  PROVE SlotInv'
  <2>1. CASE ~CurFile.there
    <3>1. FileStep
      BY <1>5, <2>1, AfterOpStep DEF FileExtend, opvars
    <3> QED  BY <1>0, <1>5, <2>1, <3>1, FileStepInv DEF FileExtend, opvars
  <2>2. CASE CurFile.there
    <3>1. FileStep
      BY <1>0, <1>5, <2>2 DEF FileExtend, FileStep, Goto, opvars
    <3>2. cur.req.off + cur.req.len \in Nat
      BY <1>0
    <3>3. fc' \in [Name -> File] /\ fd' \in [Name -> File]
      <4>1. [CurFile EXCEPT !.size = cur.req.off + cur.req.len] \in File
        BY <1>2, <3>2, FileTypes
      <4> QED  BY <1>0, <1>1, <1>5, <2>2, <4>1 DEF FileExtend, CurFile
    <3> QED  BY <1>0, <1>5, <2>2, <3>1, <3>3, FileStepInv DEF FileExtend, opvars
  <2> QED  BY <2>1, <2>2
<1>6. ASSUME FileWriteData  PROVE SlotInv'
  <2>1. FileStep
    BY <1>6, AfterOpStep DEF FileWriteData, opvars, Panic, FileStep
  <2>2. CASE CurFile.ptr = 0 /\ free = {}
    BY <1>0, <1>6, <2>1, <2>2, FileStepInv DEF FileWriteData, opvars
  <2>3. CASE CurFile.ptr = 0 /\ free # {}
    <3>1. AllocFrom(free) \in Block
      BY <1>0, <2>3, AllocIn
    <3>2. Zeros \in [Off -> Cell]
      BY DEF Zeros, Cell
    <3>3. [CurFile EXCEPT !.ptr = AllocFrom(free)] \in File
      BY <1>2, <3>1, FileTypes
    <3>4. /\ free' = free \ {AllocFrom(free)}
          /\ fc' = [fc EXCEPT ![cur.req.name].ptr = AllocFrom(free)]
          /\ bc' = [bc EXCEPT ![AllocFrom(free)] = Data(Written(Zeros))]
          /\ UNCHANGED <<bd, fd, crashes>>
      BY <1>6, <2>3 DEF FileWriteData, opvars
    <3>5. fc' \in [Name -> File]
      BY <1>0, <1>1, <3>3, <3>4 DEF CurFile
    <3>6. bc' \in [Block -> BlockVal]
      BY <1>0, <1>3, <3>2, <3>4
    <3> QED  BY <1>0, <2>1, <3>4, <3>5, <3>6, FileStepInv
  <2>4. CASE CurFile.ptr # 0 /\ CurFile.ptr \in free
    BY <1>0, <1>6, <2>1, <2>4, FileStepInv DEF FileWriteData, opvars
  <2>5. CASE CurFile.ptr # 0 /\ CurFile.ptr \notin free
    <3>1. CellsIn(bc[CurFile.ptr]) \in [Off -> Cell]
      BY <1>0, <1>2, <2>5, ReadTypes
    <3>2. free' = free /\ fc' = fc /\ bc' \in [Block -> BlockVal]
      BY <1>0, <1>3, <1>6, <2>5, <3>1 DEF FileWriteData
    <3> QED  BY <1>0, <1>6, <2>1, <3>2, FileStepInv DEF FileWriteData, opvars
  <2> QED  BY <2>2, <2>3, <2>4, <2>5
<1>7. ASSUME FileFreeBlock  PROVE SlotInv'
  <2>1. CASE ~CurFile.there
    <3>1. FileStep
      BY <1>7, <2>1, AfterOpStep DEF FileFreeBlock, opvars
    <3> QED  BY <1>0, <1>7, <2>1, <3>1, FileStepInv DEF FileFreeBlock, opvars
  <2>2. CASE CurFile.there
    <3>1. FileStep
      BY <1>0, <1>7, <2>2 DEF FileFreeBlock, FileStep, Goto, opvars
    <3>2. free' \in SUBSET Block /\ fc' \in [Name -> File]
      <4>1. Unlinked(CurFile) \in File
        BY <1>2, FileTypes DEF Unlinked
      <4> QED  BY <1>0, <1>1, <1>2, <1>7, <2>2, <4>1 DEF FileFreeBlock, CurFile
    <3> QED  BY <1>0, <1>7, <3>1, <3>2, FileStepInv DEF FileFreeBlock, opvars
  <2> QED  BY <2>1, <2>2
<1>8. ASSUME FileShrink  PROVE SlotInv'
  <2>1. FileStep
    BY <1>8, AfterOpStep DEF FileShrink, opvars
  <2>2. Shrunk \in [Name -> File]
    <3>1. [CurFile EXCEPT !.there = FALSE, !.size = 0] \in File
      BY <1>2, FileTypes
    <3>2. [CurFile EXCEPT !.size = cur.req.off] \in File
      BY <1>0, <1>2, FileTypes
    <3> QED  BY <1>0, <1>1, <3>1, <3>2 DEF Shrunk, CurFile
  <2> QED  BY <1>0, <1>8, <2>1, <2>2, FileStepInv DEF FileShrink, opvars
<1>9. ASSUME FileFlushData  PROVE SlotInv'
  <2>1. FileStep
    BY <1>0, <1>9 DEF FileFlushData, FileStep, Goto
  <2>2. bd' \in [Block -> BlockVal]
    BY <1>0, <1>2, <1>9 DEF FileFlushData
  <2> QED  BY <1>0, <1>9, <2>1, <2>2, FileStepInv DEF FileFlushData
<1>10. ASSUME FileFlushFile  PROVE SlotInv'
  <2>1. FileStep
    BY <1>0, <1>10 DEF FileFlushFile, FileStep, Goto, NextHandle
  <2> QED  BY <1>0, <1>10, <2>1, FileStepInv DEF FileFlushFile
<1> QED  BY <1>4, <1>5, <1>6, <1>7, <1>8, <1>9, <1>10 DEF FileOp

-----------------------------------------------------------------------------
(* Commit *)

\* flush_sector writes a slot's own struct, and others only as the cache has them.
LEMMA FlushSectorEffect ==
  ASSUME TypeOK, NEW s \in Slot, NEW j \in [Slot -> Transaction]
  PROVE  /\ FlushSector(s, j) \in [Slot -> Transaction]
         /\ FlushSector(s, j)[s] = j[s]
         /\ \A t \in Slot : FlushSector(s, j)[t] \in {j[t], jd[t]}
BY DEF FlushSector, TypeOK

\* The transaction the server works on, and its cursor, are typed.
LEMMA CurTypes ==
  ASSUME TypeOK, cur.slot \in Slot
  PROVE  /\ cur \in CurRecord /\ cur.hno \in Nat /\ cur.boot \in BOOLEAN
         /\ T \in Transaction /\ T.nh \in 0 .. MaxHandles /\ T.hi \in Block \cup {0}
<1>1. cur \in CurRecord
  BY DEF TypeOK, CurRecord
<1>2. T \in Transaction
  BY DEF TypeOK, T
<1> QED  BY <1>1, <1>2, ConstAssumption DEF CurRecord, Transaction

LEMMA CommitInv ==
  ASSUME SlotInv, CommitHandle \/ CommitIndirect
  PROVE  SlotInv'
<1>0. /\ TypeOK /\ CurOK /\ pc = "commit" /\ cur.boot = FALSE /\ cur.slot \in Slot
      /\ cur.hno \in Nat /\ T.nh \in 0 .. MaxHandles /\ cur \in CurRecord
  <2>1. TypeOK /\ CurOK /\ pc = "commit" /\ ~cur.boot /\ cur.slot \in Slot
    BY DEF CommitHandle, CommitIndirect, SlotInv, CurOK, Busy
  <2> QED  BY <2>1, CurTypes
<1>1. UNCHANGED <<jc, jd, free, bc, env_trans, fc, fd, crashes>>
  BY DEF CommitHandle, CommitIndirect
<1>2. \/ pc' \in {"panic", "activate"} /\ cur' = cur
      \/ cur.hno < T.nh /\ pc' = "commit" /\ cur' = [cur EXCEPT !.hno = @ + 1]
  BY DEF CommitHandle, CommitIndirect, Panic, Goto
<1>3. bd' \in [Block -> BlockVal]
  BY <1>0 DEF CommitHandle, CommitIndirect, TypeOK
<1>4. /\ cur' \in CurRecord /\ cur'.boot = FALSE /\ cur'.slot = cur.slot
      /\ cur'.env = cur.env /\ cur'.req = cur.req
      /\ pc' = "commit" => cur'.hno <= T.nh
  <2>1. cur.hno < T.nh => cur.hno + 1 \in 0 .. MaxHandles /\ cur.hno + 1 <= T.nh
    BY <1>0, ConstAssumption
  <2> QED  BY <1>0, <1>2, <2>1 DEF CurRecord
<1>5. TypeOK'
  BY <1>0, <1>1, <1>2, <1>3, <1>4 DEF TypeOK, CurRecord, Busy
<1>6. CurOK'
  BY <1>0, <1>1, <1>2, <1>4 DEF CurOK, Busy, T
<1>7. SlotOwned' /\ FreshSlot' /\ SlotsDistinct'
  BY <1>0, <1>1, <1>2 DEF SlotInv, SlotOwned, FreshSlot, SlotsDistinct, Serving, Clearing, HasTrans
<1>8. ActiveOnlyWhenCommitted' /\ RetiredByRecovery'
  BY <1>0, <1>1, <1>2, <1>4 DEF SlotInv, ActiveOnlyWhenCommitted, RetiredByRecovery, Active, Serving
<1> QED  BY <1>5, <1>6, <1>7, <1>8 DEF SlotInv

LEMMA ActivateInv ==
  ASSUME SlotInv, Activate
  PROVE  SlotInv'
<1> DEFINE s == cur.slot
<1>0. TypeOK /\ CurOK /\ pc = "activate" /\ cur.boot = FALSE /\ s \in Slot
  BY DEF Activate, SlotInv, CurOK, TypeOK, Busy
<1>1. /\ jc' = [jc EXCEPT ![s].active = TRUE]
      /\ jd' = FlushSector(s, jc')
      /\ UNCHANGED <<free, bc, bd, env_trans, fc, fd, cur, crashes>>
      /\ pc' = IF cur.req.op = "DELET" THEN "apply" ELSE "flush_data"
  BY DEF Activate, Goto
<1>2. /\ jc' \in [Slot -> Transaction]
      /\ \A t \in Slot : /\ t # s => jc'[t] = jc[t]
                         /\ jc'[t].envid = jc[t].envid
                         /\ jc'[t].nh = jc[t].nh /\ jc'[t].hi = jc[t].hi
  <2>1. jc \in [Slot -> Transaction]
    BY <1>0 DEF TypeOK
  <2>2. jc' \in [Slot -> Transaction]
    BY <1>0, <1>1, <2>1 DEF Transaction
  <2> QED  BY <1>0, <1>1, <2>1, <2>2 DEF Transaction
<1>3. jd' \in [Slot -> Transaction] /\ \A t \in Slot : jd'[t] \in {jc'[t], jd[t]}
  BY <1>0, <1>1, <1>2, FlushSectorEffect
<1>4. \A t \in Slot : ~Active(t)
  BY <1>0 DEF SlotInv, ActiveOnlyWhenCommitted, Serving
<1>5. TypeOK'
  BY <1>0, <1>1, <1>2, <1>3 DEF TypeOK, Busy
<1>6. CurOK'
  BY <1>0, <1>1, <1>2 DEF CurOK, Busy
<1>7. SlotOwned' /\ FreshSlot' /\ SlotsDistinct'
  BY <1>0, <1>1, <1>2 DEF SlotInv, TypeOK, SlotOwned, FreshSlot, SlotsDistinct, Serving, Clearing, HasTrans
<1>8. \A t \in Slot : Active(t)' => t = s
  BY <1>2, <1>3, <1>4 DEF Active
<1>9. ActiveOnlyWhenCommitted' /\ RetiredByRecovery'
  BY <1>0, <1>1, <1>8 DEF ActiveOnlyWhenCommitted, RetiredByRecovery, Serving
<1> QED  BY <1>5, <1>6, <1>7, <1>9 DEF SlotInv

-----------------------------------------------------------------------------
(* clear_transaction and end_transaction *)

LEMMA ClearInv ==
  ASSUME SlotInv, Clear
  PROVE  SlotInv'
<1> DEFINE s == cur.slot
<1>0. TypeOK /\ CurOK /\ pc = "clear" /\ cur.boot \in BOOLEAN /\ s \in Slot /\ cur \in CurRecord
  BY DEF Clear, SlotInv, CurOK, TypeOK, Busy, CurRecord
<1>1. /\ jc' = [jc EXCEPT ![s] = Retired(@)]
      /\ jd' = FlushSector(s, jc')
      /\ UNCHANGED <<free, bc, bd, env_trans, fc, fd, crashes>>
      /\ cur' = [cur EXCEPT !.hno = 0]
      /\ pc' = "clear_handle"
  BY DEF Clear, Goto
<1>2. /\ jc' \in [Slot -> Transaction]
      /\ \A t \in Slot : t # s => jc'[t] = jc[t]
      /\ jc'[s].active = FALSE /\ jc'[s].envid = NoEnv
  <2>1. Retired(jc[s]) \in Transaction /\ Retired(jc[s]).active = FALSE /\ Retired(jc[s]).envid = NoEnv
    <3>1. jc[s] \in Transaction
      BY <1>0 DEF TypeOK
    <3> QED  BY <3>1 DEF Transaction, Retired
  <2>2. jc \in [Slot -> Transaction]
    BY <1>0 DEF TypeOK
  <2> QED  BY <1>0, <1>1, <2>1, <2>2
<1>3. /\ jd' \in [Slot -> Transaction]
      /\ jd'[s] = jc'[s]
      /\ \A t \in Slot : jd'[t] \in {jc'[t], jd[t]}
  BY <1>0, <1>1, <1>2, FlushSectorEffect
<1>4. /\ cur' \in CurRecord /\ cur'.boot = cur.boot /\ cur'.slot = s
      /\ cur'.env = cur.env /\ cur'.req = cur.req
  BY <1>0, <1>1, ConstAssumption DEF CurRecord
<1>5. TypeOK'
  BY <1>0, <1>1, <1>2, <1>3, <1>4 DEF TypeOK, Busy, CurRecord
<1>6. CurOK'
  BY <1>0, <1>1, <1>4 DEF CurOK, Busy
<1>7. SlotOwned' /\ FreshSlot' /\ SlotsDistinct'
  BY <1>0, <1>1, <1>2, <1>4 DEF SlotInv, TypeOK, SlotOwned, FreshSlot, SlotsDistinct, Serving, Clearing, HasTrans
<1>8. \A t \in Slot : Active(t)' => Active(t) /\ t # s
  BY <1>2, <1>3 DEF Active
<1>9. ActiveOnlyWhenCommitted'
  BY <1>0, <1>1, <1>4, <1>8 DEF SlotInv, ActiveOnlyWhenCommitted, Serving
<1>10. RetiredByRecovery'
  <2>1. \A t \in Slot : t < s => t # s
    BY <1>0, ConstAssumption DEF Slot
  <2>2. NoTransaction.active = FALSE
    BY DEF NoTransaction
  <2>3. ~jc'[s].active /\ ~jd'[s].active /\ jc'[s].envid = NoEnv
    BY <1>2, <1>3
  <2>4. cur.boot => \A t \in Slot : t < s => jc[t] = NoTransaction /\ ~jd[t].active
    BY <1>0 DEF SlotInv, RetiredByRecovery
  <2>5. cur.boot => \A t \in Slot : t < s => jc'[t] = NoTransaction /\ ~jd'[t].active
    <3> SUFFICES ASSUME cur.boot, NEW t \in Slot, t < s  PROVE jc'[t] = NoTransaction /\ ~jd'[t].active
      OBVIOUS
    <3>1. t # s /\ jc[t] = NoTransaction /\ ~jd[t].active
      BY <2>1, <2>4
    <3>2. jc'[t] = NoTransaction
      BY <1>2, <3>1
    <3>3. jd'[t] = NoTransaction \/ jd'[t] = jd[t]
      BY <1>3, <3>2
    <3> QED  BY <2>2, <3>1, <3>2, <3>3
  <2> QED  BY <1>4, <2>3, <2>5 DEF RetiredByRecovery, Active
<1> QED  BY <1>5, <1>6, <1>7, <1>9, <1>10 DEF SlotInv

LEMMA ClearBlocksInv ==
  ASSUME SlotInv, ClearHandle \/ ClearIndirect
  PROVE  SlotInv'
<1>0. /\ TypeOK /\ CurOK /\ pc = "clear_handle" /\ cur.slot \in Slot /\ cur \in CurRecord
      /\ cur.hno \in Nat /\ T.nh \in 0 .. MaxHandles /\ T.hi \in Block \cup {0}
  <2>1. TypeOK /\ CurOK /\ pc = "clear_handle" /\ cur.slot \in Slot
    BY DEF ClearHandle, ClearIndirect, SlotInv, CurOK, Busy
  <2> QED  BY <2>1, CurTypes
<1>1. UNCHANGED <<jc, jd, bd, env_trans, fc, fd, crashes>>
  BY DEF ClearHandle, ClearIndirect
<1>2. \/ pc' \in {"panic", "clear_end"} /\ cur' = cur
      \/ cur.hno < T.nh /\ pc' = "clear_handle" /\ cur' = [cur EXCEPT !.hno = @ + 1]
  BY DEF ClearHandle, ClearIndirect, Panic, Goto
<1>3. free' \in SUBSET Block /\ bc' \in [Block -> BlockVal]
  <2>1. CASE UNCHANGED <<free, bc>>
    BY <1>0, <2>1 DEF TypeOK
  <2>2. CASE ClearIndirect
    BY <1>0, <2>2 DEF ClearIndirect, TypeOK
  <2>3. CASE ClearHandle /\ ~UNCHANGED <<free, bc>>
    <3> DEFINE p == LogPtr(cur.slot, cur.hno)
    <3>1. /\ T.hi # 0 /\ p # Junk /\ p # 0 /\ cur.hno < T.nh
          /\ free' = free \cup {p} /\ bc' = [bc EXCEPT ![T.hi].ptr[cur.hno] = 0]
      BY <2>3 DEF ClearHandle
    <3>2. cur.hno \in Hno
      BY <1>0, <3>1, ConstAssumption DEF Hno
    <3>3. p = PtrIn(bc[T.hi], cur.hno) /\ bc[T.hi] \in BlockVal
      BY <1>0, <3>1 DEF LogPtr, T, TypeOK
    <3>4. p \in Block
      BY <3>1, <3>2, <3>3, ReadTypes
    <3>5. bc[T.hi] \in [kind : {"ind"}, ptr : [Hno -> Block \cup {0, Junk}]]
      BY <3>1, <3>3 DEF PtrIn, BlockVal, Blank
    <3>6. [bc[T.hi] EXCEPT !.ptr[cur.hno] = 0] \in BlockVal
      BY <3>5 DEF BlockVal
    <3> QED  BY <1>0, <3>1, <3>4, <3>6 DEF TypeOK
  <2> QED  BY <2>1, <2>2, <2>3
<1>4. /\ cur' \in CurRecord /\ cur'.boot = cur.boot /\ cur'.slot = cur.slot
      /\ cur'.env = cur.env /\ cur'.req = cur.req
  <2>1. cur.hno < T.nh => cur.hno + 1 \in 0 .. MaxHandles
    BY <1>0, ConstAssumption
  <2> QED  BY <1>0, <1>2, <2>1 DEF CurRecord
<1>5. TypeOK'
  BY <1>0, <1>1, <1>2, <1>3, <1>4 DEF TypeOK, CurRecord, Busy
<1>6. CurOK'
  BY <1>0, <1>1, <1>2, <1>4 DEF CurOK, Busy
<1>7. SlotOwned' /\ FreshSlot' /\ SlotsDistinct'
  BY <1>0, <1>1, <1>2, <1>4 DEF SlotInv, SlotOwned, FreshSlot, SlotsDistinct, Serving, Clearing, HasTrans
<1>8. ActiveOnlyWhenCommitted' /\ RetiredByRecovery'
  BY <1>0, <1>1, <1>2, <1>4 DEF SlotInv, ActiveOnlyWhenCommitted, RetiredByRecovery, Active, Serving
<1> QED  BY <1>5, <1>6, <1>7, <1>8 DEF SlotInv

LEMMA ClearEndInv ==
  ASSUME SlotInv, ClearEnd
  PROVE  SlotInv'
<1> DEFINE s == cur.slot
<1>0. TypeOK /\ CurOK /\ pc = "clear_end" /\ s \in Slot /\ cur.boot \in BOOLEAN /\ s \in Nat
  <2>1. TypeOK /\ CurOK /\ pc = "clear_end" /\ s \in Slot
    BY DEF ClearEnd, SlotInv, CurOK, Busy
  <2> QED  BY <2>1, CurTypes DEF Slot
<1>1. jc' = [jc EXCEPT ![s] = Emptied(@)] /\ jd' = FlushSector(s, jc')
      /\ UNCHANGED <<free, bc, bd, fc, fd, crashes>>
  BY DEF ClearEnd
<1>2. /\ jc' \in [Slot -> Transaction]
      /\ \A t \in Slot : /\ t # s => jc'[t] = jc[t]
                         /\ jc'[t].active = jc[t].active
                         /\ jc'[t].envid = jc[t].envid
      /\ jc'[s].nh = 0 /\ jc'[s].hi = 0
  <2>1. jc \in [Slot -> Transaction]
    BY <1>0 DEF TypeOK
  <2>2. Emptied(jc[s]) \in Transaction
    <3>1. jc[s] \in Transaction /\ 0 \in 0 .. MaxHandles
      BY <1>0, <2>1, ConstAssumption
    <3> QED  BY <3>1 DEF Transaction, Emptied
  <2>3. jc' \in [Slot -> Transaction]
    BY <1>0, <1>1, <2>1, <2>2
  <2> QED  BY <2>3, <1>0, <1>1, <2>1, <2>2 DEF Transaction, Emptied
<1>3. /\ jd' \in [Slot -> Transaction]
      /\ \A t \in Slot : jd'[t] \in {jc'[t], jd[t]}
  BY <1>0, <1>1, <1>2, FlushSectorEffect
<1>4. \A t \in Slot : Active(t)' => Active(t)
  BY <1>2, <1>3 DEF Active
<1>5. CASE ~cur.boot
  <2>1. pc' = "idle" /\ cur' = NoCur /\ env_trans' = [env_trans EXCEPT ![cur.env] = NoTrans]
    BY <1>5 DEF ClearEnd, Done
  <2>2. TypeOK'
    BY <1>0, <1>1, <1>2, <1>3, <2>1, NoCurType DEF TypeOK, CurRecord
  <2>3. CurOK' /\ cur'.boot = FALSE
    BY <2>1 DEF CurOK, NoCur, Busy
  <2>4. cur.env \in Env /\ env_trans[cur.env] = s
        /\ \A e \in Env : env_trans'[e] = IF e = cur.env THEN NoTrans ELSE env_trans[e]
    BY <1>0, <1>5, <2>1 DEF CurOK, TypeOK, Busy
  <2>5. SlotsDistinct'
    BY <2>4 DEF SlotInv, SlotsDistinct, HasTrans
  <2>6. SlotOwned'
    BY <1>0, <1>2, <1>5, <2>4, SMTT(30) DEF SlotInv, TypeOK, SlotOwned, SlotsDistinct, Serving, Clearing, HasTrans
  <2>7. FreshSlot'
    BY <1>0, <1>2, <1>5 DEF SlotInv, FreshSlot, Serving, Clearing
  <2>8. \A t \in Slot : ~Active(t)'
    BY <1>0, <1>4, <1>5 DEF SlotInv, ActiveOnlyWhenCommitted, Serving
  <2>9. ActiveOnlyWhenCommitted' /\ RetiredByRecovery'
    BY <2>3, <2>8 DEF ActiveOnlyWhenCommitted, RetiredByRecovery
  <2> QED  BY <2>2, <2>3, <2>5, <2>6, <2>7, <2>9 DEF SlotInv
<1>6. CASE cur.boot
  <2>1. \A t \in Slot : t < s + 1 => jc'[t] = NoTransaction /\ ~jd'[t].active
    <3>1. jc'[s] = NoTransaction /\ ~jd[s].active
      <4>1. jc'[s] \in Transaction /\ jc'[s].active = FALSE /\ jc'[s].envid = NoEnv
            /\ jc'[s].nh = 0 /\ jc'[s].hi = 0 /\ ~jd[s].active
        BY <1>0, <1>2, <1>6, SMTT(30) DEF SlotInv, RetiredByRecovery, Active, Transaction, TypeOK
      <4> QED  BY <4>1 DEF Transaction, NoTransaction
    <3>2. \A t \in Slot : t < s => jc'[t] = NoTransaction /\ ~jd[t].active
      BY <1>0, <1>2, <1>6, SMTT(30) DEF SlotInv, RetiredByRecovery, Slot
    <3>3. \A t \in Slot : t < s + 1 => t < s \/ t = s
      BY <1>0 DEF Slot
    <3>4. \A t \in Slot : t < s + 1 => jc'[t] = NoTransaction /\ ~jd[t].active
      BY <3>1, <3>2, <3>3
    <3>5. NoTransaction.active = FALSE
      BY DEF NoTransaction
    <3> QED  BY <1>3, <3>4, <3>5
  <2>2. env_trans' = env_trans /\ \A e \in Env : env_trans[e] = NoTrans
    BY <1>0, <1>6 DEF ClearEnd, CurOK
  <2>3. SlotsDistinct' /\ SlotOwned'
    BY <2>2 DEF SlotsDistinct, SlotOwned, HasTrans
  <2>4. CASE s + 1 < NTrans
    <3>1. pc' = "boot" /\ cur' = [NoCur EXCEPT !.slot = s + 1, !.boot = TRUE]
      BY <1>6, <2>4 DEF ClearEnd, Goto
    <3>2. s + 1 \in Slot
      BY <1>0, <2>4, ConstAssumption DEF Slot
    <3>3. cur' \in CurRecord /\ cur'.slot = s + 1 /\ cur'.boot = TRUE /\ cur'.hno = 0
      BY <3>1, <3>2, NoCurType DEF CurRecord, NoCur
    <3>4. TypeOK'
      BY <1>0, <1>1, <1>2, <1>3, <2>2, <3>1, <3>3 DEF TypeOK, CurRecord, Busy
    <3>5. CurOK'
      BY <2>2, <3>1, <3>2, <3>3 DEF CurOK, Busy
    <3>6. FreshSlot' /\ ActiveOnlyWhenCommitted'
      BY <1>4, <3>3 DEF SlotInv, FreshSlot, ActiveOnlyWhenCommitted, Serving
    <3>7. RetiredByRecovery'
      BY <2>1, <3>1, <3>3 DEF RetiredByRecovery
    <3> QED  BY <2>3, <3>4, <3>5, <3>6, <3>7 DEF SlotInv
  <2>5. CASE ~(s + 1 < NTrans)
    <3>1. pc' = "idle" /\ cur' = NoCur
      BY <1>6, <2>5 DEF ClearEnd, Done
    <3>2. TypeOK'
      BY <1>0, <1>1, <1>2, <1>3, <2>2, <3>1, NoCurType DEF TypeOK, CurRecord
    <3>3. CurOK' /\ cur'.boot = FALSE
      BY <3>1 DEF CurOK, NoCur, Busy
    <3>4. \A t \in Slot : jc'[t] = NoTransaction /\ ~jd'[t].active
      BY <1>0, <2>1, <2>5, ConstAssumption DEF Slot
    <3>5. \A t \in Slot : jc'[t].nh = 0 /\ jc'[t].hi = 0 /\ ~Active(t)'
      BY <3>4 DEF NoTransaction, Active
    <3>6. FreshSlot' /\ ActiveOnlyWhenCommitted' /\ RetiredByRecovery'
      BY <3>3, <3>5 DEF FreshSlot, ActiveOnlyWhenCommitted, RetiredByRecovery
    <3> QED  BY <2>3, <3>2, <3>3, <3>6 DEF SlotInv
  <2> QED  BY <2>4, <2>5
<1> QED  BY <1>5, <1>6

-----------------------------------------------------------------------------
(* Crash and recovery *)

LEMMA CrashInv ==
  ASSUME SlotInv, Crash
  PROVE  SlotInv'
<1>1. /\ jc' = jd /\ jd' = jd /\ bc' = bd /\ bd' = bd /\ fc' = fd /\ fd' = fd /\ free' = free
      /\ env_trans' = [e \in Env |-> NoTrans] /\ pc' = "boot"
      /\ cur' = [NoCur EXCEPT !.slot = 0, !.boot = TRUE]
  BY DEF Crash
<1>2. 0 \in Slot
  BY ConstAssumption DEF Slot
<1>3. cur' \in CurRecord /\ cur'.slot = 0 /\ cur'.boot = TRUE /\ cur'.hno = 0
  BY <1>1, <1>2, NoCurType DEF CurRecord, NoCur
<1>4. crashes' \in 0 .. MaxCrash
  BY ConstAssumption DEF Crash, SlotInv, TypeOK
<1>5. TypeOK'
  BY <1>1, <1>3, <1>4 DEF SlotInv, TypeOK, CurRecord, Busy
<1>6. CurOK' /\ SlotOwned' /\ SlotsDistinct' /\ FreshSlot'
  BY <1>1, <1>2, <1>3 DEF CurOK, SlotOwned, SlotsDistinct, FreshSlot, HasTrans, Serving, Busy
<1>7. ActiveOnlyWhenCommitted'
  BY <1>1, <1>3 DEF SlotInv, ActiveOnlyWhenCommitted, Active, Serving
<1>8. RetiredByRecovery'
  BY <1>1, <1>3, ConstAssumption DEF RetiredByRecovery, Slot
<1> QED  BY <1>5, <1>6, <1>7, <1>8 DEF SlotInv

LEMMA RecoveryInv ==
  ASSUME SlotInv, Boot \/ Replay
  PROVE  SlotInv'
<1>0. /\ TypeOK /\ CurOK /\ pc \in {"boot", "replay"} /\ cur.boot /\ cur.slot \in Slot
      /\ cur \in CurRecord /\ cur.hno \in Nat /\ T.nh \in 0 .. MaxHandles
  <2>1. TypeOK /\ CurOK /\ pc \in {"boot", "replay"} /\ cur.boot /\ cur.slot \in Slot
    BY DEF Boot, Replay, SlotInv, CurOK, Busy
  <2> QED  BY <2>1, CurTypes
<1>1. UNCHANGED <<jc, jd, free, bc, bd, env_trans, fc, fd, crashes>>
  BY DEF Boot, Replay
<1>2. CASE cur' = cur /\ (pc' \in {"clear", "panic"} \/ (pc = "boot" /\ pc' = "replay"))
  <2>1. TypeOK'
    BY <1>0, <1>1, <1>2 DEF TypeOK, Busy
  <2>2. CurOK'
    <3>1. pc = "boot" => cur.hno <= T.nh
      BY <1>0, SMTT(30) DEF CurOK, T
    <3> QED  BY <1>0, <1>1, <1>2, <3>1 DEF CurOK, Busy, T
  <2> QED  BY <1>0, <1>1, <1>2, <2>1, <2>2 DEF SlotInv, SlotOwned, FreshSlot, SlotsDistinct,
      ActiveOnlyWhenCommitted, RetiredByRecovery, Active, Serving, HasTrans
<1>3. CASE \E p \in Block : /\ bc[p].kind = "handle" /\ cur.hno # T.nh
                            /\ pc = "replay" /\ pc' = "apply"
                            /\ cur' = [cur EXCEPT !.req = ReqIn(bc[p])]
  <2>1. PICK p \in Block : /\ bc[p].kind = "handle" /\ cur.hno # T.nh
                           /\ pc = "replay" /\ pc' = "apply"
                           /\ cur' = [cur EXCEPT !.req = ReqIn(bc[p])]
    BY <1>3
  <2>2. ReqIn(bc[p]) \in Logged
    BY <1>0, <2>1, ReadTypes DEF TypeOK
  <2>3. /\ cur' \in CurRecord /\ cur'.boot = cur.boot /\ cur'.slot = cur.slot
        /\ cur'.hno = cur.hno /\ cur'.req.name \in Name
    BY <1>0, <2>1, <2>2 DEF CurRecord, Logged
  <2>4. cur.hno < T.nh
    BY <1>0, <2>1 DEF CurOK, T
  <2>5. TypeOK'
    BY <1>0, <1>1, <2>1, <2>3 DEF TypeOK, CurRecord, Busy
  <2>6. CurOK'
    BY <1>0, <1>1, <2>1, <2>3, <2>4 DEF CurOK, Busy, T
  <2> QED  BY <1>0, <1>1, <2>1, <2>3, <2>5, <2>6 DEF SlotInv, SlotOwned, FreshSlot, SlotsDistinct,
      ActiveOnlyWhenCommitted, RetiredByRecovery, Active, Serving, HasTrans
<1>4. CASE Boot
  <2>1. cur' = cur /\ pc = "boot" /\ pc' \in {"clear", "replay"}
    BY <1>4 DEF Boot, Goto
  <2> QED  BY <1>2, <2>1
<1>5. CASE Replay
  <2> DEFINE p == LogPtr(cur.slot, cur.hno)
  <2>1. CASE cur.hno # T.nh /\ p \in Block /\ bc[p].kind = "handle" /\ ~BadHandle(cur.hno)
    <3>1. pc = "replay" /\ pc' = "apply" /\ cur' = [cur EXCEPT !.req = ReqIn(bc[p])]
      BY <1>5, <2>1 DEF Replay, Goto, LogEnd
    <3> HIDE DEF p
    <3> QED  BY <1>3, <2>1, <3>1
  <2>2. CASE ~(cur.hno # T.nh /\ p \in Block /\ bc[p].kind = "handle" /\ ~BadHandle(cur.hno))
    <3>1. cur' = cur /\ pc' \in {"clear", "panic"}
      BY <1>5, <2>2 DEF Replay, Goto, Panic, LogEnd
    <3> QED  BY <1>2, <3>1
  <2> QED  BY <2>1, <2>2
<1> QED  BY <1>4, <1>5

-----------------------------------------------------------------------------
(* The theorems *)

LEMMA NextInv == SlotInv /\ [Next]_vars => SlotInv'
<1> SUFFICES ASSUME SlotInv, [Next]_vars  PROVE SlotInv'
  OBVIOUS
<1>1. ASSUME NEW e \in Env, Client(e)  PROVE SlotInv'
  BY <1>1, StartingInv, EnvExitInv, LoggingInv DEF Client
<1>2. CASE Sync
  BY <1>2, SyncInv
<1>3. CASE Server
  BY <1>3, OpenTruncateInv, SyncInv, FileOpInv, CommitInv, ActivateInv, ClearInv, ClearBlocksInv,
     ClearEndInv, RecoveryInv DEF Server, Commit, EndTransaction
<1>4. CASE Crash
  BY <1>4, CrashInv
<1>5. CASE UNCHANGED vars
  <2>1. TypeOK' /\ CurOK'
    BY <1>5 DEF vars, SlotInv, TypeOK, CurOK
  <2>2. SlotOwned' /\ FreshSlot' /\ SlotsDistinct'
    BY <1>5 DEF vars, SlotInv, SlotOwned, FreshSlot, SlotsDistinct, Serving, Clearing, HasTrans
  <2>3. ActiveOnlyWhenCommitted' /\ RetiredByRecovery'
    BY <1>5 DEF vars, SlotInv, ActiveOnlyWhenCommitted, RetiredByRecovery, Active, Serving
  <2> QED  BY <2>1, <2>2, <2>3 DEF SlotInv
<1> QED  BY <1>1, <1>2, <1>3, <1>4, <1>5 DEF Next

\* The slots' bookkeeping holds in every reachable state: whatever the clients
\* ask for and whenever the machine crashes.
THEOREM SlotsCorrect == Spec => []SlotInv
BY InitInv, NextInv, PTL DEF Spec

\* Every variable keeps its type; no block number outside the disk is followed.
THEOREM TypeCorrect == Spec => []TypeOK
<1>1. SlotInv => TypeOK
  BY DEF SlotInv
<1> QED  BY <1>1, SlotsCorrect, PTL

\* start_transaction never hands out a slot that another environment holds,
\* and end_transaction releases only the caller's.
THEOREM SlotOwnership == Spec => []SlotOwned
<1>1. SlotInv => SlotOwned
  BY DEF SlotInv
<1> QED  BY <1>1, SlotsCorrect, PTL

\* The assertions at the end of start_transaction never fail: a slot that is
\* handed out holds no handle and no indirect block.
THEOREM SlotFreshness == Spec => []FreshSlot
<1>1. SlotInv => FreshSlot
  BY DEF SlotInv
<1> QED  BY <1>1, SlotsCorrect, PTL

\* A crash at any point leaves at most one transaction for journal_init to
\* replay, so the order in which it visits the slots cannot matter.
THEOREM OneActiveCorrect == Spec => []OneActive
<1>1. SlotInv => OneActive
  BY DEF SlotInv, ActiveOnlyWhenCommitted, Active, OneActive
<1> QED  BY <1>1, SlotsCorrect, PTL
=============================================================================
