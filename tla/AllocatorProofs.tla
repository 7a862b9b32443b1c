--------------------------- MODULE AllocatorProofs ---------------------------
(***************************************************************************)
(* What the allocator of p1 guarantees for every buffer size, table size,  *)
(* set of Pointers and set of requested sizes, zero included: its blocks   *)
(* stay apart and its Pointers valid, no byte is dropped, lost or out of   *)
(* reach, and those of an object are what its owner stored (ObjectStore).  *)
(***************************************************************************)
EXTENDS Allocator, AllocatorStore, FiniteSetTheorems, TLAPS

(* What `cur', `blk' and `dest' are in the middle of each kind of call.    *)
CallState ==
  /\ op = "none"   => cur = NULL /\ blk = NULL /\ dest = NULL
  /\ op = "shrink" => cur \in Handles /\ blk # NULL /\ dest = NULL
  /\ op = "defrag" => cur = NULL /\ dest = NULL
  /\ op = "free"   => /\ cur \in Handles /\ blk # NULL /\ dest = NULL
                      /\ Live(cur) /\ used[ptr[cur]] = NULL
  /\ op = "move"   => /\ cur \in Handles /\ blk # NULL /\ dest # NULL
                      /\ Live(cur) /\ used[ptr[cur]] = NULL

(* The bounds of the blocks depend on the Pointers: a Pointer that names an *)
(* empty slot would give realloc() a block that is not one.                *)
TypeInv == TypeOK /\ CallState /\ PointersValid

-----------------------------------------------------------------------------
(* Blocks *)

LEMMA MemblockType ==
  ASSUME NEW s \in Nat, NEW n \in Nat, s + n <= BufSize
  PROVE  Memblock(s, n) \in Block
  BY SizeAssumption, SMT DEF Memblock, Block

LEMMA ShiftStartType ==
  ASSUME NEW b \in Block, NEW s \in Nat, s <= b.start + b.size
  PROVE  ShiftStart(b, s) \in Block
  BY SizeAssumption, SMT DEF ShiftStart, End, Block

LEMMA ShiftEndType ==
  ASSUME NEW b \in Block, NEW e \in Int, b.start <= e + 1, e < BufSize
  PROVE  ShiftEnd(b, e) \in Block
  BY SizeAssumption, SMT DEF ShiftEnd, Block

(* What is left of a free block from which n bytes are taken is a block.   *)
LEMMA TakeFromType ==
  ASSUME TypeOK, NEW i \in Busy(free), NEW n \in Nat, n <= free[i].size,
         TakeFrom(i, n)
  PROVE  /\ free' \in [Slot -> BlockOrNull]
         /\ Memblock(free[i].start, n) \in Block
<1>1. /\ i \in Slot /\ free[i] \in Block
      /\ free[i].start \in Nat /\ free[i].size \in Nat
      /\ free[i].start + free[i].size <= BufSize
  BY SizeAssumption, SMT DEF TypeOK, Busy, BlockOrNull, Block
<1>2. ShiftStart(free[i], free[i].start + n) \in Block
  BY <1>1, ShiftStartType, SMT
<1>3. Memblock(free[i].start, n) \in Block
  <2>1. free[i].start + n <= BufSize
    BY <1>1, SizeAssumption, SMT
  <2> QED
    BY <1>1, <2>1, MemblockType
<1> QED
  BY <1>1, <1>2, <1>3 DEF TypeOK, TakeFrom, BlockOrNull

(* The copy loops write bytes that were in the buffer.                     *)
LEMMA CopiedType ==
  ASSUME mem \in [Addr -> Byte], NEW from \in Nat, NEW to \in Nat, NEW n \in Nat,
         from + n <= BufSize
  PROVE  Copied(from, to, n) \in [Addr -> Byte]
<1> DEFINE Origin(k) == IF to > from THEN k % (to - from) ELSE k
<1>1. ASSUME NEW a \in to .. to + n - 1 PROVE from + Origin(a - to) \in Addr
  <2>1. a - to \in 0 .. n - 1
    BY SMT
  <2>2. CASE to > from
    <3>1. to - from \in Nat \ {0}
      BY <2>2, SMT
    <3>2. (a - to) % (to - from) \in 0 .. a - to
      BY <2>1, <3>1, SMT
    <3> QED
      BY <2>1, <2>2, <3>2, SizeAssumption, SMT DEF Addr
  <2>3. CASE ~(to > from)
    BY <2>1, <2>3, SizeAssumption, SMT DEF Addr
  <2> QED
    BY <2>2, <2>3
<1>2. \A a \in Addr : (IF a \in to .. to + n - 1 THEN mem[from + Origin(a - to)]
                                                 ELSE mem[a]) \in Byte
  BY <1>1
<1> QED
  BY <1>2 DEF Copied

-----------------------------------------------------------------------------
(* Pointers *)

LEMMA NoSlot == -1 \notin Slot
  BY SMT DEF Slot

(* What a call is given: outside any call a live Pointer names a block.    *)
LEMMA LiveBlock ==
  ASSUME TypeInv, Idle, NEW h \in Handles, Live(h)
  PROVE  /\ ptr[h] \in Slot /\ used[ptr[h]] # NULL /\ used[ptr[h]] \in Block
         /\ used[ptr[h]].start \in Nat /\ used[ptr[h]].size \in Nat
         /\ used[ptr[h]].start + used[ptr[h]].size <= BufSize
<1>1. ptr[h] \in Slot
  BY DEF TypeInv, TypeOK, Live
<1>2. used[ptr[h]] # NULL
  BY DEF TypeInv, PointersValid, Usable, Idle
<1>3. used[ptr[h]] \in Block
  BY <1>1, <1>2 DEF TypeInv, TypeOK, BlockOrNull
<1> QED
  BY <1>1, <1>2, <1>3, SizeAssumption, SMT DEF Block

LEMMA IdleFacts ==
  ASSUME TypeInv, Idle
  PROVE  cur = NULL /\ blk = NULL /\ dest = NULL
  BY DEF TypeInv, CallState, Idle

(* An entry of a table that is not NULL is a block of the buffer.          *)
LEMMA BlockFacts ==
  ASSUME NEW b \in BlockOrNull, b # NULL
  PROVE  /\ b \in Block /\ b.start \in Nat /\ b.size \in Nat
         /\ b.start + b.size <= BufSize
  BY SizeAssumption, SMT DEF Block, BlockOrNull

LEMMA BusyUsed ==
  ASSUME TypeOK, NEW i \in Busy(used)
  PROVE  i \in Slot /\ used[i] \in BlockOrNull /\ used[i] # NULL
  BY DEF TypeOK, Busy

LEMMA BusyFree ==
  ASSUME TypeOK, NEW i \in Busy(free)
  PROVE  i \in Slot /\ free[i] \in BlockOrNull /\ free[i] # NULL
  BY DEF TypeOK, Busy

(* The Pointers are as they were when the same slots hold a block.         *)
LEMMA SamePointers ==
  ASSUME TypeInv, UNCHANGED <<ptr, stale, op, cur>>,
         \A i \in Slot : used'[i] = NULL <=> used[i] = NULL
  PROVE  PointersValid'
<1>1. \A h \in Handles : Live(h)' <=> Live(h)
  BY DEF Live
<1>2. \A h \in Handles : Usable(h)' <=> Usable(h)
  BY <1>1 DEF Usable
<1>3. \A h \in Handles : Usable(h) => ptr[h] \in Slot
  BY DEF Usable, Live, TypeInv, TypeOK
<1>4. Busy(used)' = Busy(used)
  BY DEF Busy
<1> QED
  BY <1>1, <1>2, <1>3, <1>4 DEF TypeInv, PointersValid

-----------------------------------------------------------------------------
(* alloc() *)

LEMMA AllocBlockTypeInv ==
  ASSUME TypeInv, NEW h \in Handles, NEW n \in Sizes, AllocBlock(h, n)
  PROVE  TypeInv'
<1> PICK i \in Slot, k \in Slot :
      /\ First(i, Fitting(n))
      /\ TakeFrom(i, n)
      /\ First(k, Empty(used))
      /\ used' = [used EXCEPT ![k] = Memblock(free[i].start, n)]
      /\ ptr' = [ptr EXCEPT ![h] = k]
  BY DEF AllocBlock
<1>1. /\ Idle /\ Reusable(h)
      /\ stale' = stale \ {h} /\ result' = "ok"
      /\ UNCHANGED <<mem, call>>
  BY DEF AllocBlock
<1>2. n \in Nat /\ i \in Busy(free) /\ n <= free[i].size
  BY RequestAssumption DEF First, Fitting
<1>3. used[k] = NULL
  BY DEF First, Empty
<1>4. free' \in [Slot -> BlockOrNull] /\ Memblock(free[i].start, n) \in Block
  BY <1>2, TakeFromType DEF TypeInv
<1>5. Memblock(free[i].start, n) # NULL
  BY <1>4, NullAssumption
<1>6. TypeOK'
  BY <1>1, <1>4 DEF TypeInv, TypeOK, BlockOrNull, call
<1>7. CallState'
  BY <1>1 DEF TypeInv, CallState, Idle, call
<1>8. ~Live(h) /\ \A g \in Handles : Live(g) => used[ptr[g]] # NULL /\ ptr[g] # k
  BY <1>1, <1>3 DEF Live, Reusable, TypeInv, PointersValid, Usable, Idle
<1>9. \A g \in Handles : Live(g)' <=> (g = h \/ Live(g))
  BY <1>1, NoSlot DEF Live, TypeInv, TypeOK
<1>10. \A g \in Handles : /\ Usable(g) <=> Live(g)
                          /\ Usable(g)' <=> Live(g)'
  BY <1>1 DEF Usable, Idle, call
<1>11. \A g \in Handles : ptr'[g] = IF g = h THEN k ELSE ptr[g]
  BY DEF TypeInv, TypeOK
<1>12. \A s \in Slot : used'[s] = IF s = k THEN Memblock(free[i].start, n) ELSE used[s]
  BY DEF TypeInv, TypeOK
<1>13. \A g \in Handles : Live(g) => ptr[g] \in Slot
  BY DEF Live, TypeInv, TypeOK
<1>14. PointersValid'
  <2>1. \A g \in Handles : Usable(g)' => used'[ptr'[g]] # NULL
    BY <1>5, <1>8, <1>9, <1>10, <1>11, <1>12, <1>13
  <2>2. \A f, g \in Handles : Live(f)' /\ Live(g)' /\ ptr'[f] = ptr'[g] => f = g
    BY <1>8, <1>9, <1>11 DEF TypeInv, PointersValid
  <2>3. ASSUME NEW s \in Busy(used)'
        PROVE  \E g \in Handles : Usable(g)' /\ ptr'[g] = s
    <3>1. s \in Slot /\ used'[s] # NULL
      BY DEF Busy
    <3>2. CASE s = k
      BY <3>2, <1>9, <1>10, <1>11
    <3>3. CASE s # k
      <4>1. s \in Busy(used)
        BY <3>1, <3>3, <1>12 DEF Busy
      <4>2. PICK g \in Handles : Usable(g) /\ ptr[g] = s
        BY <4>1 DEF TypeInv, PointersValid
      <4> QED
        BY <4>2, <1>8, <1>9, <1>10, <1>11
    <3> QED
      BY <3>2, <3>3
  <2> QED
    BY <2>1, <2>2, <2>3 DEF PointersValid
<1> QED
  BY <1>6, <1>7, <1>14 DEF TypeInv

LEMMA AllocTableFullTypeInv ==
  ASSUME TypeInv, NEW h \in Handles, NEW n \in Sizes, AllocTableFull(h, n)
  PROVE  TypeInv'
<1> PICK i \in Slot : First(i, Fitting(n)) /\ TakeFrom(i, n)
  BY DEF AllocTableFull
<1>1. result' = "MaxPointers" /\ UNCHANGED <<used, mem, ptr, stale, op, cur, blk, dest>>
  BY DEF AllocTableFull, call
<1>2. n \in Nat /\ i \in Busy(free) /\ n <= free[i].size
  BY RequestAssumption DEF First, Fitting
<1>3. free' \in [Slot -> BlockOrNull]
  BY <1>2, TakeFromType DEF TypeInv
<1>4. TypeOK'
  BY <1>1, <1>3 DEF TypeInv, TypeOK
<1>5. CallState' /\ PointersValid'
  BY <1>1, SamePointers DEF TypeInv, CallState, Live
<1> QED
  BY <1>4, <1>5 DEF TypeInv

-----------------------------------------------------------------------------
(* Steps that leave the tables alone *)

LEMMA TablesUnchangedTypeInv ==
  ASSUME TypeInv,
         UNCHANGED <<used, free, ptr, stale, cur, blk, dest>>,
         mem' \in [Addr -> Byte],
         result' \in {"ok", "NoMemory", "MaxPointers"},
         \/ op' = op
         \/ Idle /\ op' = "defrag"
         \/ op = "defrag" /\ blk = NULL /\ op' = "none"
  PROVE  TypeInv'
<1>1. TypeOK'
  BY DEF TypeInv, TypeOK, Ops
<1>2. CallState'
  BY DEF TypeInv, CallState, Idle, Live
<1>3. \A h \in Handles : /\ Live(h)' <=> Live(h)
                         /\ Usable(h)' <=> Usable(h)
  BY DEF Live, Usable, Idle
<1>4. PointersValid'
  BY <1>3 DEF TypeInv, PointersValid, Busy
<1> QED
  BY <1>1, <1>2, <1>4 DEF TypeInv

LEMMA WriteTypeInv ==
  ASSUME TypeInv, NEW h \in Handles, NEW k \in Addr, NEW v \in Byte, Write(h, k, v)
  PROVE  TypeInv'
<1>1. mem' \in [Addr -> Byte]
  BY DEF TypeInv, TypeOK, Write
<1>2. UNCHANGED <<used, free, ptr, stale, op, cur, blk, dest, result>>
  BY DEF Write, call
<1> QED
  BY <1>1, <1>2, TablesUnchangedTypeInv DEF TypeInv, TypeOK

-----------------------------------------------------------------------------
(* free() and realloc() *)

LEMMA FreeTypeInv ==
  ASSUME TypeInv, NEW h \in Handles, Free(h)
  PROVE  TypeInv'
<1>1. /\ Idle /\ Live(h)
      /\ used' = [used EXCEPT ![ptr[h]] = NULL]
      /\ op' = "free" /\ cur' = h /\ blk' = used[ptr[h]] /\ dest' = NULL
      /\ result' = "ok"
      /\ UNCHANGED <<free, mem, ptr, stale>>
  BY DEF Free, AddFree
<1>2. ptr[h] \in Slot /\ used[ptr[h]] # NULL /\ used[ptr[h]] \in Block
  BY <1>1, LiveBlock
<1>3. TypeOK'
  BY <1>1, <1>2 DEF TypeInv, TypeOK, BlockOrNull, Ops
<1>4. CallState'
  BY <1>1, <1>2, <1>3 DEF TypeInv, TypeOK, CallState, Live
<1>5. \A g \in Handles : /\ Live(g)' <=> Live(g)
                         /\ Usable(g) <=> Live(g)
                         /\ Usable(g)' <=> Live(g) /\ g # h
  BY <1>1 DEF Live, Usable, Idle
<1>6. \A s \in Slot : used'[s] = IF s = ptr[h] THEN NULL ELSE used[s]
  BY <1>1 DEF TypeInv, TypeOK
<1>7. \A g \in Handles : Live(g) => ptr[g] \in Slot
  BY DEF Live, TypeInv, TypeOK
<1>8. PointersValid'
  BY <1>1, <1>5, <1>6, <1>7 DEF TypeInv, PointersValid, Busy
<1> QED
  BY <1>3, <1>4, <1>8 DEF TypeInv

LEMMA ReallocShrinkTypeInv ==
  ASSUME TypeInv, NEW h \in Handles, NEW n \in Sizes, ReallocShrink(h, n)
  PROVE  TypeInv'
<1> DEFINE b     == used[ptr[h]]
           delta == b.size - n
           rest  == Memblock(End(b) - delta + 1, delta)
           kept  == ShiftEnd(b, End(b) - delta)
<1>1. /\ Idle /\ Live(h) /\ b.size > n
      /\ used' = [used EXCEPT ![ptr[h]] = kept]
      /\ op' = "shrink" /\ cur' = h /\ blk' = rest /\ dest' = NULL
      /\ result' = "ok"
      /\ UNCHANGED <<free, mem, ptr, stale>>
  BY DEF ReallocShrink, AddFree
<1>2. /\ ptr[h] \in Slot /\ b # NULL /\ b \in Block
      /\ b.start \in Nat /\ b.size \in Nat /\ b.start + b.size <= BufSize
  BY <1>1, LiveBlock
<1>3. n \in Nat
  BY RequestAssumption
<1>4. rest \in Block
  <2>1. /\ End(b) - delta + 1 \in Nat /\ delta \in Nat
        /\ (End(b) - delta + 1) + delta <= BufSize
    BY <1>1, <1>2, <1>3, SizeAssumption, SMT DEF End
  <2> QED
    BY <2>1, MemblockType
<1>5. kept \in Block
  <2>1. /\ End(b) - delta \in Int /\ b.start <= (End(b) - delta) + 1
        /\ End(b) - delta < BufSize
    BY <1>1, <1>2, <1>3, SizeAssumption, SMT DEF End
  <2> QED
    BY <1>2, <2>1, ShiftEndType
<1>6. rest # NULL /\ kept # NULL
  BY <1>4, <1>5, NullAssumption
<1> HIDE DEF rest, kept
<1>7. TypeOK'
  BY <1>1, <1>4, <1>5 DEF TypeInv, TypeOK, BlockOrNull, Ops
<1>8. CallState'
  BY <1>1, <1>6 DEF CallState
<1>9. \A g \in Handles : /\ Live(g)' <=> Live(g)
                         /\ Usable(g) <=> Live(g)
                         /\ Usable(g)' <=> Live(g)
  BY <1>1 DEF Live, Usable, Idle
<1>10. \A s \in Slot : used'[s] = NULL <=> used[s] = NULL
  BY <1>1, <1>2, <1>6 DEF TypeInv, TypeOK
<1>11. \A g \in Handles : Live(g) => ptr[g] \in Slot
  BY DEF Live, TypeInv, TypeOK
<1>12. PointersValid'
  BY <1>1, <1>9, <1>10, <1>11 DEF TypeInv, PointersValid, Busy
<1> QED
  BY <1>7, <1>8, <1>12 DEF TypeInv

LEMMA ReallocGrowTypeInv ==
  ASSUME TypeInv, NEW h \in Handles, NEW n \in Sizes, ReallocGrow(h, n)
  PROVE  TypeInv'
<1> DEFINE b     == used[ptr[h]]
           delta == n - b.size
           grown == ShiftEnd(b, End(b) + delta)
<1> PICK j \in Slot : GrowsInto(j, h, n) /\ TakeFrom(j, delta)
  BY DEF ReallocGrow
<1>1. /\ Idle /\ Live(h) /\ b.size < n
      /\ used' = [used EXCEPT ![ptr[h]] = grown]
      /\ result' = "ok"
      /\ UNCHANGED <<mem, ptr, stale, op, cur, blk, dest>>
  BY DEF ReallocGrow, call
<1>2. /\ ptr[h] \in Slot /\ b # NULL /\ b \in Block
      /\ b.start \in Nat /\ b.size \in Nat /\ b.start + b.size <= BufSize
  BY <1>1, LiveBlock
<1>3. n \in Nat
  BY RequestAssumption
<1>4. j \in Busy(free) /\ free[j].start = End(b) + 1 /\ free[j].size >= delta
  BY DEF GrowsInto, First, After
<1>5. free[j].start \in Nat /\ free[j].size \in Nat
      /\ free[j].start + free[j].size <= BufSize
  BY <1>4, BusyFree, BlockFacts DEF TypeInv
<1>6. delta \in Nat /\ delta <= free[j].size
  BY <1>1, <1>2, <1>3, <1>4, <1>5, SMT
<1>7. free' \in [Slot -> BlockOrNull]
  BY <1>4, <1>6, TakeFromType DEF TypeInv
<1>8. grown \in Block
  <2>1. /\ End(b) + delta \in Int /\ b.start <= (End(b) + delta) + 1
        /\ End(b) + delta < BufSize
    BY <1>1, <1>2, <1>3, <1>4, <1>5, SizeAssumption, SMT DEF End
  <2> QED
    BY <1>2, <2>1, ShiftEndType
<1>9. grown # NULL
  BY <1>8, NullAssumption
<1> HIDE DEF grown, delta
<1>10. TypeOK'
  BY <1>1, <1>7, <1>8 DEF TypeInv, TypeOK, BlockOrNull
<1>11. \A s \in Slot : used'[s] = NULL <=> used[s] = NULL
  BY <1>1, <1>2, <1>9 DEF TypeInv, TypeOK
<1>12. CallState'
  BY <1>1 DEF TypeInv, CallState, Idle
<1> QED
  BY <1>1, <1>10, <1>11, <1>12, SamePointers DEF TypeInv

LEMMA ReallocMoveTypeInv ==
  ASSUME TypeInv, NEW h \in Handles, NEW n \in Sizes, ReallocMove(h, n)
  PROVE  TypeInv'
<1> DEFINE b == used[ptr[h]]
<1> PICK j \in Slot :
      /\ First(j, Fitting(n))
      /\ mem' = Copied(b.start, free[j].start, b.size)
      /\ TakeFrom(j, n)
      /\ AddFree("move", h, b, Memblock(free[j].start, n))
  BY DEF ReallocMove
<1>1. /\ Idle /\ Live(h)
      /\ used' = [used EXCEPT ![ptr[h]] = NULL]
      /\ op' = "move" /\ cur' = h /\ blk' = b
      /\ dest' = Memblock(free[j].start, n)
      /\ result' = "ok"
      /\ UNCHANGED <<ptr, stale>>
  BY DEF ReallocMove, AddFree
<1>2. /\ ptr[h] \in Slot /\ b # NULL /\ b \in Block
      /\ b.start \in Nat /\ b.size \in Nat /\ b.start + b.size <= BufSize
  BY <1>1, LiveBlock
<1>3. n \in Nat /\ j \in Busy(free) /\ n <= free[j].size
  BY RequestAssumption DEF First, Fitting
<1>4. free[j].start \in Nat
  BY <1>3, BusyFree, BlockFacts DEF TypeInv
<1>5. free' \in [Slot -> BlockOrNull] /\ Memblock(free[j].start, n) \in Block
  BY <1>3, TakeFromType DEF TypeInv
<1>6. mem' \in [Addr -> Byte]
  BY <1>2, <1>4, CopiedType DEF TypeInv, TypeOK
<1>7. TypeOK'
  BY <1>1, <1>2, <1>5, <1>6 DEF TypeInv, TypeOK, BlockOrNull, Ops
<1>8. Memblock(free[j].start, n) # NULL
  BY <1>5, NullAssumption
<1>9. CallState'
  BY <1>1, <1>2, <1>8 DEF TypeInv, TypeOK, CallState, Live
<1>10. \A g \in Handles : /\ Live(g)' <=> Live(g)
                          /\ Usable(g) <=> Live(g)
                          /\ Usable(g)' <=> Live(g) /\ g # h
  BY <1>1 DEF Live, Usable, Idle
<1>11. \A s \in Slot : used'[s] = IF s = ptr[h] THEN NULL ELSE used[s]
  BY <1>1 DEF TypeInv, TypeOK
<1>12. \A g \in Handles : Live(g) => ptr[g] \in Slot
  BY DEF Live, TypeInv, TypeOK
<1>13. PointersValid'
  BY <1>1, <1>10, <1>11, <1>12 DEF TypeInv, PointersValid, Busy
<1> QED
  BY <1>7, <1>9, <1>13 DEF TypeInv

-----------------------------------------------------------------------------
(* add_block_free() *)

(* The block that absorbs a free block is a block of the buffer.          *)
LEMMA MergedBlock ==
  ASSUME TypeInv, AddFreeMerge
  PROVE  blk' \in Block /\ blk' # NULL
<1> PICK j \in Slot :
      /\ First(j, Adjacent(blk))
      /\ blk' = IF j \in Before(blk.start) THEN ShiftStart(blk, free[j].start)
                                           ELSE ShiftEnd(blk, End(free[j]))
      /\ free' = [free EXCEPT ![j] = NULL]
  BY DEF AddFreeMerge
<1>1. blk # NULL /\ UNCHANGED <<used, mem, ptr, stale, op, cur, dest, result>>
  BY DEF AddFreeMerge
<1>2. /\ blk \in Block /\ blk.start \in Nat /\ blk.size \in Nat
      /\ blk.start + blk.size <= BufSize
  BY <1>1, BlockFacts DEF TypeInv, TypeOK
<1>3. j \in Busy(free) /\ (j \in Before(blk.start) \/ j \in After(End(blk)))
  BY DEF First, Adjacent, Before, After
<1>4. /\ free[j] \in Block /\ free[j].start \in Nat /\ free[j].size \in Nat
      /\ free[j].start + free[j].size <= BufSize
  BY <1>3, BusyFree, BlockFacts DEF TypeInv
<1>5. blk' \in Block
  <2>1. CASE j \in Before(blk.start)
    <3>1. free[j].start <= blk.start + blk.size
      BY <1>2, <1>4, <2>1, SMT DEF Before, End
    <3> QED
      BY <1>2, <1>4, <2>1, <3>1, ShiftStartType
  <2>2. CASE j \notin Before(blk.start)
    <3>1. free[j].start = End(blk) + 1
      BY <1>3, <2>2 DEF After
    <3>2. /\ End(free[j]) \in Int /\ blk.start <= End(free[j]) + 1
          /\ End(free[j]) < BufSize
      BY <1>2, <1>4, <3>1, SizeAssumption, SMT DEF End
    <3> QED
      BY <1>2, <2>2, <3>2, ShiftEndType
  <2> QED
    BY <2>1, <2>2
<1> QED
  BY <1>5, NullAssumption

LEMMA AddFreeMergeTypeInv ==
  ASSUME TypeInv, AddFreeMerge
  PROVE  TypeInv'
<1>1. /\ blk # NULL /\ UNCHANGED <<used, mem, ptr, stale, op, cur, dest, result>>
      /\ \E j \in Slot : free' = [free EXCEPT ![j] = NULL]
  BY DEF AddFreeMerge
<1>2. blk' \in Block /\ blk' # NULL
  BY MergedBlock
<1>3. TypeOK'
  BY <1>1, <1>2 DEF TypeInv, TypeOK, BlockOrNull
<1>4. CallState'
  BY <1>1, <1>2 DEF TypeInv, CallState, Live
<1>5. PointersValid'
  BY <1>1, SamePointers
<1> QED
  BY <1>3, <1>4, <1>5 DEF TypeInv

LEMMA AddFreeInsertTypeInv ==
  ASSUME TypeInv, AddFreeInsert
  PROVE  TypeInv'
<1> PICK i \in Slot : First(i, Empty(free)) /\ free' = [free EXCEPT ![i] = blk]
  BY DEF AddFreeInsert
<1>1. blk # NULL /\ UNCHANGED <<mem, stale, result>>
  BY DEF AddFreeInsert
<1>2. /\ op' = IF op = "defrag" THEN "defrag" ELSE "none"
      /\ cur' = NULL /\ blk' = NULL /\ dest' = NULL
      /\ ptr' = IF op = "free" THEN [ptr EXCEPT ![cur] = -1] ELSE ptr
      /\ used' = IF op = "move" THEN [used EXCEPT ![ptr[cur]] = dest] ELSE used
  BY DEF AddFreeInsert, Return
<1>3. op \in {"free", "shrink", "move", "defrag"}
  BY <1>1 DEF TypeInv, TypeOK, CallState, Ops
<1>4. TypeOK'
  BY <1>1, <1>2 DEF TypeInv, TypeOK, BlockOrNull, Ops
<1>5. CallState'
  BY <1>2 DEF CallState
<1>6. \A g \in Handles : Live(g) => ptr[g] \in Slot
  BY DEF Live, TypeInv, TypeOK
<1>7. CASE op = "free"
  <2>1. cur \in Handles
    BY <1>7 DEF TypeInv, CallState
  <2>2. \A g \in Handles : /\ ptr'[g] = (IF g = cur THEN -1 ELSE ptr[g])
                           /\ Usable(g) <=> Live(g) /\ g # cur
                           /\ Live(g)' <=> Live(g) /\ g # cur
                           /\ Usable(g)' <=> Live(g) /\ g # cur
    BY <1>1, <1>2, <1>7, <2>1 DEF TypeInv, TypeOK, Live, Usable
  <2>3. used' = used
    BY <1>2, <1>7
  <2>4. PointersValid'
    BY <2>2, <2>3 DEF TypeInv, PointersValid, Busy
  <2> QED
    BY <1>4, <1>5, <2>4 DEF TypeInv
<1>8. CASE op = "move"
  <2>1. cur \in Handles /\ dest # NULL /\ Live(cur) /\ used[ptr[cur]] = NULL
    BY <1>8 DEF TypeInv, CallState
  <2>2. \A g \in Handles : /\ Usable(g) <=> Live(g) /\ g # cur
                           /\ Live(g)' <=> Live(g)
                           /\ Usable(g)' <=> Live(g)
    BY <1>1, <1>2, <1>8 DEF Live, Usable
  <2>3. \A s \in Slot : used'[s] = IF s = ptr[cur] THEN dest ELSE used[s]
    BY <1>2, <1>8 DEF TypeInv, TypeOK
  <2>4. ptr' = ptr
    BY <1>2, <1>8
  <2>5. PointersValid'
    BY <1>6, <2>1, <2>2, <2>3, <2>4 DEF TypeInv, PointersValid, Busy
  <2> QED
    BY <1>4, <1>5, <2>5 DEF TypeInv
<1>9. CASE op \in {"shrink", "defrag"}
  <2>1. used' = used /\ ptr' = ptr
    BY <1>2, <1>9
  <2>2. \A g \in Handles : /\ Usable(g) <=> Live(g)
                           /\ Live(g)' <=> Live(g)
                           /\ Usable(g)' <=> Live(g)
    BY <1>1, <1>2, <1>9, <2>1 DEF Live, Usable
  <2>3. PointersValid'
    BY <2>1, <2>2 DEF TypeInv, PointersValid, Busy
  <2> QED
    BY <1>4, <1>5, <2>3 DEF TypeInv
<1> QED
  BY <1>3, <1>7, <1>8, <1>9

LEMMA AddFreeTableFullTypeInv ==
  ASSUME TypeInv, AddFreeTableFull
  PROVE  TypeInv'
<1>1. /\ blk # NULL
      /\ op' = "none" /\ cur' = NULL /\ blk' = NULL /\ dest' = NULL
      /\ stale' = IF op \in {"free", "move"} THEN stale \cup {cur} ELSE stale
      /\ result' = "MaxPointers"
      /\ UNCHANGED <<used, free, mem, ptr>>
  BY DEF AddFreeTableFull
<1>2. op \in {"free", "move"} => cur \in Handles
  BY DEF TypeInv, CallState
<1>3. TypeOK'
  BY <1>1, <1>2 DEF TypeInv, TypeOK, BlockOrNull, Ops
<1>4. CallState'
  BY <1>1 DEF CallState
<1>5. \A g \in Handles : /\ Usable(g)' <=> Live(g)'
                         /\ Live(g)' <=> Usable(g)
  BY <1>1 DEF Live, Usable
<1>6. PointersValid'
  BY <1>1, <1>5 DEF TypeInv, PointersValid, Busy, Usable
<1> QED
  BY <1>3, <1>4, <1>6 DEF TypeInv

-----------------------------------------------------------------------------
(* defrag() *)

LEMMA DefragShiftTypeInv ==
  ASSUME TypeInv, DefragShift
  PROVE  TypeInv'
<1> PICK i \in Slot, j \in Slot :
      /\ Closest(i)
      /\ First(j, Before(used[i].start))
      /\ LET b == Memblock(free[j].start, used[i].size)
         IN  /\ mem' = Copied(used[i].start, b.start, b.size)
             /\ used' = [used EXCEPT ![i] = b]
             /\ free' = [free EXCEPT ![j] = NULL]
             /\ blk' = Memblock(End(b) + 1, free[j].size)
  BY DEF DefragShift
<1> DEFINE b == Memblock(free[j].start, used[i].size)
<1>1. /\ op = "defrag" /\ blk = NULL
      /\ UNCHANGED <<ptr, stale, op, cur, dest, result>>
  BY DEF DefragShift
<1>2. i \in Busy(used) /\ j \in Busy(free) /\ End(free[j]) = used[i].start - 1
  BY DEF Closest, First, Movable, Before
<1>3. /\ used[i] # NULL /\ used[i].start \in Nat /\ used[i].size \in Nat
      /\ used[i].start + used[i].size <= BufSize
  BY <1>2, BusyUsed, BlockFacts DEF TypeInv
<1>4. /\ free[j].start \in Nat /\ free[j].size \in Nat
      /\ free[j].start + free[j].size = used[i].start
  <2>1. free[j].start \in Nat /\ free[j].size \in Nat
    BY <1>2, BusyFree, BlockFacts DEF TypeInv
  <2> QED
    BY <1>2, <1>3, <2>1, SMT DEF End
<1>5. b.start = free[j].start /\ b.size = used[i].size
  BY DEF Memblock
<1>6. b \in Block
  <2>1. free[j].start + used[i].size <= BufSize
    BY <1>3, <1>4, SizeAssumption, SMT
  <2> QED
    BY <1>3, <1>4, <2>1, MemblockType
<1>7. blk' \in Block
  <2>1. /\ End(b) + 1 \in Nat
        /\ (End(b) + 1) + free[j].size <= BufSize
    BY <1>3, <1>4, <1>5, SizeAssumption, SMT DEF End
  <2> QED
    BY <1>4, <2>1, MemblockType
<1>8. mem' \in [Addr -> Byte]
  BY <1>3, <1>4, <1>5, CopiedType DEF TypeInv, TypeOK
<1>9. used' = [used EXCEPT ![i] = b] /\ free' = [free EXCEPT ![j] = NULL]
  OBVIOUS
<1> HIDE DEF b
<1>10. b # NULL
  BY <1>6, NullAssumption
<1>11. TypeOK'
  BY <1>1, <1>6, <1>7, <1>8, <1>9 DEF TypeInv, TypeOK, BlockOrNull
<1>12. CallState'
  BY <1>1 DEF TypeInv, CallState
<1>13. \A s \in Slot : used'[s] = NULL <=> used[s] = NULL
  BY <1>3, <1>9, <1>10 DEF TypeInv, TypeOK
<1>14. PointersValid'
  BY <1>1, <1>13, SamePointers
<1> QED
  BY <1>11, <1>12, <1>14 DEF TypeInv

-----------------------------------------------------------------------------
(* The type invariant *)

LEMMA InitTypeInv == Init => TypeInv
<1> SUFFICES ASSUME Init PROVE TypeInv
  OBVIOUS
<1>1. Memblock(0, BufSize) \in Block
  <2>1. 0 \in Nat /\ BufSize \in Nat /\ 0 + BufSize <= BufSize
    BY SizeAssumption, SMT
  <2> QED
    BY <2>1, MemblockType
<1>2. TypeOK
  BY <1>1 DEF Init, TypeOK, BlockOrNull, Ops
<1>3. CallState
  BY DEF Init, CallState
<1>4. PointersValid
  BY DEF Init, PointersValid, Usable, Live, Busy
<1> QED
  BY <1>2, <1>3, <1>4 DEF TypeInv

LEMMA NextTypeInv == TypeInv /\ [Next]_vars => TypeInv'
<1> SUFFICES ASSUME TypeInv, [Next]_vars PROVE TypeInv'
  OBVIOUS
<1>1. ASSUME NEW h \in Handles, NEW n \in Sizes, Alloc(h, n) PROVE TypeInv'
  <2>1. CASE AllocBlock(h, n)
    BY <2>1, AllocBlockTypeInv
  <2>2. CASE AllocTableFull(h, n)
    BY <2>2, AllocTableFullTypeInv
  <2>3. CASE AllocNoMemory(h, n)
    BY <2>3, TablesUnchangedTypeInv DEF AllocNoMemory, TypeInv, TypeOK, call
  <2> QED
    BY <1>1, <2>1, <2>2, <2>3 DEF Alloc
<1>2. ASSUME NEW h \in Handles, NEW n \in Sizes, Realloc(h, n) PROVE TypeInv'
  <2>1. CASE ReallocSame(h, n)
    BY <2>1, TablesUnchangedTypeInv DEF ReallocSame, TypeInv, TypeOK, call
  <2>2. CASE ReallocShrink(h, n)
    BY <2>2, ReallocShrinkTypeInv
  <2>3. CASE ReallocGrow(h, n)
    BY <2>3, ReallocGrowTypeInv
  <2>4. CASE ReallocMove(h, n)
    BY <2>4, ReallocMoveTypeInv
  <2>5. CASE ReallocNoMemory(h, n)
    BY <2>5, TablesUnchangedTypeInv DEF ReallocNoMemory, TypeInv, TypeOK, call
  <2> QED
    BY <1>2, <2>1, <2>2, <2>3, <2>4, <2>5 DEF Realloc
<1>3. ASSUME NEW h \in Handles, Free(h) PROVE TypeInv'
  BY <1>3, FreeTypeInv
<1>4. ASSUME NEW h \in Handles, NEW k \in Addr, NEW v \in Byte, Write(h, k, v)
      PROVE  TypeInv'
  BY <1>4, WriteTypeInv
<1>5. CASE Defrag
  BY <1>5, TablesUnchangedTypeInv DEF Defrag, TypeInv, TypeOK
<1>6. CASE AddFreeMerge
  BY <1>6, AddFreeMergeTypeInv
<1>7. CASE AddFreeInsert
  BY <1>7, AddFreeInsertTypeInv
<1>8. CASE AddFreeTableFull
  BY <1>8, AddFreeTableFullTypeInv
<1>9. CASE DefragShift
  BY <1>9, DefragShiftTypeInv
<1>10. CASE DefragDone
  BY <1>10, TablesUnchangedTypeInv DEF DefragDone, TypeInv, TypeOK
<1>11. CASE UNCHANGED vars
  BY <1>11, TablesUnchangedTypeInv DEF vars, call, TypeInv, TypeOK
<1> QED
  BY <1>1, <1>2, <1>3, <1>4, <1>5, <1>6, <1>7, <1>8, <1>9, <1>10, <1>11
     DEF Next, Client, InCall

\* Every Memblock lies in the buffer, every Pointer that an exception has not
\* left behind names a block, and no two name the same one, whatever the sizes
\* of the buffer and of the tables: no sequence of calls of allocator.h makes
\* free(), realloc() or defrag() dereference a null entry of blocks_used.
THEOREM AlwaysTyped == Spec => []TypeInv
<1> QED
  BY InitTypeInv, NextTypeInv, PTL DEF Spec

\* The type invariant that the runs check.
THEOREM TypeCorrect == Spec => []TypeOK
<1>1. TypeInv => TypeOK
  BY DEF TypeInv
<1> QED
  BY <1>1, AlwaysTyped, PTL

\* Pointers and used blocks correspond one to one between calls.
THEOREM PointersAlwaysValid == Spec => []PointersValid
<1>1. TypeInv => PointersValid
  BY DEF TypeInv
<1> QED
  BY <1>1, AlwaysTyped, PTL

-----------------------------------------------------------------------------
(* Blocks that have no byte in common *)

LEMMA ApartSymmetric ==
  ASSUME NEW a, NEW b
  PROVE  Apart(a, b) <=> Apart(b, a)
  BY DEF Apart

(* A part of a block is apart from what the block is apart from.           *)
LEMMA ApartPart ==
  ASSUME NEW a \in Block, NEW b \in Block, NEW x \in Block,
         a.start <= b.start, b.start + b.size <= a.start + a.size, Apart(a, x)
  PROVE  Apart(b, x)
  BY SizeAssumption, SMT DEF Apart, End, Block

(* So is a block inside two adjacent ones that are both apart from it.     *)
LEMMA ApartJoin ==
  ASSUME NEW a \in Block, NEW b \in Block, NEW c \in Block, NEW x \in Block,
         a.start + a.size = b.start,
         a.start <= c.start, c.start + c.size <= b.start + b.size,
         Apart(a, x), Apart(b, x)
  PROVE  Apart(c, x)
<1>1. \A y \in Block : y.start \in Nat /\ y.size \in Nat
  BY SizeAssumption, SMT DEF Block
<1>2. /\ a.start \in Nat /\ a.size \in Nat /\ b.start \in Nat /\ b.size \in Nat
      /\ c.start \in Nat /\ c.size \in Nat /\ x.start \in Nat /\ x.size \in Nat
  BY <1>1
<1> QED
  BY <1>2, SMT DEF Apart, End

(* Cutting free block i: nothing that was apart from a free block is not   *)
(* any more, and the part taken is apart from all that is left.            *)
LEMMA TakeFromApart ==
  ASSUME TypeOK, FreeApart, NEW i \in Busy(free), NEW n \in Nat, n <= free[i].size,
         TakeFrom(i, n)
  PROVE  /\ \A j \in Busy(free)' :
              /\ j \in Busy(free)
              /\ free'[j] \in Block
              /\ \A x \in Block : Apart(x, free[j]) => Apart(x, free'[j])
              /\ Apart(Memblock(free[i].start, n), free'[j])
         /\ FreeApart'
         /\ \A x \in Block : Apart(x, free[i]) => Apart(x, Memblock(free[i].start, n))
<1> DEFINE m == Memblock(free[i].start, n)
<1>1. m \in Block /\ free' \in [Slot -> BlockOrNull]
  BY TakeFromType
<1>2. /\ i \in Slot /\ free[i] # NULL /\ free[i] \in Block
      /\ free[i].start \in Nat /\ free[i].size \in Nat
      /\ free[i].start + free[i].size <= BufSize
  BY BusyFree, BlockFacts
<1>3. m.start = free[i].start /\ m.size = n
  BY DEF Memblock
<1> HIDE DEF m
<1>4. \A x \in Block : Apart(x, free[i]) => Apart(x, m)
  <2> SUFFICES ASSUME NEW x \in Block, Apart(x, free[i]) PROVE Apart(x, m)
    OBVIOUS
  <2>1. m.start + m.size <= free[i].start + free[i].size /\ free[i].start <= m.start
    BY <1>2, <1>3, SMT
  <2> QED
    BY <1>1, <1>2, <2>1, ApartPart, ApartSymmetric
<1>5. ASSUME NEW j \in Busy(free)'
      PROVE  /\ j \in Busy(free) /\ free'[j] \in Block /\ free[j] \in Block
             /\ \A x \in Block : Apart(x, free[j]) => Apart(x, free'[j])
             /\ Apart(m, free'[j])
  <2>1. j \in Slot /\ free'[j] # NULL /\ free'[j] \in Block
    BY <1>1 DEF Busy, BlockOrNull
  <2>2. CASE j = i
    <3> DEFINE r == ShiftStart(free[i], free[i].start + n)
    <3>1. free[i].size # n /\ free'[j] = r
      BY <1>2, <2>1, <2>2 DEF TakeFrom, TypeOK
    <3>2. r.start = free[i].start + n /\ r.size = free[i].size - n
      BY <1>2, SMT DEF ShiftStart, End
    <3>3. free[i].start <= r.start /\ r.start + r.size <= free[i].start + free[i].size
      BY <1>2, <3>2, SMT
    <3>4. r \in Block
      BY <2>1, <3>1
    <3> HIDE DEF r
    <3>5. ASSUME NEW x \in Block, Apart(x, free[i]) PROVE Apart(x, r)
      BY <1>2, <3>3, <3>4, <3>5, ApartPart, ApartSymmetric
    <3>6. Apart(m, r)
      BY <1>2, <1>3, <3>2, SMT DEF Apart, End
    <3>7. j \in Busy(free)
      BY <2>2
    <3> QED
      BY <1>2, <2>1, <2>2, <3>1, <3>5, <3>6, <3>7
  <2>3. CASE j # i
    <3>1. free'[j] = free[j] /\ j \in Busy(free)
      BY <2>1, <2>3 DEF TakeFrom, TypeOK, Busy
    <3>2. Apart(free[j], free[i])
      BY <2>3, <3>1 DEF FreeApart
    <3>3. Apart(m, free'[j])
      BY <1>4, <2>1, <3>1, <3>2, ApartSymmetric
    <3> QED
      BY <2>1, <3>1, <3>3
  <2> QED
    BY <2>2, <2>3
<1>6. FreeApart'
  <2> SUFFICES ASSUME NEW j \in Busy(free)', NEW k \in Busy(free)', j # k
               PROVE  Apart(free'[j], free'[k])
    BY DEF FreeApart
  <2>1. Apart(free[j], free[k])
    BY <1>5 DEF FreeApart
  <2>2. Apart(free[j], free'[k])
    BY <1>5, <2>1
  <2> QED
    BY <1>5, <2>2, ApartSymmetric
<1> QED
  BY <1>4, <1>5, <1>6 DEF m

-----------------------------------------------------------------------------
(* No byte belongs to two blocks *)

(* The inductive invariant.                                                *)
Inv == TypeInv /\ NoOverlap

LEMMA IdleNoOverlap ==
  ASSUME Inv, Idle
  PROVE  blk = NULL /\ dest = NULL
  BY IdleFacts DEF Inv

LEMMA AllocBlockNoOverlap ==
  ASSUME Inv, NEW h \in Handles, NEW n \in Sizes, AllocBlock(h, n)
  PROVE  NoOverlap'
<1> PICK i \in Slot, k \in Slot :
      /\ First(i, Fitting(n))
      /\ TakeFrom(i, n)
      /\ First(k, Empty(used))
      /\ used' = [used EXCEPT ![k] = Memblock(free[i].start, n)]
  BY DEF AllocBlock
<1> DEFINE m == Memblock(free[i].start, n)
<1>1. Idle /\ blk' = blk /\ dest' = dest
  BY DEF AllocBlock, call
<1>2. n \in Nat /\ i \in Busy(free) /\ n <= free[i].size
  BY RequestAssumption DEF First, Fitting
<1>3. m \in Block
  BY <1>2, TakeFromType DEF Inv, TypeInv
<1>4. /\ \A j \in Busy(free)' :
           /\ j \in Busy(free)
           /\ \A x \in Block : Apart(x, free[j]) => Apart(x, free'[j])
           /\ Apart(m, free'[j])
      /\ FreeApart'
      /\ \A x \in Block : Apart(x, free[i]) => Apart(x, m)
  BY <1>2, TakeFromApart DEF Inv, TypeInv, NoOverlap
<1> HIDE DEF m
<1>5. \A s \in Slot : used'[s] = IF s = k THEN m ELSE used[s]
  BY DEF Inv, TypeInv, TypeOK, m
<1>6. \A s \in Busy(used)' : s = k \/ s \in Busy(used)
  BY <1>5 DEF Busy
<1>7. \A s \in Busy(used) : used[s] \in Block /\ s \in Slot
  BY BusyUsed, BlockFacts DEF Inv, TypeInv
<1>8. k \notin Busy(used)
  BY DEF First, Empty, Busy
<1>9. UsedApart'
  <2> SUFFICES ASSUME NEW s \in Busy(used)', NEW t \in Busy(used)', s # t
               PROVE  Apart(used'[s], used'[t])
    BY DEF UsedApart
  <2>1. \A r \in Busy(used) : Apart(used[r], m)
    BY <1>2, <1>4, <1>7 DEF Inv, NoOverlap, UsedFreeApart
  <2>2. s \in Slot /\ t \in Slot
    BY DEF Busy
  <2> QED
    BY <1>5, <1>6, <2>1, <2>2, ApartSymmetric DEF Inv, NoOverlap, UsedApart
<1>10. UsedFreeApart'
  <2> SUFFICES ASSUME NEW s \in Busy(used)', NEW j \in Busy(free)'
               PROVE  Apart(used'[s], free'[j])
    BY DEF UsedFreeApart
  <2>1. s \in Slot
    BY DEF Busy
  <2> QED
    BY <1>4, <1>5, <1>6, <1>7, <2>1 DEF Inv, NoOverlap, UsedFreeApart
<1>11. blk' = NULL /\ dest' = NULL
  BY <1>1, IdleNoOverlap
<1> QED
  BY <1>4, <1>9, <1>10, <1>11 DEF NoOverlap, AwayFromTables

LEMMA AllocTableFullNoOverlap ==
  ASSUME Inv, NEW h \in Handles, NEW n \in Sizes, AllocTableFull(h, n)
  PROVE  NoOverlap'
<1> PICK i \in Slot : First(i, Fitting(n)) /\ TakeFrom(i, n)
  BY DEF AllocTableFull
<1>1. Idle /\ used' = used /\ blk' = blk /\ dest' = dest
  BY DEF AllocTableFull, call
<1>2. n \in Nat /\ i \in Busy(free) /\ n <= free[i].size
  BY RequestAssumption DEF First, Fitting
<1>3. /\ \A j \in Busy(free)' :
           /\ j \in Busy(free)
           /\ \A x \in Block : Apart(x, free[j]) => Apart(x, free'[j])
      /\ FreeApart'
  BY <1>2, TakeFromApart DEF Inv, TypeInv, NoOverlap
<1>4. \A s \in Busy(used) : used[s] \in Block
  BY BusyUsed, BlockFacts DEF Inv, TypeInv
<1>5. Busy(used)' = Busy(used)
  BY <1>1 DEF Busy
<1>6. UsedApart' /\ UsedFreeApart'
  BY <1>1, <1>3, <1>4, <1>5 DEF Inv, NoOverlap, UsedApart, UsedFreeApart
<1>7. blk' = NULL /\ dest' = NULL
  BY <1>1, IdleNoOverlap
<1> QED
  BY <1>3, <1>6, <1>7 DEF NoOverlap, AwayFromTables

LEMMA FreeNoOverlap ==
  ASSUME Inv, NEW h \in Handles, Free(h)
  PROVE  NoOverlap'
<1>1. /\ Idle /\ Live(h)
      /\ used' = [used EXCEPT ![ptr[h]] = NULL]
      /\ blk' = used[ptr[h]] /\ dest' = NULL /\ free' = free
  BY DEF Free, AddFree
<1>2. ptr[h] \in Slot /\ used[ptr[h]] # NULL
  BY <1>1, LiveBlock DEF Inv
<1>3. \A s \in Slot : used'[s] = IF s = ptr[h] THEN NULL ELSE used[s]
  BY <1>1 DEF Inv, TypeInv, TypeOK
<1>4. ptr[h] \in Busy(used) /\ Busy(used)' = Busy(used) \ {ptr[h]}
  BY <1>2, <1>3 DEF Busy
<1>5. Busy(free)' = Busy(free)
  BY <1>1 DEF Busy
<1>6. \A s \in Busy(used)' : s \in Busy(used) /\ s # ptr[h] /\ used'[s] = used[s]
  BY <1>3, <1>4 DEF Busy
<1>7. UsedApart' /\ FreeApart' /\ UsedFreeApart'
  BY <1>1, <1>5, <1>6
     DEF Inv, NoOverlap, UsedApart, FreeApart, UsedFreeApart
<1>8. AwayFromTables(blk)'
  BY <1>1, <1>4, <1>5, <1>6
     DEF Inv, NoOverlap, UsedApart, UsedFreeApart, AwayFromTables
<1> QED
  BY <1>1, <1>7, <1>8 DEF NoOverlap, AwayFromTables

LEMMA ReallocShrinkNoOverlap ==
  ASSUME Inv, NEW h \in Handles, NEW n \in Sizes, ReallocShrink(h, n)
  PROVE  NoOverlap'
<1> DEFINE b     == used[ptr[h]]
           delta == b.size - n
           rest  == Memblock(End(b) - delta + 1, delta)
           kept  == ShiftEnd(b, End(b) - delta)
<1>1. /\ Idle /\ Live(h) /\ b.size > n
      /\ used' = [used EXCEPT ![ptr[h]] = kept]
      /\ blk' = rest /\ dest' = NULL /\ free' = free
  BY DEF ReallocShrink, AddFree
<1>2. /\ ptr[h] \in Slot /\ b # NULL /\ b \in Block
      /\ b.start \in Nat /\ b.size \in Nat /\ b.start + b.size <= BufSize
  BY <1>1, LiveBlock DEF Inv
<1>3. n \in Nat
  BY RequestAssumption
<1>4. /\ kept.start = b.start /\ kept.size = n
      /\ rest.start = b.start + n /\ rest.size = b.size - n
  BY <1>2, <1>3, SMT DEF Memblock, ShiftEnd, End
<1>7. rest \in Block /\ kept \in Block
  <2>1. b.start + n \in Nat /\ b.size - n \in Nat
        /\ (b.start + n) + (b.size - n) <= BufSize
    BY <1>1, <1>2, <1>3, SizeAssumption, SMT
  <2>2. rest = Memblock(b.start + n, b.size - n)
    BY <1>2, <1>3, SMT DEF End, Memblock
  <2>3. rest \in Block
    BY <2>1, <2>2, MemblockType
  <2>4. kept = Memblock(b.start, n)
    BY <1>2, <1>3, SMT DEF End, Memblock, ShiftEnd
  <2>5. b.start + n <= BufSize
    BY <1>1, <1>2, <1>3, SizeAssumption, SMT
  <2>6. kept \in Block
    BY <1>2, <1>3, <2>4, <2>5, MemblockType
  <2> QED
    BY <2>3, <2>6
<1> HIDE DEF rest, kept, delta
<1>8. Apart(rest, kept)
  BY <1>2, <1>3, <1>4, SMT DEF Apart, End
<1>9. \A x \in Block : Apart(b, x) => Apart(kept, x) /\ Apart(rest, x)
  <2> SUFFICES ASSUME NEW x \in Block, Apart(b, x)
               PROVE  Apart(kept, x) /\ Apart(rest, x)
    OBVIOUS
  <2>1. /\ b.start <= kept.start /\ kept.start + kept.size <= b.start + b.size
        /\ b.start <= rest.start /\ rest.start + rest.size <= b.start + b.size
    BY <1>1, <1>2, <1>3, <1>4, SMT
  <2> QED
    BY <1>2, <1>7, <2>1, ApartPart
<1>10. \A s \in Slot : used'[s] = IF s = ptr[h] THEN kept ELSE used[s]
  BY <1>1 DEF Inv, TypeInv, TypeOK
<1>11. \A s \in Busy(used) : s \in Slot /\ used[s] \in Block
  BY BusyUsed, BlockFacts DEF Inv, TypeInv
<1>12. \A s \in Busy(free) : free[s] \in Block
  BY BusyFree, BlockFacts DEF Inv, TypeInv
<1>13. Busy(free)' = Busy(free) /\ ptr[h] \in Busy(used)
  BY <1>1, <1>2 DEF Busy
<1>14. \A s \in Busy(used)' : /\ s \in Slot /\ s \in Busy(used)
                              /\ used'[s] = IF s = ptr[h] THEN kept ELSE used[s]
  BY <1>2, <1>10 DEF Busy
<1>15. UsedApart'
  <2> SUFFICES ASSUME NEW s \in Busy(used)', NEW t \in Busy(used)', s # t
               PROVE  Apart(used'[s], used'[t])
    BY DEF UsedApart
  <2>1. Apart(used[s], used[t])
    BY <1>14 DEF Inv, NoOverlap, UsedApart
  <2> QED
    BY <1>9, <1>11, <1>14, <2>1, ApartSymmetric
<1>16. FreeApart'
  BY <1>1, <1>13 DEF Inv, NoOverlap, FreeApart
<1>17. UsedFreeApart'
  BY <1>1, <1>9, <1>12, <1>13, <1>14 DEF Inv, NoOverlap, UsedFreeApart
<1>18. AwayFromTables(blk)'
  <2>1. ASSUME NEW s \in Busy(used)' PROVE Apart(rest, used'[s])
    BY <1>8, <1>9, <1>11, <1>13, <1>14 DEF Inv, NoOverlap, UsedApart
  <2>2. ASSUME NEW s \in Busy(free) PROVE Apart(rest, free[s])
    BY <1>9, <1>12, <1>13 DEF Inv, NoOverlap, UsedFreeApart
  <2> QED
    BY <1>1, <1>13, <2>1, <2>2 DEF AwayFromTables
<1> QED
  BY <1>1, <1>15, <1>16, <1>17, <1>18 DEF NoOverlap, AwayFromTables

LEMMA ReallocGrowNoOverlap ==
  ASSUME Inv, NEW h \in Handles, NEW n \in Sizes, ReallocGrow(h, n)
  PROVE  NoOverlap'
<1> DEFINE b     == used[ptr[h]]
           delta == n - b.size
           grown == ShiftEnd(b, End(b) + delta)
<1> PICK j \in Slot : GrowsInto(j, h, n) /\ TakeFrom(j, delta)
  BY DEF ReallocGrow
<1> DEFINE m == Memblock(free[j].start, delta)
<1>1. /\ Idle /\ Live(h) /\ b.size < n
      /\ used' = [used EXCEPT ![ptr[h]] = grown]
      /\ blk' = blk /\ dest' = dest
  BY DEF ReallocGrow, call
<1>2. /\ ptr[h] \in Slot /\ b # NULL /\ b \in Block
      /\ b.start \in Nat /\ b.size \in Nat /\ b.start + b.size <= BufSize
  BY <1>1, LiveBlock DEF Inv
<1>3. n \in Nat
  BY RequestAssumption
<1>4. j \in Busy(free) /\ free[j].start = End(b) + 1 /\ free[j].size >= delta
  BY DEF GrowsInto, First, After
<1>5. /\ free[j].start \in Nat /\ free[j].size \in Nat /\ free[j] \in Block
      /\ free[j].start + free[j].size <= BufSize
  BY <1>4, BusyFree, BlockFacts DEF Inv, TypeInv
<1>6. delta \in Nat /\ delta <= free[j].size
  BY <1>1, <1>2, <1>3, <1>4, <1>5, SMT
<1>7. m \in Block
  BY <1>4, <1>6, TakeFromType DEF Inv, TypeInv
<1>8. /\ \A i \in Busy(free)' :
           /\ i \in Busy(free)
           /\ free'[i] \in Block
           /\ \A x \in Block : Apart(x, free[i]) => Apart(x, free'[i])
           /\ Apart(m, free'[i])
      /\ FreeApart'
      /\ \A x \in Block : Apart(x, free[j]) => Apart(x, m)
  BY <1>4, <1>6, TakeFromApart DEF Inv, TypeInv, NoOverlap
<1>9. /\ grown.start = b.start /\ grown.size = n
      /\ m.start = b.start + b.size /\ m.size = n - b.size
  BY <1>2, <1>3, <1>4, SMT DEF Memblock, ShiftEnd, End
<1>10. grown \in Block
  <2>1. b.start + n <= BufSize
    BY <1>2, <1>3, <1>4, <1>5, <1>6, SizeAssumption, SMT DEF End
  <2>2. grown = Memblock(b.start, n)
    BY <1>2, <1>3, SMT DEF ShiftEnd, End, Memblock
  <2> QED
    BY <1>2, <1>3, <2>1, <2>2, MemblockType
<1> HIDE DEF m, grown
<1>11. \A x \in Block : Apart(b, x) /\ Apart(m, x) => Apart(grown, x)
  <2> SUFFICES ASSUME NEW x \in Block, Apart(b, x), Apart(m, x)
               PROVE  Apart(grown, x)
    OBVIOUS
  <2>1. /\ b.start + b.size = m.start /\ b.start <= grown.start
        /\ grown.start + grown.size <= m.start + m.size
    BY <1>2, <1>3, <1>9, SMT
  <2> QED
    BY <1>2, <1>7, <1>10, <2>1, ApartJoin
<1>12. ptr[h] \in Busy(used)
  BY <1>2 DEF Busy
<1>13. \A s \in Busy(used)' : /\ s \in Busy(used) /\ used[s] \in Block
                              /\ used'[s] = IF s = ptr[h] THEN grown ELSE used[s]
  <2>1. \A s \in Slot : used'[s] = IF s = ptr[h] THEN grown ELSE used[s]
    BY <1>1 DEF Inv, TypeInv, TypeOK
  <2>2. \A s \in Busy(used)' : s \in Busy(used)
    BY <1>2, <2>1 DEF Busy
  <2> QED
    BY <2>1, <2>2, BusyUsed, BlockFacts DEF Inv, TypeInv
<1>14. \A s \in Busy(used) : Apart(used[s], free[j])
  BY <1>4 DEF Inv, NoOverlap, UsedFreeApart
<1>15. ASSUME NEW s \in Busy(used)', s # ptr[h]
       PROVE  Apart(grown, used'[s])
  <2>1. Apart(b, used[s])
    BY <1>12, <1>13, <1>15 DEF Inv, NoOverlap, UsedApart
  <2>2. Apart(m, used[s])
    BY <1>8, <1>13, <1>14, ApartSymmetric
  <2> QED
    BY <1>11, <1>13, <1>15, <2>1, <2>2
<1>16. UsedApart'
  <2> SUFFICES ASSUME NEW s \in Busy(used)', NEW t \in Busy(used)', s # t
               PROVE  Apart(used'[s], used'[t])
    BY DEF UsedApart
  <2>1. Apart(used[s], used[t])
    BY <1>13 DEF Inv, NoOverlap, UsedApart
  <2> QED
    BY <1>13, <1>15, <2>1, ApartSymmetric
<1>17. UsedFreeApart'
  <2> SUFFICES ASSUME NEW s \in Busy(used)', NEW i \in Busy(free)'
               PROVE  Apart(used'[s], free'[i])
    BY DEF UsedFreeApart
  <2>1. Apart(used[s], free[i])
    BY <1>8, <1>13 DEF Inv, NoOverlap, UsedFreeApart
  <2>2. Apart(used[s], free'[i])
    BY <1>8, <1>13, <2>1
  <2> QED
    BY <1>8, <1>11, <1>13, <2>2
<1>18. blk' = NULL /\ dest' = NULL
  BY <1>1, IdleNoOverlap
<1> QED
  BY <1>8, <1>16, <1>17, <1>18 DEF NoOverlap, AwayFromTables

LEMMA ReallocMoveNoOverlap ==
  ASSUME Inv, NEW h \in Handles, NEW n \in Sizes, ReallocMove(h, n)
  PROVE  NoOverlap'
<1> DEFINE b == used[ptr[h]]
<1> PICK j \in Slot :
      /\ First(j, Fitting(n))
      /\ TakeFrom(j, n)
      /\ AddFree("move", h, b, Memblock(free[j].start, n))
  BY DEF ReallocMove
<1> DEFINE m == Memblock(free[j].start, n)
<1>1. /\ Idle /\ Live(h)
      /\ used' = [used EXCEPT ![ptr[h]] = NULL]
      /\ blk' = b /\ dest' = m
  BY DEF ReallocMove, AddFree
<1>2. ptr[h] \in Slot /\ b # NULL /\ b \in Block
  BY <1>1, LiveBlock DEF Inv
<1>3. n \in Nat /\ j \in Busy(free) /\ n <= free[j].size
  BY RequestAssumption DEF First, Fitting
<1>4. m \in Block
  BY <1>3, TakeFromType DEF Inv, TypeInv
<1>5. /\ \A i \in Busy(free)' :
           /\ i \in Busy(free)
           /\ \A x \in Block : Apart(x, free[i]) => Apart(x, free'[i])
           /\ Apart(m, free'[i])
      /\ FreeApart'
      /\ \A x \in Block : Apart(x, free[j]) => Apart(x, m)
  BY <1>3, TakeFromApart DEF Inv, TypeInv, NoOverlap
<1> HIDE DEF m
<1>6. ptr[h] \in Busy(used)
  BY <1>2 DEF Busy
<1>7. \A s \in Busy(used)' : /\ s \in Busy(used) /\ s # ptr[h]
                             /\ used'[s] = used[s] /\ used[s] \in Block
  <2>1. \A s \in Slot : used'[s] = IF s = ptr[h] THEN NULL ELSE used[s]
    BY <1>1 DEF Inv, TypeInv, TypeOK
  <2>2. \A s \in Busy(used)' : s \in Busy(used) /\ s # ptr[h] /\ used'[s] = used[s]
    BY <2>1 DEF Busy
  <2> QED
    BY <2>2, BusyUsed, BlockFacts DEF Inv, TypeInv
<1>8. \A s \in Busy(used) : Apart(used[s], free[j])
  BY <1>3 DEF Inv, NoOverlap, UsedFreeApart
<1>9. UsedApart'
  BY <1>7 DEF Inv, NoOverlap, UsedApart
<1>10. UsedFreeApart'
  BY <1>5, <1>7 DEF Inv, NoOverlap, UsedFreeApart
<1>11. AwayFromTables(blk)'
  <2>1. ASSUME NEW s \in Busy(used)' PROVE Apart(b, used'[s])
    BY <1>6, <1>7 DEF Inv, NoOverlap, UsedApart
  <2>2. ASSUME NEW i \in Busy(free)' PROVE Apart(b, free'[i])
    BY <1>2, <1>5, <1>6 DEF Inv, NoOverlap, UsedFreeApart
  <2> QED
    BY <1>1, <2>1, <2>2 DEF AwayFromTables
<1>12. AwayFromTables(dest)'
  <2>1. ASSUME NEW s \in Busy(used)' PROVE Apart(m, used'[s])
    BY <1>5, <1>7, <1>8, ApartSymmetric
  <2> QED
    BY <1>1, <1>5, <2>1 DEF AwayFromTables
<1>13. Apart(blk', dest')
  BY <1>1, <1>2, <1>5, <1>6, <1>8
<1> QED
  BY <1>5, <1>9, <1>10, <1>11, <1>12, <1>13 DEF NoOverlap

LEMMA AddFreeMergeNoOverlap ==
  ASSUME Inv, AddFreeMerge
  PROVE  NoOverlap'
<1> PICK j \in Slot :
      /\ First(j, Adjacent(blk))
      /\ blk' = IF j \in Before(blk.start) THEN ShiftStart(blk, free[j].start)
                                           ELSE ShiftEnd(blk, End(free[j]))
      /\ free' = [free EXCEPT ![j] = NULL]
  BY DEF AddFreeMerge
<1>1. blk # NULL /\ used' = used /\ dest' = dest
  BY DEF AddFreeMerge
<1>2. /\ blk \in Block /\ blk.start \in Nat /\ blk.size \in Nat
      /\ blk.start + blk.size <= BufSize
  BY <1>1, BlockFacts DEF Inv, TypeInv, TypeOK
<1>3. j \in Busy(free) /\ (j \in Before(blk.start) \/ j \in After(End(blk)))
  BY DEF First, Adjacent, Before, After
<1>4. /\ free[j] \in Block /\ free[j].start \in Nat /\ free[j].size \in Nat
      /\ free[j].start + free[j].size <= BufSize
  BY <1>3, BusyFree, BlockFacts DEF Inv, TypeInv
<1>5. blk' # NULL /\ blk' \in Block
  BY MergedBlock DEF Inv
<1>6. ASSUME NEW x \in Block, Apart(blk, x), Apart(free[j], x)
      PROVE  Apart(blk', x)
  <2>1. CASE j \in Before(blk.start)
    <3>1. free[j].start + free[j].size = blk.start
      BY <1>2, <1>4, <2>1, SMT DEF Before, End
    <3>2. blk'.start = free[j].start /\ blk'.size = free[j].size + blk.size
      BY <1>2, <1>4, <2>1, <3>1, SMT DEF ShiftStart, End
    <3>3. free[j].start <= blk'.start /\ blk'.start + blk'.size <= blk.start + blk.size
      BY <1>2, <1>4, <3>1, <3>2, SMT
    <3> QED
      BY <1>2, <1>4, <1>5, <1>6, <3>1, <3>3, ApartJoin
  <2>2. CASE j \notin Before(blk.start)
    <3>1. blk.start + blk.size = free[j].start
      BY <1>2, <1>3, <1>4, <2>2, SMT DEF After, End
    <3>2. blk'.start = blk.start /\ blk'.size = blk.size + free[j].size
      BY <1>2, <1>4, <2>2, <3>1, SMT DEF ShiftEnd, End
    <3>3. blk.start <= blk'.start /\ blk'.start + blk'.size <= free[j].start + free[j].size
      BY <1>2, <1>4, <3>1, <3>2, SMT
    <3> QED
      BY <1>2, <1>4, <1>5, <1>6, <3>1, <3>3, ApartJoin
  <2> QED
    BY <2>1, <2>2
<1>7. Busy(used)' = Busy(used)
  BY <1>1 DEF Busy
<1>8. \A i \in Busy(free)' : /\ i \in Busy(free) /\ i # j
                             /\ free'[i] = free[i] /\ free[i] \in Block
  <2>1. \A i \in Slot : free'[i] = IF i = j THEN NULL ELSE free[i]
    BY DEF Inv, TypeInv, TypeOK
  <2>2. \A i \in Busy(free)' : i \in Busy(free) /\ i # j /\ free'[i] = free[i]
    BY <2>1 DEF Busy
  <2> QED
    BY <2>2, BusyFree, BlockFacts DEF Inv, TypeInv
<1>9. \A i \in Busy(used) : used[i] \in Block
  BY BusyUsed, BlockFacts DEF Inv, TypeInv
<1>10. UsedApart' /\ FreeApart' /\ UsedFreeApart'
  BY <1>1, <1>7, <1>8 DEF Inv, NoOverlap, UsedApart, FreeApart, UsedFreeApart
<1>11. AwayFromTables(blk)'
  <2>1. ASSUME NEW i \in Busy(used) PROVE Apart(blk', used[i])
    <3>1. Apart(blk, used[i]) /\ Apart(free[j], used[i])
      BY <1>1, <1>3, ApartSymmetric DEF Inv, NoOverlap, AwayFromTables, UsedFreeApart
    <3> QED
      BY <1>6, <1>9, <3>1
  <2>2. ASSUME NEW i \in Busy(free)' PROVE Apart(blk', free[i])
    <3>1. Apart(blk, free[i]) /\ Apart(free[j], free[i])
      BY <1>1, <1>3, <1>8 DEF Inv, NoOverlap, AwayFromTables, FreeApart
    <3> QED
      BY <1>6, <1>8, <3>1
  <2> QED
    BY <1>1, <1>7, <1>8, <2>1, <2>2 DEF AwayFromTables
<1>12. ASSUME dest # NULL
       PROVE  AwayFromTables(dest)' /\ Apart(blk', dest')
  <2>1. dest \in Block
    BY <1>12, BlockFacts DEF Inv, TypeInv, TypeOK
  <2>2. Apart(blk, dest) /\ Apart(free[j], dest)
    BY <1>1, <1>3, <1>12, ApartSymmetric DEF Inv, NoOverlap, AwayFromTables
  <2>3. Apart(blk', dest)
    BY <1>6, <2>1, <2>2
  <2> QED
    BY <1>1, <1>7, <1>8, <1>12, <2>3 DEF Inv, NoOverlap, AwayFromTables
<1>13. AwayFromTables(dest)' /\ (dest' # NULL => Apart(blk', dest'))
  BY <1>1, <1>12 DEF AwayFromTables
<1> QED
  BY <1>10, <1>11, <1>13 DEF NoOverlap

LEMMA AddFreeInsertNoOverlap ==
  ASSUME Inv, AddFreeInsert
  PROVE  NoOverlap'
<1> PICK i \in Slot : First(i, Empty(free)) /\ free' = [free EXCEPT ![i] = blk]
  BY DEF AddFreeInsert
<1>1. /\ blk # NULL /\ blk' = NULL /\ dest' = NULL
      /\ used' = IF op = "move" THEN [used EXCEPT ![ptr[cur]] = dest] ELSE used
  BY DEF AddFreeInsert, Return
<1>2. \A k \in Busy(free)' : IF k = i THEN free'[k] = blk
                             ELSE k \in Busy(free) /\ free'[k] = free[k]
  BY DEF Inv, TypeInv, TypeOK, Busy
<1>3. FreeApart'
  <2> SUFFICES ASSUME NEW k \in Busy(free)', NEW l \in Busy(free)', k # l
               PROVE  Apart(free'[k], free'[l])
    BY DEF FreeApart
  <2> QED
    BY <1>1, <1>2, ApartSymmetric DEF Inv, NoOverlap, FreeApart, AwayFromTables
<1>4. CASE op = "move"
  <2>1. dest # NULL /\ ptr[cur] \in Slot
    BY <1>4 DEF Inv, TypeInv, TypeOK, CallState, Live
  <2>2. \A s \in Busy(used)' : IF s = ptr[cur] THEN used'[s] = dest
                               ELSE s \in Busy(used) /\ used'[s] = used[s]
    BY <1>1, <1>4 DEF Inv, TypeInv, TypeOK, Busy
  <2>3. UsedApart'
    <3> SUFFICES ASSUME NEW s \in Busy(used)', NEW t \in Busy(used)', s # t
                 PROVE  Apart(used'[s], used'[t])
      BY DEF UsedApart
    <3> QED
      BY <2>1, <2>2, ApartSymmetric DEF Inv, NoOverlap, UsedApart, AwayFromTables
  <2>4. UsedFreeApart'
    <3> SUFFICES ASSUME NEW s \in Busy(used)', NEW k \in Busy(free)'
                 PROVE  Apart(used'[s], free'[k])
      BY DEF UsedFreeApart
    <3> QED
      <4>1. IF k = i THEN free'[k] = blk /\ blk # NULL
                     ELSE k \in Busy(free) /\ free'[k] = free[k]
        BY <1>1, <1>2
      <4>2. CASE s = ptr[cur]
        <5>1. used'[s] = dest
          BY <2>2, <4>2
        <5> QED BY <2>1, <4>1, <5>1, ApartSymmetric DEF Inv, NoOverlap, AwayFromTables
      <4>3. CASE s # ptr[cur]
        <5>1. s \in Busy(used) /\ used'[s] = used[s]
          BY <2>2, <4>3
        <5> QED
          BY <4>1, <5>1, ApartSymmetric DEF Inv, NoOverlap, UsedFreeApart, AwayFromTables
      <4> QED BY <4>2, <4>3
  <2> QED
    BY <1>1, <1>3, <2>3, <2>4 DEF NoOverlap, AwayFromTables
<1>5. CASE op # "move"
  <2>1. used' = used /\ Busy(used)' = Busy(used)
    BY <1>1, <1>5 DEF Busy
  <2>2. UsedApart'
    BY <2>1 DEF Inv, NoOverlap, UsedApart
  <2>3. UsedFreeApart'
    <3> SUFFICES ASSUME NEW s \in Busy(used), NEW k \in Busy(free)'
                 PROVE  Apart(used[s], free'[k])
      BY <2>1 DEF UsedFreeApart
    <3> QED
      BY <1>1, <1>2, ApartSymmetric DEF Inv, NoOverlap, UsedFreeApart, AwayFromTables
  <2> QED
    BY <1>1, <1>3, <2>2, <2>3 DEF NoOverlap, AwayFromTables
<1> QED
  BY <1>4, <1>5

LEMMA DefragShiftNoOverlap ==
  ASSUME Inv, DefragShift
  PROVE  NoOverlap'
<1> PICK i \in Slot, j \in Slot :
      /\ Closest(i)
      /\ First(j, Before(used[i].start))
      /\ LET b == Memblock(free[j].start, used[i].size)
         IN  /\ used' = [used EXCEPT ![i] = b]
             /\ free' = [free EXCEPT ![j] = NULL]
             /\ blk' = Memblock(End(b) + 1, free[j].size)
  BY DEF DefragShift
<1> DEFINE b    == Memblock(free[j].start, used[i].size)
           rest == Memblock(End(b) + 1, free[j].size)
<1>1. op = "defrag" /\ dest' = dest /\ dest = NULL
  BY DEF DefragShift, Inv, TypeInv, CallState
<1>2. i \in Busy(used) /\ j \in Busy(free) /\ End(free[j]) = used[i].start - 1
  BY DEF Closest, First, Movable, Before
<1>3. /\ used[i] \in Block /\ used[i].start \in Nat /\ used[i].size \in Nat
      /\ used[i].start + used[i].size <= BufSize
  BY <1>2, BusyUsed, BlockFacts DEF Inv, TypeInv
<1>4. /\ free[j] \in Block /\ free[j].start \in Nat /\ free[j].size \in Nat
      /\ free[j].start + free[j].size = used[i].start
  <2>1. free[j] \in Block /\ free[j].start \in Nat /\ free[j].size \in Nat
    BY <1>2, BusyFree, BlockFacts DEF Inv, TypeInv
  <2> QED
    BY <1>2, <1>3, <2>1, SMT DEF End
<1>5. b.start = free[j].start /\ b.size = used[i].size
  BY DEF Memblock
<1>6. rest.start = free[j].start + used[i].size /\ rest.size = free[j].size
  BY <1>3, <1>4, <1>5, SMT DEF Memblock, End
<1>7. b \in Block
  <2>1. free[j].start + used[i].size <= BufSize
    BY <1>3, <1>4, SizeAssumption, SMT
  <2> QED
    BY <1>3, <1>4, <2>1, MemblockType
<1>8. rest \in Block
  <2>1. /\ End(b) + 1 \in Nat
        /\ (End(b) + 1) + free[j].size <= BufSize
    BY <1>3, <1>4, <1>5, SizeAssumption, SMT DEF End
  <2> QED
    BY <1>4, <2>1, MemblockType
<1>9. used' = [used EXCEPT ![i] = b] /\ free' = [free EXCEPT ![j] = NULL] /\ blk' = rest
  OBVIOUS
<1> HIDE DEF b, rest
<1>10. Apart(rest, b)
  BY <1>3, <1>4, <1>5, <1>6, SMT DEF Apart, End
<1>11. ASSUME NEW x \in Block, Apart(free[j], x), Apart(used[i], x)
       PROVE  Apart(b, x) /\ Apart(rest, x)
  <2>1. /\ free[j].start <= b.start
        /\ b.start + b.size <= used[i].start + used[i].size
        /\ free[j].start <= rest.start
        /\ rest.start + rest.size <= used[i].start + used[i].size
    BY <1>3, <1>4, <1>5, <1>6, SMT
  <2> QED
    BY <1>3, <1>4, <1>7, <1>8, <1>11, <2>1, ApartJoin
<1>12. \A s \in Busy(used)' : /\ s \in Busy(used) /\ used[s] \in Block
                              /\ used'[s] = IF s = i THEN b ELSE used[s]
  <2>1. \A s \in Slot : used'[s] = IF s = i THEN b ELSE used[s]
    BY <1>9 DEF Inv, TypeInv, TypeOK
  <2>2. \A s \in Busy(used)' : s \in Busy(used)
    BY <1>2, <2>1 DEF Busy
  <2> QED
    BY <2>1, <2>2, BusyUsed, BlockFacts DEF Inv, TypeInv, Busy
<1>13. \A k \in Busy(free)' : /\ k \in Busy(free) /\ k # j
                              /\ free'[k] = free[k] /\ free[k] \in Block
  <2>1. \A k \in Slot : free'[k] = IF k = j THEN NULL ELSE free[k]
    BY <1>9 DEF Inv, TypeInv, TypeOK
  <2>2. \A k \in Busy(free)' : k \in Busy(free) /\ k # j /\ free'[k] = free[k]
    BY <2>1 DEF Busy
  <2> QED
    BY <2>2, BusyFree, BlockFacts DEF Inv, TypeInv
<1>14. ASSUME NEW s \in Busy(used)', s # i
       PROVE  Apart(b, used[s]) /\ Apart(rest, used[s])
  <2>1. Apart(used[i], used[s]) /\ Apart(free[j], used[s])
    BY <1>2, <1>12, <1>14, ApartSymmetric DEF Inv, NoOverlap, UsedApart, UsedFreeApart
  <2> QED
    BY <1>11, <1>12, <2>1
<1>15. ASSUME NEW k \in Busy(free)'
       PROVE  Apart(b, free[k]) /\ Apart(rest, free[k])
  <2>1. Apart(used[i], free[k]) /\ Apart(free[j], free[k])
    BY <1>2, <1>13 DEF Inv, NoOverlap, FreeApart, UsedFreeApart
  <2> QED
    BY <1>11, <1>13, <2>1
<1>16. UsedApart'
  <2> SUFFICES ASSUME NEW s \in Busy(used)', NEW t \in Busy(used)', s # t
               PROVE  Apart(used'[s], used'[t])
    BY DEF UsedApart
  <2>1. Apart(used[s], used[t])
    BY <1>12 DEF Inv, NoOverlap, UsedApart
  <2> QED
    BY <1>12, <1>14, <2>1, ApartSymmetric
<1>17. FreeApart'
  BY <1>13 DEF Inv, NoOverlap, FreeApart
<1>18. UsedFreeApart'
  <2> SUFFICES ASSUME NEW s \in Busy(used)', NEW k \in Busy(free)'
               PROVE  Apart(used'[s], free'[k])
    BY DEF UsedFreeApart
  <2>1. Apart(used[s], free[k])
    BY <1>12, <1>13 DEF Inv, NoOverlap, UsedFreeApart
  <2> QED
    BY <1>12, <1>13, <1>15, <2>1
<1>19. AwayFromTables(blk)'
  BY <1>9, <1>10, <1>12, <1>13, <1>14, <1>15 DEF AwayFromTables
<1> QED
  BY <1>1, <1>16, <1>17, <1>18, <1>19 DEF NoOverlap, AwayFromTables

LEMMA TablesUnchangedNoOverlap ==
  ASSUME Inv, used' = used, free' = free,
         (blk' = blk /\ dest' = dest) \/ (blk' = NULL /\ dest' = NULL)
  PROVE  NoOverlap'
<1>1. Busy(used)' = Busy(used) /\ Busy(free)' = Busy(free)
  BY DEF Busy
<1>2. UsedApart' /\ FreeApart' /\ UsedFreeApart'
  BY <1>1 DEF Inv, NoOverlap, UsedApart, FreeApart, UsedFreeApart
<1>3. AwayFromTables(blk)' /\ AwayFromTables(dest)'
  BY <1>1 DEF Inv, NoOverlap, AwayFromTables
<1> QED
  BY <1>2, <1>3 DEF Inv, NoOverlap

LEMMA InitNoOverlap == Init => NoOverlap
<1> SUFFICES ASSUME Init PROVE NoOverlap
  OBVIOUS
<1>1. Busy(used) = {} /\ Busy(free) \subseteq {0}
  BY DEF Init, Busy
<1> QED
  BY <1>1 DEF Init, NoOverlap, UsedApart, FreeApart, UsedFreeApart, AwayFromTables

LEMMA NextNoOverlap == Inv /\ [Next]_vars => NoOverlap'
<1> SUFFICES ASSUME Inv, [Next]_vars PROVE NoOverlap'
  OBVIOUS
<1>1. ASSUME NEW h \in Handles, NEW n \in Sizes, Alloc(h, n) PROVE NoOverlap'
  <2>1. CASE AllocBlock(h, n)
    BY <2>1, AllocBlockNoOverlap
  <2>2. CASE AllocTableFull(h, n)
    BY <2>2, AllocTableFullNoOverlap
  <2>3. CASE AllocNoMemory(h, n)
    BY <2>3, TablesUnchangedNoOverlap DEF AllocNoMemory, call
  <2> QED
    BY <1>1, <2>1, <2>2, <2>3 DEF Alloc
<1>2. ASSUME NEW h \in Handles, NEW n \in Sizes, Realloc(h, n) PROVE NoOverlap'
  <2>1. CASE ReallocSame(h, n)
    BY <2>1, TablesUnchangedNoOverlap DEF ReallocSame, call
  <2>2. CASE ReallocShrink(h, n)
    BY <2>2, ReallocShrinkNoOverlap
  <2>3. CASE ReallocGrow(h, n)
    BY <2>3, ReallocGrowNoOverlap
  <2>4. CASE ReallocMove(h, n)
    BY <2>4, ReallocMoveNoOverlap
  <2>5. CASE ReallocNoMemory(h, n)
    BY <2>5, TablesUnchangedNoOverlap DEF ReallocNoMemory, call
  <2> QED
    BY <1>2, <2>1, <2>2, <2>3, <2>4, <2>5 DEF Realloc
<1>3. ASSUME NEW h \in Handles, Free(h) PROVE NoOverlap'
  BY <1>3, FreeNoOverlap
<1>4. ASSUME NEW h \in Handles, NEW k \in Addr, NEW v \in Byte, Write(h, k, v)
      PROVE  NoOverlap'
  BY <1>4, TablesUnchangedNoOverlap DEF Write, call
<1>5. CASE Defrag
  BY <1>5, TablesUnchangedNoOverlap DEF Defrag
<1>6. CASE AddFreeMerge
  BY <1>6, AddFreeMergeNoOverlap
<1>7. CASE AddFreeInsert
  BY <1>7, AddFreeInsertNoOverlap
<1>8. CASE AddFreeTableFull
  BY <1>8, TablesUnchangedNoOverlap DEF AddFreeTableFull
<1>9. CASE DefragShift
  BY <1>9, DefragShiftNoOverlap
<1>10. CASE DefragDone
  BY <1>10, TablesUnchangedNoOverlap DEF DefragDone
<1>11. CASE UNCHANGED vars
  BY <1>11, TablesUnchangedNoOverlap DEF vars, call
<1> QED
  BY <1>1, <1>2, <1>3, <1>4, <1>5, <1>6, <1>7, <1>8, <1>9, <1>10, <1>11
     DEF Next, Client, InCall

\* The inductive invariant of the allocator.
THEOREM InvAlways == Spec => []Inv
<1>1. Init => Inv
  BY InitTypeInv, InitNoOverlap DEF Inv
<1>2. Inv /\ [Next]_vars => Inv'
  BY NextTypeInv, NextNoOverlap DEF Inv
<1> QED
  BY <1>1, <1>2, PTL DEF Spec

\* Two objects of the client never share a byte, and no free block is handed
\* out twice, for every buffer, table size and set of requested sizes: cutting,
\* growing, moving and merging keep all blocks apart, full tables included.
THEOREM BlocksNeverOverlap == Spec => []NoOverlap
<1>1. Inv => NoOverlap
  BY DEF Inv
<1> QED
  BY <1>1, InvAlways, PTL

-----------------------------------------------------------------------------
(* The bytes of the tables *)

TableBytes(t) == UNION {Bytes(t[i]) : i \in Slot}

\* The bytes of the other slots of table t.
Others(t, i) == UNION {Bytes(t[k]) : k \in Slot \ {i}}

LEMMA OwnedIs == OwnedBytes = TableBytes(used) \cup TableBytes(free) \cup Bytes(blk) \cup Bytes(dest)
BY DEF OwnedBytes, UsedBytes, FreeBytes, InFlightBytes, TableBytes

LEMMA OwnedIsNext ==
  OwnedBytes' = TableBytes(used') \cup TableBytes(free') \cup Bytes(blk') \cup Bytes(dest')
BY DEF OwnedBytes, UsedBytes, FreeBytes, InFlightBytes, TableBytes, Bytes, End

LEMMA TableSplit ==
  ASSUME NEW t, NEW i \in Slot
  PROVE  TableBytes(t) = Others(t, i) \cup Bytes(t[i])
BY DEF TableBytes, Others

\* One slot of a table changes.
LEMMA TableChanges ==
  ASSUME NEW t \in [Slot -> BlockOrNull], NEW i \in Slot, NEW x
  PROVE  /\ TableBytes(t) = Others(t, i) \cup Bytes(t[i])
         /\ TableBytes([t EXCEPT ![i] = x]) = Others(t, i) \cup Bytes(x)
<1> DEFINE u == [t EXCEPT ![i] = x]
<1>1. u[i] = x /\ \A k \in Slot \ {i} : u[k] = t[k]
  OBVIOUS
<1> HIDE DEF u
<1>2. Others(u, i) = Others(t, i)
  BY <1>1 DEF Others
<1>3. TableBytes(t) = Others(t, i) \cup Bytes(t[i]) /\ TableBytes(u) = Others(u, i) \cup Bytes(u[i])
  BY TableSplit
<1> QED BY <1>1, <1>2, <1>3 DEF u

LEMMA BlockIs ==
  ASSUME NEW b \in Block, NEW c, NEW s \in Nat, NEW n \in Nat, c = [start |-> s, size |-> n],
         b.start <= s, s + n <= b.start + b.size
  PROVE  c \in Block
BY SizeAssumption, SMT DEF Block

LEMMA NullBytes == Bytes(NULL) = {}
BY DEF Bytes

LEMMA BlockBytes ==
  ASSUME NEW b \in Block
  PROVE  Bytes(b) = b.start .. b.start + b.size - 1
BY NullAssumption DEF Bytes, End

\* A block that is cut in two, or two that are joined.
LEMMA JoinedBytes ==
  ASSUME NEW a \in Block, NEW b \in Block, NEW c \in Block,
         b.start = a.start + a.size, c.start = a.start, c.size = a.size + b.size
  PROVE  Bytes(c) = Bytes(a) \cup Bytes(b)
<1>1. a.start \in Nat /\ a.size \in Nat /\ b.size \in Nat
  BY SizeAssumption DEF Block
<1>2. /\ Bytes(a) = a.start .. a.start + a.size - 1
      /\ Bytes(b) = a.start + a.size .. (a.start + a.size) + b.size - 1
      /\ Bytes(c) = a.start .. a.start + (a.size + b.size) - 1
  BY BlockBytes
<1> QED BY <1>1, <1>2

\* What is taken from a free block and what is left of it.
LEMMA TakeFromBytes ==
  ASSUME TypeOK, NEW i \in Busy(free), NEW n \in Nat, n <= free[i].size, TakeFrom(i, n)
  PROVE  /\ TableBytes(free) = TableBytes(free') \cup Bytes(Memblock(free[i].start, n))
         /\ Memblock(free[i].start, n) \in Block
<1> DEFINE b == free[i]
           m == Memblock(b.start, n)
           r == ShiftStart(b, b.start + n)
           x == IF b.size = n THEN NULL ELSE r
<1>1. i \in Slot /\ b \in Block /\ b.start \in Nat /\ b.size \in Nat /\ n <= b.size
  BY BusyFree, BlockFacts
<1>2. m \in Block /\ m.start = b.start /\ m.size = n
  BY TakeFromType DEF Memblock
<1>3. free' = [free EXCEPT ![i] = x] /\ free \in [Slot -> BlockOrNull]
  BY DEF TakeFrom, TypeOK
<1>4. r \in Block /\ r.start = b.start + n /\ r.size = b.size - n
  <2>1. r \in Block
    BY <1>1, ShiftStartType, SMT
  <2> QED BY <2>1, <1>1, SMT DEF ShiftStart, End
<1>5. /\ Bytes(m) = b.start .. b.start + n - 1 /\ Bytes(b) = b.start .. b.start + b.size - 1
      /\ Bytes(r) = b.start + n .. b.start + n + (b.size - n) - 1
  BY <1>1, <1>2, <1>4, BlockBytes
<1> HIDE DEF m, r
<1>6. Bytes(b) = Bytes(x) \cup Bytes(m)
  <2>1. CASE b.size = n
    BY <1>1, <1>5, <2>1, NullBytes
  <2>2. CASE b.size # n
    <3>1. x = r /\ b.start + n + (b.size - n) - 1 = b.start + b.size - 1
      BY <2>2, <1>1
    <3> HIDE DEF x, b
    <3>2. Bytes(x) = b.start + n .. b.start + b.size - 1
      BY <1>5, <3>1
    <3>3. Bytes(b) = (b.start + n .. b.start + b.size - 1) \cup (b.start .. b.start + n - 1)
      BY <1>1, <1>5
    <3> QED BY <1>5, <3>2, <3>3
  <2> QED BY <2>1, <2>2
<1>7. TableBytes(free) = Others(free, i) \cup Bytes(b) /\ TableBytes(free') = Others(free, i) \cup Bytes(x)
  <2> HIDE DEF x
  <2>1. /\ TableBytes(free) = Others(free, i) \cup Bytes(free[i])
        /\ TableBytes([free EXCEPT ![i] = x]) = Others(free, i) \cup Bytes(x)
    BY <1>1, <1>3, TableChanges
  <2> QED BY <1>3, <2>1
<1> QED BY <1>2, <1>6, <1>7 DEF m

-----------------------------------------------------------------------------
(* No step loses a byte *)

LEMMA AllocBlockBytes ==
  ASSUME TypeInv, NEW h \in Handles, NEW n \in Sizes, AllocBlock(h, n)
  PROVE  OwnedBytes' = OwnedBytes
<1> PICK i \in Slot, k \in Slot :
      /\ First(i, Fitting(n))
      /\ TakeFrom(i, n)
      /\ First(k, Empty(used))
      /\ used' = [used EXCEPT ![k] = Memblock(free[i].start, n)]
  BY DEF AllocBlock
<1>1. blk' = blk /\ dest' = dest
  BY DEF AllocBlock, call
<1>2. n \in Nat /\ i \in Busy(free) /\ n <= free[i].size
  BY RequestAssumption DEF First, Fitting
<1>3. used[k] = NULL /\ used \in [Slot -> BlockOrNull]
  BY DEF First, Empty, TypeInv, TypeOK
<1> DEFINE m == Memblock(free[i].start, n)
<1>4. TableBytes(free) = TableBytes(free') \cup Bytes(m)
  BY <1>2, TakeFromBytes DEF TypeInv
<1>5. used' = [used EXCEPT ![k] = m]
  OBVIOUS
<1> HIDE DEF m
<1>6. /\ TableBytes(used) = Others(used, k) \cup Bytes(used[k])
      /\ TableBytes(used') = Others(used, k) \cup Bytes(m)
  <2>1. /\ TableBytes(used) = Others(used, k) \cup Bytes(used[k])
        /\ TableBytes([used EXCEPT ![k] = m]) = Others(used, k) \cup Bytes(m)
    BY <1>3, TableChanges
  <2> QED BY <1>5, <2>1
<1>7. OwnedBytes' = TableBytes(used') \cup TableBytes(free') \cup Bytes(blk') \cup Bytes(dest')
  BY OwnedIs DEF OwnedBytes, UsedBytes, FreeBytes, InFlightBytes, TableBytes
<1> QED BY <1>1, <1>3, <1>4, <1>6, <1>7, NullBytes, OwnedIs

LEMMA FreeBytesKept ==
  ASSUME TypeInv, NEW h \in Handles, Free(h)
  PROVE  OwnedBytes' = OwnedBytes
<1>1. /\ Idle /\ Live(h) /\ used' = [used EXCEPT ![ptr[h]] = NULL] /\ free' = free
      /\ blk' = used[ptr[h]] /\ dest' = NULL
  BY DEF Free, AddFree
<1>2. ptr[h] \in Slot /\ used \in [Slot -> BlockOrNull] /\ blk = NULL /\ dest = NULL
  BY <1>1, LiveBlock, IdleFacts DEF TypeInv, TypeOK
<1>3. /\ TableBytes(used) = Others(used, ptr[h]) \cup Bytes(used[ptr[h]])
      /\ TableBytes(used') = Others(used, ptr[h]) \cup Bytes(NULL)
  BY <1>1, <1>2, TableChanges
<1> QED BY <1>1, <1>2, <1>3, NullBytes, OwnedIs, OwnedIsNext
LEMMA UsedChanges ==
  ASSUME TypeOK, NEW k \in Slot, NEW x, used' = [used EXCEPT ![k] = x]
  PROVE  /\ TableBytes(used) = Others(used, k) \cup Bytes(used[k])
         /\ TableBytes(used') = Others(used, k) \cup Bytes(x)
<1>1. used \in [Slot -> BlockOrNull]
  BY DEF TypeOK
<1>2. /\ TableBytes(used) = Others(used, k) \cup Bytes(used[k])
      /\ TableBytes([used EXCEPT ![k] = x]) = Others(used, k) \cup Bytes(x)
  BY <1>1, TableChanges
<1> QED BY <1>2

LEMMA FreeChanges ==
  ASSUME TypeOK, NEW k \in Slot, NEW x, free' = [free EXCEPT ![k] = x]
  PROVE  /\ TableBytes(free) = Others(free, k) \cup Bytes(free[k])
         /\ TableBytes(free') = Others(free, k) \cup Bytes(x)
<1>1. free \in [Slot -> BlockOrNull]
  BY DEF TypeOK
<1>2. /\ TableBytes(free) = Others(free, k) \cup Bytes(free[k])
      /\ TableBytes([free EXCEPT ![k] = x]) = Others(free, k) \cup Bytes(x)
  BY <1>1, TableChanges
<1> QED BY <1>2

LEMMA ShrinkBytes ==
  ASSUME TypeInv, NEW h \in Handles, NEW n \in Sizes, ReallocShrink(h, n)
  PROVE  OwnedBytes' = OwnedBytes
<1> DEFINE k     == ptr[h]
           b     == used[k]
           delta == b.size - n
           rest  == Memblock(End(b) - delta + 1, delta)
           kept  == ShiftEnd(b, End(b) - delta)
<1>1. /\ Idle /\ Live(h) /\ b.size > n
      /\ used' = [used EXCEPT ![k] = kept] /\ blk' = rest /\ dest' = NULL /\ free' = free
  BY DEF ReallocShrink, AddFree
<1>2. /\ k \in Slot /\ b \in Block /\ b.start \in Nat /\ b.size \in Nat /\ n \in Nat
      /\ blk = NULL /\ dest = NULL
  BY <1>1, LiveBlock, IdleFacts, RequestAssumption
<1>3. /\ kept.start = b.start /\ kept.size = n
      /\ rest.start = b.start + n /\ rest.size = b.size - n
  BY <1>1, <1>2, SMT DEF ShiftEnd, Memblock, End
<1>4. kept \in Block /\ rest \in Block
  <2>1. kept = [start |-> b.start, size |-> n] /\ rest = [start |-> b.start + n, size |-> b.size - n]
    BY <1>1, <1>2, SMT DEF ShiftEnd, Memblock, End
  <2>2. b.start + n \in Nat /\ b.size - n \in Nat /\ (b.start + n) + (b.size - n) <= b.start + b.size
        /\ b.start + n <= b.start + b.size /\ b.start <= b.start + n
    BY <1>1, <1>2
  <2> HIDE DEF kept, rest, b
  <2> QED BY <1>2, <2>1, <2>2, BlockIs
<1> HIDE DEF kept, rest
<1>6. Bytes(b) = Bytes(kept) \cup Bytes(rest)
  <2>1. rest.start = kept.start + kept.size /\ b.start = kept.start /\ b.size = kept.size + rest.size
    BY <1>2, <1>3
  <2> HIDE DEF b
  <2> QED BY <1>2, <1>4, <2>1, JoinedBytes
<1>7. /\ TableBytes(used) = Others(used, k) \cup Bytes(b)
      /\ TableBytes(used') = Others(used, k) \cup Bytes(kept)
  <2> HIDE DEF k
  <2> QED BY <1>1, <1>2, UsedChanges DEF TypeInv
<1> QED BY <1>1, <1>2, <1>6, <1>7, NullBytes, OwnedIs, OwnedIsNext

LEMMA GrowBytes ==
  ASSUME TypeInv, NEW h \in Handles, NEW n \in Sizes, ReallocGrow(h, n)
  PROVE  OwnedBytes' = OwnedBytes
<1> DEFINE k     == ptr[h]
           b     == used[k]
           delta == n - b.size
           grown == ShiftEnd(b, End(b) + delta)
<1> PICK j \in Slot : GrowsInto(j, h, n) /\ TakeFrom(j, delta)
  BY DEF ReallocGrow
<1> DEFINE m == Memblock(free[j].start, delta)
<1>1. /\ Idle /\ Live(h) /\ b.size < n
      /\ used' = [used EXCEPT ![k] = grown] /\ blk' = blk /\ dest' = dest
  BY DEF ReallocGrow, call
<1>2. /\ k \in Slot /\ b \in Block /\ b.start \in Nat /\ b.size \in Nat /\ n \in Nat
      /\ b.start + b.size <= BufSize
  BY <1>1, LiveBlock, RequestAssumption
<1>3. j \in Busy(free) /\ free[j].start = End(b) + 1 /\ free[j].size >= delta
  BY DEF GrowsInto, First, After
<1>4. free[j].start = b.start + b.size /\ delta \in Nat /\ delta <= free[j].size
      /\ free[j].size \in Nat
  BY <1>1, <1>2, <1>3, BusyFree, BlockFacts DEF End, TypeInv
<1>5. /\ TableBytes(free) = TableBytes(free') \cup Bytes(m) /\ m \in Block
      /\ m.start = b.start + b.size /\ m.size = delta
  <2> HIDE DEF delta
  <2> QED BY <1>3, <1>4, TakeFromBytes DEF TypeInv, Memblock
<1>6. grown.start = b.start /\ grown.size = n
  BY <1>1, <1>2, SMT DEF ShiftEnd, End
<1>7. grown \in Block
  <2>1. m.start + m.size <= BufSize
    BY <1>5, BlockFacts DEF BlockOrNull, Block
  <2> HIDE DEF m
  <2>2. b.start + n <= BufSize
    BY <2>1, <1>2, <1>5
  <2>3. grown = [start |-> b.start, size |-> n]
    BY <1>2, SMT DEF ShiftEnd, End
  <2> QED BY <1>2, <2>2, <2>3, SizeAssumption DEF Block
<1> HIDE DEF grown, m
<1>9. Bytes(grown) = Bytes(b) \cup Bytes(m)
  <2>1. m.start = b.start + b.size /\ grown.start = b.start /\ grown.size = b.size + m.size
    BY <1>2, <1>5, <1>6
  <2> HIDE DEF b
  <2> QED BY <1>2, <1>5, <1>7, <2>1, JoinedBytes
<1>10. /\ TableBytes(used) = Others(used, k) \cup Bytes(b)
       /\ TableBytes(used') = Others(used, k) \cup Bytes(grown)
  <2> HIDE DEF k
  <2> QED BY <1>1, <1>2, UsedChanges DEF TypeInv
<1> QED BY <1>1, <1>5, <1>9, <1>10, OwnedIs, OwnedIsNext

LEMMA MoveBytes ==
  ASSUME TypeInv, NEW h \in Handles, NEW n \in Sizes, ReallocMove(h, n)
  PROVE  OwnedBytes' = OwnedBytes
<1> DEFINE k == ptr[h]
           b == used[k]
<1> PICK j \in Slot :
      /\ First(j, Fitting(n)) /\ TakeFrom(j, n)
      /\ AddFree("move", h, b, Memblock(free[j].start, n))
  BY DEF ReallocMove
<1> DEFINE m == Memblock(free[j].start, n)
<1>1. /\ Idle /\ Live(h) /\ used' = [used EXCEPT ![k] = NULL] /\ blk' = b /\ dest' = m
  BY DEF ReallocMove, AddFree
<1>2. k \in Slot /\ blk = NULL /\ dest = NULL
  BY <1>1, LiveBlock, IdleFacts
<1>3. n \in Nat /\ j \in Busy(free) /\ n <= free[j].size
  BY RequestAssumption DEF First, Fitting
<1>4. TableBytes(free) = TableBytes(free') \cup Bytes(m)
  BY <1>3, TakeFromBytes DEF TypeInv
<1> HIDE DEF m
<1>5. /\ TableBytes(used) = Others(used, k) \cup Bytes(b)
      /\ TableBytes(used') = Others(used, k) \cup Bytes(NULL)
  <2> HIDE DEF k
  <2> QED BY <1>1, <1>2, UsedChanges DEF TypeInv
<1> QED BY <1>1, <1>2, <1>4, <1>5, NullBytes, OwnedIs, OwnedIsNext

LEMMA MergeBytes ==
  ASSUME TypeInv, AddFreeMerge
  PROVE  OwnedBytes' = OwnedBytes
<1> PICK j \in Slot :
      /\ First(j, Adjacent(blk))
      /\ blk' = IF j \in Before(blk.start) THEN ShiftStart(blk, free[j].start)
                                           ELSE ShiftEnd(blk, End(free[j]))
      /\ free' = [free EXCEPT ![j] = NULL]
  BY DEF AddFreeMerge
<1> DEFINE f == free[j]
<1>1. blk # NULL /\ used' = used /\ dest' = dest
  BY DEF AddFreeMerge
<1>2. blk \in Block /\ blk.start \in Nat /\ blk.size \in Nat
  BY <1>1, BlockFacts DEF TypeInv, TypeOK
<1>3. j \in Busy(free) /\ (j \in Before(blk.start) \/ j \in After(End(blk)))
  BY DEF First, Adjacent, Before, After
<1>4. f \in Block /\ f.start \in Nat /\ f.size \in Nat
  BY <1>3, BusyFree, BlockFacts DEF TypeInv
<1>5. blk' \in Block
  BY MergedBlock
<1>7. Bytes(blk') = Bytes(blk) \cup Bytes(f)
  <2>1. CASE j \in Before(blk.start)
    <3>1. blk.start = f.start + f.size
      <4>1. f.start + f.size - 1 = blk.start - 1
        BY <2>1 DEF Before, End
      <4> HIDE DEF f
      <4> QED BY <1>2, <1>4, <4>1
    <3>2. (blk').start = f.start /\ (blk').size = f.size + blk.size
      BY <1>2, <1>4, <2>1, <3>1, SMT DEF ShiftStart, End
    <3> HIDE DEF f
    <3> QED BY <1>2, <1>4, <1>5, <3>1, <3>2, JoinedBytes
  <2>2. CASE j \notin Before(blk.start)
    <3>1. f.start = blk.start + blk.size
      BY <1>2, <1>3, <1>4, <2>2 DEF After, End
    <3>2. (blk').start = blk.start /\ (blk').size = blk.size + f.size
      BY <1>2, <1>4, <2>2, <3>1, SMT DEF ShiftEnd, End
    <3> HIDE DEF f
    <3> QED BY <1>2, <1>4, <1>5, <3>1, <3>2, JoinedBytes
  <2> QED BY <2>1, <2>2
<1>8. /\ TableBytes(free) = Others(free, j) \cup Bytes(f)
      /\ TableBytes(free') = Others(free, j) \cup Bytes(NULL)
  BY FreeChanges DEF TypeInv
<1> HIDE DEF f
<1> QED BY <1>1, <1>7, <1>8, NullBytes, OwnedIs, OwnedIsNext

LEMMA InsertBytes ==
  ASSUME TypeInv, AddFreeInsert
  PROVE  OwnedBytes' = OwnedBytes
<1> PICK i \in Slot : First(i, Empty(free)) /\ free' = [free EXCEPT ![i] = blk]
  BY DEF AddFreeInsert
<1>1. /\ blk # NULL /\ blk' = NULL /\ dest' = NULL
      /\ used' = IF op = "move" THEN [used EXCEPT ![ptr[cur]] = dest] ELSE used
  BY DEF AddFreeInsert, Return
<1>2. free[i] = NULL
  BY DEF First, Empty
<1>3. /\ TableBytes(free) = Others(free, i) \cup Bytes(free[i])
      /\ TableBytes(free') = Others(free, i) \cup Bytes(blk)
  BY FreeChanges DEF TypeInv
<1>4. TableBytes(used') = TableBytes(used) \cup Bytes(dest)
  <2>1. CASE op = "move"
    <3> DEFINE k == ptr[cur]
    <3>1. k \in Slot /\ used[k] = NULL /\ used' = [used EXCEPT ![k] = dest] /\ TypeOK
      BY <1>1, <2>1 DEF TypeInv, CallState, Live, TypeOK
    <3> HIDE DEF k
    <3>2. /\ TableBytes(used) = Others(used, k) \cup Bytes(used[k])
          /\ TableBytes(used') = Others(used, k) \cup Bytes(dest)
      BY <3>1, UsedChanges
    <3> QED BY <3>1, <3>2, NullBytes
  <2>2. CASE op # "move"
    <3>1. dest = NULL
      BY <2>2 DEF TypeInv, CallState, TypeOK, Ops
    <3> QED BY <1>1, <2>2, <3>1, NullBytes
  <2> QED BY <2>1, <2>2
<1> QED BY <1>1, <1>2, <1>3, <1>4, NullBytes, OwnedIs, OwnedIsNext

LEMMA ShiftBytes ==
  ASSUME TypeInv, DefragShift
  PROVE  OwnedBytes' = OwnedBytes
<1> PICK i \in Slot, j \in Slot :
      /\ Closest(i)
      /\ First(j, Before(used[i].start))
      /\ LET b == Memblock(free[j].start, used[i].size)
         IN  /\ used' = [used EXCEPT ![i] = b]
             /\ free' = [free EXCEPT ![j] = NULL]
             /\ blk' = Memblock(End(b) + 1, free[j].size)
  BY DEF DefragShift
<1> DEFINE u == used[i]
           f == free[j]
           b == Memblock(f.start, u.size)
           r == Memblock(End(b) + 1, f.size)
<1>1. blk = NULL /\ dest' = dest /\ used' = [used EXCEPT ![i] = b] /\ free' = [free EXCEPT ![j] = NULL] /\ blk' = r
  BY DEF DefragShift
<1>2. i \in Busy(used) /\ j \in Busy(free) /\ End(f) = u.start - 1
  BY DEF Closest, First, Movable, Before
<1>3. /\ u \in Block /\ u.start \in Nat /\ u.size \in Nat /\ u.start + u.size <= BufSize
      /\ f \in Block /\ f.start \in Nat /\ f.size \in Nat
  BY <1>2, BusyUsed, BusyFree, BlockFacts DEF TypeInv
<1>4. f.start + f.size = u.start
  BY <1>2, <1>3 DEF End
<1>5. b.start = f.start /\ b.size = u.size /\ r.start = f.start + u.size /\ r.size = f.size
  BY <1>3, SMT DEF Memblock, End
<1>6. b \in Block /\ r \in Block
  <2>1. End(b) + 1 = f.start + u.size
    BY <1>3, <1>5, SMT DEF End
  <2>2. f.start + u.size <= BufSize /\ (f.start + u.size) + f.size <= BufSize /\ f.start + u.size \in Nat
    BY <1>3, <1>4, SizeAssumption
  <2>3. b \in Block
    BY <1>3, <2>2, MemblockType
  <2>4. r = Memblock(f.start + u.size, f.size)
    BY <2>1
  <2>5. Memblock(f.start + u.size, f.size) \in Block
    BY <1>3, <2>2, MemblockType
  <2> QED BY <2>3, <2>4, <2>5
<1> HIDE DEF b, r, u, f
<1>8. Bytes(b) \cup Bytes(r) = Bytes(u) \cup Bytes(f)
  <2> DEFINE all == [start |-> f.start, size |-> f.size + u.size]
  <2>1. all \in Block /\ all.start = f.start /\ all.size = f.size + u.size
    BY <1>3, <1>4, SizeAssumption DEF Block
  <2>2. all.size = b.size + r.size /\ r.start = b.start + b.size /\ all.start = b.start
    BY <1>3, <1>5, <2>1
  <2> HIDE DEF all
  <2>3. Bytes(all) = Bytes(f) \cup Bytes(u)
    BY <1>3, <1>4, <2>1, JoinedBytes
  <2>4. Bytes(all) = Bytes(b) \cup Bytes(r)
    BY <1>6, <2>1, <2>2, JoinedBytes
  <2> QED BY <2>3, <2>4
<1>9. TableBytes(used) = Others(used, i) \cup Bytes(u) /\ TableBytes(used') = Others(used, i) \cup Bytes(b)
  BY <1>1, UsedChanges DEF TypeInv, u
<1>10. TableBytes(free) = Others(free, j) \cup Bytes(f) /\ TableBytes(free') = Others(free, j) \cup Bytes(NULL)
  BY <1>1, FreeChanges DEF TypeInv, f
<1> QED BY <1>1, <1>8, <1>9, <1>10, NullBytes, OwnedIs, OwnedIsNext

\* The exceptions lose bytes, and gain none.
LEMMA FullBytes ==
  ASSUME TypeInv,
         AddFreeTableFull \/ \E h \in Handles, n \in Sizes : AllocTableFull(h, n)
  PROVE  result' = "MaxPointers" /\ OwnedBytes' \subseteq OwnedBytes
<1>1. CASE AddFreeTableFull
  <2>1. /\ result' = "MaxPointers" /\ used' = used /\ free' = free
        /\ blk' = NULL /\ dest' = NULL
    BY <1>1 DEF AddFreeTableFull
  <2> QED BY <2>1, NullBytes, OwnedIs, OwnedIsNext
<1>2. ASSUME NEW h \in Handles, NEW n \in Sizes, AllocTableFull(h, n)
      PROVE  result' = "MaxPointers" /\ OwnedBytes' \subseteq OwnedBytes
  <2> PICK i \in Slot : First(i, Fitting(n)) /\ TakeFrom(i, n)
    BY <1>2 DEF AllocTableFull
  <2>1. result' = "MaxPointers" /\ used' = used /\ blk' = blk /\ dest' = dest
    BY <1>2 DEF AllocTableFull, call
  <2>2. n \in Nat /\ i \in Busy(free) /\ n <= free[i].size
    BY RequestAssumption DEF First, Fitting
  <2>3. TableBytes(free') \subseteq TableBytes(free)
    BY <2>2, TakeFromBytes DEF TypeInv
  <2> QED BY <2>1, <2>3, OwnedIs, OwnedIsNext
<1> QED BY <1>1, <1>2

LEMMA SameBytes ==
  ASSUME UNCHANGED <<used, free, blk, dest>>
  PROVE  OwnedBytes' = OwnedBytes
BY OwnedIs, OwnedIsNext

LEMMA StepBytes ==
  ASSUME TypeInv, [Next]_vars
  PROVE  \/ OwnedBytes' = OwnedBytes
         \/ /\ AddFreeTableFull \/ \E h \in Handles, n \in Sizes : AllocTableFull(h, n)
            /\ result' = "MaxPointers" /\ OwnedBytes' \subseteq OwnedBytes
<1> DEFINE Same == OwnedBytes' = OwnedBytes
           Full == \E h \in Handles, n \in Sizes : AllocTableFull(h, n)
<1>1. ASSUME NEW h \in Handles, NEW n \in Sizes, Alloc(h, n)
      PROVE  Same \/ AllocTableFull(h, n)
  BY <1>1, AllocBlockBytes, SameBytes DEF Alloc, AllocNoMemory, call
<1>2. ASSUME NEW h \in Handles, NEW n \in Sizes, Realloc(h, n) PROVE Same
  <2>1. CASE ReallocSame(h, n) \/ ReallocNoMemory(h, n)
    BY <2>1, SameBytes DEF ReallocSame, ReallocNoMemory, call
  <2> QED BY <1>2, <2>1, ShrinkBytes, GrowBytes, MoveBytes DEF Realloc
<1>3. ASSUME NEW h \in Handles, Free(h) PROVE Same
  BY <1>3, FreeBytesKept
<1>4. ASSUME NEW h \in Handles, NEW k \in Addr, NEW v \in Byte, Write(h, k, v) PROVE Same
  BY <1>4, SameBytes DEF Write, call
<1>5. ASSUME Defrag \/ DefragDone PROVE Same
  BY <1>5, SameBytes DEF Defrag, DefragDone
<1>6. ASSUME AddFreeMerge PROVE Same
  BY <1>6, MergeBytes
<1>7. ASSUME AddFreeInsert PROVE Same
  BY <1>7, InsertBytes
<1>8. ASSUME DefragShift PROVE Same
  BY <1>8, ShiftBytes
<1>9. ASSUME UNCHANGED vars PROVE Same
  BY <1>9, SameBytes DEF vars, call
<1>10. ASSUME AddFreeTableFull \/ \E h \in Handles, n \in Sizes : AllocTableFull(h, n)
       PROVE  result' = "MaxPointers" /\ OwnedBytes' \subseteq OwnedBytes
  BY <1>10, FullBytes
<1> HIDE DEF Same
<1>11. Same \/ AddFreeTableFull \/ Full
  BY <1>1, <1>2, <1>3, <1>4, <1>5, <1>6, <1>7, <1>8, <1>9 DEF Next, Client, InCall
<1> QED BY <1>10, <1>11 DEF Same

\* No call drops or invents a byte but the exception "Maximum pointers reached",
\* which drops some: for every buffer, every size of the tables, zero sizes included.
THEOREM NoByteDropped == Spec => BytesKept
<1>1. TypeInv /\ [Next]_vars =>
        [\/ OwnedBytes' = OwnedBytes
         \/ result' = "MaxPointers" /\ OwnedBytes' \subseteq OwnedBytes]_vars
  BY StepBytes
<1> QED BY <1>1, AlwaysTyped, PTL DEF Spec, BytesKept
-----------------------------------------------------------------------------
(* Tables that are large enough *)

\* The client asks for at least one byte, and each table has an entry for every byte
\* of the buffer, or one more than there are Pointers.
Roomy ==
  /\ 0 \notin Sizes
  /\ MaxPtrs >= BufSize \/ (IsFiniteSet(Handles) /\ MaxPtrs > Cardinality(Handles))

\* No block is empty, and no free block begins where another one ends.
Solid ==
  /\ \A i \in Busy(used) : used[i].size > 0
  /\ \A j \in Busy(free) : free[j].size > 0
  /\ blk # NULL => blk.size > 0
  /\ dest # NULL => dest.size > 0
Merged == \A i, j \in Busy(free) : free[i].start # End(free[j]) + 1

Lossless == Roomy => Solid /\ Merged /\ NoLeak

\* So many blocks, and one more, do not fit into the buffer.
LEMMA Crowded ==
  ASSUME NEW t \in [Slot -> Block], NEW b \in Block, MaxPtrs >= BufSize,
         b.size > 0, \A i \in Slot : t[i].size > 0 /\ Apart(b, t[i]),
         \A i, j \in Slot : i # j => Apart(t[i], t[j])
  PROVE  FALSE
<1> DEFINE f == [i \in 0 .. MaxPtrs |-> IF i = MaxPtrs THEN b.start ELSE t[i].start]
<1>1. /\ MaxPtrs \in Nat /\ BufSize \in Nat
      /\ \A i \in 0 .. MaxPtrs : i # MaxPtrs => i \in Slot
  BY SizeAssumption DEF Slot
<1>2. \A x \in Block : x.start \in Nat /\ x.size \in Nat /\ x.start + x.size <= BufSize
  BY SizeAssumption DEF Block
<1>3. f \in [0 .. MaxPtrs -> 0 .. BufSize - 1]
  <2>1. b.start \in 0 .. BufSize - 1
    BY <1>1, <1>2
  <2>2. ASSUME NEW i \in Slot PROVE t[i].start \in 0 .. BufSize - 1
    <3>1. t[i] \in Block /\ t[i].size > 0
      OBVIOUS
    <3> QED BY <3>1, <1>1, <1>2
  <2> QED BY <1>1, <2>1, <2>2
<1>4. \A x, y \in Block : x.size > 0 /\ y.size > 0 /\ Apart(x, y) => x.start # y.start
  BY <1>2 DEF Apart, End
<1>5. /\ IsFiniteSet(0 .. MaxPtrs) /\ Cardinality(0 .. MaxPtrs) = MaxPtrs + 1
      /\ IsFiniteSet(0 .. BufSize - 1) /\ Cardinality(0 .. BufSize - 1) <= BufSize
  <2>1. Cardinality(0 .. MaxPtrs) = (IF 0 > MaxPtrs THEN 0 ELSE MaxPtrs - 0 + 1)
        /\ IsFiniteSet(0 .. MaxPtrs)
    BY <1>1, FS_Interval
  <2> DEFINE m == BufSize - 1
  <2>2. m \in Int
    BY <1>1
  <2> HIDE DEF m
  <2>3. Cardinality(0 .. m) = (IF 0 > m THEN 0 ELSE m - 0 + 1) /\ IsFiniteSet(0 .. m)
    BY <2>2, FS_Interval
  <2>4. Cardinality(0 .. m) <= BufSize
    BY <2>3, <1>1 DEF m
  <2> QED BY <2>1, <2>3, <2>4, <1>1 DEF m
<1> DEFINE S == 0 .. MaxPtrs
           T == 0 .. BufSize - 1
<1>6. Cardinality(T) < Cardinality(S)
  <2>1. Cardinality(T) \in Nat
    BY <1>5, FS_CardinalityType
  <2> QED BY <2>1, <1>1, <1>5
<1> HIDE DEF f
<1>7. PICK x, y \in 0 .. MaxPtrs : x # y /\ f[x] = f[y]
  <2>1. IsFiniteSet(S) /\ IsFiniteSet(T) /\ f \in [S -> T]
    BY <1>3, <1>5
  <2> HIDE DEF S, T
  <2>2. \E x, y \in S : x # y /\ f[x] = f[y]
    BY <1>6, <2>1, FS_PigeonHole
  <2> QED BY <2>2 DEF S
<1>8. CASE x = MaxPtrs
  <2>1. y \in Slot /\ f[x] = b.start /\ f[y] = t[y].start
    BY <1>1, <1>7, <1>8 DEF f
  <2> QED BY <1>4, <1>7, <2>1
<1>9. CASE y = MaxPtrs
  <2>1. x \in Slot /\ f[y] = b.start /\ f[x] = t[x].start
    BY <1>1, <1>7, <1>9 DEF f
  <2> QED BY <1>4, <1>7, <2>1
<1>10. CASE x # MaxPtrs /\ y # MaxPtrs
  <2>1. x \in Slot /\ y \in Slot /\ f[x] = t[x].start /\ f[y] = t[y].start
    BY <1>1, <1>7, <1>10 DEF f
  <2> QED BY <1>4, <1>7, <2>1
<1> QED BY <1>8, <1>9, <1>10

\* Behind a free block, or the one to be made free, lies an object or nothing.
LEMMA Follower ==
  ASSUME Inv, Solid, Merged, NoLeak, blk # NULL, Adjacent(blk) = {}, NEW b,
         b = blk \/ \E j \in Busy(free) : b = free[j]
  PROVE  /\ b \in Block /\ b.start \in Nat /\ b.size \in Nat /\ b.size > 0
         /\ \/ End(b) + 1 = BufSize
            \/ \E h \in Handles : BlockOf(h) # NULL /\ BlockOf(h).start = End(b) + 1
<1>1. b \in BlockOrNull /\ b # NULL /\ b.size > 0
  BY BusyFree DEF Inv, TypeInv, TypeOK, Solid, Busy
<1>2. b \in Block /\ b.start \in Nat /\ b.size \in Nat /\ b.start + b.size <= BufSize
  BY <1>1, BlockFacts
<1> DEFINE x == End(b) + 1
<1>3. x = b.start + b.size
  BY <1>2 DEF End
<1> SUFFICES ASSUME x # BufSize
             PROVE  \E h \in Handles : BlockOf(h) # NULL /\ BlockOf(h).start = x
  BY <1>1, <1>2
<1> HIDE DEF x
<1>4. x \in Addr
  BY <1>1, <1>2, <1>3, SizeAssumption DEF Addr
<1>5. ASSUME NEW c \in BlockOrNull, x \in Bytes(c), Apart(c, b)
      PROVE  c # NULL /\ c.start = x /\ c.size > 0
  <2>1. c # NULL
    BY <1>5, NullBytes
  <2>2. c.start \in Nat /\ c.size \in Nat /\ c \in Block
    BY <2>1, BlockFacts
  <2>3. x \in c.start .. c.start + c.size - 1
    BY <1>5, <2>2, BlockBytes
  <2> QED BY <1>1, <1>2, <1>3, <1>5, <2>1, <2>2, <2>3 DEF Apart, End
<1>6. \/ x \in Bytes(blk) \/ x \in Bytes(dest)
      \/ \E i \in Slot : x \in Bytes(used[i])
      \/ \E i \in Slot : x \in Bytes(free[i])
  BY <1>4 DEF NoLeak, OwnedBytes, UsedBytes, FreeBytes, InFlightBytes
<1>7. /\ \A i \in Slot : used[i] \in BlockOrNull /\ free[i] \in BlockOrNull
      /\ blk \in BlockOrNull /\ dest \in BlockOrNull
  BY DEF Inv, TypeInv, TypeOK
<1>8. x \notin Bytes(b)
  <2>1. Bytes(b) = b.start .. b.start + b.size - 1
    BY <1>2, BlockBytes
  <2> QED BY <1>2, <1>3, <2>1
<1>9. CASE x \in Bytes(blk)
  <2>1. PICK j \in Busy(free) : b = free[j]
    BY <1>8, <1>9
  <2>2. Apart(blk, b)
    BY <2>1 DEF Inv, NoOverlap, AwayFromTables
  <2>3. blk.start = x
    BY <1>5, <1>7, <1>9, <2>2
  <2>4. End(free[j]) = blk.start - 1
    BY <1>2, <1>3, <2>1, <2>3 DEF x, End
  <2>5. j \in Before(blk.start)
    BY <2>4 DEF Before
  <2> QED BY <2>5 DEF Adjacent
<1>10. CASE x \in Bytes(dest)
  <2>1. dest # NULL
    BY <1>10, NullBytes
  <2>2. op = "move" /\ cur \in Handles /\ Live(cur)
    BY <2>1 DEF Inv, TypeInv, TypeOK, Ops, CallState
  <2>3. BlockOf(cur) = dest
    BY <2>2 DEF BlockOf
  <2>4. Apart(dest, b)
    BY <2>1, ApartSymmetric DEF Inv, NoOverlap, AwayFromTables
  <2>5. dest.start = x
    BY <1>5, <1>7, <1>10, <2>4
  <2> QED BY <2>1, <2>2, <2>3, <2>5
<1>11. ASSUME NEW i \in Slot, x \in Bytes(used[i])
       PROVE  \E h \in Handles : BlockOf(h) # NULL /\ BlockOf(h).start = x
  <2>1. i \in Busy(used)
    BY <1>11, NullBytes DEF Busy
  <2>2. Apart(used[i], b)
    BY <2>1, ApartSymmetric DEF Inv, NoOverlap, AwayFromTables, UsedFreeApart
  <2>3. used[i] # NULL /\ used[i].start = x
    BY <1>5, <1>7, <1>11, <2>2
  <2>4. PICK h \in Handles : Usable(h) /\ ptr[h] = i
    BY <2>1 DEF Inv, TypeInv, PointersValid
  <2>5. BlockOf(h) = used[i]
    BY <2>4 DEF Usable, BlockOf
  <2> QED BY <2>3, <2>5
<1>12. ASSUME NEW i \in Slot, x \in Bytes(free[i]) PROVE FALSE
  <2>1. i \in Busy(free)
    BY <1>12, NullBytes DEF Busy
  <2>2. CASE b = blk
    <3>1. Apart(free[i], b)
      BY <2>1, <2>2, ApartSymmetric DEF Inv, NoOverlap, AwayFromTables
    <3>2. free[i].start = End(blk) + 1
      BY <1>5, <1>7, <1>12, <2>2, <3>1 DEF x
    <3>3. i \in After(End(blk))
      BY <2>1, <3>2 DEF After
    <3> QED BY <3>3 DEF Adjacent
  <2>3. ASSUME NEW j \in Busy(free), b = free[j] PROVE FALSE
    <3>1. i # j
      BY <1>8, <1>12, <2>3
    <3>2. Apart(free[i], b)
      BY <2>1, <2>3, <3>1 DEF Inv, NoOverlap, FreeApart
    <3>3. free[i].start = End(free[j]) + 1
      BY <1>5, <1>7, <1>12, <2>3, <3>2 DEF x
    <3> QED BY <2>1, <2>3, <3>3 DEF Merged
  <2> QED BY <2>2, <2>3
<1> QED BY <1>6, <1>9, <1>10, <1>11, <1>12

\* So a free table with an entry more than there are Pointers is never full.
LEMMA FreeNeverFull ==
  ASSUME Inv, Solid, Merged, NoLeak, IsFiniteSet(Handles), MaxPtrs > Cardinality(Handles),
         AddFreeTableFull
  PROVE  FALSE
<1>1. blk # NULL /\ Empty(free) = {} /\ Adjacent(blk) = {}
  BY DEF AddFreeTableFull
<1>2. \A i \in Slot : i \in Busy(free)
  BY <1>1 DEF Empty, Busy
<1> DEFINE S == 0 .. MaxPtrs
           gap == [i \in S |-> IF i = MaxPtrs THEN blk ELSE free[i]]
           Behind(b, h) == BlockOf(h) # NULL /\ BlockOf(h).start = End(b) + 1
           f == [i \in S |-> IF End(gap[i]) + 1 = BufSize THEN NULL
                             ELSE CHOOSE h \in Handles : Behind(gap[i], h)]
<1>3. MaxPtrs \in Nat /\ \A i \in S : i = MaxPtrs \/ i \in Slot
  BY SizeAssumption DEF Slot
<1>4. \A i \in S : gap[i] = blk \/ \E j \in Busy(free) : gap[i] = free[j]
  BY <1>2, <1>3
<1>5. \A i, j \in S : i # j => Apart(gap[i], gap[j])
  BY <1>1, <1>2, <1>3, ApartSymmetric DEF Inv, NoOverlap, AwayFromTables, FreeApart
<1> HIDE DEF gap
<1>6. \A i \in S : /\ gap[i].start \in Nat /\ gap[i].size \in Nat /\ gap[i].size > 0
                   /\ \/ End(gap[i]) + 1 = BufSize
                      \/ \E h \in Handles : Behind(gap[i], h)
  BY <1>1, <1>4, Follower
<1>7. \A i \in S : /\ f[i] \in Handles \cup {NULL}
                   /\ f[i] = NULL <=> End(gap[i]) + 1 = BufSize
                   /\ f[i] # NULL => Behind(gap[i], f[i])
  <2> HIDE DEF Behind
  <2> TAKE i \in S
  <2>1. CASE End(gap[i]) + 1 = BufSize
    BY <2>1
  <2>2. CASE End(gap[i]) + 1 # BufSize
    <3>1. \E h \in Handles : Behind(gap[i], h)
      BY <1>6, <2>2
    <3>2. f[i] = CHOOSE h \in Handles : Behind(gap[i], h)
      BY <2>2
    <3>3. f[i] \in Handles /\ Behind(gap[i], f[i])
      BY <3>1, <3>2
    <3> QED BY <2>2, <3>3, NullAssumption
  <2> QED BY <2>1, <2>2
<1>8. f \in [S -> Handles \cup {NULL}]
  BY <1>7
<1> HIDE DEF f
<1>9. /\ IsFiniteSet(S) /\ Cardinality(S) = MaxPtrs + 1
      /\ IsFiniteSet(Handles \cup {NULL})
      /\ Cardinality(Handles \cup {NULL}) = Cardinality(Handles) + 1
      /\ Cardinality(Handles) \in Nat
  <2>1. Cardinality(S) = (IF 0 > MaxPtrs THEN 0 ELSE MaxPtrs - 0 + 1) /\ IsFiniteSet(S)
    BY <1>3, FS_Interval
  <2>2. /\ IsFiniteSet(Handles \cup {NULL})
        /\ Cardinality(Handles \cup {NULL}) = Cardinality(Handles) + 1
    BY FS_AddElement, NullAssumption
  <2>3. Cardinality(Handles) \in Nat
    BY FS_CardinalityType
  <2> QED BY <1>3, <2>1, <2>2, <2>3
<1>10. Cardinality(Handles \cup {NULL}) < Cardinality(S)
  BY <1>3, <1>9
<1> DEFINE T == Handles \cup {NULL}
<1> HIDE DEF T
<1>11. IsFiniteSet(T) /\ Cardinality(T) < Cardinality(S) /\ f \in [S -> T] /\ IsFiniteSet(S)
  BY <1>8, <1>9, <1>10 DEF T
<1> HIDE DEF S
<1>12. PICK i \in S, j \in S : i # j /\ f[i] = f[j]
  BY <1>11, FS_PigeonHole
<1>13. End(gap[i]) = End(gap[j])
  <2>1. End(gap[i]) \in Int /\ End(gap[j]) \in Int
    BY <1>6 DEF End
  <2>2. CASE f[i] = NULL
    <3>1. End(gap[i]) + 1 = BufSize /\ End(gap[j]) + 1 = BufSize
      BY <1>7, <1>12, <2>2
    <3> QED BY <2>1, <3>1
  <2>3. CASE f[i] # NULL
    <3>1. End(gap[i]) + 1 = End(gap[j]) + 1
      BY <1>7, <1>12, <2>3
    <3> QED BY <2>1, <3>1
  <2> QED BY <2>2, <2>3
<1> QED BY <1>5, <1>6, <1>12, <1>13 DEF Apart, End

LEMMA UsedNeverFull ==
  ASSUME Inv, IsFiniteSet(Handles), MaxPtrs > Cardinality(Handles), Empty(used) = {}
  PROVE  FALSE
<1>1. \A i \in Slot : i \in Busy(used)
  BY DEF Empty, Busy
<1> DEFINE f == [i \in Slot |-> CHOOSE h \in Handles : Usable(h) /\ ptr[h] = i]
<1>2. \A i \in Slot : f[i] \in Handles /\ ptr[f[i]] = i
  BY <1>1 DEF Inv, TypeInv, PointersValid
<1>3. f \in [Slot -> Handles]
  BY <1>2
<1> HIDE DEF f
<1>4. IsFiniteSet(Slot) /\ Cardinality(Slot) = MaxPtrs
  <2> DEFINE m == MaxPtrs - 1
  <2>1. m \in Int /\ 0 <= m
    BY SizeAssumption
  <2> HIDE DEF m
  <2>2. Cardinality(0 .. m) = (IF 0 > m THEN 0 ELSE m - 0 + 1) /\ IsFiniteSet(0 .. m)
    BY <2>1, FS_Interval
  <2> QED BY <2>1, <2>2, SizeAssumption DEF m, Slot
<1>5. PICK i \in Slot, j \in Slot : i # j /\ f[i] = f[j]
  BY <1>3, <1>4, FS_PigeonHole
<1> QED BY <1>2, <1>5

\* In tables that are large enough there is a slot left.
LEMMA NeverFull ==
  ASSUME Inv, Lossless, Roomy
  PROVE  ~ AddFreeTableFull /\ \A h \in Handles, n \in Sizes : ~ AllocTableFull(h, n)
<1>1. ~ AddFreeTableFull
  <2> SUFFICES ASSUME AddFreeTableFull PROVE FALSE
    OBVIOUS
  <2>0. MaxPtrs >= BufSize
    BY FreeNeverFull DEF Roomy, Lossless
  <2>1. blk # NULL /\ Empty(free) = {}
    BY DEF AddFreeTableFull
  <2>2. \A i \in Slot : i \in Busy(free)
    BY <2>1 DEF Empty, Busy
  <2>3. free \in [Slot -> BlockOrNull] /\ blk \in Block
    BY <2>1 DEF Inv, TypeInv, TypeOK, BlockOrNull
  <2>4. free \in [Slot -> Block]
    BY <2>2, <2>3 DEF BlockOrNull, Busy
  <2>5. /\ blk.size > 0 /\ \A i \in Slot : free[i].size > 0 /\ Apart(blk, free[i])
        /\ \A i, j \in Slot : i # j => Apart(free[i], free[j])
    BY <2>1, <2>2 DEF Lossless, Solid, Inv, NoOverlap, AwayFromTables, FreeApart
  <2> QED BY <2>0, <2>3, <2>4, <2>5, Crowded
<1>2. ASSUME NEW h \in Handles, NEW n \in Sizes, AllocTableFull(h, n) PROVE FALSE
  <2> PICK i \in Slot : First(i, Fitting(n))
    BY <1>2 DEF AllocTableFull
  <2>1. Empty(used) = {} /\ i \in Busy(free)
    BY <1>2 DEF AllocTableFull, First, Fitting
  <2>0. MaxPtrs >= BufSize
    BY <2>1, UsedNeverFull DEF Roomy
  <2>2. \A k \in Slot : k \in Busy(used)
    BY <2>1 DEF Empty, Busy
  <2>3. used \in [Slot -> BlockOrNull]
    BY DEF Inv, TypeInv, TypeOK
  <2>4. used \in [Slot -> Block]
    BY <2>2, <2>3 DEF BlockOrNull, Busy
  <2>5. free[i] \in Block /\ free[i].size > 0
    BY <2>1, BusyFree, BlockFacts DEF Inv, TypeInv, Lossless, Solid
  <2>6. \A k \in Slot : used[k].size > 0 /\ Apart(free[i], used[k])
    BY <2>1, <2>2, ApartSymmetric DEF Lossless, Solid, Inv, NoOverlap, UsedFreeApart
  <2>7. \A k, l \in Slot : k # l => Apart(used[k], used[l])
    BY <2>2 DEF Inv, NoOverlap, UsedApart
  <2> QED BY <2>0, <2>4, <2>5, <2>6, <2>7, Crowded
<1> QED BY <1>1, <1>2

\* What is left of the free blocks when n bytes of one are taken.
LEMMA TakeFromSolid ==
  ASSUME Inv, Solid, Merged, NEW i \in Busy(free), NEW n \in Nat, 0 < n, n <= free[i].size,
         TakeFrom(i, n)
  PROVE  Merged' /\ \A j \in Busy(free)' : free'[j].size > 0
<1> DEFINE r == ShiftStart(free[i], free[i].start + n)
<1>1. \A j \in Busy(free) : /\ free[j] \in Block /\ free[j].start \in Nat /\ free[j].size \in Nat
                            /\ free[j].size > 0
  BY BusyFree, BlockFacts DEF Inv, TypeInv, Solid
<1>2. \A j \in Slot : free'[j] = IF j = i THEN (IF free[i].size = n THEN NULL ELSE r) ELSE free[j]
  BY DEF Inv, TypeInv, TypeOK, TakeFrom, Busy
<1>3. r.start = free[i].start + n /\ r.size = free[i].size - n /\ End(r) = End(free[i])
  BY <1>1, SMT DEF ShiftStart, End
<1> HIDE DEF r
<1>4. ASSUME NEW j \in Busy(free)'
      PROVE  /\ j \in Busy(free) /\ free'[j].size > 0 /\ End(free'[j]) = End(free[j])
             /\ free'[j].start = IF j = i THEN free[i].start + n ELSE free[j].start
             /\ j = i => n < free[i].size
  <2>1. j \in Slot /\ free'[j] # NULL
    BY DEF Busy
  <2>2. CASE j = i
    <3>1. free[i].size # n /\ free'[j] = r
      BY <1>2, <2>1, <2>2
    <3> QED BY <1>1, <1>3, <2>2, <3>1
  <2>3. CASE j # i
    <3>1. free'[j] = free[j] /\ j \in Busy(free)
      BY <1>2, <2>1, <2>3 DEF Busy
    <3> QED BY <1>1, <2>3, <3>1
  <2> QED BY <2>2, <2>3
<1>5. ASSUME NEW j \in Busy(free)', NEW k \in Busy(free)'
      PROVE  free'[j].start # End(free'[k]) + 1
  <2>1. j \in Busy(free) /\ k \in Busy(free) /\ End(free'[k]) = End(free[k])
    BY <1>4
  <2>2. CASE j # i
    BY <1>4, <2>1, <2>2 DEF Merged
  <2>3. CASE j = i /\ k = i
    BY <1>1, <1>4, <2>1, <2>3 DEF End
  <2>4. CASE j = i /\ k # i
    <3>1. Apart(free[i], free[k])
      BY <2>1, <2>4 DEF Inv, NoOverlap, FreeApart
    <3>2. free'[j].start = free[i].start + n /\ n < free[i].size
      BY <1>4, <2>4
    <3> DEFINE a == free[i]
               b == free[k]
    <3>3. /\ a.start \in Nat /\ a.size \in Nat /\ a.size > 0
          /\ b.start \in Nat /\ b.size \in Nat /\ b.size > 0
      BY <1>1, <2>1
    <3>4. n < a.size /\ Apart(a, b)
      BY <3>1, <3>2
    <3> HIDE DEF a, b
    <3>5. a.start + n # End(b) + 1
      BY <3>3, <3>4 DEF Apart, End
    <3> QED BY <2>1, <3>2, <3>5 DEF a, b
  <2> QED BY <2>2, <2>3, <2>4
<1> QED BY <1>4, <1>5 DEF Merged

\* Free blocks that are taken out of the table leave the others as they are.
LEMMA FewerSolid ==
  ASSUME Solid, Merged, \A j \in Busy(free)' : j \in Busy(free) /\ free'[j] = free[j]
  PROVE  Merged' /\ \A j \in Busy(free)' : free'[j].size > 0
<1>1. ASSUME NEW j \in Busy(free)', NEW k \in Busy(free)'
      PROVE  free'[j].start # End(free'[k]) + 1
  BY DEF Merged
<1> QED BY <1>1 DEF Merged, Solid
LEMMA SolidStep ==
  ASSUME Inv, Solid, Merged, 0 \notin Sizes, [Next]_vars,
         ~ \E h \in Handles, n \in Sizes : AllocTableFull(h, n)
  PROVE  Solid' /\ Merged'
<1>0. TypeInv /\ TypeOK
  BY DEF Inv, TypeInv
<1>a. \A i \in Busy(used) : used[i] \in Block /\ used[i].size \in Nat /\ used[i].start \in Nat
  BY <1>0, BusyUsed, BlockFacts
<1>b. \A j \in Busy(free) : free[j] \in Block /\ free[j].size \in Nat /\ free[j].start \in Nat
  BY <1>0, BusyFree, BlockFacts
<1>c. blk # NULL => blk.size \in Nat /\ blk.start \in Nat
  BY <1>0, BlockFacts DEF TypeOK
<1>d. \A n \in Sizes : n \in Nat /\ n > 0
  BY RequestAssumption
\* one entry of the used table changes, or none
<1>e. ASSUME NEW k \in Slot, NEW x, used' = [used EXCEPT ![k] = x], x = NULL \/ x.size > 0
      PROVE  \A i \in Busy(used)' : used'[i].size > 0
  <2> SUFFICES ASSUME NEW i \in Busy(used)' PROVE used'[i].size > 0
    OBVIOUS
  <2>1. i \in Slot /\ used'[i] # NULL /\ used'[i] = IF i = k THEN x ELSE used[i]
    BY <1>0, <1>e DEF TypeOK, Busy
  <2> QED BY <1>e, <2>1 DEF Solid, Busy
<1>f. ASSUME used' = used, free' = free, blk' \in {blk, NULL}, dest' \in {dest, NULL}
      PROVE  Solid' /\ Merged'
  BY <1>f DEF Solid, Merged, Busy
<1>1. ASSUME NEW h \in Handles, NEW n \in Sizes, AllocBlock(h, n) PROVE Solid' /\ Merged'
  <2> PICK i \in Slot, k \in Slot :
        /\ First(i, Fitting(n)) /\ TakeFrom(i, n)
        /\ used' = [used EXCEPT ![k] = Memblock(free[i].start, n)]
    BY <1>1 DEF AllocBlock
  <2>1. blk' = blk /\ dest' = dest
    BY <1>1 DEF AllocBlock, call
  <2>2. i \in Busy(free) /\ n <= free[i].size
    BY DEF First, Fitting
  <2>3. Merged' /\ \A j \in Busy(free)' : free'[j].size > 0
    BY <1>d, <2>2, TakeFromSolid
  <2>4. Memblock(free[i].start, n).size > 0
    BY <1>d DEF Memblock
  <2> DEFINE m == Memblock(free[i].start, n)
  <2> HIDE DEF m
  <2>5. \A j \in Busy(used)' : used'[j].size > 0
    BY <1>e, <2>4 DEF m
  <2> QED BY <2>1, <2>3, <2>5 DEF Solid
<1>2. ASSUME NEW h \in Handles, Free(h) PROVE Solid' /\ Merged'
  <2>1. /\ Idle /\ Live(h) /\ used' = [used EXCEPT ![ptr[h]] = NULL] /\ free' = free
        /\ blk' = used[ptr[h]] /\ dest' = NULL
    BY <1>2 DEF Free, AddFree
  <2>2. ptr[h] \in Slot /\ ptr[h] \in Busy(used)
    BY <1>0, <2>1, LiveBlock DEF Busy
  <2>3. \A j \in Busy(used)' : used'[j].size > 0
    BY <1>e, <2>1, <2>2
  <2>4. blk'.size > 0
    BY <2>1, <2>2 DEF Solid
  <2>5. Merged' /\ \A j \in Busy(free)' : free'[j].size > 0
    BY <2>1, FewerSolid DEF Busy
  <2> QED BY <2>1, <2>3, <2>4, <2>5 DEF Solid
<1>3. ASSUME NEW h \in Handles, NEW n \in Sizes, ReallocShrink(h, n) PROVE Solid' /\ Merged'
  <2> DEFINE k     == ptr[h]
             b     == used[k]
             delta == b.size - n
             rest  == Memblock(End(b) - delta + 1, delta)
             kept  == ShiftEnd(b, End(b) - delta)
  <2>1. /\ Idle /\ Live(h) /\ b.size > n /\ free' = free
        /\ used' = [used EXCEPT ![k] = kept] /\ blk' = rest /\ dest' = NULL
    BY <1>3 DEF ReallocShrink, AddFree
  <2>2. k \in Slot /\ b.start \in Nat /\ b.size \in Nat /\ n \in Nat /\ n > 0
    BY <1>0, <1>d, <2>1, LiveBlock
  <2>3. kept.size > 0 /\ rest.size > 0
    BY <2>1, <2>2, SMT DEF ShiftEnd, Memblock, End
  <2> HIDE DEF kept, rest, k
  <2>4. \A j \in Busy(used)' : used'[j].size > 0
    BY <1>e, <2>1, <2>2, <2>3
  <2>5. Merged' /\ \A j \in Busy(free)' : free'[j].size > 0
    BY <2>1, FewerSolid DEF Busy
  <2> QED BY <2>1, <2>3, <2>4, <2>5 DEF Solid
<1>4. ASSUME NEW h \in Handles, NEW n \in Sizes, ReallocGrow(h, n) PROVE Solid' /\ Merged'
  <2> DEFINE k     == ptr[h]
             b     == used[k]
             delta == n - b.size
             grown == ShiftEnd(b, End(b) + delta)
  <2> PICK j \in Slot : GrowsInto(j, h, n) /\ TakeFrom(j, delta)
    BY <1>4 DEF ReallocGrow
  <2>1. /\ Idle /\ Live(h) /\ b.size < n
        /\ used' = [used EXCEPT ![k] = grown] /\ blk' = blk /\ dest' = dest
    BY <1>4 DEF ReallocGrow, call
  <2>2. k \in Slot /\ b.start \in Nat /\ b.size \in Nat /\ n \in Nat /\ n > 0
    BY <1>0, <1>d, <2>1, LiveBlock
  <2>3. grown.size > 0
    BY <2>1, <2>2, SMT DEF ShiftEnd, End
  <2>4. j \in Busy(free) /\ delta <= free[j].size
    BY DEF GrowsInto, First, After
  <2>5. delta \in Nat /\ 0 < delta
    BY <2>1, <2>2
  <2> HIDE DEF grown, k, delta
  <2>6. \A i \in Busy(used)' : used'[i].size > 0
    BY <1>e, <2>1, <2>2, <2>3
  <2>7. Merged' /\ \A i \in Busy(free)' : free'[i].size > 0
    BY <2>4, <2>5, TakeFromSolid
  <2> QED BY <2>1, <2>6, <2>7 DEF Solid
<1>5. ASSUME NEW h \in Handles, NEW n \in Sizes, ReallocMove(h, n) PROVE Solid' /\ Merged'
  <2> DEFINE k == ptr[h]
             b == used[k]
  <2> PICK j \in Slot :
        /\ First(j, Fitting(n)) /\ TakeFrom(j, n)
        /\ AddFree("move", h, b, Memblock(free[j].start, n))
    BY <1>5 DEF ReallocMove
  <2> DEFINE m == Memblock(free[j].start, n)
  <2>1. /\ Idle /\ Live(h) /\ used' = [used EXCEPT ![k] = NULL] /\ blk' = b /\ dest' = m
    BY <1>5 DEF ReallocMove, AddFree
  <2>2. k \in Slot /\ k \in Busy(used)
    BY <1>0, <2>1, LiveBlock DEF Busy
  <2>3. j \in Busy(free) /\ n <= free[j].size
    BY DEF First, Fitting
  <2>4. m.size > 0 /\ b.size > 0
    BY <1>d, <2>2 DEF Memblock, Solid
  <2> HIDE DEF m, k
  <2>5. \A i \in Busy(used)' : used'[i].size > 0
    BY <1>e, <2>1, <2>2
  <2>6. Merged' /\ \A i \in Busy(free)' : free'[i].size > 0
    BY <1>d, <2>3, TakeFromSolid
  <2> QED BY <2>1, <2>4, <2>5, <2>6 DEF Solid
<1>6. ASSUME AddFreeMerge PROVE Solid' /\ Merged'
  <2> PICK j \in Slot :
        /\ First(j, Adjacent(blk))
        /\ blk' = IF j \in Before(blk.start) THEN ShiftStart(blk, free[j].start)
                                             ELSE ShiftEnd(blk, End(free[j]))
        /\ free' = [free EXCEPT ![j] = NULL]
    BY <1>6 DEF AddFreeMerge
  <2>1. blk # NULL /\ used' = used /\ dest' = dest
    BY <1>6 DEF AddFreeMerge
  <2>2. j \in Busy(free) /\ (j \in Before(blk.start) \/ j \in After(End(blk)))
    BY DEF First, Adjacent, Before, After
  <2>3. /\ free[j].start \in Nat /\ free[j].size \in Nat /\ free[j].size > 0
        /\ blk.start \in Nat /\ blk.size \in Nat /\ blk.size > 0
    BY <1>b, <1>c, <2>1, <2>2 DEF Solid
  <2>4. blk'.size > 0
    <3>1. CASE j \in Before(blk.start)
      <4>1. End(free[j]) = blk.start - 1
        BY <3>1 DEF Before
      <4> QED BY <2>3, <3>1, <4>1, SMT DEF ShiftStart, End
    <3>2. CASE j \notin Before(blk.start)
      <4>1. free[j].start = End(blk) + 1
        BY <2>2, <3>2 DEF After
      <4> QED BY <2>3, <3>2, <4>1, SMT DEF ShiftEnd, End
    <3> QED BY <3>1, <3>2
  <2>5. Merged' /\ \A i \in Busy(free)' : free'[i].size > 0
    BY <1>0, FewerSolid DEF Busy, TypeOK
  <2> QED BY <2>1, <2>4, <2>5 DEF Solid, Busy
<1>7. ASSUME AddFreeInsert PROVE Solid' /\ Merged'
  <2> PICK i \in Slot : First(i, Empty(free)) /\ free' = [free EXCEPT ![i] = blk]
    BY <1>7 DEF AddFreeInsert
  <2>1. /\ blk # NULL /\ Adjacent(blk) = {} /\ blk' = NULL /\ dest' = NULL
        /\ used' = IF op = "move" THEN [used EXCEPT ![ptr[cur]] = dest] ELSE used
    BY <1>7 DEF AddFreeInsert, Return
  <2>2. \A j \in Busy(used)' : used'[j].size > 0
    <3>1. CASE op = "move"
      <4> DEFINE k == ptr[cur]
      <4>1. k \in Slot /\ dest.size > 0
        BY <3>1 DEF Inv, TypeInv, CallState, Live, TypeOK, Solid
      <4>2. used' = [used EXCEPT ![k] = dest]
        BY <2>1, <3>1
      <4> HIDE DEF k
      <4> QED BY <1>e, <4>1, <4>2
    <3>2. CASE op # "move"
      BY <2>1, <3>2 DEF Solid, Busy
    <3> QED BY <3>1, <3>2
  <2>3. \A j \in Busy(free)' : (j = i /\ free'[j] = blk) \/ (j \in Busy(free) /\ free'[j] = free[j])
    BY <1>0 DEF Busy, TypeOK
  <2>4. \A j \in Busy(free)' : free'[j].size > 0
    BY <2>1, <2>3 DEF Solid
  <2>5. \A j \in Busy(free) : End(free[j]) # blk.start - 1 /\ free[j].start # End(blk) + 1
    BY <2>1 DEF Adjacent, Before, After
  <2>6. blk.start \in Nat /\ blk.size \in Nat /\ blk.size > 0
    BY <1>c, <2>1 DEF Solid
  <2>7. ASSUME NEW j \in Busy(free)', NEW k \in Busy(free)'
        PROVE  free'[j].start # End(free'[k]) + 1
    <3>1. CASE free'[j] = blk /\ free'[k] = blk
      BY <2>6, <3>1 DEF End
    <3>2. CASE free'[j] = blk /\ k \in Busy(free) /\ free'[k] = free[k]
      <4>1. End(free[k]) # blk.start - 1 /\ End(free[k]) \in Int
        BY <1>b, <2>5, <3>2 DEF End
      <4> QED BY <2>6, <3>2, <4>1
    <3>3. CASE j \in Busy(free) /\ free'[j] = free[j] /\ free'[k] = blk
      BY <2>5, <3>3
    <3>4. CASE j \in Busy(free) /\ free'[j] = free[j] /\ k \in Busy(free) /\ free'[k] = free[k]
      BY <3>4 DEF Merged
    <3> QED BY <2>3, <3>1, <3>2, <3>3, <3>4
  <2> QED BY <2>1, <2>2, <2>4, <2>7 DEF Solid, Merged
<1>8. ASSUME DefragShift PROVE Solid' /\ Merged'
  <2> PICK i \in Slot, j \in Slot :
        /\ Closest(i)
        /\ First(j, Before(used[i].start))
        /\ LET b == Memblock(free[j].start, used[i].size)
           IN  /\ used' = [used EXCEPT ![i] = b]
               /\ free' = [free EXCEPT ![j] = NULL]
               /\ blk' = Memblock(End(b) + 1, free[j].size)
    BY <1>8 DEF DefragShift
  <2> DEFINE b == Memblock(free[j].start, used[i].size)
             r == Memblock(End(b) + 1, free[j].size)
  <2>1. dest' = dest /\ used' = [used EXCEPT ![i] = b] /\ blk' = r
    BY <1>8 DEF DefragShift
  <2>2. i \in Busy(used) /\ j \in Busy(free)
    BY DEF Closest, First, Movable, Before
  <2>3. b.size > 0 /\ r.size > 0
    BY <2>2 DEF Solid, Memblock
  <2> HIDE DEF b, r
  <2>4. \A k \in Busy(used)' : used'[k].size > 0
    BY <1>e, <2>1, <2>3
  <2>5. Merged' /\ \A k \in Busy(free)' : free'[k].size > 0
    BY <1>0, FewerSolid DEF Busy, TypeOK
  <2> QED BY <2>1, <2>3, <2>4, <2>5 DEF Solid
<1>9. ASSUME AddFreeTableFull \/ DefragDone \/ Defrag \/ UNCHANGED vars PROVE Solid' /\ Merged'
  BY <1>9, <1>f DEF AddFreeTableFull, DefragDone, Defrag, vars, call
<1>10. ASSUME NEW h \in Handles, NEW n \in Sizes,
              AllocNoMemory(h, n) \/ ReallocSame(h, n) \/ ReallocNoMemory(h, n)
       PROVE  Solid' /\ Merged'
  BY <1>10, <1>f DEF AllocNoMemory, ReallocSame, ReallocNoMemory, call
<1>11. ASSUME NEW h \in Handles, NEW k \in Addr, NEW v \in Byte, Write(h, k, v)
       PROVE  Solid' /\ Merged'
  BY <1>11, <1>f DEF Write, call
<1>12. ASSUME NEW h \in Handles, NEW n \in Sizes, Alloc(h, n) \/ Realloc(h, n) PROVE Solid' /\ Merged'
  BY <1>12, <1>1, <1>3, <1>4, <1>5, <1>10 DEF Alloc, Realloc
<1>13. ASSUME Client PROVE Solid' /\ Merged'
  BY <1>13, <1>2, <1>9, <1>11, <1>12 DEF Client
<1>14. ASSUME InCall PROVE Solid' /\ Merged'
  BY <1>14, <1>6, <1>7, <1>8, <1>9 DEF InCall
<1> QED BY <1>9, <1>13, <1>14 DEF Next

LEMMA InitLossless == Init => Lossless
<1> SUFFICES ASSUME Init PROVE Solid /\ Merged /\ NoLeak
  BY DEF Lossless
<1>1. BufSize \in Nat /\ BufSize > 0 /\ 0 \in Slot
  BY SizeAssumption DEF Slot
<1>2. used = [i \in Slot |-> NULL] /\ blk = NULL /\ dest = NULL
  BY DEF Init
<1> DEFINE b == Memblock(0, BufSize)
<1>3. /\ b \in Block /\ b # NULL /\ b.start = 0 /\ b.size = BufSize
      /\ free = [i \in Slot |-> IF i = 0 THEN b ELSE NULL]
  BY <1>1, NullAssumption, SMT DEF Init, Memblock, Block
<1>4. Busy(used) = {} /\ Busy(free) = {0}
  BY <1>1, <1>2, <1>3 DEF Busy
<1>5. Solid
  BY <1>1, <1>2, <1>3, <1>4 DEF Solid
<1>6. Merged
  <2> SUFFICES ASSUME NEW i \in Busy(free), NEW j \in Busy(free)
               PROVE  End(free[i]) + 1 # free[j].start
    BY DEF Merged
  <2>1. free[0] = b /\ i = 0 /\ j = 0
    BY <1>1, <1>3, <1>4
  <2>2. b.start = 0 /\ b.size = BufSize
    BY <1>3
  <2> HIDE DEF b
  <2> QED BY <1>1, <2>1, <2>2 DEF End
<1>7. NoLeak
  <2>1. Bytes(b) = 0 .. BufSize - 1
    <3> HIDE DEF b
    <3>1. Bytes(b) = b.start .. b.start + b.size - 1
      BY <1>3, BlockBytes
    <3> QED BY <1>1, <1>3, <3>1
  <2> HIDE DEF b
  <2>2. TableBytes(free) = Bytes(b)
    BY <1>1, <1>3, NullBytes DEF TableBytes
  <2>3. TableBytes(used) = {}
    BY <1>2, NullBytes DEF TableBytes
  <2> QED BY <1>2, <2>1, <2>2, <2>3, NullBytes, OwnedIs DEF NoLeak, Addr
<1> QED BY <1>5, <1>6, <1>7

LEMMA NextLossless == Inv /\ Lossless /\ [Next]_vars => Lossless'
<1> SUFFICES ASSUME Inv, Lossless, [Next]_vars, Roomy PROVE Solid' /\ Merged' /\ NoLeak'
  BY DEF Lossless
<1>1. ~ AddFreeTableFull /\ \A h \in Handles, n \in Sizes : ~ AllocTableFull(h, n)
  BY NeverFull
<1>2. Solid' /\ Merged'
  BY <1>1, SolidStep DEF Lossless, Roomy
<1>3. OwnedBytes' = OwnedBytes
  BY <1>1, StepBytes DEF Inv
<1> QED BY <1>2, <1>3 DEF NoLeak, Lossless

LEMMA AlwaysLossless == Spec => [](Inv /\ Lossless)
<1>1. Init => Inv /\ Lossless
  BY InitTypeInv, InitNoOverlap, InitLossless DEF Inv
<1>2. Inv /\ Lossless /\ [Next]_vars => (Inv /\ Lossless)'
  BY NextTypeInv, NextNoOverlap, NextLossless DEF Inv
<1> QED BY <1>1, <1>2, PTL DEF Spec

\* With tables that are large enough, and no empty request, no byte is ever
\* lost: "Maximum pointers reached" is never raised, and no other step drops a byte.
THEOREM NothingLeaks == Roomy => (Spec => []NoLeak)
<1>1. Roomy /\ Lossless => NoLeak
  BY DEF Lossless
<1>2. Inv /\ Lossless => (Roomy => NoLeak)
  BY <1>1
<1>3. SUFFICES ASSUME Roomy PROVE Spec => []NoLeak
  OBVIOUS
<1>4. Inv /\ Lossless => NoLeak
  BY <1>2, <1>3
<1> QED BY <1>4, AlwaysLossless, PTL
\* A byte that no used block has is in a free one when no call is in progress.
LEMMA FreeByte ==
  ASSUME Inv, NoLeak, Idle, NEW x \in Addr, x \notin UsedBytes
  PROVE  \E j \in Busy(free) :
           /\ free[j].start \in Nat /\ free[j].size \in Nat
           /\ free[j].start <= x /\ x <= End(free[j])
<1>1. blk = NULL /\ dest = NULL
  BY IdleNoOverlap
<1>2. x \in TableBytes(free)
  BY <1>1, NullBytes DEF NoLeak, OwnedBytes, InFlightBytes, FreeBytes, TableBytes
<1>3. PICK j \in Slot : x \in Bytes(free[j])
  BY <1>2 DEF TableBytes
<1>4. free[j] # NULL /\ j \in Busy(free)
  BY <1>3, NullBytes DEF Busy
<1>5. free[j].start \in Nat /\ free[j].size \in Nat
  BY <1>4, BusyFree, BlockFacts DEF Inv, TypeInv
<1>6. x \in free[j].start .. End(free[j])
  BY <1>3, <1>4 DEF Bytes
<1>7. End(free[j]) \in Int
  BY <1>5 DEF End
<1> QED BY <1>4, <1>5, <1>6, <1>7

LEMMA MergedServes == Inv /\ Merged /\ NoLeak => GapsServed
<1> SUFFICES ASSUME Inv, Merged, NoLeak, Idle, NEW s \in Addr, NEW e \in Addr,
                    s <= e, (s .. e) \cap UsedBytes = {}
             PROVE  Fitting(e - s + 1) # {}
  BY DEF GapsServed
<1>1. s \in Int /\ e \in Int /\ BufSize \in Int /\ 0 <= s /\ e < BufSize
  BY SizeAssumption DEF Addr
<1>2. \A x \in Int : s <= x /\ x <= e => x \in Addr /\ x \notin UsedBytes
  BY <1>1 DEF Addr
<1>3. PICK j \in Busy(free) :
        /\ free[j].start \in Nat /\ free[j].size \in Nat
        /\ free[j].start <= s /\ s <= End(free[j])
  BY <1>1, <1>2, FreeByte
<1>4. e <= End(free[j])
  <2> SUFFICES ASSUME End(free[j]) < e PROVE FALSE
    BY <1>1, <1>3 DEF End
  <2> DEFINE x == End(free[j]) + 1
  <2>1. x \in Int /\ s <= x /\ x <= e
    BY <1>1, <1>3 DEF End
  <2>2. x \in Addr /\ x \notin UsedBytes
    BY <1>2, <2>1
  <2>3. PICK k \in Busy(free) :
          /\ free[k].start \in Nat /\ free[k].size \in Nat
          /\ free[k].start <= x /\ x <= End(free[k])
    BY <2>2, FreeByte
  <2>4. free[k].start # x
    BY DEF Merged
  <2>5. k # j
    BY <1>3, <2>3 DEF End
  <2>6. Apart(free[k], free[j])
    BY <2>5 DEF Inv, NoOverlap, FreeApart
  <2> QED BY <1>1, <1>3, <2>3, <2>4, <2>6 DEF Apart, End
<1>5. free[j].size >= e - s + 1
  BY <1>1, <1>3, <1>4 DEF End
<1> QED BY <1>5 DEF Fitting

\* A request for no more bytes than lie together unused is never refused: with
\* NothingLeaks, alloc() and realloc() find every gap between the objects in one block.
THEOREM EveryGapServed == Roomy => (Spec => []GapsServed)
<1>1. SUFFICES ASSUME Roomy PROVE Spec => []GapsServed
  OBVIOUS
<1>2. Inv /\ Lossless => GapsServed
  BY <1>1, MergedServes DEF Lossless
<1> QED BY <1>2, AlwaysLossless, PTL
\* A block of a table has the byte x of the buffer, when no block is outside the tables.
LEMMA OwnedByte ==
  ASSUME Inv, NoLeak, blk = NULL, dest = NULL, NEW x \in Addr
  PROVE  \E b \in Block :
           /\ \/ \E i \in Busy(used) : b = used[i]
              \/ \E j \in Busy(free) : b = free[j]
           /\ b.start \in Nat /\ b.size \in Nat
           /\ b.start <= x /\ x <= End(b)
<1>1. x \in TableBytes(used) \/ x \in TableBytes(free)
  BY NullBytes DEF NoLeak, OwnedBytes, InFlightBytes, UsedBytes, FreeBytes, TableBytes
<1>2. ASSUME NEW b, b \in BlockOrNull, x \in Bytes(b)
      PROVE  /\ b # NULL /\ b \in Block /\ b.start \in Nat /\ b.size \in Nat
             /\ b.start <= x /\ x <= End(b)
  <2>1. b # NULL
    BY <1>2, NullBytes
  <2>2. b \in Block /\ b.start \in Nat /\ b.size \in Nat
    BY <1>2, <2>1, BlockFacts
  <2>3. x \in b.start .. End(b) /\ End(b) \in Int
    BY <1>2, <2>1, <2>2 DEF Bytes, End
  <2> QED BY <2>1, <2>2, <2>3
<1>3. CASE x \in TableBytes(used)
  <2>1. PICK i \in Slot : x \in Bytes(used[i])
    BY <1>3 DEF TableBytes
  <2>2. used[i] \in BlockOrNull
    BY DEF Inv, TypeInv, TypeOK
  <2> QED BY <1>2, <2>1, <2>2 DEF Busy
<1>4. CASE x \in TableBytes(free)
  <2>1. PICK i \in Slot : x \in Bytes(free[i])
    BY <1>4 DEF TableBytes
  <2>2. free[i] \in BlockOrNull
    BY DEF Inv, TypeInv, TypeOK
  <2> QED BY <1>2, <2>1, <2>2 DEF Busy
<1> QED BY <1>1, <1>3, <1>4

\* When no used block follows a free one, a free block can only be at the end.
LEMMA FreeAtEnd ==
  ASSUME Inv, NoLeak, Solid, Merged, blk = NULL, dest = NULL, Movable = {},
         NEW j \in Busy(free)
  PROVE  /\ free[j].start \in Nat /\ free[j].size \in Nat /\ free[j].size > 0
         /\ End(free[j]) = BufSize - 1
<1>1. /\ free[j].start \in Nat /\ free[j].size \in Nat /\ free[j].size > 0
      /\ free[j].start + free[j].size <= BufSize
  BY BusyFree, BlockFacts DEF Inv, TypeInv, Solid
<1>2. BufSize \in Nat
  BY SizeAssumption
<1> DEFINE x == End(free[j]) + 1
<1>3. x = free[j].start + free[j].size
  BY <1>1 DEF End
<1>4. ASSUME x # BufSize PROVE FALSE
  <2>1. x \in Addr
    BY <1>1, <1>2, <1>3, <1>4 DEF Addr
  <2>2. PICK b \in Block :
          /\ \/ \E i \in Busy(used) : b = used[i]
             \/ \E k \in Busy(free) : b = free[k]
          /\ b.start \in Nat /\ b.size \in Nat
          /\ b.start <= x /\ x <= End(b)
    <3> HIDE DEF x
    <3> QED BY <2>1, OwnedByte
  <2>3. b.size > 0
    BY <1>1, <1>3, <2>2 DEF Solid
  <2>4. CASE \E i \in Busy(used) : b = used[i]
    <3>1. PICK i \in Busy(used) : b = used[i]
      BY <2>4
    <3>2. Apart(b, free[j])
      BY <3>1 DEF Inv, NoOverlap, UsedFreeApart
    <3>3. b.start = x
      BY <1>1, <1>3, <2>2, <2>3, <3>2 DEF Apart, End
    <3>4. j \in Before(used[i].start)
      BY <1>1, <3>1, <3>3 DEF Before, End
    <3> QED BY <3>1, <3>4 DEF Movable
  <2>5. CASE \E k \in Busy(free) : b = free[k]
    <3>1. PICK k \in Busy(free) : b = free[k]
      BY <2>5
    <3>2. b.start # x
      BY <3>1 DEF Merged
    <3>3. k # j
      BY <1>1, <1>3, <2>2, <3>1 DEF End
    <3>4. Apart(b, free[j])
      BY <3>1, <3>3 DEF Inv, NoOverlap, FreeApart
    <3> QED BY <1>1, <1>3, <2>2, <2>3, <3>2, <3>4 DEF Apart, End
  <2> QED BY <2>2, <2>4, <2>5
<1>5. BufSize = free[j].start + free[j].size
  BY <1>3, <1>4
<1> QED BY <1>1, <1>5 DEF End

LEMMA DefragDoneRoom ==
  ASSUME Inv, NoLeak, Solid, Merged, DefragDone, FreeBytes # {}
  PROVE  \E j \in Busy(free) : Bytes(free[j]) = FreeBytes
<1>1. op = "defrag" /\ blk = NULL /\ Movable = {}
  BY DEF DefragDone
<1>2. dest = NULL
  BY <1>1 DEF Inv, TypeInv, CallState
<1>3. PICK j \in Slot : Bytes(free[j]) # {}
  BY DEF FreeBytes
<1>4. j \in Busy(free)
  BY <1>3, NullBytes DEF Busy
<1>5. \A k \in Busy(free) : k = j
  <2> SUFFICES ASSUME NEW k \in Busy(free), k # j PROVE FALSE
    OBVIOUS
  <2>1. Apart(free[k], free[j])
    BY <1>4 DEF Inv, NoOverlap, FreeApart
  <2>2. /\ free[j].start \in Nat /\ free[j].size \in Nat /\ free[j].size > 0
        /\ End(free[j]) = BufSize - 1
    BY <1>1, <1>2, <1>4, FreeAtEnd
  <2>3. /\ free[k].start \in Nat /\ free[k].size \in Nat /\ free[k].size > 0
        /\ End(free[k]) = BufSize - 1
    BY <1>1, <1>2, FreeAtEnd
  <2> QED BY <2>1, <2>2, <2>3, SizeAssumption DEF Apart, End
<1>6. \A k \in Slot : k # j => Bytes(free[k]) = {}
  BY <1>5, NullBytes DEF Busy
<1>7. FreeBytes = Bytes(free[j])
  BY <1>6 DEF FreeBytes
<1> QED BY <1>4, <1>7

\* After defrag() one free block has all the free bytes there are.
THEOREM DefragGathers == Roomy => (Spec => DefragMakesRoom)
<1> DEFINE Gathers == op = "defrag" /\ op' = "none" /\ FreeBytes # {} =>
                        \E j \in Busy(free)' : Bytes(free[j])' = FreeBytes'
<1>1. SUFFICES ASSUME Roomy PROVE Spec => DefragMakesRoom
  OBVIOUS
<1>2. ASSUME Inv /\ Lossless /\ [Next]_vars PROVE [Gathers]_vars
  <2> SUFFICES ASSUME op = "defrag", op' = "none", FreeBytes # {}, Next
               PROVE  \E j \in Busy(free)' : Bytes(free[j])' = FreeBytes'
    BY <1>2
  <2>1. ~ Client
    BY DEF Client, Alloc, Realloc, AllocBlock, AllocTableFull, AllocNoMemory, Free, Write,
           ReallocSame, ReallocShrink, ReallocGrow, ReallocMove, ReallocNoMemory, Defrag, Idle
  <2>2. ~ AddFreeTableFull
    BY <1>1, <1>2, NeverFull DEF Lossless
  <2>3. ~ (AddFreeMerge \/ AddFreeInsert \/ DefragShift)
    BY DEF AddFreeMerge, AddFreeInsert, Return, DefragShift
  <2>4. DefragDone
    BY <2>1, <2>2, <2>3 DEF Next, InCall
  <2>5. \E j \in Busy(free) : Bytes(free[j]) = FreeBytes
    BY <1>1, <1>2, <2>4, DefragDoneRoom DEF Lossless
  <2>6. free' = free
    BY <2>4 DEF DefragDone
  <2>7. Busy(free)' = Busy(free) /\ FreeBytes' = FreeBytes
    BY <2>6 DEF Busy, FreeBytes, Bytes, End
  <2>8. \A j \in Slot : Bytes(free[j])' = Bytes(free[j])
    BY <2>6 DEF Bytes, End
  <2> QED BY <2>5, <2>7, <2>8 DEF Busy
<1>3. Inv /\ Lossless /\ [Next]_vars => [Gathers]_vars
  BY <1>2
<1>4. DefragMakesRoom <=> [][Gathers]_vars
  BY DEF DefragMakesRoom
<1> QED BY <1>3, <1>4, AlwaysLossless, PTL DEF Spec
-----------------------------------------------------------------------------
(* The contents of a block *)

\* What memory m holds in block b.
Holds(m, b) == [k \in 1 .. b.size |-> m[b.start + k - 1]]

Objects == [h \in Handles |-> Object(h)]

LEMMA ObjectIs ==
  ASSUME NEW h \in Handles
  PROVE  /\ Object(h) = IF BlockOf(h) = NULL THEN NULL ELSE Holds(mem, BlockOf(h))
         /\ Object(h)' = IF BlockOf(h)' = NULL THEN NULL ELSE Holds(mem', BlockOf(h)')
BY DEF Object, Contents, Holds

LEMMA HoldsType ==
  ASSUME NEW m \in [Addr -> Byte], NEW b \in Block
  PROVE  /\ Holds(m, b) \in Seq(Byte)
         /\ DOMAIN Holds(m, b) = 1 .. b.size
         /\ \A k \in 1 .. b.size : Holds(m, b)[k] = m[b.start + k - 1]
         /\ Holds(m, b) # NULL
<1>1. b.start \in Nat /\ b.size \in Nat /\ b.start + b.size <= BufSize /\ BufSize \in Nat
  BY SizeAssumption DEF Block
<1>2. \A k \in 1 .. b.size : b.start + k - 1 \in Addr
  BY <1>1 DEF Addr
<1>3. Holds(m, b) \in [1 .. b.size -> Byte]
  BY <1>2 DEF Holds
<1>4. Holds(m, b) \in Seq(Byte)
  BY <1>1, <1>3
<1>5. Holds(m, b) # NULL
  BY <1>4, NoObjectAssumption
<1> QED BY <1>4, <1>5 DEF Holds

\* Two memories that agree on the bytes of a block, or on those of two blocks.
LEMMA HoldsSame ==
  ASSUME NEW m, NEW n, NEW b \in Block, NEW c \in Block, b.size = c.size,
         \A k \in 0 .. b.size - 1 : n[c.start + k] = m[b.start + k]
  PROVE  Holds(n, c) = Holds(m, b)
<1>1. b.start \in Nat /\ b.size \in Nat /\ c.start \in Nat
  BY SizeAssumption DEF Block
<1>2. ASSUME NEW k \in 1 .. b.size
      PROVE  n[c.start + k - 1] = m[b.start + k - 1]
  <2>1. k - 1 \in 0 .. b.size - 1 /\ c.start + (k - 1) = c.start + k - 1
        /\ b.start + (k - 1) = b.start + k - 1
    BY <1>1
  <2> QED BY <2>1
<1> QED BY <1>2 DEF Holds

\* What BlockOf is.
LEMMA BlockOfType ==
  ASSUME TypeInv, NEW h \in Handles, BlockOf(h) # NULL
  PROVE  BlockOf(h) \in Block /\ Live(h) /\ ptr[h] \in Slot
<1>1. Live(h) /\ ptr[h] \in Slot
  BY DEF BlockOf, Live, TypeInv, TypeOK
<1>2. BlockOf(h) \in BlockOrNull
  BY <1>1 DEF BlockOf, TypeInv, TypeOK
<1> QED BY <1>1, <1>2 DEF BlockOrNull

LEMMA BlockOfTypeNext ==
  ASSUME TypeInv', NEW h \in Handles, BlockOf(h)' # NULL
  PROVE  BlockOf(h)' \in Block /\ mem' \in [Addr -> Byte]
<1>1. Live(h)' /\ ptr'[h] \in Slot
  BY DEF BlockOf, Live, TypeInv, TypeOK
<1>2. BlockOf(h)' \in BlockOrNull
  BY <1>1 DEF BlockOf, TypeInv, TypeOK
<1> QED BY <1>1, <1>2 DEF BlockOrNull, TypeInv, TypeOK

\* A block of an object that stays and is not written to.
LEMMA SameObject ==
  ASSUME TypeInv, NEW h \in Handles, BlockOf(h)' = BlockOf(h),
         BlockOf(h) # NULL =>
           \A k \in 0 .. BlockOf(h).size - 1 :
             mem'[BlockOf(h).start + k] = mem[BlockOf(h).start + k]
  PROVE  Object(h)' = Object(h)
<1>1. CASE BlockOf(h) = NULL
  BY <1>1, ObjectIs
<1>2. CASE BlockOf(h) # NULL
  <2> DEFINE b == BlockOf(h)
  <2>1. b \in Block
    BY <1>2, BlockOfType
  <2>2. \A k \in 0 .. b.size - 1 : mem'[b.start + k] = mem[b.start + k]
    BY <1>2
  <2>3. Object(h) = Holds(mem, b) /\ Object(h)' = Holds(mem', b)
    BY <1>2, ObjectIs
  <2> HIDE DEF b
  <2> QED BY <2>1, <2>2, <2>3, HoldsSame
<1> QED BY <1>1, <1>2

-----------------------------------------------------------------------------
(* The steps of the abstract store *)

LEMMA NothingChanges ==
  ASSUME \A h \in Handles : Object(h)' = Object(h)
  PROVE  UNCHANGED [h \in Handles |-> Object(h)]
OBVIOUS

LEMMA OneChanges ==
  ASSUME NEW h \in Handles, \A g \in Handles : g # h => Object(g)' = Object(g), NEW x,
         Object(h)' = x
  PROVE  Objects' = [Objects EXCEPT ![h] = x]
BY DEF Objects

LEMMA StoreCreate ==
  ASSUME NEW h \in Handles, \A g \in Handles : g # h => Object(g)' = Object(g),
         Object(h) = NULL, Object(h)' \in Seq(Byte)
  PROVE  Store!Next
<1>1. Objects' = [Objects EXCEPT ![h] = Object(h)'] /\ Objects[h] = NULL /\ Objects'[h] = Object(h)'
  BY OneChanges DEF Objects
<1>2. Store!Create(h)
  BY <1>1 DEF Store!Create, Objects
<1> QED BY <1>2 DEF Store!Next

LEMMA StoreDestroy ==
  ASSUME NEW h \in Handles, \A g \in Handles : g # h => Object(g)' = Object(g),
         Object(h) # NULL, Object(h)' = NULL
  PROVE  Store!Next
<1>1. Objects' = [Objects EXCEPT ![h] = NULL] /\ Objects[h] # NULL
  BY OneChanges DEF Objects
<1>2. Store!Destroy(h)
  BY <1>1 DEF Store!Destroy, Objects
<1> QED BY <1>2 DEF Store!Next

LEMMA StoreResize ==
  ASSUME NEW h \in Handles, \A g \in Handles : g # h => Object(g)' = Object(g),
         Object(h) # NULL, Object(h)' \in Seq(Byte),
         \A k \in DOMAIN Object(h) \cap DOMAIN Object(h)' : Object(h)'[k] = Object(h)[k]
  PROVE  Store!Next
<1>1. /\ Objects' = [Objects EXCEPT ![h] = Object(h)']
      /\ Objects[h] = Object(h) /\ Objects'[h] = Object(h)'
  BY OneChanges DEF Objects
<1>2. Store!Resize(h)
  BY <1>1 DEF Store!Resize, Objects
<1> QED BY <1>2 DEF Store!Next

LEMMA StoreWrite ==
  ASSUME NEW h \in Handles, \A g \in Handles : g # h => Object(g)' = Object(g),
         Object(h) # NULL, NEW k \in DOMAIN Object(h), NEW v \in Byte,
         Object(h)' = [Object(h) EXCEPT ![k] = v]
  PROVE  Store!Next
<1>1. /\ Objects' = [Objects EXCEPT ![h] = [Object(h) EXCEPT ![k] = v]]
      /\ Objects[h] = Object(h)
  BY OneChanges DEF Objects
<1>2. Store!Write(h, k, v) /\ k \in DOMAIN Objects[h] /\ Objects[h] # NULL
  BY <1>1 DEF Store!Write, Objects
<1> QED BY <1>2 DEF Store!Next, Objects
-----------------------------------------------------------------------------
(* Every step is one of the store, or none *)

LEMMA SameMem ==
  ASSUME TypeInv, NEW h \in Handles, BlockOf(h)' = BlockOf(h), mem' = mem
  PROVE  Object(h)' = Object(h)
BY SameObject

LEMMA StoreAlloc ==
  ASSUME TypeInv, TypeInv', NEW h \in Handles, NEW n \in Sizes, AllocBlock(h, n)
  PROVE  Store!Next
<1> PICK i \in Slot, k \in Slot :
      /\ First(k, Empty(used))
      /\ used' = [used EXCEPT ![k] = Memblock(free[i].start, n)]
      /\ ptr' = [ptr EXCEPT ![h] = k]
  BY DEF AllocBlock
<1> DEFINE m == Memblock(free[i].start, n)
<1>1. /\ Idle /\ Reusable(h) /\ stale' = stale \ {h}
      /\ mem' = mem /\ op' = op /\ cur' = cur
  BY DEF AllocBlock, call
<1>2. used[k] = NULL /\ used \in [Slot -> BlockOrNull] /\ ptr \in [Handles -> Slot \cup {-1}]
  BY DEF First, Empty, TypeInv, TypeOK
<1>3. BlockOf(h) = NULL
  BY <1>1 DEF BlockOf, Live, Reusable
<1>4. \A g \in Handles : Live(g) => used[ptr[g]] # NULL /\ ptr[g] \in Slot
  BY <1>1, <1>2 DEF TypeInv, PointersValid, Usable, Idle, Live
<1>5. ASSUME NEW g \in Handles, g # h PROVE BlockOf(g)' = BlockOf(g)
  <2>1. Live(g)' <=> Live(g)
    BY <1>1, <1>2, <1>5 DEF Live
  <2>2. Live(g) => ptr'[g] = ptr[g] /\ used'[ptr[g]] = used[ptr[g]]
    BY <1>2, <1>4, <1>5
  <2> QED BY <1>1, <2>1, <2>2 DEF BlockOf, Idle
<1>6. \A g \in Handles : g # h => Object(g)' = Object(g)
  BY <1>1, <1>5, SameMem
<1>7. Live(h)' /\ ptr'[h] = k /\ used'[k] = m
  BY <1>1, <1>2, NoSlot DEF Live
<1>8. used'[k] # NULL
  BY <1>1, <1>7 DEF TypeInv, PointersValid, Usable, Idle
<1>9. BlockOf(h)' = used'[k]
  BY <1>1, <1>7 DEF BlockOf, Idle
<1>10. BlockOf(h)' \in Block /\ mem' \in [Addr -> Byte] /\ BlockOf(h)' # NULL
  BY <1>8, <1>9, BlockOfTypeNext
<1>11. Object(h)' = Holds(mem', BlockOf(h)')
  BY <1>10, ObjectIs
<1>12. Object(h)' \in Seq(Byte)
  BY <1>10, <1>11, HoldsType
<1>13. Object(h) = NULL
  BY <1>3, ObjectIs
<1> QED BY <1>6, <1>12, <1>13, StoreCreate

LEMMA StoreStore ==
  ASSUME Inv, NEW h \in Handles, NEW k \in Addr, NEW v \in Byte, Write(h, k, v)
  PROVE  Store!Next
<1> DEFINE b == used[ptr[h]]
<1>1. /\ Idle /\ Live(h) /\ k \in 0 .. b.size - 1
      /\ mem' = [mem EXCEPT ![b.start + k] = v]
      /\ UNCHANGED <<used, ptr, stale, op, cur, dest>>
  BY DEF Write, call
<1>2. /\ ptr[h] \in Slot /\ b # NULL /\ b \in Block /\ b.start \in Nat /\ b.size \in Nat
      /\ b.start + b.size <= BufSize /\ BufSize \in Nat
  BY <1>1, LiveBlock, SizeAssumption DEF Inv
<1>3. mem \in [Addr -> Byte]
  BY DEF Inv, TypeInv, TypeOK
<1>4. \A g \in Handles : BlockOf(g)' = BlockOf(g) /\ (BlockOf(g) # NULL => Live(g) /\ BlockOf(g) = used[ptr[g]])
  BY <1>1 DEF BlockOf, Live, Idle
<1>5. BlockOf(h) = b
  BY <1>1 DEF BlockOf, Idle
<1> HIDE DEF b
<1>6. ASSUME NEW g \in Handles, g # h PROVE Object(g)' = Object(g)
  <2> SUFFICES ASSUME BlockOf(g) # NULL, NEW a \in 0 .. BlockOf(g).size - 1
               PROVE  mem'[BlockOf(g).start + a] = mem[BlockOf(g).start + a]
    BY <1>4, SameObject DEF Inv
  <2> DEFINE c == BlockOf(g)
  <2>1. Live(g) /\ c = used[ptr[g]] /\ ptr[g] \in Busy(used) /\ ptr[h] \in Busy(used)
    BY <1>1, <1>2, <1>4, LiveBlock DEF Inv, Busy, b
  <2>2. ptr[g] # ptr[h]
    BY <1>1, <1>6, <2>1 DEF Inv, TypeInv, PointersValid
  <2>3. Apart(c, b)
    BY <2>1, <2>2 DEF Inv, NoOverlap, UsedApart, b
  <2>4. c \in Block
    BY BlockOfType DEF Inv
  <2>5. c.start \in Nat /\ c.size \in Nat /\ c.start + c.size <= BufSize
    BY <2>4, SizeAssumption DEF Block
  <2> HIDE DEF c
  <2>6. c.start + a # b.start + k
    <3>1. a \in 0 .. c.size - 1
      BY DEF c
    <3> QED BY <1>1, <1>2, <2>3, <2>5, <3>1 DEF Apart, End
  <2>7. a \in 0 .. c.size - 1
    BY DEF c
  <2>8. c.start + a \in Addr
    BY <1>2, <2>5, <2>7 DEF Addr
  <2>9. mem'[c.start + a] = mem[c.start + a]
    BY <1>1, <1>3, <2>6, <2>8
  <2> QED BY <2>9 DEF c
<1>7. Object(h) = Holds(mem, b) /\ Object(h)' = Holds(mem', b)
  BY <1>2, <1>4, <1>5, ObjectIs
<1>8. b.start + k \in Addr /\ mem' \in [Addr -> Byte]
  BY <1>1, <1>2, <1>3 DEF Addr
<1>9. /\ Object(h) # NULL /\ k + 1 \in 1 .. b.size
      /\ DOMAIN Object(h) = 1 .. b.size
  BY <1>1, <1>2, <1>3, <1>7, HoldsType
<1>10. Object(h)' = [Object(h) EXCEPT ![k + 1] = v]
  <2>1. ASSUME NEW a \in 1 .. b.size
        PROVE  mem'[b.start + a - 1] = IF a = k + 1 THEN v ELSE mem[b.start + a - 1]
    <3>1. b.start + a - 1 \in Addr /\ (b.start + a - 1 = b.start + k <=> a = k + 1)
      BY <1>1, <1>2 DEF Addr
    <3> QED BY <1>1, <1>3, <3>1
  <2> QED BY <1>7, <2>1 DEF Holds
<1> QED BY <1>6, <1>9, <1>10, StoreWrite

LEMMA StoreFree ==
  ASSUME TypeInv, NEW h \in Handles, Free(h)
  PROVE  Store!Next
<1>1. /\ Idle /\ Live(h)
      /\ used' = [used EXCEPT ![ptr[h]] = NULL]
      /\ op' = "free" /\ cur' = h
      /\ UNCHANGED <<mem, ptr, stale>>
  BY DEF Free, AddFree
<1>2. /\ ptr[h] \in Slot /\ used[ptr[h]] # NULL
      /\ used \in [Slot -> BlockOrNull] /\ mem \in [Addr -> Byte]
  BY <1>1, LiveBlock DEF TypeInv, TypeOK
<1>3. \A g \in Handles : Live(g)' <=> Live(g)
  BY <1>1 DEF Live
<1>4. \A g \in Handles : Live(g) => ptr[g] \in Slot /\ (g # h => ptr[g] # ptr[h])
  BY <1>1 DEF TypeInv, TypeOK, PointersValid, Live
<1>5. \A g \in Handles : g # h => BlockOf(g)' = BlockOf(g)
  BY <1>1, <1>2, <1>3, <1>4 DEF BlockOf, Idle
<1>6. BlockOf(h)' = NULL
  BY <1>1, <1>2, <1>3 DEF BlockOf
<1>7. BlockOf(h) # NULL
  BY <1>1, <1>2 DEF BlockOf, Idle
<1>8. Object(h) # NULL
  BY <1>2, <1>7, BlockOfType, ObjectIs, HoldsType
<1>9. Object(h)' = NULL
  BY <1>6, ObjectIs
<1>10. \A g \in Handles : g # h => Object(g)' = Object(g)
  BY <1>1, <1>5, SameMem
<1> QED BY <1>8, <1>9, <1>10, StoreDestroy
\* realloc() keeps the object where it is.
LEMMA StoreInPlace ==
  ASSUME TypeInv, TypeInv', NEW h \in Handles, Idle, Live(h), NEW x,
         used' = [used EXCEPT ![ptr[h]] = x], op' \in {"none", "shrink"},
         UNCHANGED <<mem, ptr, stale>>,
         x.start = used[ptr[h]].start
  PROVE  Store!Next
<1> DEFINE b == used[ptr[h]]
<1>1. /\ ptr[h] \in Slot /\ b # NULL /\ used \in [Slot -> BlockOrNull] /\ mem \in [Addr -> Byte]
  BY LiveBlock DEF TypeInv, TypeOK
<1>2. \A g \in Handles : Live(g)' <=> Live(g)
  BY DEF Live
<1>3. \A g \in Handles : Live(g) => ptr[g] \in Slot /\ (g # h => ptr[g] # ptr[h])
  BY DEF TypeInv, TypeOK, PointersValid, Live
<1>4. \A g \in Handles : g # h => BlockOf(g)' = BlockOf(g)
  BY <1>1, <1>2, <1>3 DEF BlockOf, Idle
<1>5. BlockOf(h) = b /\ BlockOf(h)' = x
  BY <1>1, <1>2 DEF BlockOf, Idle
<1>6. x # NULL
  <2>1. Usable(h)'
    BY <1>2 DEF Usable
  <2>2. used'[ptr'[h]] # NULL
    BY <2>1 DEF TypeInv, PointersValid
  <2> QED BY <1>1, <2>2
<1>7. b \in Block /\ x \in Block /\ mem' = mem
  BY <1>1, <1>5, <1>6, BlockOfType, BlockOfTypeNext
<1>8. x.start = b.start
  OBVIOUS
<1> HIDE DEF b
<1>9. Object(h) = Holds(mem, b) /\ Object(h)' = Holds(mem, x)
  BY <1>1, <1>5, <1>6, <1>7, ObjectIs
<1>10. Object(h) # NULL /\ Object(h)' \in Seq(Byte)
  BY <1>1, <1>7, <1>9, HoldsType
<1>11. \A k \in DOMAIN Object(h) \cap DOMAIN Object(h)' : Object(h)'[k] = Object(h)[k]
  BY <1>8, <1>9 DEF Holds
<1>12. \A g \in Handles : g # h => Object(g)' = Object(g)
  BY <1>4, <1>7, SameMem
<1> QED BY <1>10, <1>11, <1>12, StoreResize

LEMMA StoreShrink ==
  ASSUME TypeInv, TypeInv', NEW h \in Handles, NEW n \in Sizes, ReallocShrink(h, n)
  PROVE  Store!Next
<1> DEFINE x == ShiftEnd(used[ptr[h]], End(used[ptr[h]]) - (used[ptr[h]].size - n))
<1>1. /\ Idle /\ Live(h) /\ used' = [used EXCEPT ![ptr[h]] = x] /\ op' = "shrink"
      /\ UNCHANGED <<mem, ptr, stale>>
  BY DEF ReallocShrink, AddFree
<1>2. x.start = used[ptr[h]].start
  BY DEF ShiftEnd
<1> HIDE DEF x
<1> QED BY <1>1, <1>2, StoreInPlace

LEMMA StoreGrow ==
  ASSUME TypeInv, TypeInv', NEW h \in Handles, NEW n \in Sizes, ReallocGrow(h, n)
  PROVE  Store!Next
<1> DEFINE x == ShiftEnd(used[ptr[h]], End(used[ptr[h]]) + (n - used[ptr[h]].size))
<1>1. /\ Idle /\ Live(h) /\ used' = [used EXCEPT ![ptr[h]] = x] /\ op' = "none"
      /\ UNCHANGED <<mem, ptr, stale>>
  BY DEF ReallocGrow, call, Idle
<1>2. x.start = used[ptr[h]].start
  BY DEF ShiftEnd
<1> HIDE DEF x
<1> QED BY <1>1, <1>2, StoreInPlace

\* What the copy loops write, and what they leave alone.
LEMMA CopiedBytes ==
  ASSUME NEW from \in Nat, NEW to \in Nat, NEW n \in Nat, to + n <= BufSize,
         to <= from \/ from + n <= to
  PROVE  /\ \A k \in 0 .. n - 1 : Copied(from, to, n)[to + k] = mem[from + k]
         /\ \A a \in Addr : a \notin to .. to + n - 1 => Copied(from, to, n)[a] = mem[a]
<1>1. ASSUME NEW k \in 0 .. n - 1 PROVE Copied(from, to, n)[to + k] = mem[from + k]
  <2>1. to + k \in Addr /\ to + k \in to .. to + n - 1 /\ (to + k) - to = k
    BY SizeAssumption DEF Addr
  <2>2. ASSUME to > from PROVE k % (to - from) = k
    BY <2>2
  <2> QED BY <2>1, <2>2 DEF Copied
<1>2. \A a \in Addr : a \notin to .. to + n - 1 => Copied(from, to, n)[a] = mem[a]
  BY DEF Copied
<1> QED BY <1>1, <1>2

\* No byte of a block is one of a block apart from it.
LEMMA ApartBytes ==
  ASSUME NEW c \in Block, NEW b \in Block, Apart(c, b), NEW k \in 0 .. c.size - 1
  PROVE  /\ c.start + k \in Addr /\ c.start + k \notin b.start .. b.start + b.size - 1
<1>1. /\ c.start \in Nat /\ c.size \in Nat /\ b.start \in Nat /\ b.size \in Nat
      /\ c.start + c.size <= BufSize /\ BufSize \in Nat
  BY SizeAssumption DEF Block
<1> QED BY <1>1 DEF Apart, End, Addr

LEMMA StoreMove ==
  ASSUME Inv, TypeInv', NEW h \in Handles, NEW n \in Sizes, ReallocMove(h, n)
  PROVE  Store!Next
<1> DEFINE b == used[ptr[h]]
<1> PICK j \in Slot :
      /\ First(j, Fitting(n))
      /\ mem' = Copied(b.start, free[j].start, b.size)
      /\ TakeFrom(j, n)
      /\ AddFree("move", h, b, Memblock(free[j].start, n))
  BY DEF ReallocMove
<1> DEFINE f == free[j]
           d == Memblock(f.start, n)
<1>1. /\ Idle /\ Live(h) /\ b.size < n /\ used' = [used EXCEPT ![ptr[h]] = NULL]
      /\ op' = "move" /\ cur' = h /\ dest' = d
      /\ UNCHANGED <<ptr, stale>>
  BY DEF ReallocMove, AddFree
<1>2. /\ ptr[h] \in Slot /\ b # NULL /\ b \in Block /\ b.start \in Nat /\ b.size \in Nat
      /\ b.start + b.size <= BufSize /\ BufSize \in Nat
      /\ used \in [Slot -> BlockOrNull] /\ mem \in [Addr -> Byte] /\ n \in Nat
  BY <1>1, LiveBlock, SizeAssumption, RequestAssumption DEF Inv, TypeInv, TypeOK
<1>3. j \in Busy(free) /\ f.size >= n
  BY DEF First, Fitting
<1>4. f \in Block /\ f.start \in Nat /\ f.size \in Nat /\ f.start + f.size <= BufSize
  BY <1>3, BusyFree, BlockFacts DEF Inv, TypeInv
<1>5. Apart(b, f)
  BY <1>2, <1>3 DEF Inv, NoOverlap, UsedFreeApart, Busy
<1>6. mem' = Copied(b.start, f.start, b.size)
  OBVIOUS
<1>7. d.start = f.start /\ d.size = n
  BY DEF Memblock
<1>8. \A g \in Handles : Live(g)' <=> Live(g)
  BY <1>1 DEF Live
<1>9. \A g \in Handles : Live(g) => ptr[g] \in Slot /\ (g # h => ptr[g] # ptr[h])
  BY <1>1 DEF Inv, TypeInv, TypeOK, PointersValid, Live
<1>10. \A g \in Handles : g # h => BlockOf(g)' = BlockOf(g)
  BY <1>1, <1>2, <1>8, <1>9 DEF BlockOf, Idle
<1>11. BlockOf(h) = b
  BY <1>1 DEF BlockOf, Idle
<1>12. BlockOf(h)' = d /\ d # NULL
  BY <1>1, <1>8 DEF BlockOf, TypeInv, CallState
<1>13. d \in Block /\ mem' \in [Addr -> Byte]
  BY <1>12, BlockOfTypeNext
<1>14. ASSUME NEW g \in Handles, BlockOf(g) # NULL PROVE Apart(BlockOf(g), f)
  <2>1. Live(g) /\ BlockOf(g) = used[ptr[g]]
    BY <1>1, <1>14 DEF BlockOf, Idle
  <2>2. ptr[g] \in Busy(used)
    BY <1>9, <1>14, <2>1 DEF Busy
  <2> QED BY <1>3, <2>1, <2>2 DEF Inv, NoOverlap, UsedFreeApart
<1> HIDE DEF b, d, f
<1>15. /\ \A k \in 0 .. b.size - 1 : mem'[f.start + k] = mem[b.start + k]
       /\ \A a \in Addr : a \notin f.start .. f.start + b.size - 1 => mem'[a] = mem[a]
  <2>1. \/ b.size = 0
        \/ f.start <= b.start \/ b.start + b.size <= f.start
    BY <1>1, <1>2, <1>3, <1>4, <1>5 DEF Apart, End
  <2>2. f.start + b.size <= BufSize
    BY <1>1, <1>2, <1>3, <1>4
  <2>3. CASE f.start <= b.start \/ b.start + b.size <= f.start
    <3>1. f.start \in Nat /\ b.start \in Nat /\ b.size \in Nat
      BY <1>2, <1>4
    <3>2. /\ \A k \in 0 .. b.size - 1 : Copied(b.start, f.start, b.size)[f.start + k] = mem[b.start + k]
          /\ \A a \in Addr : a \notin f.start .. f.start + b.size - 1
                              => Copied(b.start, f.start, b.size)[a] = mem[a]
      BY <2>2, <2>3, <3>1, CopiedBytes
    <3> QED BY <1>6, <3>2
  <2>4. CASE b.size = 0
    <3>1. f.start <= b.start \/ b.start + b.size <= f.start
      BY <1>2, <1>4, <2>4
    <3> QED BY <2>3, <3>1
  <2> QED BY <2>1, <2>3, <2>4
<1>16. ASSUME NEW g \in Handles, g # h PROVE Object(g)' = Object(g)
  <2> SUFFICES ASSUME BlockOf(g) # NULL, NEW k \in 0 .. BlockOf(g).size - 1
               PROVE  mem'[BlockOf(g).start + k] = mem[BlockOf(g).start + k]
    BY <1>10, <1>16, SameObject DEF Inv
  <2>1. BlockOf(g) \in Block
    BY BlockOfType DEF Inv
  <2>2. /\ BlockOf(g).start + k \in Addr
        /\ BlockOf(g).start + k \notin f.start .. f.start + f.size - 1
    BY <1>4, <1>14, <2>1, ApartBytes
  <2>3. BlockOf(g).start + k \notin f.start .. f.start + b.size - 1
    BY <1>1, <1>2, <1>3, <1>4, <2>2 DEF b
  <2> QED BY <1>15, <2>2, <2>3
<1>17. Object(h) = Holds(mem, b) /\ Object(h)' = Holds(mem', d)
  BY <1>2, <1>11, <1>12, ObjectIs
<1>18. /\ Object(h) # NULL /\ Object(h)' \in Seq(Byte)
       /\ DOMAIN Object(h) = 1 .. b.size /\ DOMAIN Object(h)' = 1 .. d.size
       /\ \A k \in 1 .. b.size : Object(h)[k] = mem[b.start + k - 1]
       /\ \A k \in 1 .. d.size : Object(h)'[k] = mem'[d.start + k - 1]
  BY <1>2, <1>13, <1>17, HoldsType
<1>19. ASSUME NEW k \in DOMAIN Object(h) \cap DOMAIN Object(h)' PROVE Object(h)'[k] = Object(h)[k]
  <2>1. k \in 1 .. b.size /\ k \in 1 .. d.size
    BY <1>18
  <2>2. /\ k - 1 \in 0 .. b.size - 1
        /\ f.start + (k - 1) = f.start + k - 1 /\ b.start + (k - 1) = b.start + k - 1
    BY <1>2, <1>4, <2>1
  <2>3. mem'[f.start + k - 1] = mem[b.start + k - 1]
    BY <1>15, <2>2
  <2> QED BY <1>7, <1>18, <2>1, <2>3
<1> QED BY <1>16, <1>18, <1>19, StoreResize
\* Steps inside a call that leave the memory and the Pointers' blocks alone.
LEMMA StoreInsert ==
  ASSUME TypeInv, AddFreeInsert, NEW h \in Handles
  PROVE  Object(h)' = Object(h)
<1>1. /\ op' = IF op = "defrag" THEN "defrag" ELSE "none"
      /\ ptr' = IF op = "free" THEN [ptr EXCEPT ![cur] = -1] ELSE ptr
      /\ used' = IF op = "move" THEN [used EXCEPT ![ptr[cur]] = dest] ELSE used
      /\ mem' = mem /\ stale' = stale /\ blk # NULL
  BY DEF AddFreeInsert, Return
<1>2. /\ used \in [Slot -> BlockOrNull] /\ ptr \in [Handles -> Slot \cup {-1}]
      /\ op \in {"free", "shrink", "move", "defrag"}
  BY <1>1 DEF TypeInv, TypeOK, CallState, Ops
<1>3. CASE op = "free"
  <2>1. cur \in Handles /\ used[ptr[cur]] = NULL
    BY <1>3 DEF TypeInv, CallState
  <2>2. Live(h)' <=> Live(h) /\ h # cur
    BY <1>1, <1>2, <1>3, <2>1 DEF Live
  <2>3. BlockOf(h)' = BlockOf(h)
    BY <1>1, <1>2, <1>3, <2>1, <2>2 DEF BlockOf
  <2> QED BY <1>1, <2>3, SameMem
<1>4. CASE op = "move"
  <2>1. cur \in Handles /\ Live(cur)
    BY <1>4 DEF TypeInv, CallState
  <2>2. Live(h)' <=> Live(h)
    BY <1>1, <1>4 DEF Live
  <2>3. ptr[cur] \in Slot /\ (Live(h) => ptr[h] \in Slot /\ (h # cur => ptr[h] # ptr[cur]))
    BY <2>1 DEF TypeInv, TypeOK, PointersValid, Live
  <2>4. BlockOf(h)' = BlockOf(h)
    BY <1>1, <1>2, <1>4, <2>1, <2>2, <2>3 DEF BlockOf
  <2> QED BY <1>1, <2>4, SameMem
<1>5. CASE op \in {"shrink", "defrag"}
  <2>1. Live(h)' <=> Live(h)
    BY <1>1, <1>5 DEF Live
  <2>2. BlockOf(h)' = BlockOf(h)
    BY <1>1, <1>5, <2>1 DEF BlockOf
  <2> QED BY <1>1, <2>2, SameMem
<1> QED BY <1>2, <1>3, <1>4, <1>5

LEMMA StoreTableFull ==
  ASSUME TypeInv, AddFreeTableFull
  PROVE  Store!Next \/ UNCHANGED [h \in Handles |-> Object(h)]
<1>1. /\ blk # NULL /\ op' = "none"
      /\ stale' = IF op \in {"free", "move"} THEN stale \cup {cur} ELSE stale
      /\ UNCHANGED <<used, mem, ptr>>
  BY DEF AddFreeTableFull
<1>2. op \in {"free", "shrink", "move", "defrag"} /\ mem \in [Addr -> Byte]
  BY <1>1 DEF TypeInv, TypeOK, CallState, Ops
<1>3. ASSUME NEW g \in Handles, ~ (op = "move" /\ g = cur) PROVE Object(g)' = Object(g)
  <2>1. op = "free" => used[ptr[cur]] = NULL
    BY DEF TypeInv, CallState
  <2>2. Live(g)' <=> Live(g) /\ ~ (op \in {"free", "move"} /\ g = cur)
    BY <1>1 DEF Live
  <2>3. BlockOf(g)' = BlockOf(g)
    BY <1>1, <1>3, <2>1, <2>2 DEF BlockOf
  <2> QED BY <1>1, <2>3, SameMem
<1>4. CASE op # "move"
  BY <1>3, <1>4, NothingChanges
<1>5. CASE op = "move"
  <2>1. cur \in Handles /\ Live(cur) /\ dest # NULL
    BY <1>5 DEF TypeInv, CallState
  <2>2. BlockOf(cur) = dest
    BY <1>5, <2>1 DEF BlockOf
  <2>3. Object(cur) # NULL
    BY <1>2, <2>1, <2>2, BlockOfType, ObjectIs, HoldsType
  <2>4. PICK c \in Handles : c = cur
    BY <2>1
  <2>5. c \in stale'
    BY <1>1, <1>5, <2>4
  <2>6. Object(c)' = NULL
    BY <2>5, ObjectIs DEF BlockOf, Live
  <2>7. Object(c) # NULL /\ \A g \in Handles : g # c => Object(g)' = Object(g)
    BY <1>3, <2>3, <2>4
  <2> QED BY <2>6, <2>7, StoreDestroy
<1> QED BY <1>4, <1>5

LEMMA StoreShift ==
  ASSUME Inv, DefragShift, NEW h \in Handles
  PROVE  Object(h)' = Object(h)
<1> PICK i \in Slot, j \in Slot :
      /\ Closest(i)
      /\ First(j, Before(used[i].start))
      /\ LET b == Memblock(free[j].start, used[i].size)
         IN  /\ mem' = Copied(used[i].start, b.start, b.size)
             /\ used' = [used EXCEPT ![i] = b]
             /\ free' = [free EXCEPT ![j] = NULL]
             /\ blk' = Memblock(End(b) + 1, free[j].size)
  BY DEF DefragShift
<1> DEFINE u == used[i]
           f == free[j]
           b == Memblock(f.start, u.size)
<1>1. /\ op = "defrag" /\ blk = NULL
      /\ UNCHANGED <<ptr, stale, op, cur, dest, result>>
  BY DEF DefragShift
<1>2. i \in Busy(used) /\ j \in Busy(free) /\ End(f) = u.start - 1
  BY DEF Closest, First, Movable, Before
<1>3. /\ u # NULL /\ u \in Block /\ u.start \in Nat /\ u.size \in Nat
      /\ u.start + u.size <= BufSize
      /\ used \in [Slot -> BlockOrNull] /\ mem \in [Addr -> Byte]
  BY <1>2, BusyUsed, BlockFacts DEF Inv, TypeInv, TypeOK
<1>4. f \in Block /\ f.start \in Nat /\ f.size \in Nat /\ f.start + f.size = u.start
  <2>1. f \in Block /\ f.start \in Nat /\ f.size \in Nat
    BY <1>2, BusyFree, BlockFacts DEF Inv, TypeInv
  <2> QED BY <1>2, <1>3, <2>1 DEF End
<1>5. b.start = f.start /\ b.size = u.size
  BY DEF Memblock
<1>6. b \in Block
  <2>1. f.start + u.size <= BufSize
    BY <1>3, <1>4, SizeAssumption
  <2> QED BY <1>3, <1>4, <2>1, MemblockType
<1>7. used' = [used EXCEPT ![i] = b] /\ mem' = Copied(u.start, f.start, u.size)
  BY <1>5
<1>8. b # NULL
  BY <1>6, NullAssumption
<1>9. \A k \in Busy(used) : k # i => Apart(f, used[k]) /\ Apart(u, used[k]) /\ used[k] \in Block
  BY <1>2, BusyUsed, BlockFacts, ApartSymmetric DEF Inv, TypeInv, NoOverlap, UsedApart, UsedFreeApart
<1>10. ASSUME NEW k \in Busy(used), k # i PROVE Apart(used[k], b)
  <2> DEFINE x == used[k]
  <2>1. x \in Block /\ Apart(f, x) /\ Apart(u, x)
    BY <1>9, <1>10
  <2> HIDE DEF x, b, f, u
  <2>2. b.start + b.size <= u.start + u.size
    BY <1>3, <1>4, <1>5
  <2>3. Apart(b, x)
    BY <1>3, <1>4, <1>5, <1>6, <2>1, <2>2, ApartJoin
  <2> QED BY <2>3, ApartSymmetric DEF x
<1>11. Live(h)' <=> Live(h)
  BY <1>1 DEF Live
<1>12. BlockOf(h) = (IF Live(h) THEN used[ptr[h]] ELSE NULL)
       /\ BlockOf(h)' = IF Live(h) THEN used'[ptr[h]] ELSE NULL
  BY <1>1, <1>11 DEF BlockOf
<1> HIDE DEF b, f, u
<1>13. /\ \A k \in 0 .. u.size - 1 : mem'[f.start + k] = mem[u.start + k]
       /\ \A a \in Addr : a \notin f.start .. f.start + u.size - 1 => mem'[a] = mem[a]
  <2>1. f.start + u.size <= BufSize /\ f.start <= u.start
    BY <1>3, <1>4, SizeAssumption
  <2>2. u.start \in Nat /\ f.start \in Nat /\ u.size \in Nat
    BY <1>3, <1>4
  <2>3. mem' = Copied(u.start, f.start, u.size)
    BY <1>7
  <2>4. /\ \A k \in 0 .. u.size - 1 : Copied(u.start, f.start, u.size)[f.start + k] = mem[u.start + k]
        /\ \A a \in Addr : a \notin f.start .. f.start + u.size - 1
                            => Copied(u.start, f.start, u.size)[a] = mem[a]
    BY <2>1, <2>2, CopiedBytes
  <2> QED BY <2>3, <2>4
<1>14. CASE ~ Live(h)
  BY <1>12, <1>14, ObjectIs
<1>15. CASE Live(h) /\ ptr[h] = i
  <2>1. BlockOf(h) = u /\ BlockOf(h)' = b
    BY <1>3, <1>7, <1>12, <1>15 DEF u
  <2>2. Object(h) = Holds(mem, u) /\ Object(h)' = Holds(mem', b)
    BY <1>3, <1>8, <2>1, ObjectIs
  <2>3. \A k \in 0 .. u.size - 1 : mem'[b.start + k] = mem[u.start + k]
    BY <1>5, <1>13
  <2>4. u.size = b.size
    BY <1>5
  <2>5. u \in Block /\ b \in Block
    BY <1>3, <1>6
  <2>6. Holds(mem', b) = Holds(mem, u)
    BY ONLY <2>3, <2>4, <2>5, HoldsSame
  <2> QED BY <2>2, <2>6
<1>16. CASE Live(h) /\ ptr[h] # i
  <2>1. ptr[h] \in Slot
    BY <1>16 DEF Live, Inv, TypeInv, TypeOK
  <2>2. BlockOf(h)' = BlockOf(h) /\ BlockOf(h) = used[ptr[h]]
    BY <1>3, <1>7, <1>12, <1>16, <2>1
  <2> SUFFICES ASSUME BlockOf(h) # NULL, NEW k \in 0 .. BlockOf(h).size - 1
               PROVE  mem'[BlockOf(h).start + k] = mem[BlockOf(h).start + k]
    BY <2>2, SameObject DEF Inv
  <2>3. Apart(BlockOf(h), b) /\ BlockOf(h) \in Block
    BY <1>10, <1>16, <2>1, <2>2, BlockOfType DEF Busy, Inv
  <2>4. /\ BlockOf(h).start + k \in Addr
        /\ BlockOf(h).start + k \notin b.start .. b.start + b.size - 1
    BY <1>6, <2>3, ApartBytes
  <2> QED BY <1>5, <1>13, <2>4
<1> QED BY <1>14, <1>15, <1>16

LEMMA InitStore == Init => Store!Init
<1> SUFFICES ASSUME Init PROVE Store!Init
  OBVIOUS
<1>1. \A h \in Handles : Object(h) = NULL
  BY DEF Init, Object, BlockOf, Live
<1> QED BY <1>1 DEF Store!Init

LEMMA NextStore ==
  Inv /\ Inv' /\ [Next]_vars => [Store!Next]_([h \in Handles |-> Object(h)])
<1> DEFINE Same == UNCHANGED [h \in Handles |-> Object(h)]
<1> SUFFICES ASSUME Inv, Inv', [Next]_vars PROVE Store!Next \/ Same
  OBVIOUS
<1>1. ASSUME UNCHANGED <<used, mem, ptr, stale, cur, dest>>,
             op' = op \/ {op, op'} \subseteq {"none", "defrag"}
      PROVE  Same
  <2>1. \A h \in Handles : Live(h)' <=> Live(h)
    BY <1>1 DEF Live
  <2>2. \A h \in Handles : BlockOf(h)' = BlockOf(h)
    BY <1>1, <2>1 DEF BlockOf
  <2>3. \A h \in Handles : Object(h)' = Object(h)
    BY <1>1, <2>2, SameMem DEF Inv
  <2> QED BY <2>3, NothingChanges
<1>2. ASSUME NEW h \in Handles, NEW n \in Sizes, Alloc(h, n) PROVE Store!Next \/ Same
  <2>1. CASE AllocBlock(h, n)
    BY <2>1, StoreAlloc DEF Inv
  <2>2. CASE AllocTableFull(h, n)
    BY <2>2, <1>1 DEF AllocTableFull, call
  <2>3. CASE AllocNoMemory(h, n)
    BY <2>3, <1>1 DEF AllocNoMemory, call
  <2> QED BY <1>2, <2>1, <2>2, <2>3 DEF Alloc
<1>3. ASSUME NEW h \in Handles, NEW n \in Sizes, Realloc(h, n) PROVE Store!Next \/ Same
  <2>1. CASE ReallocShrink(h, n)
    BY <2>1, StoreShrink DEF Inv
  <2>2. CASE ReallocGrow(h, n)
    BY <2>2, StoreGrow DEF Inv
  <2>3. CASE ReallocMove(h, n)
    BY <2>3, StoreMove DEF Inv
  <2>4. CASE ReallocSame(h, n)
    BY <2>4, <1>1 DEF ReallocSame, call
  <2>5. CASE ReallocNoMemory(h, n)
    BY <2>5, <1>1 DEF ReallocNoMemory, call
  <2> QED BY <1>3, <2>1, <2>2, <2>3, <2>4, <2>5 DEF Realloc
<1>4. ASSUME NEW h \in Handles, Free(h) PROVE Store!Next
  BY <1>4, StoreFree DEF Inv
<1>5. ASSUME NEW h \in Handles, NEW k \in Addr, NEW v \in Byte, Write(h, k, v) PROVE Store!Next
  BY <1>5, StoreStore
<1>6. CASE AddFreeMerge \/ Defrag \/ DefragDone \/ UNCHANGED vars
  BY <1>1, <1>6 DEF AddFreeMerge, Defrag, DefragDone, Idle, vars, call
<1>7. CASE AddFreeInsert
  BY <1>7, StoreInsert, NothingChanges DEF Inv
<1>8. CASE AddFreeTableFull
  BY <1>8, StoreTableFull DEF Inv
<1>9. CASE DefragShift
  BY <1>9, StoreShift, NothingChanges
<1> QED BY <1>2, <1>3, <1>4, <1>5, <1>6, <1>7, <1>8, <1>9 DEF Next, Client, InCall

\* The allocator implements the object store: whatever alloc(), realloc(), free() and
\* defrag() do to the blocks, an object changes by its own client's calls only, and
\* realloc() keeps the bytes of the common prefix, for every buffer and every table.
THEOREM ObjectsSurvive == Spec => ImplementsStore
<1>1. Init => Store!Init
  BY InitStore
<1>2. Inv /\ Inv' /\ [Next]_vars => [Store!Next]_([h \in Handles |-> Object(h)])
  BY NextStore
<1> QED
  BY <1>1, <1>2, InvAlways, PTL DEF Spec, ImplementsStore, Store!Spec
=============================================================================
