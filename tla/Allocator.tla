------------------------------ MODULE Allocator ------------------------------
(***************************************************************************)
(* The memory allocator of p1 (allocator.h, allocator.cpp): a buffer of    *)
(* BufSize bytes cut into blocks, two tables of MaxPtrs block descriptors  *)
(* (used and free), and the client's Pointer objects, which name a used    *)
(* block by its table index so that defrag() can move it.                  *)
(*                                                                         *)
(* Addresses are offsets from `base'.  alloc() and the branches of         *)
(* realloc() that do not free anything are one step each.  A call that     *)
(* runs add_block_free() -- free(), two branches of realloc(), every turn  *)
(* of defrag() -- takes one step per recursive call of add_block_free():   *)
(* `op' names the caller, `blk' the argument, and no other call starts     *)
(* until op is "none" again (the program has one thread).                  *)
(***************************************************************************)
EXTENDS Integers

CONSTANTS
  BufSize,   \* bytes in the buffer given to the constructor
  MaxPtrs,   \* max_ptrs: entries of each descriptor table
  Handles,   \* the client's Pointer variables
  Sizes,     \* the sizes the client asks for
  Byte,      \* the values of a byte of the buffer
  NULL       \* a null Memblock*, and "no Pointer"

Addr  == 0 .. BufSize - 1
Slot  == 0 .. MaxPtrs - 1
\* A Memblock; its `end' is End(b) below.  Every block lies in the buffer.
Block == {b \in [start : 0 .. BufSize, size : 0 .. BufSize] :
            b.start + b.size <= BufSize}

ASSUME SizeAssumption == BufSize \in Nat \ {0} /\ MaxPtrs \in Nat \ {0}
ASSUME RequestAssumption == Sizes \subseteq Nat
ASSUME ByteAssumption == Byte # {}
ASSUME NullAssumption == NULL \notin Handles /\ NULL \notin Block

VARIABLES
  used,    \* blocks_used: slot -> block or NULL
  free,    \* blocks_free: slot -> block or NULL
  mem,     \* the bytes of the buffer
  ptr,     \* Pointer.id of each client Pointer, -1 when it is null
  stale,   \* Pointers whose free() or realloc() ended in an exception
  op,      \* the call in progress that runs add_block_free()
  cur,     \* the Pointer argument of that call
  blk,     \* the `block' argument of add_block_free(), NULL when not running
  dest,    \* realloc(): the new block, stored in used when the call returns
  result   \* how the last call ended

call == <<op, cur, blk, dest>>
vars == <<used, free, mem, ptr, stale, call, result>>

-----------------------------------------------------------------------------
(* Memblock *)

End(b)           == b.start + b.size - 1
Memblock(s, n)   == [start |-> s, size |-> n]
ShiftStart(b, s) == [start |-> s, size |-> End(b) - s + 1]

\* Mutation: the size of a block cut by shift_end() is one too small.
ShiftEndShort(b, e) == [start |-> b.start, size |-> e - b.start]
ShiftEnd(b, e)   == [start |-> b.start, size |-> e - b.start + 1]

(* The scans of the tables: the lowest slot that satisfies the condition. *)

First(i, S)  == i \in S /\ \A j \in S : i <= j
Empty(table) == {i \in Slot : table[i] = NULL}
Busy(table)  == {i \in Slot : table[i] # NULL}
Fitting(n)   == {i \in Busy(free) : free[i].size >= n}
Before(s)    == {i \in Busy(free) : End(free[i]) = s - 1}
After(e)     == {i \in Busy(free) : free[i].start = e + 1}

(* The loops that copy n bytes, lowest address first.  When the target     *)
(* starts inside the source, the loop reads bytes it has written itself,   *)
(* and repeats the first to - from of them.                                *)

\* Mutation: the last byte is not copied.
CopiedShort(from, to, n) ==
  [a \in Addr |-> IF a \in to .. to + n - 2 THEN mem[from + (a - to)] ELSE mem[a]]
Copied(from, to, n) ==
  LET Origin(k) == IF to > from THEN k % (to - from) ELSE k
  IN  [a \in Addr |->
         IF a \in to .. to + n - 1 THEN mem[from + Origin(a - to)] ELSE mem[a]]

-----------------------------------------------------------------------------
(* The client: which calls it may make.                                    *)

Idle == op = "none"

\* free() and realloc() dereference blocks_used[id].
Live(h) == h \notin stale /\ ptr[h] # -1

\* A client assigns the Pointer that alloc() returns to a Pointer it does not
\* use any more; realloc() of a null Pointer is the same call.
Reusable(h) == h \in stale \/ ptr[h] = -1

Init ==
  /\ used = [i \in Slot |-> NULL]
  /\ free = [i \in Slot |-> IF i = 0 THEN Memblock(0, BufSize) ELSE NULL]
  /\ mem \in [Addr -> Byte]
  /\ ptr = [h \in Handles |-> -1]
  /\ stale = {}
  /\ op = "none" /\ cur = NULL /\ blk = NULL /\ dest = NULL
  /\ result = "ok"

\* The client stores v in the k-th byte of its block.
Write(h, k, v) ==
  /\ Idle /\ Live(h)
  /\ k \in 0 .. used[ptr[h]].size - 1
  /\ mem' = [mem EXCEPT ![used[ptr[h]].start + k] = v]
  /\ UNCHANGED <<used, free, ptr, stale, call, result>>

-----------------------------------------------------------------------------
(* alloc(), and realloc() of a null Pointer                                *)

\* Mutation: the whole free block is removed, whatever the size taken.
TakeFromAll(i, n) == free' = [free EXCEPT ![i] = NULL]

\* Mutation: the cut leaves the last byte taken in the free block.
TakeFromLate(i, n) ==
  free' = [free EXCEPT ![i] =
             IF @.size = n THEN NULL ELSE ShiftStart(@, @.start + n - 1)]

\* The first n bytes of free block i leave the free table.
TakeFrom(i, n) ==
  free' = [free EXCEPT ![i] =
             IF @.size = n THEN NULL ELSE ShiftStart(@, @.start + n)]

AllocBlock(h, n) ==
  /\ Idle /\ Reusable(h)
  /\ \E i, k \in Slot :
       /\ First(i, Fitting(n))
       /\ TakeFrom(i, n)
       /\ First(k, Empty(used))
       /\ used' = [used EXCEPT ![k] = Memblock(free[i].start, n)]
       /\ ptr' = [ptr EXCEPT ![h] = k]
  /\ stale' = stale \ {h}
  /\ result' = "ok"
  /\ UNCHANGED <<mem, call>>

\* add_block_used() throws after the free block has been cut.
AllocTableFull(h, n) ==
  /\ Idle /\ Reusable(h)
  /\ Empty(used) = {}
  /\ \E i \in Slot : First(i, Fitting(n)) /\ TakeFrom(i, n)
  /\ result' = "MaxPointers"
  /\ UNCHANGED <<used, mem, ptr, stale, call>>

AllocNoMemory(h, n) ==
  /\ Idle /\ Reusable(h)
  /\ Fitting(n) = {}
  /\ result' = "NoMemory"
  /\ UNCHANGED <<used, free, mem, ptr, stale, call>>

-----------------------------------------------------------------------------
(* free() and realloc() up to their call of add_block_free()               *)

\* Caller c, working on Pointer h, calls add_block_free(b); d is what is left
\* for the caller to store in blocks_used.
AddFree(c, h, b, d) == op' = c /\ cur' = h /\ blk' = b /\ dest' = d

Free(h) ==
  /\ Idle /\ Live(h)
  /\ used' = [used EXCEPT ![ptr[h]] = NULL]
  /\ AddFree("free", h, used[ptr[h]], NULL)
  /\ result' = "ok"
  /\ UNCHANGED <<free, mem, ptr, stale>>

ReallocSame(h, n) ==
  /\ Idle /\ Live(h)
  /\ used[ptr[h]].size = n
  /\ result' = "ok"
  /\ UNCHANGED <<used, free, mem, ptr, stale, call>>

ReallocShrink(h, n) ==
  /\ Idle /\ Live(h)
  /\ LET b     == used[ptr[h]]
         delta == b.size - n
     IN  /\ b.size > n
         /\ used' = [used EXCEPT ![ptr[h]] = ShiftEnd(b, End(b) - delta)]
         /\ AddFree("shrink", h, Memblock(End(b) - delta + 1, delta), NULL)
  /\ result' = "ok"
  /\ UNCHANGED <<free, mem, ptr, stale>>

\* Mutation: the size of the next free block is not looked at.
GrowsIntoAny(j, h, n) == First(j, After(End(used[ptr[h]])))

\* Free block j starts right after the block and has the bytes that lack.
GrowsInto(j, h, n) ==
  LET b == used[ptr[h]]
  IN  First(j, After(End(b))) /\ free[j].size >= n - b.size

ReallocGrow(h, n) ==
  /\ Idle /\ Live(h)
  /\ LET b     == used[ptr[h]]
         delta == n - b.size
     IN  /\ b.size < n
         /\ \E j \in Slot : GrowsInto(j, h, n) /\ TakeFrom(j, delta)
         /\ used' = [used EXCEPT ![ptr[h]] = ShiftEnd(b, End(b) + delta)]
  /\ result' = "ok"
  /\ UNCHANGED <<mem, ptr, stale, call>>

ReallocMove(h, n) ==
  /\ Idle /\ Live(h)
  /\ LET b == used[ptr[h]]
     IN  /\ b.size < n
         /\ \A j \in Slot : ~GrowsInto(j, h, n)
         /\ \E j \in Slot :
              /\ First(j, Fitting(n))
              /\ mem' = Copied(b.start, free[j].start, b.size)
              /\ TakeFrom(j, n)
              /\ AddFree("move", h, b, Memblock(free[j].start, n))
         /\ used' = [used EXCEPT ![ptr[h]] = NULL]
  /\ result' = "ok"
  /\ UNCHANGED <<ptr, stale>>

ReallocNoMemory(h, n) ==
  /\ Idle /\ Live(h)
  /\ used[ptr[h]].size < n
  /\ \A j \in Slot : ~GrowsInto(j, h, n)
  /\ Fitting(n) = {}
  /\ result' = "NoMemory"
  /\ UNCHANGED <<used, free, mem, ptr, stale, call>>

-----------------------------------------------------------------------------
(* add_block_free()                                                        *)

\* Mutation: free blocks that follow are not merged.
AdjacentBefore(b) == Before(b.start)
Adjacent(b) == Before(b.start) \cup After(End(b))

\* The first free block next to blk is absorbed and the function calls itself.
AddFreeMerge ==
  /\ blk # NULL
  /\ \E j \in Slot :
       /\ First(j, Adjacent(blk))
       /\ blk' = IF j \in Before(blk.start) THEN ShiftStart(blk, free[j].start)
                                            ELSE ShiftEnd(blk, End(free[j]))
       /\ free' = [free EXCEPT ![j] = NULL]
  /\ UNCHANGED <<used, mem, ptr, stale, op, cur, dest, result>>

\* Mutation: free() does not null the Pointer.
ReturnKeepsPointer ==
  /\ op' = IF op = "defrag" THEN "defrag" ELSE "none"
  /\ cur' = NULL /\ blk' = NULL /\ dest' = NULL
  /\ ptr' = ptr
  /\ used' = IF op = "move" THEN [used EXCEPT ![ptr[cur]] = dest] ELSE used

\* Mutation: defrag() does not call itself again.
ReturnOnce ==
  /\ op' = "none"
  /\ cur' = NULL /\ blk' = NULL /\ dest' = NULL
  /\ ptr' = IF op = "free" THEN [ptr EXCEPT ![cur] = -1] ELSE ptr
  /\ used' = IF op = "move" THEN [used EXCEPT ![ptr[cur]] = dest] ELSE used

\* What the caller still does when add_block_free() returns: free() nulls the
\* Pointer, realloc() stores the new block, defrag() calls itself again.
Return ==
  /\ op' = IF op = "defrag" THEN "defrag" ELSE "none"
  /\ cur' = NULL /\ blk' = NULL /\ dest' = NULL
  /\ ptr' = IF op = "free" THEN [ptr EXCEPT ![cur] = -1] ELSE ptr
  /\ used' = IF op = "move" THEN [used EXCEPT ![ptr[cur]] = dest] ELSE used

AddFreeInsert ==
  /\ blk # NULL /\ Adjacent(blk) = {}
  /\ \E i \in Slot : First(i, Empty(free)) /\ free' = [free EXCEPT ![i] = blk]
  /\ Return
  /\ UNCHANGED <<mem, stale, result>>

\* The exception leaves the caller where it stands: what add_block_free() was
\* to record, and the new block of realloc(), are in neither table any more.
AddFreeTableFull ==
  /\ blk # NULL /\ Adjacent(blk) = {}
  /\ Empty(free) = {}
  /\ op' = "none" /\ cur' = NULL /\ blk' = NULL /\ dest' = NULL
  /\ stale' = IF op \in {"free", "move"} THEN stale \cup {cur} ELSE stale
  /\ result' = "MaxPointers"
  /\ UNCHANGED <<used, free, mem, ptr>>

-----------------------------------------------------------------------------
(* defrag()                                                                *)

\* The used blocks that a free block precedes, and the one defrag() takes:
\* lowest start, then lowest slot.
Movable      == {i \in Busy(used) : Before(used[i].start) # {}}
Closest(i)   == First(i, {k \in Movable :
                            \A l \in Movable : used[k].start <= used[l].start})

Defrag ==
  /\ Idle
  /\ op' = "defrag"
  /\ result' = "ok"
  /\ UNCHANGED <<used, free, mem, ptr, stale, cur, blk, dest>>

\* Mutation: the block is not moved, its free bytes are put back in front.
DefragStays ==
  /\ op = "defrag" /\ blk = NULL
  /\ \E i, j \in Slot :
       /\ Closest(i)
       /\ First(j, Before(used[i].start))
       /\ free' = [free EXCEPT ![j] = NULL]
       /\ blk' = free[j]
  /\ UNCHANGED <<used, mem, ptr, stale, op, cur, dest, result>>

\* shift_block_used(), del_block_free() and the call of add_block_free() with
\* the free bytes, which now follow the block.
DefragShift ==
  /\ op = "defrag" /\ blk = NULL
  /\ \E i, j \in Slot :
       /\ Closest(i)
       /\ First(j, Before(used[i].start))
       /\ LET b == Memblock(free[j].start, used[i].size)
          IN  /\ mem' = Copied(used[i].start, b.start, b.size)
              /\ used' = [used EXCEPT ![i] = b]
              /\ free' = [free EXCEPT ![j] = NULL]
              /\ blk' = Memblock(End(b) + 1, free[j].size)
  /\ UNCHANGED <<ptr, stale, op, cur, dest, result>>

DefragDone ==
  /\ op = "defrag" /\ blk = NULL
  /\ Movable = {}
  /\ op' = "none"
  /\ UNCHANGED <<used, free, mem, ptr, stale, cur, blk, dest, result>>

-----------------------------------------------------------------------------

Realloc(h, n) ==
  \/ ReallocSame(h, n)
  \/ ReallocShrink(h, n)
  \/ ReallocGrow(h, n)
  \/ ReallocMove(h, n)
  \/ ReallocNoMemory(h, n)

Alloc(h, n) ==
  \/ AllocBlock(h, n)
  \/ AllocTableFull(h, n)
  \/ AllocNoMemory(h, n)

Client ==
  \/ \E h \in Handles, n \in Sizes : Alloc(h, n) \/ Realloc(h, n)
  \/ \E h \in Handles : Free(h)
  \/ \E h \in Handles, k \in Addr, v \in Byte : Write(h, k, v)
  \/ Defrag

InCall ==
  \/ AddFreeMerge
  \/ AddFreeInsert
  \/ AddFreeTableFull
  \/ DefragShift
  \/ DefragDone

Next == Client \/ InCall

Spec == Init /\ [][Next]_vars

\* The thread does not stop in the middle of a call.
FairSpec == Spec /\ WF_vars(InCall)

-----------------------------------------------------------------------------
(* Properties *)

BlockOrNull == Block \cup {NULL}
Ops == {"none", "free", "shrink", "move", "defrag"}

\* Every block lies in the buffer whatever the shift_start()/shift_end() calls
\* that made it, and every Pointer names a slot or none.
TypeOK ==
  /\ used \in [Slot -> BlockOrNull]
  /\ free \in [Slot -> BlockOrNull]
  /\ mem \in [Addr -> Byte]
  /\ ptr \in [Handles -> Slot \cup {-1}]
  /\ stale \in SUBSET Handles
  /\ op \in Ops
  /\ cur \in Handles \cup {NULL}
  /\ blk \in BlockOrNull
  /\ dest \in BlockOrNull
  /\ result \in {"ok", "NoMemory", "MaxPointers"}

Apart(a, b) == a.size = 0 \/ b.size = 0 \/ End(a) < b.start \/ End(b) < a.start

UsedApart == \A i, j \in Busy(used) : i # j => Apart(used[i], used[j])
FreeApart == \A i, j \in Busy(free) : i # j => Apart(free[i], free[j])
UsedFreeApart == \A i \in Busy(used), j \in Busy(free) : Apart(used[i], free[j])

\* b is a block that no table holds while a call is in progress.
AwayFromTables(b) ==
  b # NULL => /\ \A i \in Busy(used) : Apart(b, used[i])
              /\ \A j \in Busy(free) : Apart(b, free[j])

\* No byte belongs to two blocks: two objects of the client never share memory,
\* the allocator never hands out again what is in use, and a block that
\* realloc() or defrag() holds outside the tables is nobody else's either.
NoOverlap ==
  /\ UsedApart
  /\ FreeApart
  /\ UsedFreeApart
  /\ AwayFromTables(blk)
  /\ AwayFromTables(dest)
  /\ blk # NULL /\ dest # NULL => Apart(blk, dest)

\* The Pointers through which the client may reach memory, in the middle of a
\* call too: free() and realloc() have emptied the slot of their argument.
Usable(h) == Live(h) /\ ~(op \in {"free", "move"} /\ h = cur)

\* Every Pointer that no exception has left behind names a block of its own,
\* and every used block is named: defrag() moves blocks under the Pointers,
\* realloc() empties a slot and fills it again, free() lets alloc() reuse it.
PointersValid ==
  /\ \A h \in Handles : Usable(h) => used[ptr[h]] # NULL
  /\ \A g, h \in Handles : Live(g) /\ Live(h) /\ ptr[g] = ptr[h] => g = h
  /\ \A i \in Busy(used) : \E h \in Handles : Usable(h) /\ ptr[h] = i

Bytes(b)      == IF b = NULL THEN {} ELSE b.start .. End(b)
UsedBytes     == UNION {Bytes(used[i]) : i \in Slot}
FreeBytes     == UNION {Bytes(free[i]) : i \in Slot}
InFlightBytes == Bytes(blk) \cup Bytes(dest)
OwnedBytes    == UsedBytes \cup FreeBytes \cup InFlightBytes

\* No step of any call drops or invents a byte, but the exception "Maximum
\* pointers reached", which drops some: merging, splitting and moving blocks
\* keep the set of bytes the tables and the call in progress account for.
BytesKept ==
  [][\/ OwnedBytes' = OwnedBytes
     \/ result' = "MaxPointers" /\ OwnedBytes' \subseteq OwnedBytes]_vars

\* When the tables are large enough, no byte is ever lost.
NoLeak == OwnedBytes = Addr

\* Between calls, any run of bytes that no object uses can be allocated:
\* add_block_free() keeps the free bytes merged, so NoMemory is never an
\* artefact of how the free bytes are cut into blocks.
GapsServed ==
  Idle => \A s, e \in Addr :
            s <= e /\ (s .. e) \cap UsedBytes = {} => Fitting(e - s + 1) # {}

\* After defrag() one request can have all the free bytes there are
\* (allocator_test.cpp:205-215 asks for two thirds of them).
DefragMakesRoom ==
  [][op = "defrag" /\ op' = "none" /\ FreeBytes # {} =>
       \E j \in Busy(free)' : Bytes(free[j])' = FreeBytes']_vars

\* Every call returns: the recursions of add_block_free() and defrag() end.
CallReturns == ~Idle ~> Idle
=============================================================================
