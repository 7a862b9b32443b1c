---------------------------- MODULE AllocatorStore ----------------------------
(***************************************************************************)
(* The allocator of p1 implements ObjectStore: what Pointer.get() gives    *)
(* access to is the object, wherever defrag() and realloc() put it.        *)
(***************************************************************************)
EXTENDS Allocator, Sequences

ASSUME NoObjectAssumption == NULL \notin Seq(Byte)

Contents(b) == [k \in 1 .. b.size |-> mem[b.start + k - 1]]

\* The block the bytes of h are in.  While realloc() moves it, that is the new
\* block, which blocks_used does not hold yet.
BlockOf(h) ==
  IF ~Live(h) THEN NULL
  ELSE IF op = "move" /\ cur = h THEN dest
  ELSE used[ptr[h]]

Object(h) == IF BlockOf(h) = NULL THEN NULL ELSE Contents(BlockOf(h))

Store == INSTANCE ObjectStore WITH
           obj      <- [h \in Handles |-> Object(h)],
           NoObject <- NULL

\* An object changes by the calls its own Pointer is given and by nothing else:
\* no copy loop of realloc() or defrag() overwrites what it has not moved, and
\* realloc() keeps the common prefix (isDataOk() of allocator_test.cpp).
ImplementsStore == Store!Spec
=============================================================================
