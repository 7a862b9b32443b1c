----------------------------- MODULE ObjectStore -----------------------------
(***************************************************************************)
(* What the allocator of p1 promises its client: each Pointer names an     *)
(* object, a sequence of bytes that nothing changes but the client's own   *)
(* stores and its own free() and realloc(); realloc() keeps the bytes of   *)
(* the common prefix.  Where the object lies is not the client's business: *)
(* alloc(), realloc() and defrag() of other objects leave it alone.        *)
(***************************************************************************)
EXTENDS Integers, Sequences

CONSTANTS
  Handles,   \* the client's Pointer variables
  Byte,      \* the values of a byte
  NoObject   \* what a null Pointer names: no sequence of bytes

VARIABLE obj   \* Pointer -> its object

Init == obj = [h \in Handles |-> NoObject]

\* The bytes of a new object are whatever they were.
Create(h) ==
  /\ obj[h] = NoObject
  /\ obj'[h] \in Seq(Byte)
  /\ obj' = [obj EXCEPT ![h] = obj'[h]]

\* free(), or a call that ends in "Maximum pointers reached".
Destroy(h) ==
  /\ obj[h] # NoObject
  /\ obj' = [obj EXCEPT ![h] = NoObject]

Write(h, k, v) ==
  /\ obj[h] # NoObject
  /\ k \in DOMAIN obj[h]
  /\ obj' = [obj EXCEPT ![h] = [obj[h] EXCEPT ![k] = v]]

Resize(h) ==
  /\ obj[h] # NoObject
  /\ obj'[h] \in Seq(Byte)
  /\ obj' = [obj EXCEPT ![h] = obj'[h]]
  /\ \A k \in DOMAIN obj[h] \cap DOMAIN obj'[h] : obj'[h][k] = obj[h][k]

Next ==
  \E h \in Handles :
    \/ Create(h)
    \/ Destroy(h)
    \/ Resize(h)
    \/ obj[h] # NoObject /\ \E k \in DOMAIN obj[h], v \in Byte : Write(h, k, v)

Spec == Init /\ [][Next]_obj
=============================================================================
