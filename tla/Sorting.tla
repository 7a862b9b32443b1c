------------------------------- MODULE Sorting -------------------------------
(***************************************************************************)
(* What a sort in place promises: it exchanges cells of the array, so that *)
(* no value is lost or made up, and says it is done when the array is      *)
(* sorted, not before.                                                     *)
(***************************************************************************)
EXTENDS Integers

CONSTANTS
  Last,    \* the cells of the array are 0 .. Last
  Value    \* what a cell holds

VARIABLES a, done

Cells == 0 .. Last
Sorted(A) == \A x, y \in Cells : x <= y => A[x] <= A[y]

Init == a \in [Cells -> Value] /\ done = FALSE

Exchange(x, y) ==
  /\ ~done
  /\ a' = [a EXCEPT ![x] = a[y], ![y] = a[x]]
  /\ UNCHANGED done

Finish ==
  /\ ~done /\ Sorted(a)
  /\ done' = TRUE
  /\ UNCHANGED a

Next == (\E x, y \in Cells : Exchange(x, y)) \/ Finish

Spec == Init /\ [][Next]_<<a, done>>
=============================================================================
