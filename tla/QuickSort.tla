------------------------------ MODULE QuickSort ------------------------------
(***************************************************************************)
(* The parallel sort of p8 (sort.cpp): quick_sort() partitions a segment   *)
(* of one shared array around a pivot and sorts both parts, in tasks of    *)
(* their own when the segment is long enough, one after the other when it  *)
(* is not.                                                                 *)
(*                                                                         *)
(* The unit of execution is a call of quick_sort(); whichever calls are    *)
(* not waiting take steps in any order, which covers every number of       *)
(* threads and every way OpenMP schedules the tasks.  A step reads one     *)
(* cell, or exchanges two.                                                 *)
(*                                                                         *)
(* quick_sort(a, n) sorts a[0 .. n]: n is the index of the last element.   *)
(* main() passes the size of its array, so the cell behind the array takes *)
(* part; it is cell Size here, and it holds anything.                      *)
(***************************************************************************)
EXTENDS Integers

CONSTANTS
  Size,       \* argv[1]
  Value,      \* values of a cell
  Threshold   \* segments with n < Threshold are sorted by the same thread (100)

Cells == 0 .. Size

ASSUME SizeAssumption == Size \in Nat \ {0} /\ Threshold \in Nat
ASSUME ValueAssumption == Value \subseteq Int

VARIABLES
  a,      \* the array and the cell behind it
  calls   \* the calls that have not returned: number -> arguments and locals.
          \* main() makes call 1; those made by call k are 2k and 2k + 1.

vars == <<a, calls>>

(* A call: a - array (lo), n, i, j, pivot, and where it is.                *)

NewCall(lo, n) ==
  [lo |-> lo, n |-> n, i |-> 0, j |-> n, pivot |-> 0, pc |-> "start"]

Live == DOMAIN calls

Init ==
  /\ a \in [Cells -> Value]
  /\ calls = [k \in {1} |-> NewCall(0, Size)]

At(k, label) == calls[k].pc = label

-----------------------------------------------------------------------------
(* The partition                                                           *)

Pivot(c) == a[c.lo + c.n \div 2]

Start(k) ==
  /\ At(k, "start")
  /\ calls' = [calls EXCEPT ![k].pivot = Pivot(calls[k]), ![k].pc = "up"]
  /\ UNCHANGED a

\* Mutation: elements equal to the pivot are passed too.
ScanUpFar(k) ==
  /\ At(k, "up")
  /\ LET c == calls[k]
     IN  IF a[c.lo + c.i] <= c.pivot
           THEN calls' = [calls EXCEPT ![k].i = @ + 1]
           ELSE calls' = [calls EXCEPT ![k].pc = "down"]
  /\ UNCHANGED a

\* while (a[i] < pivot) i++
ScanUp(k) ==
  /\ At(k, "up")
  /\ LET c == calls[k]
     IN  IF a[c.lo + c.i] < c.pivot
           THEN calls' = [calls EXCEPT ![k].i = @ + 1]
           ELSE calls' = [calls EXCEPT ![k].pc = "down"]
  /\ UNCHANGED a

\* while (a[j] > pivot) j--
ScanDown(k) ==
  /\ At(k, "down")
  /\ LET c == calls[k]
     IN  IF a[c.lo + c.j] > c.pivot
           THEN calls' = [calls EXCEPT ![k].j = @ - 1]
           ELSE calls' = [calls EXCEPT ![k].pc = "swap"]
  /\ UNCHANGED a

\* Where the loop goes on with these i and j.
Turn(i, j) == IF i <= j THEN "up" ELSE "left"

\* Mutation: the scans stay where they are after an exchange.
SwapStays(k) ==
  /\ At(k, "swap")
  /\ LET c == calls[k]
         x == c.lo + c.i
         y == c.lo + c.j
     IN  IF c.i <= c.j
           THEN /\ a' = [a EXCEPT ![x] = a[y], ![y] = a[x]]
                /\ calls' = [calls EXCEPT ![k].pc = Turn(c.i, c.j)]
           ELSE /\ calls' = [calls EXCEPT ![k].pc = "left"]
                /\ UNCHANGED a

Swap(k) ==
  /\ At(k, "swap")
  /\ LET c == calls[k]
         x == c.lo + c.i
         y == c.lo + c.j
     IN  IF c.i <= c.j
           THEN /\ a' = [a EXCEPT ![x] = a[y], ![y] = a[x]]
                /\ calls' = [calls EXCEPT ![k] =
                     [c EXCEPT !.i = c.i + 1, !.j = c.j - 1, !.pc = Turn(c.i + 1, c.j - 1)]]
           ELSE /\ calls' = [calls EXCEPT ![k].pc = "left"]
                /\ UNCHANGED a

-----------------------------------------------------------------------------
(* The two parts                                                           *)

\* Mutation: a part of two cells is taken for sorted.
MakeLonger(k, label, m, lo, n) ==
  calls' = [h \in IF n > 1 THEN Live \cup {m} ELSE Live |->
              IF h = k THEN [calls[k] EXCEPT !.pc = label]
              ELSE IF h = m THEN NewCall(lo, n)
              ELSE calls[h]]

\* Call k goes on at `label', and call m is made unless its part is too short.
Make(k, label, m, lo, n) ==
  calls' = [h \in IF n > 0 THEN Live \cup {m} ELSE Live |->
              IF h = k THEN [calls[k] EXCEPT !.pc = label]
              ELSE IF h = m THEN NewCall(lo, n)
              ELSE calls[h]]

\* quick_sort(a, j), or a task that runs it
MakeLeft(k) ==
  /\ At(k, "left")
  /\ Make(k, "right", 2 * k, calls[k].lo, calls[k].j)
  /\ UNCHANGED a

\* Mutation: n is not reduced by i.
PartRightLong(c) == [lo |-> c.lo + c.i, n |-> c.n]
\* Mutation: the second part starts one cell early.
PartRightEarly(c) == [lo |-> c.lo + c.i - 1, n |-> c.n - c.i + 1]
PartRight(c) == [lo |-> c.lo + c.i, n |-> c.n - c.i]

\* quick_sort(a + i, n - i): the task does not wait for the first, the call does.
MakeRight(k) ==
  /\ At(k, "right")
  /\ calls[k].n < Threshold => 2 * k \notin Live
  /\ LET part == PartRight(calls[k])
     IN  Make(k, "wait", 2 * k + 1, part.lo, part.n)
  /\ UNCHANGED a

\* taskwait, or the return of the second call
Return(k) ==
  /\ At(k, "wait")
  /\ 2 * k \notin Live /\ 2 * k + 1 \notin Live
  /\ calls' = [h \in Live \ {k} |-> calls[h]]
  /\ UNCHANGED a

-----------------------------------------------------------------------------

QuickSort(k) ==
  \/ Start(k) \/ ScanUp(k) \/ ScanDown(k) \/ Swap(k)
  \/ MakeLeft(k) \/ MakeRight(k) \/ Return(k)

Next == \E k \in Live : QuickSort(k)

Spec == Init /\ [][Next]_vars

\* A thread of the team that is free runs a call that is not waiting.
FairSpec == Spec /\ WF_vars(Next)

-----------------------------------------------------------------------------
(* Properties *)

TypeOK ==
  /\ a \in [Cells -> Value]
  /\ Live \subseteq Nat \ {0}
  /\ \A k \in Live :
       /\ calls[k] \in [lo : Nat, n : Nat \ {0}, i : Int, j : Int, pivot : Int,
                        pc : {"start", "up", "down", "swap", "left", "right", "wait"}]
       /\ calls[k].lo + calls[k].n <= Size

\* The cells the next step of call c reads or writes.
Touched(c) ==
  CASE c.pc = "start" -> {c.lo + c.n \div 2}
    [] c.pc = "up"    -> {c.lo + c.i}
    [] c.pc = "down"  -> {c.lo + c.j}
    [] c.pc = "swap" /\ c.i <= c.j -> {c.lo + c.i, c.lo + c.j}
    [] OTHER -> {}

\* Neither scan leaves its segment, although nothing in the loops tests it: there
\* is always an element that stops them, in the first turn the pivot itself.
InBounds ==
  \A k \in Live : Touched(calls[k]) \subseteq calls[k].lo .. calls[k].lo + calls[k].n

\* No cell is touched by two calls at a time: the tasks need no lock.
NoRace ==
  \A k, m \in Live : k # m => Touched(calls[k]) \cap Touched(calls[m]) = {}

Array == INSTANCE Sorting WITH Last <- Size, done <- (Live = {})

\* Whatever the order of the tasks, values are exchanged only, and the call of
\* main() returns when the array is sorted, not before.
ImplementsSorting == Array!Spec

\* The sort ends: every turn of a partition moves a scan, every part is shorter.
Terminates == <>(Live = {})
=============================================================================
