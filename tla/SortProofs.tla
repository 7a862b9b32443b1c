------------------------------ MODULE SortProofs ------------------------------
(***************************************************************************)
(* What the parallel sort of p8 guarantees for arrays of every size, every *)
(* value of the cells and every order of the tasks: the scans stay in      *)
(* their segments, no two calls touch a cell at a time, and the call of    *)
(* main() returns when the array is sorted.                                *)
(***************************************************************************)
EXTENDS QuickSort, TLAPS

Label == {"start", "up", "down", "swap", "left", "right", "wait"}
Call  == [lo : Nat, n : Nat \ {0}, i : Int, j : Int, pivot : Int, pc : Label]

Scanning == {"up", "down", "swap"}
Parting  == {"left", "right", "wait"}

-----------------------------------------------------------------------------
(* One call c on the array A                                               *)

(* What the scans have passed is on the right side of the pivot.           *)
Passed(A, c) ==
  /\ \A x \in 0 .. c.i - 1 : A[c.lo + x] <= c.pivot
  /\ \A x \in c.j + 1 .. c.n : A[c.lo + x] >= c.pivot

(* Something stops each scan within the segment.                           *)
Stoppers(A, c) ==
  /\ c.pc = "up" => \E x \in c.i .. c.n : A[c.lo + x] >= c.pivot
  /\ c.pc \in {"up", "down"} => \E x \in 0 .. c.j : A[c.lo + x] <= c.pivot
  /\ c.pc \in {"down", "swap"} => c.i \in 0 .. c.n /\ A[c.lo + c.i] >= c.pivot
  /\ c.pc = "swap" => c.j \in 0 .. c.n /\ A[c.lo + c.j] <= c.pivot

(* Both parts will be shorter than the segment: in the first turn neither  *)
(* scan passes the pivot, and there is an exchange.                        *)
Begun(A, c) ==
  \/ c.i >= 1 /\ c.j <= c.n - 1
  \/ \E x \in c.i .. c.j : A[c.lo + x] = c.pivot

CallOK(A, c) ==
  /\ c.pc = "start" => c.i = 0 /\ c.j = c.n
  /\ c.pc \in Scanning => /\ c.i >= 0 /\ c.j <= c.n
                          /\ Passed(A, c) /\ Stoppers(A, c) /\ Begun(A, c)
  /\ c.pc \in Parting => /\ c.i \in 1 .. c.n + 1 /\ c.j \in -1 .. c.n - 1
                         /\ c.j < c.i /\ Passed(A, c)

SortedIn(A, x, y) == \A u, v \in x .. y : u <= v => A[u] <= A[v]

-----------------------------------------------------------------------------
(* The calls and their parts                                               *)

(* A part whose call has returned, or was not needed, is sorted.           *)
PartsSorted(k) ==
  LET c == calls[k]
  IN  /\ c.pc \in {"right", "wait"} /\ 2 * k \notin Live => SortedIn(a, c.lo, c.lo + c.j)
      /\ c.pc = "wait" /\ 2 * k + 1 \notin Live => SortedIn(a, c.lo + c.i, c.lo + c.n)

(* Calls 2k and 2k + 1 are those that call k has made for its parts.       *)
Kids(k) ==
  LET c == calls[k]
  IN  /\ 2 * k \in Live => /\ c.pc \in {"right", "wait"}
                           /\ calls[2 * k].lo = c.lo /\ calls[2 * k].n = c.j
      /\ 2 * k + 1 \in Live => /\ c.pc = "wait"
                               /\ calls[2 * k + 1].lo = c.lo + c.i
                               /\ calls[2 * k + 1].n = c.n - c.i

Parents == \A m \in Live : m = 1 \/ \E k \in Live : m = 2 * k \/ m = 2 * k + 1

Disjoint(c, d) == c.lo + c.n < d.lo \/ d.lo + d.n < c.lo
InLeft(c, d)   == c.lo <= d.lo /\ d.lo + d.n <= c.lo + c.j
InRight(c, d)  == c.lo + c.i <= d.lo /\ d.lo + d.n <= c.lo + c.n

(* Call m works in a part of call k that is not finished.                  *)
Above(k, m) ==
  \/ 2 * k \in Live /\ InLeft(calls[k], calls[m])
  \/ 2 * k + 1 \in Live /\ InRight(calls[k], calls[m])

Apart ==
  \A k, m \in Live :
    k # m => Disjoint(calls[k], calls[m]) \/ Above(k, m) \/ Above(m, k)

(* The call of main() is the last to return.                               *)
Root ==
  IF 1 \in Live THEN calls[1].lo = 0 /\ calls[1].n = Size
  ELSE Live = {} /\ SortedIn(a, 0, Size)

IInv ==
  /\ TypeOK
  /\ \A k \in Live : CallOK(a, calls[k]) /\ PartsSorted(k) /\ Kids(k)
  /\ Parents /\ Apart /\ Root

-----------------------------------------------------------------------------
(* Facts about one call                                                    *)

LEMMA CallTypes ==
  ASSUME TypeOK, NEW k \in Live
  PROVE  /\ k \in Nat \ {0} /\ calls[k] \in Call
         /\ calls[k].lo \in Nat /\ calls[k].n \in Nat \ {0}
         /\ calls[k].i \in Int /\ calls[k].j \in Int /\ calls[k].pivot \in Int
         /\ calls[k].lo + calls[k].n <= Size
  BY DEF TypeOK, Call, Label

LEMMA CellTypes ==
  ASSUME TypeOK
  PROVE  /\ a \in [Cells -> Value] /\ Size \in Nat \ {0}
         /\ \A x \in Cells : a[x] \in Int
  BY SizeAssumption, ValueAssumption DEF TypeOK

(* The indices of a call stay near its segment.                            *)
LEMMA Indices ==
  ASSUME NEW A, NEW c \in Call, CallOK(A, c)
  PROVE  /\ c.pc \in {"up", "down", "swap"} => c.i \in 0 .. c.n /\ c.j \in 0 .. c.n
         /\ c.i \in 0 .. c.n + 1 /\ c.j \in -1 .. c.n
<1>1. c.n \in Nat \ {0} /\ c.i \in Int /\ c.j \in Int /\ c.pc \in Label
  BY DEF Call
<1>2. CASE c.pc = "start"
  BY <1>1, <1>2 DEF CallOK
<1>3. CASE c.pc \in Scanning
  BY <1>1, <1>3 DEF CallOK, Scanning, Stoppers
<1>4. CASE c.pc \in Parting
  BY <1>1, <1>4 DEF CallOK, Parting
<1> QED
  BY <1>1, <1>2, <1>3, <1>4 DEF Label, Scanning, Parting

(* CallOK looks at no cell outside the segment.                            *)
LEMMA OnlySegment ==
  ASSUME NEW A, NEW B, NEW c \in Call, CallOK(A, c),
         \A z \in c.lo .. c.lo + c.n : B[z] = A[z]
  PROVE  CallOK(B, c)
<1>1. /\ c.lo \in Nat /\ c.n \in Nat \ {0} /\ c.i \in Int /\ c.j \in Int
      /\ c.i \in 0 .. c.n + 1 /\ c.j \in -1 .. c.n
  BY Indices DEF Call
<1>2. \A x \in 0 .. c.n : B[c.lo + x] = A[c.lo + x]
  BY <1>1
<1>3. Passed(A, c) => Passed(B, c)
  BY <1>1, <1>2 DEF Passed
<1>4. CASE c.pc = "start"
  BY <1>4 DEF CallOK, Scanning, Parting
<1>5. CASE c.pc \in Scanning
  <2>1. c.i \in 0 .. c.n /\ c.j \in 0 .. c.n
    BY <1>5, Indices DEF Scanning
  <2>2. Stoppers(A, c) => Stoppers(B, c)
    BY <1>1, <1>2, <2>1 DEF Stoppers
  <2>3. Begun(A, c) => Begun(B, c)
    BY <1>1, <1>2, <2>1 DEF Begun
  <2> QED
    BY <1>3, <1>5, <2>2, <2>3 DEF CallOK, Scanning, Parting
<1>6. CASE c.pc \in Parting
  BY <1>3, <1>6 DEF CallOK, Scanning, Parting
<1> QED
  BY <1>4, <1>5, <1>6 DEF Call, Label, Scanning, Parting

LEMMA OnlyRange ==
  ASSUME NEW A, NEW B, NEW x \in Int, NEW y \in Int, SortedIn(A, x, y),
         \A z \in x .. y : B[z] = A[z]
  PROVE  SortedIn(B, x, y)
  BY DEF SortedIn

-----------------------------------------------------------------------------
(* Steps of one call that leave the array alone                            *)

LEMMA NoKids ==
  ASSUME IInv, NEW k \in Live, calls[k].pc \notin {"right", "wait"}
  PROVE  2 * k \notin Live /\ 2 * k + 1 \notin Live
  BY DEF IInv, Kids

(* Call k moves on before it has made a call for a part.                   *)
LEMMA LocalCalls ==
  ASSUME IInv, NEW k \in Live, NEW d \in Call, Live' = Live, calls'[k] = d,
         \A m \in Live \ {k} : calls'[m] = calls[m],
         d.lo = calls[k].lo, d.n = calls[k].n,
         calls[k].pc \notin {"right", "wait"}, d.pc \notin {"right", "wait"}
  PROVE  /\ \A m \in Live : Kids(m)'
         /\ Parents' /\ Apart'
         /\ 1 \in Live => Root'
<1>1. 2 * k \notin Live /\ 2 * k + 1 \notin Live
  BY NoKids
<1>2. ASSUME NEW m \in Live PROVE Kids(m)'
  <2>1. Kids(m)
    BY DEF IInv
  <2>2. CASE m = k
    BY <1>1, <2>2 DEF Kids
  <2>3. CASE m # k
    BY <2>1, <2>3 DEF Kids
  <2> QED
    BY <2>2, <2>3
<1>3. Parents'
  BY DEF IInv, Parents
<1>4. Apart'
  <2> SUFFICES ASSUME NEW m \in Live, NEW h \in Live, m # h
               PROVE  (Disjoint(calls[m], calls[h]) \/ Above(m, h) \/ Above(h, m))'
    BY DEF Apart
  <2>1. Disjoint(calls[m], calls[h]) \/ Above(m, h) \/ Above(h, m)
    BY DEF IInv, Apart
  <2>2. /\ calls'[m].lo = calls[m].lo /\ calls'[m].n = calls[m].n
        /\ calls'[h].lo = calls[h].lo /\ calls'[h].n = calls[h].n
    OBVIOUS
  <2>3. Disjoint(calls[m], calls[h]) => Disjoint(calls[m], calls[h])'
    BY <2>2 DEF Disjoint
  <2>4. Above(m, h) => Above(m, h)'
    BY <1>1, <2>2 DEF Above, InLeft, InRight
  <2>5. Above(h, m) => Above(h, m)'
    BY <1>1, <2>2 DEF Above, InLeft, InRight
  <2> QED
    BY <2>1, <2>3, <2>4, <2>5
<1>5. 1 \in Live => Root'
  BY DEF IInv, Root
<1> QED
  BY <1>2, <1>3, <1>4, <1>5

LEMMA RootLives ==
  ASSUME IInv, NEW k \in Live
  PROVE  1 \in Live
  BY DEF IInv, Root

LEMMA LocalStep ==
  ASSUME IInv, NEW k \in Live, NEW d \in Call, a' = a, Live' = Live, calls'[k] = d,
         \A m \in Live \ {k} : calls'[m] = calls[m],
         d.lo = calls[k].lo, d.n = calls[k].n,
         calls[k].pc \notin {"right", "wait"}, d.pc \notin {"right", "wait"},
         CallOK(a, d)
  PROVE  IInv'
<1>1. TypeOK'
  BY DEF IInv, TypeOK, Call, Label
<1>2. ASSUME NEW m \in Live PROVE CallOK(a, calls[m])' /\ PartsSorted(m)'
  <2>1. CallOK(a, calls[m])'
    BY DEF IInv
  <2>2. PartsSorted(m)'
    BY DEF IInv, PartsSorted
  <2> QED
    BY <2>1, <2>2
<1>3. /\ \A m \in Live : Kids(m)'
      /\ Parents' /\ Apart' /\ Root'
  BY LocalCalls, RootLives
<1> QED
  BY <1>1, <1>2, <1>3 DEF IInv

LEMMA StartIInv ==
  ASSUME IInv, NEW k \in Live, Start(k)
  PROVE  IInv'
<1> DEFINE c == calls[k]
           p == a[c.lo + c.n \div 2]
           d == [c EXCEPT !.pivot = p, !.pc = "up"]
<1>1. c \in Call /\ c.lo \in Nat /\ c.n \in Nat \ {0} /\ c.lo + c.n <= Size
  BY CallTypes DEF IInv
<1>2. c.pc = "start" /\ c.i = 0 /\ c.j = c.n
  BY DEF IInv, CallOK, Start, At
<1>3. c.n \div 2 \in 0 .. c.n
  BY <1>1
<1>4. p \in Int
  BY <1>1, <1>3, CellTypes DEF IInv, Cells
<1>5. /\ d \in Call /\ d.lo = c.lo /\ d.n = c.n /\ d.i = 0 /\ d.j = c.n
      /\ d.pivot = p /\ d.pc = "up"
  BY <1>1, <1>2, <1>4 DEF Call, Label
<1>6. /\ a' = a /\ Live' = Live /\ calls'[k] = d
      /\ \A m \in Live \ {k} : calls'[m] = calls[m]
  BY DEF Start, Pivot, Live
<1>7. CallOK(a, d)
  <2> HIDE DEF d, c
  <2>1. Passed(a, d)
    BY <1>5, <1>1 DEF Passed
  <2>2. Stoppers(a, d) /\ Begun(a, d)
    BY <1>5, <1>1, <1>3, <1>4 DEF Stoppers, Begun
  <2> QED
    BY <1>1, <1>5, <2>1, <2>2 DEF CallOK, Scanning, Parting
<1> QED
  <2> HIDE DEF d
  <2> QED
    BY <1>2, <1>5, <1>6, <1>7, LocalStep

LEMMA ScanUpIInv ==
  ASSUME IInv, NEW k \in Live, ScanUp(k)
  PROVE  IInv'
<1> DEFINE c == calls[k]
<1>1. /\ c \in Call /\ c.lo \in Nat /\ c.n \in Nat \ {0} /\ c.lo + c.n <= Size
      /\ c.i \in Int /\ c.j \in Int /\ c.pivot \in Int
  BY CallTypes DEF IInv
<1>2. c.pc = "up" /\ CallOK(a, c) /\ c.i \in 0 .. c.n /\ c.j \in 0 .. c.n
  BY Indices, <1>1 DEF IInv, ScanUp, At
<1>3. Passed(a, c) /\ Stoppers(a, c) /\ Begun(a, c)
  BY <1>2 DEF CallOK, Scanning
<1>4. \A x \in 0 .. c.n : a[c.lo + x] \in Int
  BY <1>1, CellTypes DEF IInv, Cells
<1>5. CASE a[c.lo + c.i] < c.pivot
  <2> DEFINE d == [c EXCEPT !.i = c.i + 1]
  <2>1. /\ d \in Call /\ d.lo = c.lo /\ d.n = c.n /\ d.i = c.i + 1 /\ d.j = c.j
        /\ d.pivot = c.pivot /\ d.pc = "up"
    BY <1>1, <1>2 DEF Call
  <2>2. /\ a' = a /\ Live' = Live /\ calls'[k] = d
        /\ \A m \in Live \ {k} : calls'[m] = calls[m]
    BY <1>5 DEF ScanUp, Live
  <2> HIDE DEF d, c
  <2>3. Passed(a, d)
    <3> SUFFICES ASSUME NEW x \in 0 .. c.i PROVE a[c.lo + x] <= c.pivot
      BY <1>3, <2>1, <1>1 DEF Passed
    <3>1. CASE x = c.i
      BY <1>1, <1>2, <1>4, <1>5, <3>1
    <3>2. CASE x # c.i
      BY <1>1, <1>2, <1>3, <3>2 DEF Passed
    <3> QED
      BY <3>1, <3>2
  <2>4. Stoppers(a, d)
    <3>1. PICK x \in c.i .. c.n : a[c.lo + x] >= c.pivot
      BY <1>2, <1>3 DEF Stoppers
    <3>2. x # c.i
      BY <1>1, <1>2, <1>4, <1>5, <3>1
    <3>3. x \in d.i .. d.n
      BY <1>1, <2>1, <3>1, <3>2
    <3> QED
      BY <1>2, <1>3, <2>1, <3>1, <3>3 DEF Stoppers
  <2>5. Begun(a, d)
    <3>1. CASE c.i >= 1 /\ c.j <= c.n - 1
      BY <1>1, <2>1, <3>1 DEF Begun
    <3>2. ASSUME NEW x \in c.i .. c.j, a[c.lo + x] = c.pivot PROVE Begun(a, d)
      <4>1. x # c.i
        BY <1>1, <1>2, <1>4, <1>5, <3>2
      <4>2. x \in d.i .. d.j
        BY <1>1, <2>1, <4>1
      <4> QED
        BY <2>1, <3>2, <4>2 DEF Begun
    <3> QED
      BY <1>3, <3>1, <3>2 DEF Begun
  <2>6. CallOK(a, d)
    BY <1>1, <1>2, <2>1, <2>3, <2>4, <2>5 DEF CallOK, Scanning, Parting
  <2> QED
    BY <1>2, <2>1, <2>2, <2>6, LocalStep DEF c
<1>6. CASE ~(a[c.lo + c.i] < c.pivot)
  <2> DEFINE d == [c EXCEPT !.pc = "down"]
  <2>1. /\ d \in Call /\ d.lo = c.lo /\ d.n = c.n /\ d.i = c.i /\ d.j = c.j
        /\ d.pivot = c.pivot /\ d.pc = "down"
    BY <1>1, <1>2 DEF Call, Label
  <2>2. /\ a' = a /\ Live' = Live /\ calls'[k] = d
        /\ \A m \in Live \ {k} : calls'[m] = calls[m]
    BY <1>6 DEF ScanUp, Live
  <2>3. a[c.lo + c.i] >= c.pivot
    BY <1>1, <1>2, <1>4, <1>6
  <2> HIDE DEF d, c
  <2>4. Passed(a, d) /\ Begun(a, d) /\ Stoppers(a, d)
    BY <1>2, <1>3, <2>1, <2>3 DEF Passed, Begun, Stoppers
  <2>5. CallOK(a, d)
    BY <1>1, <1>2, <2>1, <2>4 DEF CallOK, Scanning, Parting
  <2> QED
    BY <1>2, <2>1, <2>2, <2>5, LocalStep DEF c
<1> QED
  BY <1>5, <1>6

LEMMA ScanDownIInv ==
  ASSUME IInv, NEW k \in Live, ScanDown(k)
  PROVE  IInv'
<1> DEFINE c == calls[k]
<1>1. /\ c \in Call /\ c.lo \in Nat /\ c.n \in Nat \ {0} /\ c.lo + c.n <= Size
      /\ c.i \in Int /\ c.j \in Int /\ c.pivot \in Int
  BY CallTypes DEF IInv
<1>2. c.pc = "down" /\ CallOK(a, c) /\ c.i \in 0 .. c.n /\ c.j \in 0 .. c.n
  BY Indices, <1>1 DEF IInv, ScanDown, At
<1>3. Passed(a, c) /\ Stoppers(a, c) /\ Begun(a, c)
  BY <1>2 DEF CallOK, Scanning
<1>4. \A x \in 0 .. c.n : a[c.lo + x] \in Int
  BY <1>1, CellTypes DEF IInv, Cells
<1>5. CASE a[c.lo + c.j] > c.pivot
  <2> DEFINE d == [c EXCEPT !.j = c.j - 1]
  <2>1. /\ d \in Call /\ d.lo = c.lo /\ d.n = c.n /\ d.i = c.i /\ d.j = c.j - 1
        /\ d.pivot = c.pivot /\ d.pc = "down"
    BY <1>1, <1>2 DEF Call
  <2>2. /\ a' = a /\ Live' = Live /\ calls'[k] = d
        /\ \A m \in Live \ {k} : calls'[m] = calls[m]
    BY <1>5 DEF ScanDown, Live
  <2> HIDE DEF d, c
  <2>3. Passed(a, d)
    <3> SUFFICES ASSUME NEW x \in c.j .. c.n PROVE a[c.lo + x] >= c.pivot
      BY <1>3, <2>1, <1>1 DEF Passed
    <3>1. CASE x = c.j
      BY <1>1, <1>2, <1>4, <1>5, <3>1
    <3>2. CASE x # c.j
      BY <1>1, <1>2, <1>3, <3>2 DEF Passed
    <3> QED
      BY <3>1, <3>2
  <2>4. Stoppers(a, d)
    <3>1. PICK x \in 0 .. c.j : a[c.lo + x] <= c.pivot
      BY <1>2, <1>3 DEF Stoppers
    <3>2. x # c.j
      BY <1>1, <1>2, <1>4, <1>5, <3>1
    <3>3. x \in 0 .. d.j
      BY <1>1, <2>1, <3>1, <3>2
    <3> QED
      BY <1>2, <1>3, <2>1, <3>1, <3>3 DEF Stoppers
  <2>5. Begun(a, d)
    <3>1. CASE c.i >= 1 /\ c.j <= c.n - 1
      BY <1>1, <2>1, <3>1 DEF Begun
    <3>2. ASSUME NEW x \in c.i .. c.j, a[c.lo + x] = c.pivot PROVE Begun(a, d)
      <4>1. x # c.j
        BY <1>1, <1>2, <1>4, <1>5, <3>2
      <4>2. x \in d.i .. d.j
        BY <1>1, <2>1, <4>1
      <4> QED
        BY <2>1, <3>2, <4>2 DEF Begun
    <3> QED
      BY <1>3, <3>1, <3>2 DEF Begun
  <2>6. CallOK(a, d)
    BY <1>1, <1>2, <2>1, <2>3, <2>4, <2>5 DEF CallOK, Scanning, Parting
  <2> QED
    BY <1>2, <2>1, <2>2, <2>6, LocalStep DEF c
<1>6. CASE ~(a[c.lo + c.j] > c.pivot)
  <2> DEFINE d == [c EXCEPT !.pc = "swap"]
  <2>1. /\ d \in Call /\ d.lo = c.lo /\ d.n = c.n /\ d.i = c.i /\ d.j = c.j
        /\ d.pivot = c.pivot /\ d.pc = "swap"
    BY <1>1, <1>2 DEF Call, Label
  <2>2. /\ a' = a /\ Live' = Live /\ calls'[k] = d
        /\ \A m \in Live \ {k} : calls'[m] = calls[m]
    BY <1>6 DEF ScanDown, Live
  <2>3. a[c.lo + c.j] <= c.pivot
    BY <1>1, <1>2, <1>4, <1>6
  <2> HIDE DEF d, c
  <2>4. Passed(a, d) /\ Begun(a, d) /\ Stoppers(a, d)
    BY <1>2, <1>3, <2>1, <2>3 DEF Passed, Begun, Stoppers
  <2>5. CallOK(a, d)
    BY <1>1, <1>2, <2>1, <2>4 DEF CallOK, Scanning, Parting
  <2> QED
    BY <1>2, <2>1, <2>2, <2>5, LocalStep DEF c
<1> QED
  BY <1>5, <1>6

-----------------------------------------------------------------------------
(* The exchange                                                            *)

Exchanged(A, B, x, y) ==
  \A z \in Cells : B[z] = IF z = x THEN A[y] ELSE IF z = y THEN A[x] ELSE A[z]

(* Exchanging two cells of one of its parts leaves a call right.           *)
LEMMA PartExchanged ==
  ASSUME NEW A \in [Cells -> Int], NEW B, NEW c \in Call, c.lo + c.n <= Size,
         c.pc \in Parting, CallOK(A, c), NEW x \in Cells, NEW y \in Cells,
         Exchanged(A, B, x, y),
         \/ x \in c.lo .. c.lo + c.j /\ y \in c.lo .. c.lo + c.j
         \/ x \in c.lo + c.i .. c.lo + c.n /\ y \in c.lo + c.i .. c.lo + c.n
  PROVE  CallOK(B, c)
<1>1. /\ c.lo \in Nat /\ c.n \in Nat \ {0} /\ c.i \in Int /\ c.j \in Int
      /\ c.pivot \in Int /\ Size \in Nat
      /\ c.i \in 1 .. c.n + 1 /\ c.j \in -1 .. c.n - 1 /\ c.j < c.i /\ Passed(A, c)
  BY SizeAssumption DEF Call, CallOK
<1>2. ASSUME NEW z \in 0 .. c.i - 1 PROVE B[c.lo + z] <= c.pivot
  <2>1. c.lo + z \in Cells /\ A[c.lo + z] <= c.pivot
    <3>1. z \in 0 .. c.n
      BY <1>1
    <3>2. c.lo + z \in Cells
      <4>1. c.lo + z >= 0 /\ c.lo + z <= c.lo + c.n
        BY ONLY <1>1, <3>1
      <4>2. c.lo + z \in 0 .. Size
        BY <1>1, <3>1, <4>1
      <4> QED
        BY <4>2 DEF Cells
    <3>3. A[c.lo + z] <= c.pivot
      BY <1>1 DEF Passed
    <3> QED
      BY <3>2, <3>3
  <2>2. CASE c.lo + z = x \/ c.lo + z = y
    <3>1. x \in c.lo .. c.lo + c.j /\ y \in c.lo .. c.lo + c.j
      BY <1>1, <2>2
    <3>2. x - c.lo \in 0 .. c.i - 1 /\ y - c.lo \in 0 .. c.i - 1
      BY <1>1, <3>1
    <3>3. c.lo + (x - c.lo) = x /\ c.lo + (y - c.lo) = y
      BY <1>1, <3>1
    <3>4. A[x] <= c.pivot /\ A[y] <= c.pivot
      BY <1>1, <3>2, <3>3 DEF Passed
    <3> QED
      BY <2>1, <2>2, <3>4 DEF Exchanged
  <2>3. CASE c.lo + z # x /\ c.lo + z # y
    BY <2>1, <2>3 DEF Exchanged
  <2> QED
    BY <2>2, <2>3
<1>3. ASSUME NEW z \in c.j + 1 .. c.n PROVE B[c.lo + z] >= c.pivot
  <2>1. c.lo + z \in Cells /\ A[c.lo + z] >= c.pivot
    <3>1. z \in 0 .. c.n
      BY <1>1
    <3>2. c.lo + z \in Cells
      <4>1. c.lo + z >= 0 /\ c.lo + z <= c.lo + c.n
        BY ONLY <1>1, <3>1
      <4>2. c.lo + z \in 0 .. Size
        BY <1>1, <3>1, <4>1
      <4> QED
        BY <4>2 DEF Cells
    <3>3. A[c.lo + z] >= c.pivot
      BY <1>1 DEF Passed
    <3> QED
      BY <3>2, <3>3
  <2>2. CASE c.lo + z = x \/ c.lo + z = y
    <3>1. x \in c.lo + c.i .. c.lo + c.n /\ y \in c.lo + c.i .. c.lo + c.n
      BY <1>1, <2>2
    <3>2. x - c.lo \in c.j + 1 .. c.n /\ y - c.lo \in c.j + 1 .. c.n
      BY <1>1, <3>1
    <3>3. c.lo + (x - c.lo) = x /\ c.lo + (y - c.lo) = y
      BY <1>1, <3>1
    <3>4. A[x] >= c.pivot /\ A[y] >= c.pivot
      BY <1>1, <3>2, <3>3 DEF Passed
    <3> QED
      BY <2>1, <2>2, <3>4 DEF Exchanged
  <2>3. CASE c.lo + z # x /\ c.lo + z # y
    BY <2>1, <2>3 DEF Exchanged
  <2> QED
    BY <2>2, <2>3
<1> QED
  BY <1>1, <1>2, <1>3 DEF CallOK, Passed, Scanning, Parting

(* The call that exchanges.                                                *)
LEMMA OwnExchange ==
  ASSUME NEW A \in [Cells -> Int], NEW B, NEW c \in Call, c.lo + c.n <= Size,
         c.pc = "swap", c.i <= c.j, CallOK(A, c),
         Exchanged(A, B, c.lo + c.i, c.lo + c.j),
         NEW d \in Call, d.lo = c.lo, d.n = c.n, d.i = c.i + 1, d.j = c.j - 1,
         d.pivot = c.pivot, d.pc = Turn(c.i + 1, c.j - 1)
  PROVE  CallOK(B, d)
<1>1. /\ c.lo \in Nat /\ c.n \in Nat \ {0} /\ c.pivot \in Int /\ Size \in Nat
      /\ c.i \in 0 .. c.n /\ c.j \in 0 .. c.n
  BY Indices, SizeAssumption DEF Call
<1>2. /\ Passed(A, c)
      /\ A[c.lo + c.i] >= c.pivot /\ A[c.lo + c.j] <= c.pivot
  BY DEF CallOK, Scanning, Stoppers
<1>3. ASSUME NEW z \in 0 .. c.n
      PROVE  B[c.lo + z] = IF z = c.i THEN A[c.lo + c.j]
                           ELSE IF z = c.j THEN A[c.lo + c.i] ELSE A[c.lo + z]
  <2>1. c.lo + z \in Cells
    <3>1. c.lo + z \in 0 .. Size
      BY <1>1
    <3> QED
      BY <3>1 DEF Cells
  <2>2. /\ c.lo + z = c.lo + c.i <=> z = c.i
        /\ c.lo + z = c.lo + c.j <=> z = c.j
    BY <1>1
  <2> QED
    BY <2>1, <2>2 DEF Exchanged
<1>4. Passed(B, d)
  <2>1. ASSUME NEW z \in 0 .. c.i PROVE B[c.lo + z] <= c.pivot
    <3>1. z \in 0 .. c.n /\ (z # c.i => z # c.j /\ z \in 0 .. c.i - 1)
      BY <1>1
    <3> QED
      BY <1>2, <1>3, <3>1 DEF Passed
  <2>2. ASSUME NEW z \in c.j .. c.n PROVE B[c.lo + z] >= c.pivot
    <3>1. z \in 0 .. c.n /\ (z # c.j => z # c.i /\ z \in c.j + 1 .. c.n)
      BY <1>1
    <3>2. z = c.i => c.i = c.j \/ z # c.j
      OBVIOUS
    <3> QED
      BY <1>1, <1>2, <1>3, <3>1 DEF Passed
  <2>3. d.i - 1 = c.i /\ d.j + 1 = c.j
    BY <1>1
  <2> QED
    BY <2>1, <2>2, <2>3 DEF Passed
<1>5. CASE c.i + 1 <= c.j - 1
  <2>1. d.pc = "up"
    BY <1>5 DEF Turn
  <2>2. B[c.lo + c.j] >= c.pivot /\ B[c.lo + c.i] <= c.pivot
    BY <1>1, <1>2, <1>3, <1>5
  <2>3. c.j \in d.i .. d.n /\ c.i \in 0 .. d.j
    BY <1>1, <1>5
  <2>4. Stoppers(B, d)
    BY <2>1, <2>2, <2>3 DEF Stoppers
  <2>5. Begun(B, d) /\ d.i >= 0 /\ d.j <= d.n
    BY <1>1 DEF Begun
  <2> QED
    BY <1>4, <2>1, <2>4, <2>5 DEF CallOK, Scanning, Parting
<1>6. CASE ~(c.i + 1 <= c.j - 1)
  <2>1. d.pc = "left"
    BY <1>6 DEF Turn
  <2>2. d.i \in 1 .. d.n + 1 /\ d.j \in -1 .. d.n - 1 /\ d.j < d.i
    BY <1>1, <1>6
  <2> QED
    BY <1>4, <2>1, <2>2 DEF CallOK, Scanning, Parting
<1> QED
  BY <1>5, <1>6

(* Call k exchanges two cells of its segment: any other call m is right    *)
(* still, and its finished parts are still sorted.                         *)
LEMMA OtherExchange ==
  ASSUME IInv, NEW k \in Live, NEW m \in Live, m # k, calls[k].pc = "swap",
         NEW B, NEW x \in Cells, NEW y \in Cells, Exchanged(a, B, x, y),
         x \in calls[k].lo .. calls[k].lo + calls[k].n,
         y \in calls[k].lo .. calls[k].lo + calls[k].n
  PROVE  /\ CallOK(B, calls[m])
         /\ LET c == calls[m]
            IN  /\ c.pc \in {"right", "wait"} /\ 2 * m \notin Live
                     => SortedIn(B, c.lo, c.lo + c.j)
                /\ c.pc = "wait" /\ 2 * m + 1 \notin Live
                     => SortedIn(B, c.lo + c.i, c.lo + c.n)
<1> DEFINE c == calls[m]
           d == calls[k]
<1>1. /\ c \in Call /\ c.lo \in Nat /\ c.n \in Nat \ {0} /\ c.lo + c.n <= Size
      /\ c.i \in Int /\ c.j \in Int /\ Size \in Nat
      /\ d.lo \in Nat /\ d.n \in Nat \ {0}
  BY CallTypes, SizeAssumption DEF IInv
<1>2. CallOK(a, c) /\ PartsSorted(m) /\ Kids(m)
  BY DEF IInv
<1>3. c.i \in 0 .. c.n + 1 /\ c.j \in -1 .. c.n
  BY <1>1, <1>2, Indices
<1>4. \A z \in Cells : z # x /\ z # y => B[z] = a[z]
  BY DEF Exchanged
<1>5. \A z \in c.lo .. c.lo + c.n : z \in Cells
  <2>1. \A z \in c.lo .. c.lo + c.n : z \in 0 .. Size
    BY <1>1
  <2> QED
    BY <2>1 DEF Cells
<1>6. Disjoint(c, d) \/ Above(m, k)
  <2>1. Disjoint(c, d) \/ Above(m, k) \/ Above(k, m)
    BY DEF IInv, Apart
  <2>2. ~Above(k, m)
    BY NoKids DEF Above
  <2> QED
    BY <2>1, <2>2
<1>7. CASE Disjoint(c, d)
  <2>1. \A z \in c.lo .. c.lo + c.n : z # x /\ z # y
    BY <1>1, <1>7 DEF Disjoint
  <2>2. \A z \in c.lo .. c.lo + c.n : B[z] = a[z]
    BY <1>4, <1>5, <2>1
  <2>3. CallOK(B, c)
    BY <1>1, <1>2, <2>2, OnlySegment
  <2>4. /\ \A z \in c.lo .. c.lo + c.j : B[z] = a[z]
        /\ \A z \in c.lo + c.i .. c.lo + c.n : B[z] = a[z]
    BY <1>1, <1>3, <2>2
  <2> QED
    BY <1>1, <1>2, <2>3, <2>4 DEF PartsSorted, SortedIn
<1>8. CASE 2 * m \in Live /\ InLeft(c, d)
  <2>1. c.pc \in {"right", "wait"}
    BY <1>2, <1>8 DEF Kids
  <2>2. c.j < c.i
    BY <1>2, <2>1 DEF CallOK, Parting
  <2>3. x \in c.lo .. c.lo + c.j /\ y \in c.lo .. c.lo + c.j
    BY <1>1, <1>8 DEF InLeft
  <2>4. CallOK(B, c)
    BY <1>1, <1>2, <2>1, <2>3, PartExchanged, CellTypes DEF IInv, Parting
  <2>5. \A z \in c.lo + c.i .. c.lo + c.n : B[z] = a[z]
    <3>1. \A z \in c.lo + c.i .. c.lo + c.n : z # x /\ z # y /\ z \in c.lo .. c.lo + c.n
      BY <1>1, <1>3, <2>2, <2>3
    <3> QED
      BY <1>4, <1>5, <3>1
  <2> QED
    BY <1>1, <1>2, <1>8, <2>4, <2>5 DEF PartsSorted, SortedIn
<1>9. CASE 2 * m + 1 \in Live /\ InRight(c, d)
  <2>1. c.pc = "wait"
    BY <1>2, <1>9 DEF Kids
  <2>2. c.j < c.i
    BY <1>2, <2>1 DEF CallOK, Parting
  <2>3. x \in c.lo + c.i .. c.lo + c.n /\ y \in c.lo + c.i .. c.lo + c.n
    BY <1>1, <1>9 DEF InRight
  <2>4. CallOK(B, c)
    BY <1>1, <1>2, <2>1, <2>3, PartExchanged, CellTypes DEF IInv, Parting
  <2>5. \A z \in c.lo .. c.lo + c.j : B[z] = a[z]
    <3>1. \A z \in c.lo .. c.lo + c.j : z # x /\ z # y /\ z \in c.lo .. c.lo + c.n
      BY <1>1, <1>3, <2>2, <2>3
    <3> QED
      BY <1>4, <1>5, <3>1
  <2> QED
    BY <1>1, <1>2, <1>9, <2>4, <2>5 DEF PartsSorted, SortedIn
<1> QED
  BY <1>6, <1>7, <1>8, <1>9 DEF Above

LEMMA ExchangeFacts ==
  ASSUME TypeOK, NEW x \in Cells, NEW y \in Cells,
         a' = [a EXCEPT ![x] = a[y], ![y] = a[x]]
  PROVE  a' \in [Cells -> Value] /\ Exchanged(a, a', x, y)
  BY CellTypes DEF Exchanged

LEMMA SwapIInv ==
  ASSUME IInv, NEW k \in Live, Swap(k)
  PROVE  IInv'
<1> DEFINE c == calls[k]
           x == c.lo + c.i
           y == c.lo + c.j
<1>1. /\ c \in Call /\ c.lo \in Nat /\ c.n \in Nat \ {0} /\ c.lo + c.n <= Size
      /\ c.i \in Int /\ c.j \in Int /\ c.pivot \in Int /\ Size \in Nat
  BY CallTypes, SizeAssumption DEF IInv
<1>2. c.pc = "swap" /\ CallOK(a, c) /\ c.i \in 0 .. c.n /\ c.j \in 0 .. c.n
  BY Indices, <1>1 DEF IInv, Swap, At
<1>3. Passed(a, c) /\ Begun(a, c)
  BY <1>2 DEF CallOK, Scanning
<1>4. CASE c.i <= c.j
  <2> DEFINE t == Turn(c.i + 1, c.j - 1)
             d == [c EXCEPT !.i = c.i + 1, !.j = c.j - 1, !.pc = t]
  <2>1. /\ d \in Call /\ d.lo = c.lo /\ d.n = c.n /\ d.i = c.i + 1 /\ d.j = c.j - 1
        /\ d.pivot = c.pivot /\ d.pc = Turn(c.i + 1, c.j - 1)
    <3>1. t \in Label
      BY DEF Turn, Label
    <3>2. d.pc = t
      <4> HIDE DEF t
      <4> QED
        BY <1>1 DEF Call
    <3>3. d.lo = c.lo /\ d.n = c.n /\ d.pivot = c.pivot
      <4> HIDE DEF t, c
      <4> QED
        BY <1>1 DEF Call
    <3>4. d.i = c.i + 1 /\ d.j = c.j - 1
      <4> HIDE DEF t, c
      <4> QED
        BY <1>1 DEF Call
    <3>5. d \in Call
      <4>1. c.i + 1 \in Int /\ c.j - 1 \in Int
        BY <1>1
      <4> HIDE DEF t, c
      <4>2. PICK e \in Call : e = [c EXCEPT !.i = c.i + 1]
        BY <1>1, <4>1 DEF Call
      <4>3. PICK f \in Call : f = [e EXCEPT !.j = c.j - 1]
        BY <4>1 DEF Call
      <4>4. [f EXCEPT !.pc = t] \in Call
        BY <3>1 DEF Call
      <4> QED
        BY <4>2, <4>3, <4>4
    <3> QED
      BY <3>2, <3>3, <3>4, <3>5
  <2>2. /\ a' = [a EXCEPT ![x] = a[y], ![y] = a[x]]
        /\ Live' = Live /\ calls'[k] = d
        /\ \A m \in Live \ {k} : calls'[m] = calls[m]
    BY <1>4 DEF Swap, Live
  <2>3. /\ x \in c.lo .. c.lo + c.n /\ y \in c.lo .. c.lo + c.n
        /\ x \in Cells /\ y \in Cells
    <3>1. x \in 0 .. Size /\ y \in 0 .. Size
      BY <1>1, <1>2
    <3> QED
      BY <1>1, <1>2, <3>1 DEF Cells
  <2> HIDE DEF d
  <2>4. a' \in [Cells -> Value] /\ Exchanged(a, a', x, y)
    BY <2>2, <2>3, ExchangeFacts DEF IInv
  <2>5. CallOK(a', d)
    BY <1>1, <1>2, <1>4, <2>1, <2>4, OwnExchange, CellTypes DEF IInv
  <2>6. ASSUME NEW m \in Live PROVE CallOK(a, calls[m])' /\ PartsSorted(m)'
    <3>1. CASE m = k
      BY <2>1, <2>2, <2>5, <3>1 DEF PartsSorted, Turn
    <3>2. CASE m # k
      BY <1>2, <2>2, <2>3, <2>4, <3>2, OtherExchange DEF PartsSorted
    <3> QED
      BY <3>1, <3>2
  <2>7. TypeOK'
    BY <2>1, <2>2, <2>4 DEF IInv, TypeOK, Call, Label
  <2>8. d.pc \notin {"right", "wait"}
    BY <2>1 DEF Turn
  <2>9. /\ \A m \in Live : Kids(m)'
        /\ Parents' /\ Apart' /\ Root'
    BY <1>2, <2>1, <2>2, <2>8, LocalCalls, RootLives
  <2> QED
    BY <2>2, <2>6, <2>7, <2>9 DEF IInv
<1>5. CASE ~(c.i <= c.j)
  <2> DEFINE d == [c EXCEPT !.pc = "left"]
  <2>1. /\ d \in Call /\ d.lo = c.lo /\ d.n = c.n /\ d.i = c.i /\ d.j = c.j
        /\ d.pivot = c.pivot /\ d.pc = "left"
    BY <1>1 DEF Call, Label
  <2>2. /\ a' = a /\ Live' = Live /\ calls'[k] = d
        /\ \A m \in Live \ {k} : calls'[m] = calls[m]
    BY <1>5 DEF Swap, Live
  <2> HIDE DEF d, c
  <2>3. c.i >= 1 /\ c.j <= c.n - 1
    BY <1>1, <1>3, <1>5 DEF Begun
  <2>4. Passed(a, d)
    BY <1>3, <2>1 DEF Passed
  <2>5. CallOK(a, d)
    BY <1>1, <1>2, <1>5, <2>1, <2>3, <2>4 DEF CallOK, Scanning, Parting
  <2> QED
    BY <1>2, <2>1, <2>2, <2>5, LocalStep DEF c
<1> QED
  BY <1>4, <1>5

-----------------------------------------------------------------------------
(* The two parts                                                           *)

(* Call k goes on, and call m is made for a part unless that is too short. *)
LEMMA MakeIInv ==
  ASSUME IInv, NEW k \in Live, NEW m, NEW label, NEW lo, NEW n,
         a' = a, Make(k, label, m, lo, n),
         \/ /\ calls[k].pc = "left" /\ label = "right"
            /\ m = 2 * k /\ lo = calls[k].lo /\ n = calls[k].j
         \/ /\ calls[k].pc = "right" /\ label = "wait" /\ m = 2 * k + 1
            /\ lo = calls[k].lo + calls[k].i /\ n = calls[k].n - calls[k].i
  PROVE  IInv'
<1> DEFINE c == calls[k]
           d == [c EXCEPT !.pc = label]
           e == NewCall(lo, n)
<1>1. /\ c \in Call /\ c.lo \in Nat /\ c.n \in Nat \ {0} /\ c.lo + c.n <= Size
      /\ k \in Nat \ {0}
  BY CallTypes DEF IInv
<1>2. /\ c.i \in 1 .. c.n + 1 /\ c.j \in -1 .. c.n - 1 /\ c.j < c.i
      /\ Passed(a, c)
  BY DEF IInv, CallOK, Parting
<1>3. m \in Nat \ {0} /\ m # 1 /\ m # k /\ m \notin Live
  BY <1>1 DEF IInv, Kids
<1>4. 2 * m \notin Live /\ 2 * m + 1 \notin Live
  <2>1. ASSUME NEW h \in Live, h # 1 PROVE \E p \in Live : h = 2 * p \/ h = 2 * p + 1
    BY <2>1 DEF IInv, Parents
  <2>2. Live \subseteq Nat
    BY DEF IInv, TypeOK
  <2> QED
    BY <1>3, <2>1, <2>2
<1>5. /\ Live' = IF n > 0 THEN Live \cup {m} ELSE Live
      /\ calls'[k] = d
      /\ n > 0 => calls'[m] = e
      /\ \A h \in Live \ {k} : calls'[h] = calls[h]
  BY <1>3 DEF Make, Live
<1>6. /\ d \in Call /\ d.lo = c.lo /\ d.n = c.n /\ d.i = c.i /\ d.j = c.j
      /\ d.pivot = c.pivot /\ d.pc = label
  BY <1>1 DEF Call, Label
<1>7. /\ n \in Int /\ lo \in Nat
      /\ c.lo <= lo /\ lo + n <= c.lo + c.n
  BY <1>1, <1>2
<1>8. n > 0 => /\ e \in Call /\ e.lo = lo /\ e.n = n /\ e.i = 0 /\ e.j = n
               /\ e.pc = "start"
  BY <1>7 DEF NewCall, Call, Label
<1> HIDE DEF d, e
<1>9. TypeOK'
  <2>1. lo + n <= Size
    BY <1>1, <1>7, SizeAssumption
  <2> QED
    BY <1>3, <1>5, <1>6, <1>8, <2>1 DEF IInv, TypeOK, Call, Label
<1>10. CallOK(a, d)
  BY <1>2, <1>6 DEF CallOK, Passed, Scanning, Parting
<1>11. n > 0 => CallOK(a, e)
  BY <1>8 DEF CallOK, Scanning, Parting
<1>12. ASSUME NEW h \in Live' PROVE CallOK(a, calls[h])'
  BY <1>5, <1>10, <1>11 DEF IInv
<1>13. ASSUME NEW h \in Live' PROVE PartsSorted(h)'
  <2>1. CASE h = k
    <3>1. n <= 0 => /\ label = "right" => SortedIn(a, c.lo, c.lo + c.j)
                    /\ label = "wait" => SortedIn(a, c.lo + c.i, c.lo + c.n)
      <4>1. ASSUME NEW u \in Int, NEW v \in Int, v <= u, u .. v \subseteq Cells
            PROVE  SortedIn(a, u, v)
        <5>1. \A z, w \in u .. v : z = w
          BY <4>1
        <5>2. \A z \in u .. v : a[z] <= a[z]
          BY <4>1, CellTypes DEF IInv
        <5> QED
          BY <5>1, <5>2 DEF SortedIn
      <4>2. /\ c.lo .. c.lo + c.j \subseteq 0 .. Size
            /\ c.lo + c.i .. c.lo + c.n \subseteq 0 .. Size
        BY <1>1, <1>2, SizeAssumption
      <4>3. c.j \in Int /\ c.i \in Int
        BY <1>2
      <4>4. CASE label = "right"
        <5>1. n <= 0 => c.lo + c.j <= c.lo
          BY <1>1, <1>2, <4>4
        <5> QED
          BY <1>1, <4>1, <4>2, <4>3, <4>4, <5>1 DEF Cells
      <4>5. CASE label = "wait"
        <5>1. n <= 0 => c.lo + c.n <= c.lo + c.i
          BY <1>1, <1>2, <4>5
        <5> QED
          BY <1>1, <4>1, <4>2, <4>3, <4>5, <5>1 DEF Cells
      <4> QED
        BY <4>4, <4>5
    <3>2. label = "wait" => PartsSorted(k) /\ c.pc = "right"
      BY DEF IInv
    <3> QED
      BY <1>3, <1>5, <1>6, <1>7, <2>1, <3>1, <3>2 DEF PartsSorted
  <2>2. CASE h = m
    BY <1>3, <1>5, <1>8, <2>2 DEF PartsSorted
  <2>3. CASE h # k /\ h # m
    BY <1>5, <2>3 DEF IInv, PartsSorted
  <2> QED
    BY <2>1, <2>2, <2>3
<1>14. ASSUME NEW h \in Live' PROVE Kids(h)'
  <2>1. CASE h = k
    BY <1>1, <1>3, <1>5, <1>6, <1>8, <2>1 DEF IInv, Kids
  <2>2. CASE h = m
    BY <1>3, <1>4, <1>5, <2>2 DEF Kids
  <2>3. CASE h # k /\ h # m
    BY <1>1, <1>5, <1>6, <2>3, CallTypes DEF IInv, Kids
  <2> QED
    BY <2>1, <2>2, <2>3
<1>15. Parents'
  BY <1>5 DEF IInv, Parents
<1>16. Apart'
  <2>1. ASSUME NEW g \in Live, NEW h \in Live, g # h
        PROVE  (Disjoint(calls[g], calls[h]) \/ Above(g, h) \/ Above(h, g))'
    <3>1. Disjoint(calls[g], calls[h]) \/ Above(g, h) \/ Above(h, g)
      BY <2>1 DEF IInv, Apart
    <3>2. /\ calls'[g].lo = calls[g].lo /\ calls'[g].n = calls[g].n
          /\ calls'[g].i = calls[g].i /\ calls'[g].j = calls[g].j
          /\ calls'[h].lo = calls[h].lo /\ calls'[h].n = calls[h].n
          /\ calls'[h].i = calls[h].i /\ calls'[h].j = calls[h].j
      BY <1>5, <1>6
    <3> QED
      BY <1>5, <3>1, <3>2 DEF Disjoint, Above, InLeft, InRight
  <2>2. ASSUME n > 0, NEW h \in Live
        PROVE  (Disjoint(calls[m], calls[h]) \/ Above(h, m))'
    <3>1. /\ calls'[m].lo = lo /\ calls'[m].n = n
          /\ calls'[h].lo = calls[h].lo /\ calls'[h].n = calls[h].n
          /\ calls'[h].i = calls[h].i /\ calls'[h].j = calls[h].j
      BY <1>3, <1>5, <1>6, <1>8, <2>2
    <3>2. /\ calls[h].lo \in Nat /\ calls[h].n \in Nat \ {0}
          /\ calls[h].i \in Int /\ calls[h].j \in Int
      BY CallTypes DEF IInv
    <3>3. CASE h = k
      <4>1. m \in Live'
        BY <1>5, <2>2
      <4> QED
        BY <1>1, <1>2, <3>1, <3>3, <4>1 DEF Above, InLeft, InRight
    <3>4. CASE h # k
      <4>1. Disjoint(c, calls[h]) \/ Above(h, k) \/ Above(k, h)
        BY <3>4 DEF IInv, Apart
      <4>2. CASE Disjoint(c, calls[h])
        BY <1>1, <1>7, <3>1, <3>2, <4>2 DEF Disjoint
      <4>3. CASE Above(h, k)
        BY <1>1, <1>5, <1>7, <3>1, <3>2, <4>3 DEF Above, InLeft, InRight
      <4>4. CASE Above(k, h)
        <5>1. /\ 2 * k \in Live => c.pc \in {"right", "wait"}
              /\ 2 * k + 1 \in Live => c.pc = "wait"
          BY DEF IInv, Kids
        <5>2. c.pc = "right" /\ InLeft(c, calls[h])
          BY <4>4, <5>1 DEF Above
        <5>3. lo = c.lo + c.i
          BY <5>2
        <5> QED
          BY <1>1, <1>2, <3>1, <3>2, <5>2, <5>3 DEF Disjoint, InLeft
      <4> QED
        BY <4>1, <4>2, <4>3, <4>4
    <3> QED
      BY <3>3, <3>4
  <2>3. ASSUME NEW g, NEW h PROVE Disjoint(calls[g], calls[h])' => Disjoint(calls[h], calls[g])'
    BY DEF Disjoint
  <2>4. Live' = Live \/ (n > 0 /\ Live' = Live \cup {m})
    BY <1>5
  <2> QED
    BY <2>1, <2>2, <2>3, <2>4 DEF Apart
<1>17. Root'
  BY <1>1, <1>3, <1>5, <1>6, RootLives DEF IInv, Root
<1> QED
  BY <1>9, <1>12, <1>13, <1>14, <1>15, <1>16, <1>17 DEF IInv

LEMMA MakeLeftIInv ==
  ASSUME IInv, NEW k \in Live, MakeLeft(k)
  PROVE  IInv'
  BY MakeIInv DEF MakeLeft, At

LEMMA MakeRightIInv ==
  ASSUME IInv, NEW k \in Live, MakeRight(k)
  PROVE  IInv'
<1>1. /\ calls[k].pc = "right" /\ a' = a
      /\ Make(k, "wait", 2 * k + 1, calls[k].lo + calls[k].i, calls[k].n - calls[k].i)
  BY DEF MakeRight, At, PartRight
<1> QED
  BY <1>1, MakeIInv

(* Both parts are sorted, and so is the whole.                             *)
LEMMA PartsMakeWhole ==
  ASSUME IInv, NEW k \in Live, calls[k].pc = "wait",
         2 * k \notin Live, 2 * k + 1 \notin Live
  PROVE  SortedIn(a, calls[k].lo, calls[k].lo + calls[k].n)
<1> DEFINE c == calls[k]
<1>1. /\ c.lo \in Nat /\ c.n \in Nat \ {0} /\ c.lo + c.n <= Size /\ c.pivot \in Int
  BY CallTypes DEF IInv
<1>2. /\ c.i \in 1 .. c.n + 1 /\ c.j \in -1 .. c.n - 1 /\ c.j < c.i
      /\ Passed(a, c)
  BY DEF IInv, CallOK, Parting
<1>3. SortedIn(a, c.lo, c.lo + c.j) /\ SortedIn(a, c.lo + c.i, c.lo + c.n)
  BY DEF IInv, PartsSorted
<1> HIDE DEF c
<1> SUFFICES ASSUME NEW u \in c.lo .. c.lo + c.n, NEW v \in c.lo .. c.lo + c.n, u <= v
             PROVE  a[u] <= a[v]
  BY DEF SortedIn, c
<1>4. u \in Int /\ v \in Int /\ a[u] \in Int /\ a[v] \in Int
  <2>1. u \in 0 .. Size /\ v \in 0 .. Size
    BY <1>1, SizeAssumption
  <2> QED
    BY <2>1, CellTypes DEF IInv, Cells
<1>5. CASE v <= c.lo + c.j
  <2>1. u \in c.lo .. c.lo + c.j /\ v \in c.lo .. c.lo + c.j
    BY <1>1, <1>2, <1>4, <1>5
  <2> QED
    BY <1>3, <2>1 DEF SortedIn
<1>6. CASE c.lo + c.i <= u
  <2>1. u \in c.lo + c.i .. c.lo + c.n /\ v \in c.lo + c.i .. c.lo + c.n
    BY <1>1, <1>2, <1>4, <1>6
  <2> QED
    BY <1>3, <2>1 DEF SortedIn
<1>7. CASE u < c.lo + c.i /\ c.lo + c.j < v
  <2>1. /\ u - c.lo \in 0 .. c.i - 1 /\ v - c.lo \in c.j + 1 .. c.n
        /\ c.lo + (u - c.lo) = u /\ c.lo + (v - c.lo) = v
    BY <1>1, <1>2, <1>4, <1>7
  <2>2. a[u] <= c.pivot /\ a[v] >= c.pivot
    BY <1>2, <2>1 DEF Passed
  <2> QED
    BY <1>1, <1>4, <2>2
<1> QED
  BY <1>1, <1>2, <1>4, <1>5, <1>6, <1>7

(* Nobody else works in the segment of a call whose parts are finished.    *)
LEMMA Alone ==
  ASSUME IInv, NEW k \in Live, 2 * k \notin Live, 2 * k + 1 \notin Live,
         NEW m \in Live, m # k
  PROVE  ~(calls[k].lo <= calls[m].lo /\
           calls[m].lo + calls[m].n <= calls[k].lo + calls[k].n)
<1> DEFINE c == calls[k]
           d == calls[m]
<1> SUFFICES ASSUME c.lo <= d.lo, d.lo + d.n <= c.lo + c.n
             PROVE  FALSE
  OBVIOUS
<1>1. /\ c.lo \in Nat /\ c.n \in Nat \ {0} /\ c.i \in Int /\ c.j \in Int
      /\ d.lo \in Nat /\ d.n \in Nat \ {0} /\ d.i \in Int /\ d.j \in Int
  BY CallTypes DEF IInv
<1>2. Disjoint(d, c) \/ Above(m, k)
  BY DEF IInv, Apart, Above
<1>3. ~Disjoint(d, c)
  BY <1>1 DEF Disjoint
<1>4. d.pc \in {"right", "wait"}
  BY <1>2, <1>3 DEF Above, IInv, Kids
<1>5. d.i \in 1 .. d.n + 1 /\ d.j \in -1 .. d.n - 1
  BY <1>4 DEF IInv, CallOK, Parting
<1>6. InLeft(d, c) \/ InRight(d, c)
  BY <1>2, <1>3 DEF Above
<1> QED
  BY <1>1, <1>5, <1>6 DEF InLeft, InRight

LEMMA ReturnFacts ==
  ASSUME NEW k \in Live, Return(k)
  PROVE  /\ calls[k].pc = "wait" /\ 2 * k \notin Live /\ 2 * k + 1 \notin Live
         /\ a' = a /\ Live' = Live \ {k}
         /\ \A h \in Live \ {k} : calls'[h] = calls[h]
  BY DEF Return, At, Live

LEMMA ReturnIInv ==
  ASSUME IInv, NEW k \in Live, Return(k)
  PROVE  IInv'
<1> DEFINE c == calls[k]
<1>1. /\ c.pc = "wait" /\ 2 * k \notin Live /\ 2 * k + 1 \notin Live
      /\ a' = a /\ Live' = Live \ {k}
      /\ \A h \in Live \ {k} : calls'[h] = calls[h]
  BY ReturnFacts
<1>2. SortedIn(a, c.lo, c.lo + c.n)
  BY <1>1, PartsMakeWhole
<1>3. TypeOK'
  BY <1>1 DEF IInv, TypeOK
<1>4. ASSUME NEW h \in Live' PROVE CallOK(a, calls[h])' /\ Kids(h)'
  <2>1. h \in Nat
    BY <1>1 DEF IInv, TypeOK
  <2> QED
    BY <1>1 DEF IInv, Kids
<1>5. ASSUME NEW h \in Live' PROVE PartsSorted(h)'
  <2> DEFINE b == calls[h]
  <2>1. PartsSorted(h) /\ Kids(h) /\ calls'[h] = b
    BY <1>1 DEF IInv
  <2>2. ASSUME b.pc \in {"right", "wait"}, 2 * h \notin Live'
        PROVE  SortedIn(a, b.lo, b.lo + b.j)
    <3>1. CASE 2 * h \notin Live
      BY <2>1, <2>2, <3>1 DEF PartsSorted
    <3>2. CASE 2 * h = k
      BY <1>2, <2>1, <3>2 DEF Kids
    <3> QED
      BY <1>1, <2>2, <3>1, <3>2
  <2>3. ASSUME b.pc = "wait", 2 * h + 1 \notin Live'
        PROVE  SortedIn(a, b.lo + b.i, b.lo + b.n)
    <3>1. CASE 2 * h + 1 \notin Live
      BY <2>1, <2>3, <3>1 DEF PartsSorted
    <3>2. CASE 2 * h + 1 = k
      <4>1. c.lo = b.lo + b.i /\ c.n = b.n - b.i
        BY <2>1, <3>2 DEF Kids
      <4>2. b.lo \in Nat /\ b.n \in Nat /\ b.i \in Int
        BY <1>1, CallTypes DEF IInv
      <4>3. c.lo + c.n = b.lo + b.n
        BY <4>1, <4>2
      <4> QED
        BY <1>2, <4>1, <4>3
    <3> QED
      BY <1>1, <2>3, <3>1, <3>2
  <2> QED
    BY <1>1, <2>1, <2>2, <2>3 DEF PartsSorted
<1>6. Parents'
  BY <1>1 DEF IInv, Parents
<1>7. Apart'
  <2>1. ASSUME NEW g \in Live', NEW h \in Live', g # h, Above(g, h) PROVE Above(g, h)'
    <3>1. /\ 2 * g = k => ~InLeft(calls[g], calls[h])
          /\ 2 * g + 1 = k => ~InRight(calls[g], calls[h])
      <4>1. ~(c.lo <= calls[h].lo /\ calls[h].lo + calls[h].n <= c.lo + c.n)
        BY <1>1, Alone
      <4>2. Kids(g)
        BY <1>1 DEF IInv
      <4>3. /\ calls[g].lo \in Nat /\ calls[g].n \in Nat \ {0} /\ calls[g].i \in Int
        BY <1>1, CallTypes DEF IInv
      <4> QED
        BY <4>1, <4>2, <4>3 DEF Kids, InLeft, InRight
    <3> QED
      BY <1>1, <2>1, <3>1 DEF Above
  <2>2. ASSUME NEW g \in Live', NEW h \in Live', g # h
        PROVE  (Disjoint(calls[g], calls[h]) \/ Above(g, h) \/ Above(h, g))'
    BY <1>1, <2>1, <2>2 DEF IInv, Apart
  <2> QED
    BY <2>2 DEF Apart
<1>8. Root'
  <2>1. CASE k # 1
    BY <1>1, <2>1, RootLives DEF IInv, Root
  <2>2. CASE k = 1
    <3>1. c.lo = 0 /\ c.n = Size
      BY <2>2 DEF IInv, Root
    <3>2. ASSUME NEW h \in Live, h # k PROVE FALSE
      <4>1. calls[h].lo \in Nat /\ calls[h].n \in Nat /\ calls[h].lo + calls[h].n <= Size
        BY CallTypes DEF IInv
      <4> QED
        BY <1>1, <3>1, <3>2, <4>1, Alone, SizeAssumption
    <3>3. Live' = {}
      BY <1>1, <3>2
    <3> QED
      BY <1>1, <1>2, <3>1, <3>3, SizeAssumption DEF Root
  <2> QED
    BY <2>1, <2>2
<1> QED
  BY <1>3, <1>4, <1>5, <1>6, <1>7, <1>8 DEF IInv

-----------------------------------------------------------------------------
(* The invariant and what follows from it                                  *)

LEMMA InitIInv == Init => IInv
<1> SUFFICES ASSUME Init PROVE IInv
  OBVIOUS
<1> DEFINE c == NewCall(0, Size)
<1>1. Live = {1} /\ calls[1] = c
  BY DEF Init, Live
<1>2. /\ c \in Call /\ c.lo = 0 /\ c.n = Size /\ c.i = 0 /\ c.j = Size /\ c.pc = "start"
  BY SizeAssumption DEF NewCall, Call, Label
<1> HIDE DEF c
<1>3. TypeOK
  BY <1>1, <1>2, SizeAssumption DEF Init, TypeOK, Call, Label
<1>4. CallOK(a, calls[1]) /\ PartsSorted(1) /\ Kids(1)
  BY <1>1, <1>2 DEF CallOK, PartsSorted, Kids, Scanning, Parting
<1>5. Parents /\ Apart /\ Root
  BY <1>1, <1>2 DEF Parents, Apart, Root
<1> QED
  BY <1>1, <1>3, <1>4, <1>5 DEF IInv

LEMMA NextIInv == IInv /\ [Next]_vars => IInv'
<1> SUFFICES ASSUME IInv, [Next]_vars PROVE IInv'
  OBVIOUS
<1>1. ASSUME NEW k \in Live, QuickSort(k) PROVE IInv'
  BY <1>1, StartIInv, ScanUpIInv, ScanDownIInv, SwapIInv, MakeLeftIInv, MakeRightIInv,
     ReturnIInv DEF QuickSort
<1>2. CASE UNCHANGED vars
  BY <1>2 DEF IInv, TypeOK, PartsSorted, Kids, Parents, Apart, Disjoint, Above, InLeft,
              InRight, Root, Live, vars
<1> QED
  BY <1>1, <1>2 DEF Next

LEMMA IInvAlways == Spec => []IInv
  BY InitIInv, NextIInv, PTL DEF Spec

(* Every variable keeps its type: the segments of all calls lie in the     *)
(* cells that main() of sort.cpp has passed.                               *)
THEOREM SortTypes == Spec => []TypeOK
<1>1. IInv => TypeOK
  BY DEF IInv
<1> QED
  BY <1>1, IInvAlways, PTL

(* Neither scan of quick_sort() leaves its segment, although nothing in    *)
(* the loops tests it (sort.cpp:36-38).                                    *)
THEOREM ScansStopInTime == Spec => []InBounds
<1>1. IInv => InBounds
  <2> SUFFICES ASSUME IInv, NEW k \in Live
               PROVE  Touched(calls[k]) \subseteq calls[k].lo .. calls[k].lo + calls[k].n
    BY DEF InBounds
  <2> DEFINE c == calls[k]
  <2>1. /\ c.lo \in Nat /\ c.n \in Nat \ {0}
        /\ c.pc \in {"up", "down", "swap"} => c.i \in 0 .. c.n /\ c.j \in 0 .. c.n
    BY CallTypes, Indices DEF IInv
  <2>2. c.n \div 2 \in 0 .. c.n
    BY <2>1
  <2> QED
    BY <2>1, <2>2 DEF Touched
<1> QED
  BY <1>1, IInvAlways, PTL

(* No cell is read or written by two calls at a time, in whichever order   *)
(* OpenMP runs the tasks: quick_sort() of sort.cpp needs no lock.          *)
THEOREM TasksNeverRace == Spec => []NoRace
<1>1. IInv => NoRace
  <2> SUFFICES ASSUME IInv, NEW k \in Live, NEW m \in Live, k # m
               PROVE  Touched(calls[k]) \cap Touched(calls[m]) = {}
    BY DEF NoRace
  <2>1. CASE calls[k].pc \in Parting \/ calls[m].pc \in Parting
    BY <2>1 DEF Touched, Parting
  <2>2. CASE calls[k].pc \notin Parting /\ calls[m].pc \notin Parting
    <3>1. ~Above(k, m) /\ ~Above(m, k)
      BY <2>2, NoKids DEF Above, Parting
    <3>2. Disjoint(calls[k], calls[m])
      BY <3>1 DEF IInv, Apart
    <3>3. ASSUME NEW h \in Live
          PROVE  Touched(calls[h]) \subseteq calls[h].lo .. calls[h].lo + calls[h].n
      <4>1. /\ calls[h].lo \in Nat /\ calls[h].n \in Nat \ {0}
            /\ calls[h].pc \in {"up", "down", "swap"} =>
                 calls[h].i \in 0 .. calls[h].n /\ calls[h].j \in 0 .. calls[h].n
        BY CallTypes, Indices DEF IInv
      <4>2. calls[h].n \div 2 \in 0 .. calls[h].n
        BY <4>1
      <4> QED
        BY <4>1, <4>2 DEF Touched
    <3>4. /\ calls[k].lo \in Nat /\ calls[k].n \in Nat
          /\ calls[m].lo \in Nat /\ calls[m].n \in Nat
      BY CallTypes DEF IInv
    <3>5. (calls[k].lo .. calls[k].lo + calls[k].n)
            \cap (calls[m].lo .. calls[m].lo + calls[m].n) = {}
      BY <3>2, <3>4 DEF Disjoint
    <3> QED
      BY <3>3, <3>5
  <2> QED
    BY <2>1, <2>2
<1> QED
  BY <1>1, IInvAlways, PTL

-----------------------------------------------------------------------------
(* The sort implements the abstract one                                    *)

LEMMA InitSorting == Init => Array!Init
<1> SUFFICES ASSUME Init PROVE Array!Init
  OBVIOUS
<1>1. (Live = {}) = FALSE
  BY DEF Init, Live
<1> QED
  BY <1>1 DEF Init, Array!Init, Array!Cells, Cells

LEMMA NextSorting ==
  IInv /\ IInv' /\ [Next]_vars => [Array!Next]_<<a, Live = {}>>
<1> SUFFICES ASSUME IInv, IInv', [Next]_vars
             PROVE  Array!Next \/ (a' = a /\ (Live = {})' = (Live = {}))
  OBVIOUS
<1>1. ASSUME NEW k \in Live, Start(k) \/ ScanUp(k) \/ ScanDown(k)
      PROVE  a' = a /\ (Live = {})' = (Live = {})
  BY <1>1 DEF Start, ScanUp, ScanDown, Live
<1>2. ASSUME NEW k \in Live, MakeLeft(k) \/ MakeRight(k)
      PROVE  a' = a /\ (Live = {})' = (Live = {})
  <2>1. a' = a /\ k \in Live'
    BY <1>2 DEF MakeLeft, MakeRight, Make, Live
  <2> QED
    BY <2>1
<1>3. ASSUME NEW k \in Live, Swap(k)
      PROVE  Array!Next \/ (a' = a /\ (Live = {})' = (Live = {}))
  <2> DEFINE c == calls[k]
             x == c.lo + c.i
             y == c.lo + c.j
  <2>1. Live' = Live /\ Live # {}
    BY <1>3 DEF Swap, Live
  <2>2. CASE c.i <= c.j
    <3>1. a' = [a EXCEPT ![x] = a[y], ![y] = a[x]]
      BY <1>3, <2>2 DEF Swap
    <3>2. x \in Cells /\ y \in Cells
      <4>1. /\ c.lo \in Nat /\ c.n \in Nat /\ c.lo + c.n <= Size /\ Size \in Nat
            /\ c.i \in 0 .. c.n /\ c.j \in 0 .. c.n
        BY <1>3, CallTypes, Indices, SizeAssumption DEF IInv, Swap, At
      <4>2. x \in 0 .. Size /\ y \in 0 .. Size
        BY <4>1
      <4> QED
        BY <4>2 DEF Cells
    <3>3. Array!Exchange(x, y)
      BY <2>1, <3>1 DEF Array!Exchange
    <3> QED
      BY <3>2, <3>3 DEF Array!Next, Array!Cells, Cells
  <2>3. CASE ~(c.i <= c.j)
    BY <1>3, <2>1, <2>3 DEF Swap
  <2> QED
    BY <2>2, <2>3
<1>4. ASSUME NEW k \in Live, Return(k)
      PROVE  Array!Next \/ (a' = a /\ (Live = {})' = (Live = {}))
  <2>1. a' = a /\ Live # {}
    BY <1>4 DEF Return
  <2>2. CASE Live' = {}
    <3>1. SortedIn(a, 0, Size)
      BY <2>1, <2>2 DEF IInv, Root
    <3>2. Array!Sorted(a)
      BY <3>1 DEF SortedIn, Array!Sorted, Array!Cells
    <3>3. Array!Finish
      BY <2>1, <2>2, <3>2 DEF Array!Finish
    <3> QED
      BY <3>3 DEF Array!Next
  <2>3. CASE Live' # {}
    BY <2>1, <2>3
  <2> QED
    BY <2>2, <2>3
<1>5. CASE UNCHANGED vars
  BY <1>5 DEF vars, Live
<1> QED
  BY <1>1, <1>2, <1>3, <1>4, <1>5 DEF Next, QuickSort

(* Whatever the order of the tasks of sort.cpp, each step of the sort      *)
(* leaves the array alone or exchanges two cells, so that no value is lost *)
(* or made up, and main()'s call returns when the array is sorted.         *)
THEOREM SortsInPlace == Spec => ImplementsSorting
<1>1. Init => Array!Init
  BY InitSorting
<1>2. IInv /\ IInv' /\ [Next]_vars => [Array!Next]_<<a, Live = {}>>
  BY NextSorting
<1> QED
  BY <1>1, <1>2, IInvAlways, PTL DEF Spec, ImplementsSorting, Array!Spec
=============================================================================
