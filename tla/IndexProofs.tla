----------------------------- MODULE IndexProofs -----------------------------
(***************************************************************************)
(* Proofs about the index builder, for every input and number of parts:    *)
(* all of the input is read, the merge keeps every part in step, and the   *)
(* output is the inverted index of what was read.                          *)
(***************************************************************************)
EXTENDS IndexBuilder, ListTheorems

-----------------------------------------------------------------------------
(* Numbers in order *)

LEMMA SortedAscends ==
  ASSUME NEW S, S \subseteq Int, IsFiniteSet(S)
  PROVE  Ascends(Sorted(S), S)
BY ListedAscends DEF Sorted

\* Ascending puts the numbers of a list in order, and neither drops nor adds one.
LEMMA AscendingIs ==
  ASSUME NEW T, T \subseteq Int, NEW s \in Seq(T)
  PROVE  /\ Ascending(s) \in Seq(T) /\ Len(Ascending(s)) = Len(s)
         /\ \A k, l \in 1 .. Len(s) : k < l => Ascending(s)[k] <= Ascending(s)[l]
         /\ \A d : Count(Ascending(s), d) = Count(s, d)
<1> DEFINE n == Len(s)
           D == 1 .. n
           V == ToSet(s)
           Less(x) == {i \in D : s[i] < x}
           AtMost(x) == {i \in D : s[i] <= x}
           Same(x) == {i \in D : s[i] = x}
           lt(x) == Cardinality(Less(x))
           le(x) == Cardinality(AtMost(x))
<1>0. n \in Nat /\ DOMAIN s = D /\ \A i \in D : s[i] \in T
  OBVIOUS
<1>2. IsFiniteSet(D) /\ Cardinality(D) = n
  <2> HIDE DEF n
  <2>1. IsFiniteSet(1 .. n) /\ Cardinality(1 .. n) = (IF 1 > n THEN 0 ELSE n - 1 + 1)
    BY <1>0, FS_Interval
  <2> QED BY <1>0, <2>1
<1>1. n \in Nat /\ DOMAIN s = D /\ \A i \in D : s[i] \in T /\ s[i] \in Int /\ s[i] \in V
  <2> HIDE DEF n, D
  <2>1. V = {s[i] : i \in D}
    BY <1>0 DEF ToSet
  <2> HIDE DEF V
  <2> QED BY <1>0, <2>1
<1>3. V \subseteq T /\ V \subseteq Int /\ \A x \in V : \E i \in D : s[i] = x
  BY <1>1 DEF ToSet
<1>4. IsFiniteSet(V)
  BY <1>1, <1>2, FiniteImage DEF ToSet
<1> HIDE DEF V, D, n
<1>5. \A x : /\ IsFiniteSet(Less(x)) /\ IsFiniteSet(AtMost(x)) /\ IsFiniteSet(Same(x))
             /\ lt(x) \in Nat /\ le(x) \in Nat /\ Cardinality(Same(x)) \in Nat
             /\ lt(x) <= n /\ le(x) <= n
  <2> TAKE x
  <2>1. Less(x) \in SUBSET D /\ AtMost(x) \in SUBSET D /\ Same(x) \in SUBSET D
    OBVIOUS
  <2> HIDE DEF Less, AtMost, Same
  <2> QED BY <1>2, <2>1, FS_Subset, FS_CardinalityType
<1>6. \A x \in V : le(x) = lt(x) + Cardinality(Same(x))
  <2> TAKE x \in V
  <2>1. x \in Int
    BY <1>3
  <2>2. \A i \in D : s[i] <= x <=> s[i] < x \/ s[i] = x
    BY <1>1, <2>1
  <2>3. \A i \in D : ~ (s[i] < x /\ s[i] = x)
    BY <1>1, <2>1
  <2>4. AtMost(x) = Less(x) \cup Same(x) /\ Less(x) \cap Same(x) = {}
    BY <2>2, <2>3
  <2>5. /\ IsFiniteSet(Less(x)) /\ IsFiniteSet(Same(x))
        /\ lt(x) \in Nat /\ Cardinality(Same(x)) \in Nat
    BY <1>5
  <2> HIDE DEF AtMost, Less, Same
  <2>6. Cardinality(Less(x) \cap Same(x)) = 0
    BY <2>4, FS_EmptySet
  <2>7. Cardinality(Less(x) \cup Same(x))
          = Cardinality(Less(x)) + Cardinality(Same(x)) - Cardinality(Less(x) \cap Same(x))
    BY ONLY <2>5, FS_Union
  <2> QED BY <2>4, <2>5, <2>6, <2>7
<1>7. \A x, y \in V : x < y => le(x) <= lt(y)
  <2> SUFFICES ASSUME NEW x \in V, NEW y \in V, x < y PROVE le(x) <= lt(y)
    OBVIOUS
  <2>1. x \in Int /\ y \in Int
    BY <1>3
  <2>2. \A i \in D : s[i] <= x => s[i] < y
    BY <1>1, <2>1
  <2>3. AtMost(x) \in SUBSET Less(y)
    BY <2>2
  <2> HIDE DEF AtMost, Less
  <2> QED BY <1>5, <2>3, FS_Subset
<1> DEFINE At(k, x) == lt(x) < k /\ le(x) >= k
<1>8. ASSUME NEW k \in D PROVE \E x \in V : At(k, x)
  <2> DEFINE G == {x \in V : le(x) >= k}
  <2>0. k \in Nat /\ 1 <= k /\ k <= n
    BY <1>1 DEF D
  <2>1. PICK g \in V : \A x \in V : x <= g
    <3>1. V # {}
      BY <1>1
    <3> QED BY <1>3, <1>4, <3>1, GreatestOf
  <2>2. le(g) = n
    <3>1. AtMost(g) = D
      BY <1>1, <2>1
    <3> HIDE DEF AtMost
    <3> QED BY <1>2, <3>1
  <2>3. G # {} /\ G \in SUBSET V
    <3>1. g \in G
      <4> HIDE DEF le
      <4> QED BY <2>0, <2>2
    <3> QED BY <3>1
  <2>4. IsFiniteSet(G) /\ G \subseteq Int
    BY <1>3, <1>4, <2>3, FS_Subset
  <2> HIDE DEF le, lt
  <2>5. PICK m \in G : \A x \in G : m <= x
    <3> HIDE DEF G
    <3> QED BY <2>3, <2>4, LeastOf
  <2>6. ASSUME lt(m) >= k PROVE FALSE
    <3> DEFINE H == {x \in V : x < m}
    <3>0. m \in V /\ m \in Int
      BY <1>3
    <3>1. H # {}
      <4>1. Less(m) # {}
        <5>1. Cardinality({}) = 0
          BY FS_EmptySet
        <5>2. lt(m) = Cardinality(Less(m))
          BY DEF lt
        <5> HIDE DEF Less
        <5>3. ASSUME Less(m) = {} PROVE FALSE
          <6>1. lt(m) = 0
            BY <5>1, <5>2, <5>3
          <6> QED BY <2>0, <2>6, <6>1
        <5> QED BY <5>3
      <4>2. PICK i \in D : s[i] < m
        BY <4>1
      <4> QED BY <1>1, <4>2
    <3>2. IsFiniteSet(H) /\ H \subseteq Int
      <4>1. H \in SUBSET V
        OBVIOUS
      <4> HIDE DEF H
      <4> QED BY <1>3, <1>4, <4>1, FS_Subset
    <3>3. PICK h \in H : \A x \in H : x <= h
      <4> HIDE DEF H
      <4> QED BY <3>1, <3>2, GreatestOf
    <3>4. h \in V /\ h < m /\ h \in Int
      BY <1>3
    <3>5. \A i \in D : s[i] < m <=> s[i] <= h
      <4> TAKE i \in D
      <4>1. s[i] \in Int /\ s[i] \in V
        BY <1>1
      <4>2. s[i] < m => s[i] <= h
        BY <3>3, <4>1
      <4>3. s[i] <= h => s[i] < m
        BY <3>0, <3>4, <4>1
      <4> QED BY <4>2, <4>3
    <3>6. le(h) = lt(m)
      <4>1. AtMost(h) = Less(m)
        BY <3>5
      <4> HIDE DEF AtMost, Less
      <4> QED BY <4>1 DEF le, lt
    <3>7. h \in G
      BY <2>6, <3>4, <3>6
    <3>8. m <= h
      <4> HIDE DEF G
      <4> QED BY <2>5, <3>7
    <3> QED BY <3>0, <3>4, <3>8
  <2>7. lt(m) < k
    <3>1. lt(m) \in Nat
      BY <1>5 DEF lt
    <3> QED BY <2>0, <2>6, <3>1
  <2> QED BY <2>7
<1> DEFINE a == Ascending(s)
<1>10. DOMAIN a = D
  BY <1>1 DEF Ascending
<1>10a. a = [k \in D |-> CHOOSE x \in V : At(k, x)]
  <2> HIDE DEF D
  <2> QED BY <1>1 DEF Ascending, V
<1>9. \A k \in D : a[k] = CHOOSE x \in V : At(k, x)
  <2> HIDE DEF a, At, D
  <2> QED BY <1>10a
<1> HIDE DEF a, At
<1>11. \A k \in D : a[k] \in V /\ At(k, a[k])
  BY <1>8, <1>9
<1>12. a \in Seq(T) /\ Len(a) = n
  <2>0. \A k \in D : a[k] \in T
    BY <1>3, <1>11
  <2>1. a \in [1 .. n -> T]
    BY <1>10a, <2>0 DEF D
  <2> QED BY <1>1, <2>1
<1>13. ASSUME NEW k \in D, NEW x \in V, At(k, x) PROVE a[k] = x
  <2> SUFFICES ASSUME a[k] # x PROVE FALSE
    OBVIOUS
  <2> HIDE DEF lt, le
  <2>0. k \in Nat
    BY <1>1 DEF D
  <2>1. a[k] \in V /\ a[k] \in Int /\ x \in Int /\ At(k, a[k]) /\ k \in Nat
    BY <1>3, <1>11, <2>0
  <2>2. a[k] < x \/ x < a[k]
    BY <2>1
  <2>3. lt(x) \in Nat /\ le(x) \in Nat /\ lt(a[k]) \in Nat /\ le(a[k]) \in Nat
    BY <1>5 DEF lt, le
  <2>4. lt(x) < k /\ le(x) >= k /\ lt(a[k]) < k /\ le(a[k]) >= k
    BY <1>13, <2>1 DEF At
  <2>5. le(a[k]) <= lt(x) \/ le(x) <= lt(a[k])
    BY <1>7, <2>1, <2>2 DEF le, lt
  <2> QED BY <2>1, <2>3, <2>4, <2>5
<1>14. ASSUME NEW k \in D, NEW l \in D, k < l PROVE a[k] <= a[l]
  <2> SUFFICES ASSUME ~ (a[k] <= a[l]) PROVE FALSE
    OBVIOUS
  <2>0. k \in Nat /\ l \in Nat
    BY <1>1 DEF D
  <2>1. /\ a[k] \in V /\ a[l] \in V /\ a[k] \in Int /\ a[l] \in Int
        /\ At(k, a[k]) /\ At(l, a[l]) /\ k \in Nat /\ l \in Nat
    BY <1>3, <1>11, <2>0
  <2>2. a[l] < a[k]
    BY <2>1
  <2> HIDE DEF lt, le
  <2>3. le(a[l]) <= lt(a[k])
    BY <1>7, <2>1, <2>2 DEF le, lt
  <2>4. lt(a[k]) < k /\ le(a[l]) >= l
    BY <2>1 DEF At
  <2>5. lt(a[k]) \in Nat /\ le(a[l]) \in Nat
    BY <1>5 DEF lt, le
  <2> QED BY <1>14, <2>1, <2>3, <2>4, <2>5
<1>15. ASSUME NEW d PROVE Count(a, d) = Count(s, d)
  <2>1. Count(s, d) = Cardinality(Same(d))
    BY <1>1 DEF Count
  <2>2. Count(a, d) = Cardinality({k \in D : a[k] = d})
    BY <1>10 DEF Count
  <2>3. CASE d \notin V
    <3>1. Same(d) = {} /\ {k \in D : a[k] = d} = {}
      BY <1>1, <1>11, <2>3
    <3> QED BY <2>1, <2>2, <3>1
  <2>4. CASE d \in V
    <3>1. /\ lt(d) \in Nat /\ le(d) \in Nat /\ le(d) <= n /\ Cardinality(Same(d)) \in Nat
          /\ le(d) = lt(d) + Cardinality(Same(d))
      BY <1>5, <1>6, <2>4
    <3> HIDE DEF lt, le, Same
    <3>2. PICK b \in Nat, c \in Nat : b = lt(d) /\ c = le(d)
      BY <3>1
    <3>3. c <= n /\ c = b + Cardinality(Same(d)) /\ b <= c
      BY <3>1, <3>2
    <3>4. \A k \in D : a[k] = d <=> k \in b + 1 .. c
      <4> TAKE k \in D
      <4>1. k \in Nat
        BY <1>1 DEF D
      <4>2. At(k, d) <=> k \in b + 1 .. c
        BY <3>2, <4>1 DEF At
      <4>3. At(k, d) => a[k] = d
        BY <1>13, <2>4
      <4>4. a[k] = d => At(k, d)
        BY <1>11
      <4> QED BY <4>2, <4>3, <4>4
    <3>5. b + 1 .. c \subseteq D
      BY <1>1, <3>2, <3>3 DEF D
    <3>6. {k \in D : a[k] = d} = b + 1 .. c
      <4> DEFINE I == b + 1 .. c
      <4> HIDE DEF I, D
      <4>1. \A k \in D : a[k] = d <=> k \in I
        BY <3>4 DEF I
      <4>2. I \subseteq D
        BY <3>5 DEF I
      <4> QED BY <4>1, <4>2 DEF I
    <3>7. Cardinality(b + 1 .. c) = c - b
      <4>1. b + 1 \in Int /\ c \in Int
        BY <3>2
      <4>2. Cardinality(b + 1 .. c) = (IF b + 1 > c THEN 0 ELSE c - (b + 1) + 1)
        BY ONLY <4>1, FS_Interval
      <4> QED BY <3>2, <3>3, <4>2
    <3>8. c - b = Cardinality(Same(d))
      BY <3>1, <3>2, <3>3
    <3> QED BY <2>1, <2>2, <3>6, <3>7, <3>8
  <2> QED BY <2>3, <2>4
<1> QED BY <1>12, <1>14, <1>15 DEF a, D, n

\* The sums of the first numbers of a list.
LEMMA SumsAre ==
  ASSUME NEW s \in Seq(Nat)
  PROVE  /\ Sums(s) \in [0 .. Len(s) -> Nat] /\ Sums(s)[0] = 0
         /\ \A k \in 1 .. Len(s) : Sums(s)[k] = Sums(s)[k - 1] + s[k]
<1> DEFINE n == Len(s)
           g == [k \in 1 .. n |-> [x \in Nat |-> x + s[k]]]
           Recursive(u) == u = [k \in 0 .. n |-> IF k = 0 THEN 0 ELSE u[k - 1] + s[k]]
<1>1. n \in Nat /\ \A k \in 1 .. n : s[k] \in Nat
  OBVIOUS
<1>2. \A k \in 1 .. n : g[k] \in [Nat -> Nat] /\ \A x \in Nat : g[k][x] = x + s[k]
  BY <1>1
<1>3. g \in [1 .. n -> [Nat -> Nat]]
  BY <1>2
<1> HIDE DEF g, n
<1>4. PICK f \in [0 .. n -> Nat] : f[0] = 0 /\ \A k \in 1 .. n : f[k] = g[k][f[k - 1]]
  <2>1. 0 \in Nat
    OBVIOUS
  <2>2. PICK f \in [0 .. n -> Nat] : Stepwise(f, n, 0, g)
    BY <1>1, <1>3, <2>1, StepwiseExists
  <2> QED BY <2>2 DEF Stepwise
<1>5. ASSUME NEW k \in 0 .. n PROVE f[k] = IF k = 0 THEN 0 ELSE f[k - 1] + s[k]
  <2>1. CASE k = 0
    BY <1>4, <2>1
  <2>2. CASE k # 0
    <3>1. k \in 1 .. n /\ k - 1 \in 0 .. n
      BY <1>1, <2>2
    <3>2. f[k - 1] \in Nat
      BY <3>1
    <3> QED BY <1>2, <1>4, <2>2, <3>1, <3>2
  <2> QED BY <2>1, <2>2
<1>6. Recursive(f)
  BY <1>5
<1>7. Sums(s) = CHOOSE u : Recursive(u)
  BY DEF Sums, n
<1>8. Recursive(Sums(s))
  <2> HIDE DEF Recursive
  <2> QED BY <1>6, <1>7
<1> DEFINE u == Sums(s)
<1>9. \A k \in 0 .. n : u[k] = IF k = 0 THEN 0 ELSE u[k - 1] + s[k]
  <2> HIDE DEF u
  <2> QED BY <1>8 DEF u
<1>10. u = [k \in 0 .. n |-> u[k]]
  <2> DEFINE W(k) == IF k = 0 THEN 0 ELSE u[k - 1] + s[k]
  <2> HIDE DEF u
  <2>1. u = [k \in 0 .. n |-> W(k)]
    BY <1>8 DEF u
  <2> HIDE DEF W
  <2> QED BY <2>1
<1> HIDE DEF u
<1> DEFINE P == {k \in 0 .. n : u[k] \in Nat}
<1>11. 0 \in P
  BY <1>1, <1>9
<1>12. ASSUME NEW k \in 0 .. n, k < n, k \in P PROVE k + 1 \in P
  <2>1. k + 1 \in 0 .. n /\ k + 1 \in 1 .. n /\ (k + 1) - 1 = k /\ k + 1 # 0
    BY <1>1, <1>12
  <2>2. u[k + 1] = u[k] + s[k + 1]
    BY <1>9, <2>1
  <2> QED BY <1>1, <1>12, <2>1, <2>2
<1>13. \A k \in 0 .. n : k \in P
  <2> HIDE DEF P
  <2> QED BY <1>1, <1>11, <1>12, StepwiseHolds
<1>14. u \in [0 .. n -> Nat]
  BY <1>10, <1>13
<1>15. u[0] = 0 /\ \A k \in 1 .. n : u[k] = u[k - 1] + s[k]
  BY <1>1, <1>9
<1> QED BY <1>14, <1>15 DEF u, n

-----------------------------------------------------------------------------
(* Lists of lists, one behind the other *)

\* A value is in x \o y as often as in x and in y together.
LEMMA CountJoined ==
  ASSUME NEW T, NEW x \in Seq(T), NEW y \in Seq(T), NEW d
  PROVE  Count(x \o y, d) = Count(x, d) + Count(y, d) /\ Count(x, d) \in Nat /\ Count(y, d) \in Nat
<1> DEFINE z == x \o y
           n == Len(x)
           m == Len(y)
           I == {k \in 1 .. n : x[k] = d}
           J == {k \in 1 .. m : y[k] = d}
           f == [k \in J |-> n + k]
           K == {f[k] : k \in J}
           L == {k \in 1 .. n + m : z[k] = d}
<1>1. /\ z \in Seq(T) /\ Len(z) = n + m /\ n \in Nat /\ m \in Nat
      /\ \A k \in 1 .. n : z[k] = x[k]
      /\ \A k \in 1 .. m : z[n + k] = y[k]
  BY JoinedIs
<1>2. DOMAIN x = 1 .. n /\ DOMAIN y = 1 .. m /\ DOMAIN z = 1 .. n + m
  BY <1>1
<1>3. Count(x, d) = Cardinality(I) /\ Count(y, d) = Cardinality(J) /\ Count(z, d) = Cardinality(L)
  <2> HIDE DEF z, n, m
  <2> QED BY <1>2 DEF Count
<1> HIDE DEF z, n, m
<1>4. IsFiniteSet(I) /\ IsFiniteSet(J)
  <2>1. IsFiniteSet(1 .. n) /\ IsFiniteSet(1 .. m)
    <3>1. 1 \in Int /\ n \in Int /\ m \in Int
      BY <1>1
    <3> QED BY ONLY <3>1, FS_Interval
  <2>2. I \in SUBSET (1 .. n) /\ J \in SUBSET (1 .. m)
    OBVIOUS
  <2> HIDE DEF I, J
  <2> QED BY <2>1, <2>2, FS_Subset
<1>5. IsFiniteSet(K) /\ Cardinality(K) = Cardinality(J)
  <2>1. DOMAIN f = J
    OBVIOUS
  <2>2. \A a, b \in J : f[a] = f[b] => a = b
    BY <1>1
  <2> HIDE DEF f, J
  <2> QED BY ONLY <1>4, <2>1, <2>2, SameNumber DEF K
<1>6. L = I \cup K
  <2>1. ASSUME NEW k \in L PROVE k \in I \/ k \in K
    <3>1. k \in Nat /\ k \in 1 .. n + m /\ z[k] = d
      BY <1>1
    <3>2. ASSUME k <= n PROVE k \in I
      <4>1. k \in 1 .. n
        BY <1>1, <3>1, <3>2
      <4> QED BY <1>1, <3>1, <4>1
    <3>3. ASSUME k > n PROVE k \in K
      <4>1. k - n \in 1 .. m /\ n + (k - n) = k
        BY <1>1, <3>1, <3>3
      <4>2. k - n \in J
        BY <1>1, <3>1, <4>1
      <4>3. f[k - n] = k
        BY <4>1, <4>2
      <4> HIDE DEF f, J
      <4> QED BY <4>2, <4>3
    <3> HIDE DEF I, K
    <3> QED BY <1>1, <3>1, <3>2, <3>3
  <2>2. ASSUME NEW k \in I PROVE k \in L
    BY <1>1
  <2>3. ASSUME NEW k \in K PROVE k \in L
    <3>1. PICK j \in J : k = n + j
      OBVIOUS
    <3>2. n + j \in 1 .. n + m /\ z[n + j] = d
      BY <1>1
    <3> QED BY <3>1, <3>2
  <2> HIDE DEF I, K, L
  <2> QED BY <2>1, <2>2, <2>3
<1>7. I \cap K = {}
  <2> SUFFICES ASSUME NEW i \in I, i \in K PROVE FALSE
    OBVIOUS
  <2>1. PICK j \in J : i = n + j
    OBVIOUS
  <2> QED BY <1>1, <2>1
<1>8. Cardinality(I) \in Nat /\ Cardinality(J) \in Nat
  <2> HIDE DEF I, J
  <2> QED BY <1>4, FS_CardinalityType
<1> HIDE DEF I, J, K, L
<1>9. Cardinality(I \cup K) = Cardinality(I) + Cardinality(K) - Cardinality(I \cap K)
  BY ONLY <1>4, <1>5, FS_Union
<1>10. Cardinality(I \cap K) = 0
  BY <1>7, FS_EmptySet
<1> QED BY <1>3, <1>5, <1>6, <1>8, <1>9, <1>10 DEF z

\* FlattenSeq keeps how often a value is in the lists.
LEMMA FlattenCount ==
  ASSUME NEW T, NEW s \in Seq(Seq(T)), NEW d, NEW t \in [0 .. Len(s) -> Int],
         t[0] = 0, \A k \in 1 .. Len(s) : t[k] = t[k - 1] + Count(s[k], d)
  PROVE  FlattenSeq(s) \in Seq(T) /\ Count(FlattenSeq(s), d) = t[Len(s)]
<1> DEFINE n == Len(s)
           A == Seq(T)
<1>1. PICK f \in [0 .. n -> A] :
        /\ f[0] = <<>> /\ FlattenSeq(s) = f[n]
        /\ \A k \in 1 .. n : f[k] = f[k - 1] \o s[k]
  BY FlattenIs
<1>2. n \in Nat /\ \A k \in 1 .. n : s[k] \in A
  OBVIOUS
<1>3. Count(<<>>, d) = 0
  <2>1. {k \in DOMAIN <<>> : <<>>[k] = d} = {}
    OBVIOUS
  <2> QED BY <2>1, FS_EmptySet DEF Count
<1> DEFINE P == {k \in 0 .. n : Count(f[k], d) = t[k]}
<1> HIDE DEF n
<1>4. 0 \in P
  BY <1>1, <1>2, <1>3
<1>5. ASSUME NEW k \in 0 .. n, k < n, k \in P PROVE k + 1 \in P
  <2>1. k + 1 \in 1 .. n /\ k + 1 \in 0 .. n /\ (k + 1) - 1 = k
    BY <1>2, <1>5
  <2>2. f[k + 1] = f[k] \o s[k + 1] /\ t[k + 1] = t[k] + Count(s[k + 1], d)
    BY <1>1, <2>1 DEF n
  <2>3. f[k] \in A /\ s[k + 1] \in A
    BY <1>2, <2>1
  <2>4. Count(f[k] \o s[k + 1], d) = Count(f[k], d) + Count(s[k + 1], d)
    BY <2>3, CountJoined
  <2>5. Count(f[k + 1], d) = t[k + 1]
    BY <1>5, <2>2, <2>4
  <2> QED BY <2>1, <2>5
<1>6. \A k \in 0 .. n : k \in P
  <2> HIDE DEF P
  <2> QED BY <1>2, <1>4, <1>5, StepwiseHolds
<1>7. n \in 0 .. n
  BY <1>2
<1>8. f[n] \in A
  BY <1>7
<1> QED BY <1>1, <1>6, <1>7, <1>8 DEF n
-----------------------------------------------------------------------------
(* The documents *)

InputOK == input \in SeqOf(Document, MaxDocs)

LEMMA DocumentsAre ==
  ASSUME InputOK
  PROVE  /\ input \in Seq(Document) /\ Len(input) \in Nat /\ DOMAIN input = 1 .. Len(input)
         /\ \A i \in 1 .. Len(input) :
              /\ input[i].id \in DocId /\ input[i].id \in Int
              /\ input[i].words \in Seq(Word) /\ Len(input[i].words) \in 0 .. MaxWords
              /\ DOMAIN input[i].words = 1 .. Len(input[i].words)
<1>1. PICK m \in 0 .. MaxDocs : input \in [1 .. m -> Document]
  BY DEF InputOK, SeqOf
<1>2. m \in Nat /\ input \in Seq(Document) /\ Len(input) = m
  BY <1>1
<1>3. ASSUME NEW i \in 1 .. m
      PROVE  /\ input[i].id \in DocId /\ input[i].id \in Int
             /\ input[i].words \in Seq(Word) /\ Len(input[i].words) \in 0 .. MaxWords
             /\ DOMAIN input[i].words = 1 .. Len(input[i].words)
  <2>1. input[i] \in Document
    BY <1>1
  <2>2. input[i].id \in DocId /\ input[i].words \in SeqOf(Word, MaxWords)
    BY <2>1 DEF Document
  <2>3. PICK l \in 0 .. MaxWords : input[i].words \in [1 .. l -> Word]
    BY <2>2 DEF SeqOf
  <2>4. l \in Nat /\ input[i].words \in Seq(Word) /\ Len(input[i].words) = l
    BY <2>3, BoundAssumption
  <2> QED BY <2>2, <2>3, <2>4, WordAssumption
<1> QED BY <1>1, <1>2, <1>3

\* The words of documents a to b.
Within(a, b) == UNION {ToSet(input[i].words) : i \in a .. b}

LEMMA WithinIs ==
  ASSUME InputOK, NEW a \in Nat \ {0}, NEW b \in Nat, b <= Len(input)
  PROVE  /\ WordsOf(SubSeq(input, a, b)) = Within(a, b)
         /\ Within(a, b) \subseteq Word /\ Within(a, b) \subseteq Int /\ IsFiniteSet(Within(a, b))
         /\ \A w : w \in Within(a, b) <=>
              \E i \in a .. b : \E k \in 1 .. Len(input[i].words) : input[i].words[k] = w
<1> DEFINE docs == SubSeq(input, a, b)
           l == Len(docs)
<1>1. \A i \in a .. b : i \in 1 .. Len(input)
  BY DocumentsAre
<1>2. /\ l \in Nat /\ DOMAIN docs = 1 .. l
      /\ \A i \in 1 .. l : a + i - 1 \in a .. b /\ docs[i] = input[a + i - 1]
      /\ \A i \in a .. b : i - a + 1 \in 1 .. l
  BY DocumentsAre
<1>3. \A i \in a .. b : docs[i - a + 1] = input[i]
  <2> TAKE i \in a .. b
  <2>1. i - a + 1 \in 1 .. l /\ a + (i - a + 1) - 1 = i
    BY <1>2
  <2>2. docs[i - a + 1] = input[a + (i - a + 1) - 1]
    BY <1>2, <2>1
  <2> QED BY <2>1, <2>2
<1> HIDE DEF docs, l
<1>4. WordsOf(docs) = Within(a, b)
  <2>1. ASSUME NEW w \in WordsOf(docs) PROVE w \in Within(a, b)
    <3>1. PICK i \in 1 .. l : w \in ToSet(docs[i].words)
      BY <1>2 DEF WordsOf
    <3>2. a + i - 1 \in a .. b /\ w \in ToSet(input[a + i - 1].words)
      BY <1>2, <3>1
    <3> QED BY <3>2 DEF Within
  <2>2. ASSUME NEW w \in Within(a, b) PROVE w \in WordsOf(docs)
    <3>1. PICK i \in a .. b : w \in ToSet(input[i].words)
      BY DEF Within
    <3>2. i - a + 1 \in DOMAIN docs /\ w \in ToSet(docs[i - a + 1].words)
      BY <1>2, <1>3, <3>1
    <3> QED BY <3>2 DEF WordsOf
  <2> QED BY <2>1, <2>2
<1>5. \A i \in a .. b : /\ input[i].words \in Seq(Word)
                        /\ DOMAIN input[i].words = 1 .. Len(input[i].words)
                        /\ Len(input[i].words) \in Nat
  BY <1>1, DocumentsAre, BoundAssumption
<1>6. ASSUME NEW w
      PROVE  w \in Within(a, b) <=>
               \E i \in a .. b : \E k \in 1 .. Len(input[i].words) : input[i].words[k] = w
  BY <1>5 DEF Within, ToSet
<1>7. Within(a, b) \subseteq Word /\ Within(a, b) \subseteq Int
  <2>1. ASSUME NEW w \in Within(a, b) PROVE w \in Word
    BY <1>5, <1>6
  <2> QED BY <2>1, WordAssumption
<1>8. IsFiniteSet(Within(a, b))
  <2> DEFINE I == a .. b
             F == [i \in I |-> ToSet(input[i].words)]
             S == {F[i] : i \in I}
  <2>1. IsFiniteSet(I) /\ DOMAIN F = I
    <3>1. a \in Int /\ b \in Int
      OBVIOUS
    <3> QED BY <3>1, FS_Interval
  <2>2. \A i \in I : IsFiniteSet(F[i])
    <3> SUFFICES ASSUME NEW i \in I PROVE IsFiniteSet(F[i])
      OBVIOUS
    <3> DEFINE W == input[i].words
    <3>1. Len(W) \in Int /\ DOMAIN W = 1 .. Len(W)
      BY <1>5
    <3> HIDE DEF W
    <3>2. IsFiniteSet(1 .. Len(W))
      BY <3>1, FS_Interval
    <3>3. IsFiniteSet({W[k] : k \in 1 .. Len(W)})
      BY <3>1, <3>2, FiniteImage
    <3>4. ToSet(W) = {W[k] : k \in 1 .. Len(W)}
      BY <3>1 DEF ToSet
    <3> QED BY <3>3, <3>4 DEF W
  <2>3. UNION S = Within(a, b)
    BY DEF Within
  <2> HIDE DEF F, I
  <2>4. IsFiniteSet(S)
    BY <2>1, FiniteImage
  <2>5. \A T \in S : IsFiniteSet(T)
    BY <2>2
  <2> HIDE DEF S
  <2> QED BY <2>3, <2>4, <2>5, FS_UNION
<1> QED BY <1>4, <1>6, <1>7, <1>8 DEF docs

\* One document more, or none.
LEMMA TimesStep ==
  ASSUME InputOK, NEW w, NEW d, NEW n \in 1 .. Len(input)
  PROVE  /\ Times(w, d, n) = Times(w, d, n - 1)
                               + (IF input[n].id = d THEN Count(input[n].words, w) ELSE 0)
         /\ Times(w, d, n - 1) \in Nat /\ Count(input[n].words, w) \in Nat
<1> DEFINE In(q) == /\ input[q[1]].id = d
                    /\ q[2] \in DOMAIN input[q[1]].words /\ input[q[1]].words[q[2]] = w
           Q(m) == {q \in (1 .. m) \X (1 .. MaxWords) : In(q)}
           K == {k \in DOMAIN input[n].words : input[n].words[k] = w}
           f == [k \in K |-> <<n, k>>]
           R == {f[k] : k \in K}
<1>1. n \in Nat /\ n - 1 \in Nat /\ MaxWords \in Nat /\ n \in 1 .. Len(input)
  BY DocumentsAre, BoundAssumption
<1>2. ASSUME NEW m \in Nat PROVE IsFiniteSet(Q(m)) /\ Cardinality(Q(m)) \in Nat
  <2> DEFINE A == 1 .. m
             B == 1 .. MaxWords
  <2>1. IsFiniteSet(A) /\ IsFiniteSet(B)
    <3>1. 1 \in Int /\ m \in Int /\ MaxWords \in Int
      BY <1>1
    <3> QED BY ONLY <3>1, FS_Interval
  <2>2. Q(m) \in SUBSET (A \X B)
    OBVIOUS
  <2> HIDE DEF A, B, Q
  <2>3. IsFiniteSet(A \X B)
    BY <2>1, FS_Product
  <2> QED BY <2>2, <2>3, FS_Subset, FS_CardinalityType
<1>3. IsFiniteSet(K) /\ Cardinality(K) \in Nat /\ \A k \in K : k \in 1 .. MaxWords
  <2>1. DOMAIN input[n].words = 1 .. Len(input[n].words) /\ Len(input[n].words) \in 0 .. MaxWords
    BY DocumentsAre
  <2> DEFINE l == Len(input[n].words)
  <2>2. 1 \in Int /\ l \in Int /\ l <= MaxWords
    BY <1>1, <2>1
  <2>3. K \in SUBSET (1 .. l)
    BY <2>1
  <2> HIDE DEF K, l
  <2>4. IsFiniteSet(1 .. l)
    BY ONLY <2>2, FS_Interval
  <2>5. \A k \in K : k \in 1 .. MaxWords
    BY <1>1, <2>2, <2>3
  <2> QED BY <2>3, <2>4, <2>5, FS_Subset, FS_CardinalityType
<1>4. IsFiniteSet(R) /\ Cardinality(R) = Cardinality(K)
  <2>1. DOMAIN f = K /\ \A x, y \in K : f[x] = f[y] => x = y
    OBVIOUS
  <2> HIDE DEF f, K
  <2> QED BY ONLY <1>3, <2>1, SameNumber DEF R
<1>5. Times(w, d, n) = Cardinality(Q(n)) /\ Times(w, d, n - 1) = Cardinality(Q(n - 1))
  BY DEF Times
<1>6. Count(input[n].words, w) = Cardinality(K)
  BY DEF Count
<1>7. CASE input[n].id # d
  <2>1. ASSUME NEW q \in Q(n) PROVE q \in Q(n - 1)
    <3>1. q \in (1 .. n) \X (1 .. MaxWords) /\ In(q) /\ q[1] # n
      BY <1>7
    <3>2. q \in (1 .. n - 1) \X (1 .. MaxWords)
      BY <1>1, <3>1
    <3> QED BY <3>1, <3>2
  <2>2. ASSUME NEW q \in Q(n - 1) PROVE q \in Q(n)
    <3>1. q \in (1 .. n - 1) \X (1 .. MaxWords) /\ In(q)
      OBVIOUS
    <3>2. q \in (1 .. n) \X (1 .. MaxWords)
      BY <1>1, <3>1
    <3> QED BY <3>1, <3>2
  <2>3. Q(n) = Q(n - 1)
    <3> HIDE DEF Q
    <3> QED BY <2>1, <2>2
  <2>4. Cardinality(Q(n - 1)) \in Nat
    BY <1>1, <1>2
  <2> HIDE DEF Q, K
  <2> QED BY <1>3, <1>5, <1>6, <1>7, <2>3, <2>4
<1>8. CASE input[n].id = d
  <2>1. ASSUME NEW q \in Q(n) PROVE q \in Q(n - 1) \cup R
    <3>1. q \in (1 .. n) \X (1 .. MaxWords) /\ In(q) /\ q = <<q[1], q[2]>> /\ q[1] \in 1 .. n
      OBVIOUS
    <3>2. ASSUME q[1] = n PROVE q \in R
      <4>1. q[2] \in K
        BY <3>1, <3>2
      <4>2. f[q[2]] = q
        BY <3>1, <3>2, <4>1
      <4> HIDE DEF f, K
      <4> QED BY <4>1, <4>2
    <3>3. ASSUME q[1] # n PROVE q \in Q(n - 1)
      <4>1. q[1] \in 1 .. n - 1
        BY <1>1, <3>1, <3>3
      <4>2. q \in (1 .. n - 1) \X (1 .. MaxWords)
        BY <3>1, <4>1
      <4> QED BY <3>1, <4>2
    <3> HIDE DEF Q, R, In
    <3> QED BY <3>2, <3>3
  <2>2. ASSUME NEW q \in Q(n - 1) PROVE q \in Q(n)
    <3>1. q \in (1 .. n - 1) \X (1 .. MaxWords) /\ In(q)
      OBVIOUS
    <3>2. q \in (1 .. n) \X (1 .. MaxWords)
      BY <1>1, <3>1
    <3> QED BY <3>1, <3>2
  <2>3. ASSUME NEW q \in R PROVE q \in Q(n) /\ q \notin Q(n - 1)
    <3>1. PICK k \in K : q = <<n, k>>
      OBVIOUS
    <3>2. k \in 1 .. MaxWords /\ n \in 1 .. n /\ n \notin 1 .. n - 1
      BY <1>1, <1>3
    <3>3. q[1] = n /\ q[2] = k /\ q \in (1 .. n) \X (1 .. MaxWords)
      BY <3>1, <3>2
    <3>4. In(q)
      BY <1>8, <3>1, <3>3
    <3> QED BY <3>2, <3>3, <3>4
  <2>4. IsFiniteSet(Q(n - 1)) /\ Cardinality(Q(n - 1)) \in Nat
    BY <1>1, <1>2
  <2> HIDE DEF Q, R, K
  <2>5. Q(n) = Q(n - 1) \cup R /\ Q(n - 1) \cap R = {}
    BY <2>1, <2>2, <2>3
  <2>6. Cardinality(Q(n - 1) \cup R)
          = Cardinality(Q(n - 1)) + Cardinality(R) - Cardinality(Q(n - 1) \cap R)
    BY ONLY <1>4, <2>4, FS_Union
  <2>7. Cardinality(Q(n - 1) \cap R) = 0
    BY <2>5, FS_EmptySet
  <2> QED BY <1>3, <1>4, <1>5, <1>6, <1>8, <2>4, <2>5, <2>6, <2>7
<1> QED BY <1>7, <1>8
LEMMA TimesNone ==
  ASSUME InputOK, NEW w, NEW d
  PROVE  Times(w, d, 0) = 0 /\ \A n \in 0 .. Len(input) : Times(w, d, n) \in Nat
<1> DEFINE Q == {q \in (1 .. 0) \X (1 .. MaxWords) :
                   /\ input[q[1]].id = d
                   /\ q[2] \in DOMAIN input[q[1]].words /\ input[q[1]].words[q[2]] = w}
<1>1. Q = {}
  OBVIOUS
<1>2. Times(w, d, 0) = 0
  BY <1>1, FS_EmptySet DEF Times
<1>3. ASSUME NEW n \in 0 .. Len(input) PROVE Times(w, d, n) \in Nat
  <2>1. Len(input) \in Nat
    BY DocumentsAre
  <2>2. CASE n = 0
    BY <1>2, <2>2
  <2>3. CASE n # 0
    <3>1. n \in 1 .. Len(input)
      BY <2>1, <2>3
    <3>2. /\ Times(w, d, n) = Times(w, d, n - 1)
                                + (IF input[n].id = d THEN Count(input[n].words, w) ELSE 0)
          /\ Times(w, d, n - 1) \in Nat /\ Count(input[n].words, w) \in Nat
      BY <3>1, TimesStep
    <3> QED BY <3>2
  <2> QED BY <2>2, <2>3
<1> QED BY <1>2, <1>3

\* Documents without a word do not change how often it was found.
LEMMA TimesApart ==
  ASSUME InputOK, NEW w, NEW d, NEW a \in Nat, NEW b \in Nat, a <= b, b <= Len(input),
         w \notin Within(a + 1, b)
  PROVE  Times(w, d, b) = Times(w, d, a)
<1> DEFINE P == {n \in 0 .. b : n >= a => Times(w, d, n) = Times(w, d, a)}
<1>1. 0 \in P
  OBVIOUS
<1>2. ASSUME NEW n \in 0 .. b, n < b, n \in P PROVE n + 1 \in P
  <2>1. n + 1 \in 0 .. b /\ n + 1 \in 1 .. Len(input) /\ n \in Nat /\ (n + 1) - 1 = n
    BY <1>2, DocumentsAre
  <2>2. CASE n + 1 <= a
    <3>1. n + 1 >= a => n + 1 = a
      BY <2>1, <2>2
    <3> QED BY <2>1, <3>1
  <2>3. CASE n + 1 > a
    <3>1. n >= a /\ n + 1 \in a + 1 .. b
      BY <2>1, <2>3
    <3>2. /\ input[n + 1].words \in Seq(Word)
          /\ DOMAIN input[n + 1].words = 1 .. Len(input[n + 1].words)
      BY <2>1, DocumentsAre
    <3>3. \A k \in DOMAIN input[n + 1].words : input[n + 1].words[k] # w
      BY <3>1 DEF Within, ToSet
    <3>4. Count(input[n + 1].words, w) = 0
      <4>1. {k \in DOMAIN input[n + 1].words : input[n + 1].words[k] = w} = {}
        BY <3>3
      <4> QED BY <4>1, FS_EmptySet DEF Count
    <3>5. /\ Times(w, d, n + 1) = Times(w, d, n)
                                + (IF input[n + 1].id = d THEN Count(input[n + 1].words, w) ELSE 0)
          /\ Times(w, d, n) \in Nat
      <4> DEFINE m == n + 1
      <4>1. m \in 1 .. Len(input) /\ m - 1 = n
        BY <2>1
      <4> HIDE DEF m
      <4>2. /\ Times(w, d, m) = Times(w, d, m - 1)
                                  + (IF input[m].id = d THEN Count(input[m].words, w) ELSE 0)
            /\ Times(w, d, m - 1) \in Nat
        BY <4>1, TimesStep
      <4> QED BY <4>1, <4>2 DEF m
    <3>6. Times(w, d, n + 1) = Times(w, d, n)
      BY <3>4, <3>5
    <3>7. Times(w, d, n) = Times(w, d, a)
      BY <1>2, <3>1
    <3> QED BY <2>1, <3>6, <3>7
  <2> QED BY <2>1, <2>2, <2>3
<1>3. \A n \in 0 .. b : n \in P
  <2> HIDE DEF P
  <2> QED BY <1>1, <1>2, StepwiseHolds
<1>4. b \in 0 .. b /\ b >= a
  OBVIOUS
<1> QED BY <1>3, <1>4

-----------------------------------------------------------------------------
(* The index of a part, and its file *)

\* A list of one id.
LEMMA OneId ==
  ASSUME NEW n \in Nat, NEW id \in DocId
  PROVE  LET s == [k \in 1 .. n |-> id]
         IN  /\ s \in Seq(DocId) /\ \A d : Count(s, d) = IF id = d THEN n ELSE 0
<1> DEFINE s == [k \in 1 .. n |-> id]
<1>1. s \in Seq(DocId) /\ DOMAIN s = 1 .. n /\ \A k \in 1 .. n : s[k] = id
  OBVIOUS
<1> HIDE DEF s
<1>2. ASSUME NEW d PROVE Count(s, d) = IF id = d THEN n ELSE 0
  <2>1. CASE id = d
    <3>1. {k \in DOMAIN s : s[k] = d} = 1 .. n
      BY <1>1, <2>1
    <3>2. 1 \in Int /\ n \in Int
      OBVIOUS
    <3>3. Cardinality(1 .. n) = IF 1 > n THEN 0 ELSE n - 1 + 1
      BY ONLY <3>2, FS_Interval
    <3>4. Cardinality(1 .. n) = n
      BY <3>3
    <3> QED BY <2>1, <3>1, <3>4 DEF Count
  <2>2. CASE id # d
    <3>1. {k \in DOMAIN s : s[k] = d} = {}
      BY <1>1, <2>2
    <3> QED BY <2>2, <3>1, FS_EmptySet DEF Count
  <2> QED BY <2>1, <2>2
<1> QED BY <1>1, <1>2 DEF s

\* The index of a part has the documents of each of its words.
LEMMA IndexPartIs ==
  ASSUME InputOK, NEW a \in Nat, NEW b \in Nat, a <= b, b <= Len(input)
  PROVE  LET index == IndexPart(SubSeq(input, a + 1, b))
         IN  /\ DOMAIN index = Within(a + 1, b)
             /\ \A w \in Within(a + 1, b) :
                  /\ index[w] \in Seq(DocId)
                  /\ \A d : Count(index[w], d) = Times(w, d, b) - Times(w, d, a)
<1> DEFINE docs == SubSeq(input, a + 1, b)
           n == b - a
           index == IndexPart(docs)
           S(w) == [i \in DOMAIN docs |-> [k \in 1 .. Count(docs[i].words, w) |-> docs[i].id]]
<1>1. /\ n \in Nat /\ Len(docs) = n /\ DOMAIN docs = 1 .. n
      /\ \A i \in 1 .. n : a + i \in 1 .. Len(input) /\ docs[i] = input[a + i]
  BY DocumentsAre
<1>2. WordsOf(docs) = Within(a + 1, b)
  BY WithinIs
<1>3. DOMAIN index = Within(a + 1, b) /\ \A w \in Within(a + 1, b) : index[w] = FlattenSeq(S(w))
  <2> HIDE DEF docs
  <2> QED BY <1>2 DEF IndexPart
<1> HIDE DEF docs, n
<1>4. ASSUME NEW w, NEW i \in 1 .. n
      PROVE  /\ S(w)[i] \in Seq(DocId)
             /\ \A d : Count(S(w)[i], d) = Times(w, d, a + i) - Times(w, d, a + i - 1)
  <2> DEFINE m == a + i
             c == Count(docs[i].words, w)
             l == [k \in 1 .. c |-> docs[i].id]
  <2>1. m \in 1 .. Len(input) /\ docs[i] = input[m]
    BY <1>1
  <2>2. S(w)[i] = l
    BY <1>1
  <2>3. docs[i].id \in DocId
    BY <2>1, DocumentsAre
  <2> HIDE DEF m
  <2>4. \A d : /\ Times(w, d, m) = Times(w, d, m - 1)
                                     + (IF input[m].id = d THEN Count(input[m].words, w) ELSE 0)
               /\ Times(w, d, m - 1) \in Nat /\ Count(input[m].words, w) \in Nat
    BY <2>1, TimesStep
  <2>5. c \in Nat /\ \A d : Times(w, d, m) - Times(w, d, m - 1) = IF docs[i].id = d THEN c ELSE 0
    BY <2>1, <2>4
  <2> HIDE DEF c
  <2>6. l \in Seq(DocId) /\ \A d : Count(l, d) = IF docs[i].id = d THEN c ELSE 0
    BY <2>3, <2>5, OneId
  <2> HIDE DEF l, S
  <2> QED BY <2>2, <2>5, <2>6 DEF m
<1>5. ASSUME NEW w PROVE S(w) \in Seq(Seq(DocId)) /\ Len(S(w)) = n
  <2>1. S(w) = [i \in 1 .. n |-> S(w)[i]]
    BY <1>1
  <2> HIDE DEF S
  <2>2. S(w) \in [1 .. n -> Seq(DocId)]
    BY <1>4, <2>1
  <2> QED BY <1>1, <2>2
<1>6. ASSUME NEW w, NEW d
      PROVE  /\ FlattenSeq(S(w)) \in Seq(DocId)
             /\ Count(FlattenSeq(S(w)), d) = Times(w, d, b) - Times(w, d, a)
  <2> DEFINE t == [k \in 0 .. n |-> Times(w, d, a + k) - Times(w, d, a)]
             s == S(w)
  <2>1. \A k \in 0 .. n : Times(w, d, a + k) \in Nat /\ Times(w, d, a) \in Nat
    <3>1. \A k \in 0 .. n : a + k \in 0 .. Len(input) /\ a \in 0 .. Len(input)
      BY <1>1, DocumentsAre DEF n
    <3> QED BY <3>1, TimesNone
  <2>2. t \in [0 .. n -> Int] /\ t[0] = 0
    <3>1. \A k \in 0 .. n : Times(w, d, a + k) - Times(w, d, a) \in Int
      BY <2>1
    <3>2. 0 \in 0 .. n /\ a + 0 = a
      BY <1>1
    <3>3. t[0] = Times(w, d, a) - Times(w, d, a) /\ Times(w, d, a) \in Nat
      BY <2>1, <3>2
    <3> QED BY <3>1, <3>3
  <2>3. ASSUME NEW k \in 1 .. n PROVE t[k] = t[k - 1] + Count(s[k], d)
    <3>1. k \in 0 .. n /\ k - 1 \in 0 .. n /\ a + (k - 1) = a + k - 1
      BY <1>1
    <3>2. t[k] = Times(w, d, a + k) - Times(w, d, a)
          /\ t[k - 1] = Times(w, d, a + k - 1) - Times(w, d, a)
      BY <3>1
    <3>3. Times(w, d, a + k) \in Nat /\ Times(w, d, a) \in Nat /\ Times(w, d, a + k - 1) \in Nat
      BY <2>1, <3>1
    <3>4. Count(s[k], d) = Times(w, d, a + k) - Times(w, d, a + k - 1)
      BY <1>4
    <3> HIDE DEF t, s
    <3> QED BY <3>2, <3>3, <3>4
  <2>4. t[n] = Times(w, d, b) - Times(w, d, a)
    BY <1>1 DEF n
  <2>5. s \in Seq(Seq(DocId)) /\ Len(s) = n
    BY <1>5
  <2> HIDE DEF t, s
  <2>6. FlattenSeq(s) \in Seq(DocId) /\ Count(FlattenSeq(s), d) = t[n]
    BY <2>2, <2>3, <2>5, FlattenCount
  <2> QED BY <2>4, <2>6 DEF s
<1> HIDE DEF S, index
<1> QED BY <1>3, <1>6 DEF docs, index
Title == Seq([word : Word \cup {0}, offset : Nat])
Body  == UNION {[S -> Seq(DocId)] : S \in SUBSET Nat}
File  == [title : Title, body : Body]

Words(f) == Len(f.title) - 1

\* f is the index of documents a + 1 to b.
FileRight(f, a, b) ==
  /\ Words(f) \in Nat
  /\ f.title[Words(f) + 1].word = 0
  /\ \A k, l \in 1 .. Words(f) : k < l => f.title[k].word < f.title[l].word
  /\ {f.title[k].word : k \in 1 .. Words(f)} = Within(a + 1, b)
  /\ \A k \in 1 .. Words(f) :
       /\ f.body[f.title[k].offset] \in Seq(DocId)
       /\ \A d \in DocId : Count(f.body[f.title[k].offset], d)
                             = Times(f.title[k].word, d, b) - Times(f.title[k].word, d, a)

LEMMA FileIs ==
  ASSUME InputOK, NEW a \in Nat, NEW b \in Nat, a <= b, b <= Len(input)
  PROVE  LET f == PartFile(IndexPart(SubSeq(input, a + 1, b)))
         IN  f \in File /\ FileRight(f, a, b)
<1> DEFINE index == IndexPart(SubSeq(input, a + 1, b))
           f == PartFile(index)
           W == Within(a + 1, b)
           words == Sorted(DOMAIN index)
           n == Len(words)
           size == [k \in DOMAIN words |-> ListSize(Len(index[words[k]]))]
           sizes == Sums(size)
           At(k) == 16 * (n + 1) + sizes[k - 1]
<1>1. /\ DOMAIN index = W
      /\ \A w \in W : /\ index[w] \in Seq(DocId)
                      /\ \A d : Count(index[w], d) = Times(w, d, b) - Times(w, d, a)
  BY IndexPartIs
<1>2. W \subseteq Word /\ W \subseteq Int /\ IsFiniteSet(W)
  BY WithinIs
<1> HIDE DEF index, W
<1>3. /\ words \in Seq(W) /\ n \in Nat /\ DOMAIN words = 1 .. n
      /\ \A k, l \in 1 .. n : k < l => words[k] < words[l]
      /\ {words[k] : k \in 1 .. n} = W
  <2>1. words = Sorted(W)
    BY <1>1
  <2> HIDE DEF words
  <2>2. Ascends(words, W)
    BY <1>2, <2>1, SortedAscends
  <2> QED BY <2>2 DEF Ascends
<1>4. f = [title |-> Append([k \in DOMAIN words |-> [word |-> words[k], offset |-> At(k)]], Zeros),
           body  |-> [o \in {At(k) : k \in DOMAIN words} |->
                        index[words[CHOOSE k \in DOMAIN words : At(k) = o]]]]
  BY DEF PartFile
<1> HIDE DEF f, words, n
<1>5. \A k \in 1 .. n : words[k] \in W /\ Len(index[words[k]]) \in Nat
  BY <1>1, <1>3 DEF n
<1>6. size \in Seq(Nat) /\ Len(size) = n /\ \A k \in 1 .. n : size[k] \in Nat /\ size[k] >= 4
  <2>1. \A k \in 1 .. n : size[k] \in Nat /\ size[k] >= 4
    BY <1>3, <1>5 DEF ListSize
  <2>2. size = [k \in 1 .. n |-> size[k]]
    BY <1>3
  <2> HIDE DEF size
  <2>3. size \in [1 .. n -> Nat]
    BY <2>1, <2>2
  <2> QED BY <1>3, <2>1, <2>3
<1> HIDE DEF size
<1>7. /\ sizes \in [0 .. n -> Nat]
      /\ \A k \in 1 .. n : sizes[k] = sizes[k - 1] + size[k]
  BY <1>6, SumsAre
<1> HIDE DEF sizes
<1>8. \A k \in 1 .. n : At(k) \in Nat
  <2> TAKE k \in 1 .. n
  <2>1. k - 1 \in 0 .. n
    BY <1>3
  <2>2. sizes[k - 1] \in Nat
    BY <1>7, <2>1
  <2>3. 16 * (n + 1) \in Nat
    BY <1>3
  <2> HIDE DEF n
  <2> QED BY <2>2, <2>3
<1>9. \A k, l \in 1 .. n : k < l => At(k) < At(l)
  <2> SUFFICES ASSUME NEW k \in 1 .. n, NEW l \in 1 .. n, k < l PROVE At(k) < At(l)
    OBVIOUS
  <2>1. k \in 0 .. n /\ k - 1 \in 0 .. n /\ l - 1 \in 0 .. n /\ k <= l - 1
    BY <1>3
  <2>2. \A i \in 1 .. n : sizes[i - 1] <= sizes[i]
    <3> TAKE i \in 1 .. n
    <3>1. i - 1 \in 0 .. n
      BY <1>3
    <3>2. sizes[i - 1] \in Nat /\ size[i] \in Nat /\ sizes[i] = sizes[i - 1] + size[i]
      BY <1>6, <1>7, <3>1
    <3> QED BY <3>2
  <2>3. sizes[k] <= sizes[l - 1]
    <3>1. sizes \in [0 .. n -> Int]
      BY <1>7
    <3>2. l - 1 \in 0 .. n
      BY <2>1
    <3> DEFINE j == l - 1
    <3> HIDE DEF j
    <3>3. k \in 0 .. n /\ j \in 0 .. n /\ k <= j
      BY <2>1 DEF j
    <3>4. sizes[k] <= sizes[j]
      BY ONLY <1>3, <2>2, <3>1, <3>3, StepwiseGrows
    <3> QED BY <3>4 DEF j
  <2>4. sizes[k] = sizes[k - 1] + size[k] /\ size[k] \in Nat /\ size[k] >= 4
    BY <1>6, <1>7
  <2>5. sizes[k] \in Nat /\ sizes[k - 1] \in Nat /\ sizes[l - 1] \in Nat
    BY <1>7, <2>1
  <2>6. sizes[k - 1] < sizes[l - 1]
    <3> DEFINE x == sizes[k - 1]
               y == sizes[k]
               z == sizes[l - 1]
               d == size[k]
    <3>1. /\ x \in Nat /\ y \in Nat /\ z \in Nat /\ d \in Nat
          /\ d >= 4 /\ y = x + d /\ y <= z
      BY <2>3, <2>4, <2>5
    <3> HIDE DEF x, y, z, d
    <3>2. x < z
      BY ONLY <3>1
    <3> QED BY <3>2 DEF x, z
  <2>7. 16 * (n + 1) \in Nat
    BY <1>3
  <2> HIDE DEF n
  <2> QED BY <2>5, <2>6, <2>7
<1> HIDE DEF At
<1>10. ASSUME NEW k \in 1 .. n, NEW l \in 1 .. n, At(k) = At(l) PROVE k = l
  <2>1. k \in Nat /\ l \in Nat /\ At(k) \in Nat /\ At(l) \in Nat
    BY <1>3, <1>8
  <2>2. ~ (At(k) < At(l)) /\ ~ (At(l) < At(k))
    BY <1>10, <2>1
  <2>3. ~ (k < l) /\ ~ (l < k)
    BY <1>9, <2>2
  <2> QED BY <2>1, <2>3
<1> DEFINE entries == [k \in 1 .. n |-> [word |-> words[k], offset |-> At(k)]]
           E == [word : Word \cup {0}, offset : Nat]
<1>11. entries \in Seq(E) /\ Len(entries) = n
  <2>1. \A k \in 1 .. n : words[k] \in Word /\ At(k) \in Nat
    BY <1>2, <1>5, <1>8
  <2>2. entries \in [1 .. n -> E]
    BY <2>1
  <2> HIDE DEF entries, E
  <2> QED BY <1>3, <2>2
<1>12. f.title = Append(entries, Zeros)
  BY <1>3, <1>4
<1>13. Zeros \in E
  BY DEF Zeros
<1>14. \A k \in 1 .. n : entries[k].word = words[k] /\ entries[k].offset = At(k)
  OBVIOUS
<1> HIDE DEF entries, E
<1>15. /\ f.title \in Seq(E) /\ Len(f.title) = n + 1 /\ f.title[n + 1] = Zeros
       /\ \A k \in 1 .. n : f.title[k] = entries[k]
  BY <1>3, <1>11, <1>12, <1>13
<1>16. Words(f) = n
  BY <1>3, <1>15 DEF Words
<1>17. \A k \in 1 .. n : f.title[k].word = words[k] /\ f.title[k].offset = At(k)
  BY <1>14, <1>15
<1> DEFINE O == {At(k) : k \in 1 .. n}
           C(o) == CHOOSE k \in 1 .. n : At(k) = o
<1>18. \A k \in 1 .. n : At(k) \in O /\ C(At(k)) = k
  <2> TAKE k \in 1 .. n
  <2>1. C(At(k)) \in 1 .. n /\ At(C(At(k))) = At(k)
    OBVIOUS
  <2> HIDE DEF C
  <2> QED BY <1>10, <2>1
<1>19. f.body = [o \in O |-> index[words[C(o)]]]
  BY <1>3, <1>4
<1>20. \A k \in 1 .. n : f.body[At(k)] = index[words[k]]
  <2> HIDE DEF O, C
  <2> QED BY <1>18, <1>19
<1>21. f.body \in Body
  <2>1. \A o \in O : f.body[o] \in Seq(DocId)
    <3> TAKE o \in O
    <3>1. PICK k \in 1 .. n : o = At(k)
      OBVIOUS
    <3> HIDE DEF O
    <3> QED BY <1>1, <1>5, <1>20, <3>1
  <2>2. O \in SUBSET Nat
    BY <1>8
  <2> HIDE DEF O, C
  <2>3. f.body \in [O -> Seq(DocId)]
    BY <1>19, <2>1
  <2> QED BY <2>2, <2>3 DEF Body
<1>22. f \in File
  <2>1. f = [title |-> f.title, body |-> f.body]
    BY <1>4
  <2>2. f.title \in Title
    BY <1>15 DEF Title, E
  <2> QED BY <1>21, <2>1, <2>2 DEF File
<1>23. FileRight(f, a, b)
  <2>1. {f.title[k].word : k \in 1 .. n} = W
    BY <1>3, <1>17
  <2>2. \A k, l \in 1 .. n : k < l => f.title[k].word < f.title[l].word
    BY <1>3, <1>17
  <2>3. f.title[n + 1].word = 0
    BY <1>15 DEF Zeros
  <2>4. \A k \in 1 .. n :
          /\ f.body[f.title[k].offset] \in Seq(DocId)
          /\ \A d : Count(f.body[f.title[k].offset], d)
                      = Times(f.title[k].word, d, b) - Times(f.title[k].word, d, a)
    BY <1>1, <1>5, <1>17, <1>20
  <2> QED BY <1>3, <1>16, <2>1, <2>2, <2>3, <2>4 DEF FileRight, W
<1> QED BY <1>22, <1>23 DEF f, index
-----------------------------------------------------------------------------
(* The inductive invariant *)

\* The parts are the indexes of pieces of the input, one behind the other: part p
\* of documents c[p - 1] + 1 to c[p].
Cuts(c) ==
  /\ c[0] = 0 /\ c[Len(parts)] = cover
  /\ \A p \in 1 .. Len(parts) : c[p - 1] <= c[p] /\ FileRight(parts[p], c[p - 1], c[p])

\* Every part before the next one to be read has Threshold bytes.
SplitInv ==
  /\ pc \in {"split", "merge", "done"} /\ InputOK
  /\ pos \in 1 .. Len(input) + 1 /\ cover \in 0 .. pos - 1
  /\ parts \in Seq(File) /\ Len(parts) <= MaxParts
  /\ pc = "split" =>
       /\ cover = pos - 1
       /\ pos > Len(input) \/ Upto[pos - 1] >= Len(parts) * Threshold
       /\ reader = <<>> /\ todo = <<>> /\ offset = 0 /\ output = NoFile
  /\ AllRead
  /\ \E c \in [0 .. Len(parts) -> 0 .. Len(input)] : Cuts(c)

AllWords == Sorted(Within(1, cover))

Reader == [need : BOOLEAN, word : Word \cup {0}, offset : Nat, addr : Nat, finished : BOOLEAN]

\* b words of part p are written, and the others are still to be.
ReaderAt(p, b) ==
  LET r     == reader[p]
      title == parts[p].title
  IN  /\ r.addr = 16 * (IF r.need THEN b ELSE b + 1)
      /\ r.need => ~ r.finished
      /\ ~ r.need => /\ r.word = title[b + 1].word /\ r.offset = title[b + 1].offset
                     /\ r.finished <=> b = Words(parts[p])
      /\ \A k \in 1 .. Words(parts[p]) : title[k].word \in ToSet(todo) <=> k > b

ReaderInv ==
  pc # "split" =>
    /\ reader \in Seq(Reader) /\ Len(reader) = Len(parts)
    /\ \A p \in 1 .. Len(parts) : \E b \in 0 .. Words(parts[p]) : ReaderAt(p, b)

\* The words in the title of the output.
Written == Len(output.title) - (IF pc = "done" THEN 1 ELSE 0)

\* The k-th entry of the output and its list.
EntryRight(k) ==
  LET e    == output.title[k]
      docs == output.body[e.offset]
  IN  /\ e.word = AllWords[k]
      /\ e.offset >= 16 * (Len(AllWords) + 1) /\ e.offset \in DOMAIN output.body
      /\ docs \in Seq(DocId)
      /\ e.offset + ListSize(Len(docs)) <= offset
      /\ \A x, y \in 1 .. Len(docs) : x < y => docs[x] <= docs[y]
      /\ \A d \in DocId : Count(docs, d) = Times(e.word, d, cover)

OutputInv ==
  pc # "split" =>
    /\ output \in File /\ offset \in Nat /\ offset >= 16 * (Len(AllWords) + 1)
    /\ Written \in 0 .. Len(AllWords)
    /\ todo \in Seq(Word) /\ Len(todo) = Len(AllWords) - Written
    /\ \A i \in 1 .. Len(todo) : todo[i] = AllWords[Written + i]
    /\ \A k \in 1 .. Written : EntryRight(k)
    /\ \A k, l \in 1 .. Written :
         k < l => LET o == output.title[k].offset
                  IN  o + ListSize(Len(output.body[o])) <= output.title[l].offset
    /\ pc = "done" => todo = <<>> /\ output.title[Written + 1] = Zeros

IInv == SplitInv /\ ReaderInv /\ OutputInv
-----------------------------------------------------------------------------
(* Splitting the input *)

\* MaxParts parts of Threshold bytes are more than the input has.
LEMMA EnoughParts ==
  ASSUME NEW B \in Nat, NEW M \in Nat \ {0}
  PROVE  B \div M + 1 \in Nat \ {0} /\ M * (B \div M + 1) > B
<1> DEFINE q == B \div M
           r == B % M
<1>1. q \in Nat /\ r \in 0 .. M - 1 /\ B = M * q + r
  OBVIOUS
<1> HIDE DEF q, r
<1>2. M * (q + 1) = M * q + M
  BY <1>1
<1>3. M * q \in Nat /\ M \in Nat
  BY <1>1
<1>4. M * (q + 1) > B
  BY <1>1, <1>2, <1>3
<1> QED BY <1>1, <1>4 DEF q

LEMMA UptoIs ==
  ASSUME InputOK
  PROVE  /\ Upto \in [0 .. Len(input) -> Nat]
         /\ \A a, b \in 0 .. Len(input) : a <= b => Upto[a] <= Upto[b]
         /\ Threshold \in Nat \ {0} /\ MaxParts * Threshold > Upto[Len(input)]
<1> DEFINE n == Len(input)
           s == [i \in DOMAIN input |-> 12 + 8 * Len(input[i].words)]
<1>1. n \in Nat /\ DOMAIN input = 1 .. n /\ \A i \in 1 .. n : Len(input[i].words) \in Nat
  BY DocumentsAre, BoundAssumption
<1> HIDE DEF n
<1>2. s \in Seq(Nat) /\ Len(s) = n
  <2>1. \A i \in 1 .. n : 12 + 8 * Len(input[i].words) \in Nat
    BY <1>1
  <2>2. s \in [1 .. n -> Nat]
    BY <1>1, <2>1
  <2> HIDE DEF s
  <2> QED BY <1>1, <2>2
<1>3. Upto = Sums(s)
  BY DEF Upto
<1> HIDE DEF s
<1>4. /\ Upto \in [0 .. n -> Nat]
      /\ \A k \in 1 .. n : Upto[k] = Upto[k - 1] + s[k]
  BY <1>2, <1>3, SumsAre
<1> DEFINE u == Upto
<1>5. u \in [0 .. n -> Int] /\ \A k \in 1 .. n : u[k - 1] <= u[k]
  <2>1. ASSUME NEW k \in 1 .. n PROVE u[k - 1] <= u[k]
    <3>1. k - 1 \in 0 .. n /\ s[k] \in Nat
      BY <1>1, <1>2
    <3>2. u[k - 1] \in Nat
      BY <1>4, <3>1
    <3> QED BY <1>4, <3>1, <3>2
  <2> QED BY <1>4, <2>1
<1> HIDE DEF u
<1>6. \A a, b \in 0 .. n : a <= b => u[a] <= u[b]
  BY <1>1, <1>5, StepwiseGrows
<1>7. Upto[n] \in Nat
  BY <1>1, <1>4
<1> DEFINE B == Upto[n]
<1> HIDE DEF B
<1>8. B \div MaxParts + 1 \in Nat \ {0} /\ MaxParts * (B \div MaxParts + 1) > B
  BY <1>7, BoundAssumption, EnoughParts DEF B
<1>9. Threshold = B \div MaxParts + 1
  BY DEF Threshold, B, n
<1> QED BY <1>4, <1>6, <1>8, <1>9 DEF B, n, u

\* A part ends at the end of the input, or has Threshold bytes.
LEMMA PartEndIs ==
  ASSUME InputOK, pos \in 1 .. Len(input) + 1
  PROVE  /\ PartEnd \in pos - 1 .. Len(input)
         /\ PartEnd = Len(input) \/ Upto[PartEnd] - Upto[pos - 1] >= Threshold
         /\ pos <= Len(input) => PartEnd >= pos
<1> DEFINE n == Len(input)
           Full(e) == e = n \/ Upto[e] - Upto[pos - 1] >= Threshold
           Ends(e) == Full(e) /\ \A f \in pos .. e - 1 : Upto[f] - Upto[pos - 1] < Threshold
           E == {e \in pos - 1 .. n : e >= pos /\ Full(e)}
<1>1. n \in Nat /\ pos \in Nat /\ pos - 1 \in 0 .. n
  BY DocumentsAre
<1>2. /\ Upto \in [0 .. n -> Nat] /\ Threshold \in Nat /\ Threshold > 0
  BY UptoIs
<1> HIDE DEF n
<1>3. \E e \in pos - 1 .. n : Ends(e)
  <2>1. CASE pos = n + 1
    <3>1. n \in pos - 1 .. n /\ pos .. n - 1 = {}
      BY <1>1, <2>1
    <3> QED BY <3>1
  <2>2. CASE pos # n + 1
    <3>1. pos <= n
      BY <1>1, <2>2 DEF n
    <3>2. n \in E /\ E \subseteq Nat
      BY <1>1, <3>1
    <3>3. PICK m \in E : \A x \in E : m <= x
      <4> HIDE DEF E
      <4> QED BY <3>2, LeastNumber
    <3>4. ASSUME NEW f \in pos .. m - 1 PROVE Upto[f] - Upto[pos - 1] < Threshold
      <4>1. f \in Nat /\ f < m /\ m \in Nat /\ f \in pos - 1 .. n /\ f >= pos /\ f \in 0 .. n
        BY <1>1, <3>1
      <4>2. f \notin E
        <5> HIDE DEF E
        <5> QED BY <3>3, <4>1
      <4>3. ~ (Upto[f] - Upto[pos - 1] >= Threshold)
        BY <4>1, <4>2
      <4>4. Upto[f] \in Nat /\ Upto[pos - 1] \in Nat
        BY <1>1, <1>2, <4>1
      <4> QED BY <1>2, <4>3, <4>4
    <3>5. m \in pos - 1 .. n /\ Full(m)
      OBVIOUS
    <3> HIDE DEF E, Full
    <3> QED BY <3>4, <3>5
  <2> QED BY <2>1, <2>2
<1>4. PartEnd = CHOOSE e \in pos - 1 .. n : Ends(e)
  BY DEF PartEnd, n
<1>5. PartEnd \in pos - 1 .. n /\ Ends(PartEnd)
  <2> DEFINE I == pos - 1 .. n
  <2> HIDE DEF Ends, I
  <2>1. (CHOOSE e \in I : Ends(e)) \in I /\ Ends(CHOOSE e \in I : Ends(e))
    BY <1>3 DEF I
  <2> QED BY <1>4, <2>1 DEF I
<1>6. ASSUME pos <= n PROVE PartEnd >= pos
  <2>1. PartEnd \in Nat /\ PartEnd >= pos - 1
    BY <1>1, <1>5
  <2>2. PartEnd # pos - 1
    <3> SUFFICES ASSUME PartEnd = pos - 1 PROVE FALSE
      OBVIOUS
    <3>1. Upto[PartEnd] \in Nat /\ PartEnd # n
      BY <1>1, <1>2, <1>6
    <3>2. Upto[PartEnd] - Upto[PartEnd] >= Threshold
      BY <1>5, <3>1
    <3> QED BY <1>2, <3>1, <3>2
  <2> QED BY <1>1, <2>1, <2>2
<1> QED BY <1>5, <1>6 DEF n
\* A file is right as long as the input is the same.
LEMMA FileStays ==
  ASSUME input' = input, NEW a, NEW b, NEW f, FileRight(f, a, b), NEW p, parts'[p] = f
  PROVE  FileRight(parts[p], a, b)'
<1>1. \A w, d, n : Times(w, d, n)' = Times(w, d, n)
  BY DEF Times
<1>2. \A x, y : Within(x, y)' = Within(x, y)
  BY DEF Within
<1> QED BY <1>1, <1>2 DEF FileRight, Words

LEMMA UptoStays ==
  ASSUME input' = input
  PROVE  Upto' = Upto /\ Threshold' = Threshold
BY DEF Upto, Threshold

LEMMA SplitInit == Init => SplitInv
<1> SUFFICES ASSUME Init PROVE SplitInv
  OBVIOUS
<1>1. InputOK
  BY DEF Init, InputOK
<1>2. Len(input) \in Nat
  BY <1>1, DocumentsAre
<1>3. parts \in Seq(File) /\ Len(parts) = 0
  BY DEF Init
<1>4. Upto[0] \in Nat /\ Threshold \in Nat
  BY <1>1, <1>2, UptoIs
<1>5. Upto[pos - 1] >= Len(parts) * Threshold
  BY <1>3, <1>4 DEF Init
<1> DEFINE c == [k \in 0 .. 0 |-> 0]
<1>6. c \in [0 .. Len(parts) -> 0 .. Len(input)] /\ Cuts(c)
  <2>1. c[0] = 0 /\ c \in [0 .. 0 -> 0 .. Len(input)]
    BY <1>2
  <2>2. 1 .. Len(parts) = {} /\ cover = 0
    BY <1>3 DEF Init
  <2> HIDE DEF c
  <2> QED BY <1>3, <2>1, <2>2 DEF Cuts
<1>7. AllRead
  BY DEF Init, AllRead
<1> HIDE DEF c
<1> QED BY <1>1, <1>2, <1>3, <1>5, <1>6, <1>7, BoundAssumption DEF SplitInv, Init

LEMMA SplitBuild == SplitInv /\ BuildPart => SplitInv'
<1> SUFFICES ASSUME SplitInv, BuildPart PROVE SplitInv'
  OBVIOUS
<1> DEFINE e == PartEnd
           n == Len(parts)
           f == PartFile(IndexPart(SubSeq(input, pos, e)))
<1>1. /\ pc = "split" /\ n < MaxParts /\ WordsOf(SubSeq(input, pos, e)) # {}
      /\ parts' = Append(parts, f) /\ pos' = e + 1 /\ cover' = e
      /\ pc' = pc /\ input' = input /\ reader' = reader /\ todo' = todo
      /\ offset' = offset /\ output' = output
  BY DEF BuildPart, MoreParts
<1>2. /\ InputOK /\ pos \in 1 .. Len(input) + 1 /\ cover = pos - 1
      /\ parts \in Seq(File) /\ n \in Nat
      /\ pos > Len(input) \/ Upto[pos - 1] >= n * Threshold
      /\ reader = <<>> /\ todo = <<>> /\ offset = 0 /\ output = NoFile
  BY <1>1 DEF SplitInv
<1>3. Len(input) \in Nat
  BY <1>2, DocumentsAre
<1>4. /\ e \in pos - 1 .. Len(input)
      /\ e = Len(input) \/ Upto[e] - Upto[pos - 1] >= Threshold
      /\ pos <= Len(input) => e >= pos
  BY <1>2, PartEndIs
<1>5. PICK a \in Nat : a = pos - 1
  BY <1>2
<1>6. e \in Nat /\ a <= e /\ e <= Len(input) /\ pos = a + 1
  BY <1>2, <1>3, <1>4, <1>5
<1> HIDE DEF e, n
<1>7. pos <= Len(input)
  <2> SUFFICES ASSUME pos > Len(input) PROVE FALSE
    BY <1>3, <1>5, <1>6
  <2>1. a + 1 .. e = {}
    BY <1>3, <1>5, <1>6
  <2>2. Within(a + 1, e) = {}
    BY <2>1 DEF Within
  <2>3. a + 1 \in Nat \ {0}
    OBVIOUS
  <2>4. WordsOf(SubSeq(input, a + 1, e)) = Within(a + 1, e)
    BY <1>2, <1>6, <2>3, WithinIs
  <2> QED BY <1>1, <1>6, <2>2, <2>4
<1>8. f \in File /\ FileRight(f, a, e)
  <2>1. f = PartFile(IndexPart(SubSeq(input, a + 1, e)))
    BY <1>6
  <2> HIDE DEF f
  <2> QED BY <1>2, <1>6, <2>1, FileIs
<1> HIDE DEF f
<1>9. /\ parts' \in Seq(File) /\ Len(parts') = n + 1 /\ parts'[n + 1] = f
      /\ \A p \in 1 .. n : parts'[p] = parts[p]
  BY <1>1, <1>2, <1>8 DEF n
<1>10. pos' > Len(input') \/ Upto'[pos' - 1] >= Len(parts') * Threshold'
  <2>1. CASE e = Len(input)
    BY <1>1, <1>3, <2>1
  <2>2. CASE e # Len(input)
    <3>1. Upto[e] \in Nat /\ Upto[a] \in Nat /\ Threshold \in Nat
      BY <1>2, <1>3, <1>6, UptoIs
    <3>2. Upto[e] - Upto[a] >= Threshold /\ Upto[a] >= n * Threshold
      BY <1>2, <1>4, <1>5, <1>7, <2>2, <1>3
    <3>3. n * Threshold \in Nat /\ (n + 1) * Threshold = n * Threshold + Threshold
      BY <1>2, <3>1
    <3>4. Upto[e] >= (n + 1) * Threshold
      BY <3>1, <3>2, <3>3
    <3>5. Upto' = Upto /\ Threshold' = Threshold
      BY <1>1, UptoStays
    <3>6. pos' - 1 = e
      BY <1>1, <1>6
    <3> QED BY <1>9, <3>4, <3>5, <3>6
  <2> QED BY <2>1, <2>2
<1>11. \E c \in [0 .. Len(parts') -> 0 .. Len(input')] : Cuts(c)'
  <2>1. PICK c \in [0 .. n -> 0 .. Len(input)] : Cuts(c)
    BY DEF SplitInv, n
  <2>2. PICK c2 \in [0 .. n + 1 -> 0 .. Len(input)] :
          c2[n + 1] = e /\ \A k \in 0 .. n : c2[k] = c[k]
    <3> DEFINE d == [k \in 0 .. n + 1 |-> IF k = n + 1 THEN e ELSE c[k]]
    <3>1. d \in [0 .. n + 1 -> 0 .. Len(input)]
      BY <1>2, <1>3, <1>6
    <3>2. d[n + 1] = e /\ \A k \in 0 .. n : d[k] = c[k]
      BY <1>2
    <3> HIDE DEF d
    <3> QED BY <3>1, <3>2
  <2>4. /\ c[0] = 0 /\ c[n] = a
        /\ \A p \in 1 .. n : c[p - 1] <= c[p] /\ FileRight(parts[p], c[p - 1], c[p])
    BY <1>2, <1>5, <2>1 DEF Cuts, n
  <2>5. ASSUME NEW p \in 1 .. n + 1
        PROVE  c2[p - 1] <= c2[p] /\ FileRight(parts[p], c2[p - 1], c2[p])'
    <3>1. CASE p = n + 1
      <4>1. p - 1 = n /\ n \in 0 .. n
        BY <1>2, <3>1
      <4>2. c2[p - 1] = a /\ c2[p] = e
        BY <2>2, <2>4, <3>1, <4>1
      <4>3. parts'[p] = f /\ FileRight(f, c2[p - 1], c2[p])
        BY <1>8, <1>9, <3>1, <4>2
      <4> QED BY <1>1, <1>6, <4>2, <4>3, FileStays
    <3>2. CASE p # n + 1
      <4>1. p \in 1 .. n /\ p \in 0 .. n /\ p - 1 \in 0 .. n
        BY <1>2, <3>2
      <4>2. c2[p - 1] = c[p - 1] /\ c2[p] = c[p]
        BY <2>2, <4>1
      <4>3. parts'[p] = parts[p] /\ FileRight(parts[p], c2[p - 1], c2[p]) /\ c2[p - 1] <= c2[p]
        BY <1>9, <2>4, <4>1, <4>2
      <4> QED BY <1>1, <4>3, FileStays
    <3> QED BY <3>1, <3>2
  <2>6. Cuts(c2)'
    <3>1. c2[0] = 0 /\ c2[n + 1] = cover'
      BY <1>1, <1>2, <2>2, <2>4
    <3> QED BY <1>9, <2>5, <3>1 DEF Cuts
  <2>7. c2 \in [0 .. Len(parts') -> 0 .. Len(input')]
    BY <1>1, <1>9, <2>2
  <2> QED BY <2>6, <2>7
<1>12. pos' \in 1 .. Len(input') + 1 /\ cover' \in 0 .. pos' - 1 /\ cover' = pos' - 1
  BY <1>1, <1>3, <1>6
<1>13. Len(parts') <= MaxParts /\ InputOK' /\ AllRead' /\ pc' = "split"
  BY <1>1, <1>2, <1>9, BoundAssumption DEF InputOK, AllRead, n
<1> QED BY <1>1, <1>2, <1>9, <1>10, <1>11, <1>12, <1>13 DEF SplitInv

LEMMA SplitMerge == SplitInv /\ BeginMerge => SplitInv'
<1> SUFFICES ASSUME SplitInv, BeginMerge PROVE SplitInv'
  OBVIOUS
<1> DEFINE e == PartEnd
           n == Len(parts)
<1>1. /\ pc = "split" /\ pc' = "merge" /\ pos' = (IF MoreParts THEN e + 1 ELSE pos)
      /\ input' = input /\ cover' = cover /\ parts' = parts
  BY DEF BeginMerge
<1>2. /\ InputOK /\ pos \in 1 .. Len(input) + 1 /\ cover = pos - 1
      /\ parts \in Seq(File) /\ n \in Nat /\ n <= MaxParts
      /\ pos > Len(input) \/ Upto[pos - 1] >= n * Threshold
  BY <1>1 DEF SplitInv
<1>3. Len(input) \in Nat
  BY <1>2, DocumentsAre
<1>4. e \in pos - 1 .. Len(input) /\ (pos <= Len(input) => e >= pos)
  BY <1>2, PartEndIs
<1>5. pos' \in 1 .. Len(input) + 1 /\ cover' \in 0 .. pos' - 1
  <2> HIDE DEF e
  <2>1. e \in Nat /\ e >= pos - 1 /\ e <= Len(input) /\ pos \in Nat
    BY <1>2, <1>3, <1>4
  <2> QED BY <1>1, <1>2, <1>3, <2>1
<1>6. pos' > Len(input) \/ pos' > cover' + 1
  <2> HIDE DEF e
  <2>1. CASE MoreParts
    <3>1. e \in Nat /\ pos \in Nat
      BY <1>2, <1>3, <1>4
    <3> QED BY <1>1, <1>2, <1>3, <1>4, <2>1, <3>1
  <2>2. CASE ~ MoreParts
    <3>1. n = MaxParts
      BY <1>2, <2>2, BoundAssumption DEF MoreParts
    <3> SUFFICES ASSUME pos <= Len(input) PROVE FALSE
      BY <1>1, <1>2, <1>3, <2>2
    <3>2. pos - 1 \in 0 .. Len(input) /\ Len(input) \in 0 .. Len(input) /\ pos - 1 <= Len(input)
      BY <1>2, <1>3
    <3> DEFINE x == pos - 1
               y == Len(input)
    <3>3. /\ Upto[x] \in Nat /\ Upto[y] \in Nat /\ Threshold \in Nat
          /\ Upto[x] <= Upto[y] /\ MaxParts * Threshold > Upto[y]
      <4> HIDE DEF x
      <4> QED BY <1>2, <3>2, UptoIs DEF x
    <3>4. Upto[x] >= MaxParts * Threshold
      BY <1>2, <1>3, <3>1
    <3>5. MaxParts * Threshold \in Nat
      BY <3>3, BoundAssumption
    <3> HIDE DEF x, y
    <3> QED BY <3>3, <3>4, <3>5
  <2> QED BY <2>1, <2>2
<1>7. AllRead'
  BY <1>1, <1>6 DEF AllRead
<1>8. \E c \in [0 .. Len(parts') -> 0 .. Len(input')] : Cuts(c)'
  <2>1. PICK c \in [0 .. n -> 0 .. Len(input)] : Cuts(c)
    BY DEF SplitInv
  <2>2. \A p \in 1 .. n : c[p - 1] <= c[p] /\ FileRight(parts[p], c[p - 1], c[p])'
    BY <1>1, <2>1, FileStays DEF Cuts
  <2>3. Cuts(c)'
    BY <1>1, <2>1, <2>2 DEF Cuts
  <2> QED BY <1>1, <2>1, <2>3
<1>9. InputOK'
  BY <1>1, <1>2 DEF InputOK
<1> QED BY <1>1, <1>2, <1>5, <1>7, <1>8, <1>9 DEF SplitInv

\* After the split nothing that SplitInv is about changes.
LEMMA SplitKept ==
  ASSUME SplitInv, pc' \in {"split", "merge", "done"}, UNCHANGED <<input, pos, cover, parts>>,
         pc = "split" => pc' = "split" /\ UNCHANGED <<reader, todo, offset, output>>,
         pc' = "split" => pc = "split"
  PROVE  SplitInv'
<1>1. \E c \in [0 .. Len(parts') -> 0 .. Len(input')] : Cuts(c)'
  <2>1. PICK c \in [0 .. Len(parts) -> 0 .. Len(input)] : Cuts(c)
    BY DEF SplitInv
  <2>2. \A p \in 1 .. Len(parts) : c[p - 1] <= c[p] /\ FileRight(parts[p], c[p - 1], c[p])'
    BY <2>1, FileStays DEF Cuts
  <2>3. Cuts(c)'
    BY <2>1, <2>2 DEF Cuts
  <2> QED BY <2>1, <2>3
<1>2. InputOK' /\ AllRead'
  BY DEF SplitInv, InputOK, AllRead
<1>3. Upto' = Upto /\ Threshold' = Threshold
  BY UptoStays
<1> QED BY <1>1, <1>2, <1>3 DEF SplitInv
-----------------------------------------------------------------------------
(* The words and the parts in the merge *)

\* Each part is right for documents that are covered.
LEMMA PartIs ==
  ASSUME SplitInv, NEW p \in 1 .. Len(parts)
  PROVE  /\ parts[p] \in File
         /\ \E a, b \in Nat : a <= b /\ b <= cover /\ b <= Len(input) /\ FileRight(parts[p], a, b)
<1> DEFINE n == Len(parts)
<1>1. PICK c \in [0 .. n -> 0 .. Len(input)] : Cuts(c)
  BY DEF SplitInv
<1>2. n \in Nat /\ p \in 0 .. n /\ p - 1 \in 0 .. n /\ n \in 0 .. n /\ p <= n /\ parts[p] \in File
  BY DEF SplitInv
<1>3. Len(input) \in Nat
  BY DocumentsAre DEF SplitInv
<1>4. c \in [0 .. n -> Int] /\ \A k \in 1 .. n : c[k - 1] <= c[k]
  BY <1>1, <1>3 DEF Cuts
<1> HIDE DEF n
<1>5. c[p] <= c[n]
  BY ONLY <1>2, <1>4, StepwiseGrows
<1>6. c[n] = cover /\ FileRight(parts[p], c[p - 1], c[p]) /\ c[p - 1] <= c[p]
  BY <1>1 DEF Cuts, n
<1>7. c[p] \in Nat /\ c[p - 1] \in Nat /\ c[p] <= Len(input)
  BY <1>1, <1>2, <1>3
<1> QED BY <1>2, <1>5, <1>6, <1>7

\* The words of the input that was read, and those of the parts among them.
LEMMA AllWordsAre ==
  ASSUME SplitInv
  PROVE  /\ Ascends(AllWords, Within(1, cover)) /\ AllWords \in Seq(Word)
         /\ WordsOf(SubSeq(input, 1, cover)) = Within(1, cover)
         /\ cover \in Nat /\ cover <= Len(input) /\ Within(1, cover) \subseteq Word
<1>1. InputOK /\ cover \in Nat /\ cover <= Len(input)
  <2>1. InputOK /\ cover \in 0 .. pos - 1 /\ pos \in 1 .. Len(input) + 1
    BY DEF SplitInv
  <2>2. Len(input) \in Nat
    BY <2>1, DocumentsAre
  <2> QED BY <2>1, <2>2
<1> DEFINE W == Within(1, cover)
<1>2. /\ WordsOf(SubSeq(input, 1, cover)) = W
      /\ W \subseteq Word /\ W \subseteq Int /\ IsFiniteSet(W)
  <2>1. 1 \in Nat \ {0}
    OBVIOUS
  <2> QED BY <1>1, <2>1, WithinIs
<1> HIDE DEF W
<1>3. AllWords = Sorted(W)
  BY DEF AllWords, W
<1>4. Ascends(AllWords, W)
  BY <1>2, <1>3, SortedAscends
<1>5. AllWords \in Seq(Word)
  <2> DEFINE A == AllWords
             n == Len(A)
  <2>1. A \in Seq(W) /\ n \in Nat
    BY <1>4 DEF Ascends
  <2> HIDE DEF A
  <2>2. A \in [1 .. n -> W]
    BY <2>1
  <2>3. A \in [1 .. n -> Word]
    BY <1>2, <2>2
  <2> QED BY <2>1, <2>3 DEF A
<1> QED BY <1>1, <1>2, <1>4, <1>5 DEF W

\* The title of a part: its words in order, all of them words of the input, and the zero.
LEMMA TitleIs ==
  ASSUME SplitInv, NEW p \in 1 .. Len(parts)
  PROVE  LET T == parts[p].title
             n == Words(parts[p])
         IN  /\ n \in Nat /\ T \in Title /\ Len(T) = n + 1 /\ T[n + 1].word = 0
             /\ \A k \in 1 .. n + 1 : T[k].word \in Word \cup {0} /\ T[k].offset \in Nat
             /\ \A k \in 1 .. n : T[k].word \in Word /\ T[k].word \in Within(1, cover)
             /\ \A k, l \in 1 .. n : k < l => T[k].word < T[l].word
<1> DEFINE T == parts[p].title
           n == Words(parts[p])
<1>1. PICK a \in Nat, b \in Nat : a <= b /\ b <= cover /\ b <= Len(input) /\ FileRight(parts[p], a, b)
  BY PartIs
<1>2. T \in Title /\ Len(T) = n + 1
  <2>1. parts[p] \in File
    BY PartIs
  <2>2. T \in Title
    BY <2>1 DEF File
  <2>3. Len(T) \in Nat
    BY <2>2 DEF Title
  <2> QED BY <2>2, <2>3 DEF Words
<1>3. /\ n \in Nat /\ T[n + 1].word = 0
      /\ \A k, l \in 1 .. n : k < l => T[k].word < T[l].word
      /\ {T[k].word : k \in 1 .. n} = Within(a + 1, b)
  BY <1>1 DEF FileRight
<1> HIDE DEF T, n
<1>4. \A k \in 1 .. n + 1 : T[k].word \in Word \cup {0} /\ T[k].offset \in Nat
  <2> DEFINE E == [word : Word \cup {0}, offset : Nat]
  <2>1. T \in Seq(E)
    BY <1>2 DEF Title
  <2>2. \A e \in E : e.word \in Word \cup {0} /\ e.offset \in Nat
    OBVIOUS
  <2> HIDE DEF E
  <2>3. \A k \in 1 .. n + 1 : T[k] \in E
    BY <1>2, <1>3, <2>1
  <2> QED BY <2>2, <2>3
<1>5. Within(a + 1, b) \subseteq Within(1, cover)
  <2>1. \A i \in a + 1 .. b : i \in 1 .. cover
    BY <1>1, AllWordsAre
  <2> QED BY <2>1 DEF Within
<1>6. \A k \in 1 .. n : T[k].word \in Word /\ T[k].word \in Within(1, cover)
  <2> TAKE k \in 1 .. n
  <2>1. T[k].word \in Within(a + 1, b)
    BY <1>3
  <2> QED BY <1>5, <2>1, AllWordsAre
<1> QED BY <1>2, <1>3, <1>4, <1>6 DEF T, n

\* The next word is the least of those to be written, and it is written once.
LEMMA TodoIs ==
  ASSUME SplitInv, OutputInv, pc = "merge", todo # <<>>
  PROVE  LET w == Head(todo)
         IN  /\ w \in Word /\ w \in Int /\ w # 0 /\ w \in ToSet(todo)
             /\ Written \in Nat /\ Written < Len(AllWords)
             /\ Len(AllWords) \in Nat /\ w = AllWords[Written + 1]
             /\ \A x \in ToSet(todo) : x \in Word /\ x \in Int /\ (x = w \/ w < x)
             /\ Tail(todo) \in Seq(Word) /\ Len(Tail(todo)) = Len(todo) - 1
             /\ \A i \in 1 .. Len(Tail(todo)) : Tail(todo)[i] = AllWords[Written + 1 + i]
             /\ ToSet(Tail(todo)) = ToSet(todo) \ {w}
<1> DEFINE A == AllWords
           m == Written
           l == Len(todo)
           t == Tail(todo)
           w == Head(todo)
<1>1. /\ todo \in Seq(Word) /\ l = Len(A) - m /\ m \in 0 .. Len(A)
      /\ \A i \in 1 .. l : todo[i] = A[m + i]
  BY DEF OutputInv
<1>2. /\ Len(A) \in Nat /\ \A i, j \in 1 .. Len(A) : i < j => A[i] < A[j]
  BY AllWordsAre DEF Ascends
<1>3. /\ l \in Nat \ {0} /\ DOMAIN todo = 1 .. l /\ w = todo[1]
      /\ t \in Seq(Word) /\ Len(t) = l - 1 /\ \A i \in 1 .. l - 1 : t[i] = todo[i + 1]
      /\ \A i \in 1 .. l : todo[i] \in Word
  BY <1>1
<1> HIDE DEF l, t, w, A, m
<1>4. \A i \in 1 .. l : todo[i] \in Int /\ todo[i] # 0
  BY <1>3, WordAssumption
<1>5. \A i, j \in 1 .. l : i < j => todo[i] < todo[j]
  <2> SUFFICES ASSUME NEW i \in 1 .. l, NEW j \in 1 .. l, i < j PROVE todo[i] < todo[j]
    OBVIOUS
  <2>1. m + i \in 1 .. Len(A) /\ m + j \in 1 .. Len(A) /\ m + i < m + j
    BY <1>1, <1>2, <1>3
  <2> QED BY <1>1, <1>2, <2>1
<1>6. ToSet(todo) = {todo[i] : i \in 1 .. l}
  BY <1>3 DEF ToSet
<1>7. \A x \in ToSet(todo) : x \in Word /\ x \in Int /\ (x = w \/ w < x)
  <2> TAKE x \in ToSet(todo)
  <2>1. PICK i \in 1 .. l : x = todo[i]
    BY <1>6
  <2>2. i = 1 \/ 1 < i
    BY <1>3
  <2>3. 1 \in 1 .. l
    BY <1>3
  <2> QED BY <1>3, <1>4, <1>5, <2>1, <2>2, <2>3
<1>8. ToSet(t) = ToSet(todo) \ {w}
  <2>1. DOMAIN t = 1 .. l - 1
    BY <1>3
  <2>2. ASSUME NEW x \in ToSet(t) PROVE x \in ToSet(todo) /\ x # w
    <3>1. PICK i \in 1 .. l - 1 : x = t[i]
      BY <2>1 DEF ToSet
    <3>2. x = todo[i + 1] /\ i + 1 \in 1 .. l /\ 1 \in 1 .. l /\ 1 < i + 1
      BY <1>3, <3>1
    <3>3. todo[1] < todo[i + 1] /\ todo[1] \in Int
      BY <1>4, <1>5, <3>2
    <3> QED BY <1>3, <1>6, <3>2, <3>3
  <2>3. ASSUME NEW x \in ToSet(todo), x # w PROVE x \in ToSet(t)
    <3>1. PICK i \in 1 .. l : x = todo[i]
      BY <1>6
    <3>2. i - 1 \in 1 .. l - 1 /\ (i - 1) + 1 = i
      BY <1>3, <2>3, <3>1
    <3>3. t[i - 1] = x
      BY <1>3, <3>1, <3>2
    <3> QED BY <2>1, <3>2, <3>3 DEF ToSet
  <2> QED BY <2>2, <2>3
<1>9. w \in ToSet(todo) /\ w \in Word /\ w \in Int /\ w # 0 /\ w = A[m + 1]
  <2>1. 1 \in 1 .. l
    BY <1>3
  <2> QED BY <1>1, <1>3, <1>4, <1>6, <2>1
<1>10. m \in Nat /\ m < Len(A)
  BY <1>1, <1>2, <1>3
<1>11. \A i \in 1 .. Len(t) : t[i] = A[m + 1 + i]
  <2> TAKE i \in 1 .. Len(t)
  <2>1. i \in 1 .. l - 1 /\ i + 1 \in 1 .. l
    BY <1>3
  <2>2. t[i] = A[m + (i + 1)]
    BY <1>1, <1>3, <2>1
  <2>3. m + (i + 1) = m + 1 + i
    BY <1>10, <2>1
  <2> QED BY <2>2, <2>3
<1> QED BY <1>2, <1>3, <1>7, <1>8, <1>9, <1>10, <1>11 DEF l, t, w, A, m
-----------------------------------------------------------------------------
(* The look-ahead of a part *)

\* What the reader of part p finds is the part's list of the next word, if it has one.
LEMMA FoundIs ==
  ASSUME SplitInv, ReaderInv, OutputInv, pc = "merge", todo # <<>>,
         NEW p \in 1 .. Len(parts), NEW b \in 0 .. Words(parts[p]), ReaderAt(p, b)
  PROVE  LET w == Head(todo)
             T == parts[p].title
             n == Words(parts[p])
         IN  /\ T[b + 1].word = w => b < n
             /\ \A k \in 1 .. n : T[k].word = w => k = b + 1
             /\ Found(p, w) = IF T[b + 1].word = w THEN {T[b + 1].offset} ELSE {}
             /\ reader[p].need => Entry(p) = T[b + 1]
<1> DEFINE w == Head(todo)
           T == parts[p].title
           n == Words(parts[p])
           r == reader[p]
<1>1. /\ n \in Nat /\ T[n + 1].word = 0
      /\ \A k \in 1 .. n + 1 : T[k].word \in Word \cup {0} /\ T[k].offset \in Nat
      /\ \A k \in 1 .. n : T[k].word \in Word
      /\ \A k, l \in 1 .. n : k < l => T[k].word < T[l].word
  BY TitleIs
<1>2. /\ w \in Word /\ w \in Int /\ w # 0 /\ w \in ToSet(todo)
      /\ \A x \in ToSet(todo) : x \in Int /\ (x = w \/ w < x)
  BY TodoIs
<1>3. /\ r.addr = 16 * (IF r.need THEN b ELSE b + 1)
      /\ r.need => ~ r.finished
      /\ ~ r.need => /\ r.word = T[b + 1].word /\ r.offset = T[b + 1].offset
                     /\ r.finished <=> b = n
      /\ \A k \in 1 .. n : T[k].word \in ToSet(todo) <=> k > b
  BY DEF ReaderAt
<1>4. b \in 0 .. n /\ b \in Nat
  BY <1>1
<1>5. r.need => Entry(p) = T[b + 1]
  <2> SUFFICES ASSUME r.need PROVE Entry(p) = T[b + 1]
    OBVIOUS
  <2>1. r.addr = 16 * b
    BY <1>3
  <2>2. (16 * b) \div 16 + 1 = b + 1
    BY <1>4
  <2>3. Entry(p) = T[r.addr \div 16 + 1]
    BY DEF Entry
  <2> HIDE DEF T, r
  <2> QED BY <2>1, <2>2, <2>3
<1> HIDE DEF w, T, n, r
<1>6. T[b + 1].word = w => b < n
  BY <1>1, <1>2, <1>4
<1>7. ASSUME NEW k \in 1 .. n, T[k].word = w PROVE k = b + 1
  <2>1. k > b /\ k \in Nat
    BY <1>1, <1>2, <1>3, <1>7
  <2> SUFFICES ASSUME b + 1 < k PROVE FALSE
    BY <1>4, <2>1
  <2>2. b + 1 \in 1 .. n /\ b + 1 > b
    BY <1>1, <1>4, <2>1
  <2>3. T[b + 1].word < w
    BY <1>1, <1>7, <2>2
  <2>4. T[b + 1].word \in ToSet(todo)
    BY <1>3, <2>2
  <2>5. T[b + 1].word \in Int /\ (T[b + 1].word = w \/ w < T[b + 1].word)
    BY <1>2, <2>4
  <2> QED BY <1>2, <2>3, <2>5
<1>8. Found(p, w) = IF T[b + 1].word = w THEN {T[b + 1].offset} ELSE {}
  <2>1. CASE r.finished
    <3>1. ~ r.need /\ b = n
      BY <1>3, <2>1
    <3>2. T[b + 1].word # w
      BY <1>1, <1>2, <3>1
    <3>3. Found(p, w) = {}
      BY <2>1 DEF Found, r
    <3> QED BY <3>2, <3>3
  <2>2. CASE ~ r.finished /\ ~ r.need
    <3>1. Found(p, w) = {o \in {r.offset} : r.word = w}
      BY <2>2 DEF Found, r
    <3>2. r.word = T[b + 1].word /\ r.offset = T[b + 1].offset
      BY <1>3, <2>2
    <3> QED BY <3>1, <3>2
  <2>3. CASE ~ r.finished /\ r.need
    <3>1. Found(p, w) = {o \in {Entry(p).offset} : Entry(p).word = w}
      BY <2>3 DEF Found, r
    <3>2. Entry(p) = T[b + 1]
      BY <1>5, <2>3
    <3> QED BY <3>1, <3>2
  <2> QED BY <2>1, <2>2, <2>3
<1> QED BY <1>5, <1>6, <1>7, <1>8 DEF w, T, n, r

\* A turn keeps the reader in step: the word it passes is the one that is written.
LEMMA TurnIs ==
  ASSUME SplitInv, ReaderInv, OutputInv, pc = "merge", todo # <<>>, parts' = parts,
         todo' = Tail(todo), NEW p \in 1 .. Len(parts), reader'[p] = Turn(p, Head(todo))
  PROVE  reader'[p] \in Reader /\ \E b \in 0 .. Words(parts[p]) : ReaderAt(p, b)'
<1>1. PICK b \in 0 .. Words(parts[p]) : ReaderAt(p, b)
  BY DEF ReaderInv
<1> DEFINE w == Head(todo)
           T == parts[p].title
           n == Words(parts[p])
           r == reader[p]
           s == reader'[p]
           c == IF T[b + 1].word = w THEN b + 1 ELSE b
<1>2. /\ n \in Nat /\ T[n + 1].word = 0
      /\ \A k \in 1 .. n + 1 : T[k].word \in Word \cup {0} /\ T[k].offset \in Nat
      /\ \A k \in 1 .. n : T[k].word \in Word
  BY TitleIs
<1>3. /\ r.addr = 16 * (IF r.need THEN b ELSE b + 1)
      /\ r.need => ~ r.finished
      /\ ~ r.need => /\ r.word = T[b + 1].word /\ r.offset = T[b + 1].offset
                     /\ r.finished <=> b = n
      /\ \A k \in 1 .. n : T[k].word \in ToSet(todo) <=> k > b
  BY <1>1 DEF ReaderAt
<1>4. r \in Reader
  BY DEF ReaderInv
<1>5. /\ T[b + 1].word = w => b < n
      /\ \A k \in 1 .. n : T[k].word = w => k = b + 1
      /\ r.need => Entry(p) = T[b + 1]
  BY <1>1, FoundIs
<1>6. w # 0 /\ ToSet(todo') = ToSet(todo) \ {w} /\ w \in Word
  BY TodoIs
<1>7. b \in Nat /\ b <= n /\ b + 1 \in 1 .. n + 1
  BY <1>2
<1>8. s = IF r.finished THEN r
          ELSE IF ~ r.need THEN [r EXCEPT !.need = (r.word = w)]
          ELSE IF T[b + 1].word = w THEN [r EXCEPT !.addr = @ + 16]
          ELSE [r EXCEPT !.addr = @ + 16, !.need = FALSE, !.word = T[b + 1].word,
                         !.offset = T[b + 1].offset, !.finished = (T[b + 1].word = 0)]
  <2> HIDE DEF T
  <2>1. s = Turn(p, w)
    OBVIOUS
  <2> HIDE DEF s, w
  <2> QED BY <1>3, <1>5, <2>1 DEF Turn, ReadEntry
<1> HIDE DEF w, T, n, r, s
<1>9. T[b + 1].word \in Word \cup {0} /\ T[b + 1].offset \in Nat
  BY <1>2, <1>7
<1>10. /\ r.addr \in Nat /\ r.need \in BOOLEAN /\ r.finished \in BOOLEAN
       /\ r.word \in Word \cup {0} /\ r.offset \in Nat
  BY <1>4 DEF Reader
<1>11. T[b + 1].word = 0 <=> b = n
  BY <1>2, <1>7, WordAssumption
<1>12. c \in 0 .. n /\ c \in Nat
  BY <1>2, <1>5, <1>7
<1>13. \A k \in 1 .. n : T[k].word \in ToSet(todo') <=> k > c
  <2> TAKE k \in 1 .. n
  <2>1. k \in Nat
    BY <1>2
  <2>2. T[k].word \in ToSet(todo) <=> k > b
    BY <1>3
  <2>3. T[k].word \in ToSet(todo') <=> k > b /\ T[k].word # w
    BY <1>6, <2>2
  <2>4. CASE T[b + 1].word = w
    <3>1. T[k].word # w <=> k # b + 1
      BY <1>5, <2>4
    <3> QED BY <1>7, <2>1, <2>3, <2>4, <3>1
  <2>5. CASE T[b + 1].word # w
    <3>1. T[k].word # w
      BY <1>5, <2>5
    <3> QED BY <2>3, <2>5, <3>1
  <2> QED BY <2>4, <2>5
<1>14. /\ s \in Reader
       /\ s.addr = 16 * (IF s.need THEN c ELSE c + 1)
       /\ s.need => ~ s.finished
       /\ ~ s.need => /\ s.word = T[c + 1].word /\ s.offset = T[c + 1].offset
                      /\ s.finished <=> c = n
  <2>1. CASE r.finished
    <3>1. s = r /\ ~ r.need /\ b = n
      BY <1>3, <1>8, <2>1
    <3>2. c = b
      BY <1>6, <1>11, <3>1
    <3> HIDE DEF c
    <3> QED BY <1>3, <1>4, <2>1, <3>1, <3>2
  <2>2. CASE ~ r.finished /\ ~ r.need
    <3>1. s = [r EXCEPT !.need = (r.word = w)] /\ r.word = T[b + 1].word
      BY <1>3, <1>8, <2>2
    <3>2. /\ s \in Reader /\ s.need = (r.word = w) /\ s.addr = r.addr
          /\ s.word = r.word /\ s.offset = r.offset /\ s.finished = r.finished
      BY <1>4, <3>1 DEF Reader
    <3>3. CASE T[b + 1].word = w
      <4>1. s.need /\ c = b + 1
        BY <3>1, <3>2, <3>3
      <4>2. s.addr = 16 * c /\ ~ s.finished
        BY <1>3, <2>2, <3>2, <4>1
      <4> HIDE DEF c
      <4> QED BY <3>2, <4>1, <4>2
    <3>4. CASE T[b + 1].word # w
      <4>1. ~ s.need /\ c = b
        BY <3>1, <3>2, <3>4
      <4>2. s.addr = 16 * (c + 1)
        BY <1>3, <2>2, <3>2, <4>1
      <4> HIDE DEF c
      <4> QED BY <1>3, <2>2, <3>2, <4>1, <4>2
    <3> QED BY <3>3, <3>4
  <2>3. CASE ~ r.finished /\ r.need /\ T[b + 1].word = w
    <3>1. s = [r EXCEPT !.addr = @ + 16] /\ c = b + 1 /\ r.addr = 16 * b
      BY <1>3, <1>8, <2>3
    <3>2. s \in Reader /\ s.need = r.need /\ s.addr = r.addr + 16 /\ s.finished = r.finished
      <4>1. PICK a \in Nat : a = r.addr + 16
        BY <1>10
      <4>2. s = [r EXCEPT !.addr = a]
        BY <3>1, <4>1
      <4> QED BY <1>4, <4>1, <4>2 DEF Reader
    <3>3. s.addr = 16 * c
      <4>1. b \in Nat
        BY <1>7
      <4>2. 16 * (b + 1) = 16 * b + 16
        BY ONLY <4>1
      <4>3. s.addr = 16 * b + 16
        BY <3>1, <3>2
      <4> QED BY <3>1, <4>2, <4>3
    <3> HIDE DEF c
    <3> QED BY <2>3, <3>2, <3>3
  <2>4. CASE ~ r.finished /\ r.need /\ T[b + 1].word # w
    <3>1. /\ s = [r EXCEPT !.addr = @ + 16, !.need = FALSE, !.word = T[b + 1].word,
                           !.offset = T[b + 1].offset, !.finished = (T[b + 1].word = 0)]
          /\ c = b /\ r.addr = 16 * b
      BY <1>3, <1>8, <2>4
    <3>2. /\ s \in Reader /\ s.need = FALSE /\ s.addr = r.addr + 16
          /\ s.word = T[b + 1].word /\ s.offset = T[b + 1].offset
          /\ s.finished = (T[b + 1].word = 0)
      <4> DEFINE v == T[b + 1].word
                 o == T[b + 1].offset
                 z == (v = 0)
      <4>1. v \in Word \cup {0} /\ o \in Nat /\ z \in BOOLEAN
        BY <1>9
      <4> HIDE DEF v, o, z
      <4>2. s = [r EXCEPT !.addr = @ + 16, !.need = FALSE, !.word = v, !.offset = o, !.finished = z]
        BY <3>1 DEF v, o, z
      <4>3. s = [need |-> FALSE, word |-> v, offset |-> o, addr |-> r.addr + 16, finished |-> z]
        BY <1>4, <4>2 DEF Reader
      <4>4. r.addr + 16 \in Nat /\ FALSE \in BOOLEAN
        BY <1>10
      <4>5. s \in Reader
        BY <4>1, <4>3, <4>4 DEF Reader
      <4>6. s.need = FALSE /\ s.addr = r.addr + 16 /\ s.word = v /\ s.offset = o
        BY <4>3
      <4>7. s.finished = z
        BY <4>3, Zenon
      <4> QED BY <4>5, <4>6, <4>7 DEF v, o, z
    <3>3. s.addr = 16 * (c + 1)
      BY <1>7, <3>1, <3>2
    <3> HIDE DEF c
    <3> QED BY <1>11, <3>1, <3>2, <3>3
  <2> QED BY <2>1, <2>2, <2>3, <2>4
<1>15. PICK x \in 0 .. n : x = c
  BY <1>12
<1>16. ReaderAt(p, x)'
  <2> HIDE DEF c
  <2> QED BY <1>13, <1>14, <1>15 DEF ReaderAt, Words, T, n, s
<1> QED BY <1>14, <1>15, <1>16 DEF n, s
-----------------------------------------------------------------------------
(* The merge *)

\* The lists of word w that are found in the parts.
Lists(w) == [p \in DOMAIN parts |->
               IF Found(p, w) = {} THEN <<>> ELSE parts[p].body[CHOOSE o \in Found(p, w) : TRUE]]

\* The list that is written has all documents of its word, in order.
LEMMA ListIs ==
  ASSUME SplitInv, ReaderInv, OutputInv, pc = "merge", todo # <<>>
  PROVE  LET w    == Head(todo)
             docs == List(Lists(w))
         IN  /\ docs \in Seq(DocId) /\ Len(docs) \in Nat
             /\ \A x, y \in 1 .. Len(docs) : x < y => docs[x] <= docs[y]
             /\ \A d \in DocId : Count(docs, d) = Times(w, d, cover)
<1> DEFINE w == Head(todo)
           n == Len(parts)
           L == Lists(w)
           flat == FlattenSeq(L)
<1>1. PICK c \in [0 .. n -> 0 .. Len(input)] : Cuts(c)
  BY DEF SplitInv
<1>2. n \in Nat /\ DOMAIN parts = 1 .. n /\ InputOK
  BY DEF SplitInv
<1>3. Len(input) \in Nat
  BY <1>2, DocumentsAre
<1>4. w \in Word
  BY TodoIs
<1>5. \A k \in 1 .. n : k - 1 \in 0 .. n /\ k \in 0 .. n
  BY <1>2
<1>6. ASSUME NEW p \in 1 .. n
      PROVE  /\ L[p] \in Seq(DocId)
             /\ \A d \in DocId : Count(L[p], d) = Times(w, d, c[p]) - Times(w, d, c[p - 1])
  <2> DEFINE T == parts[p].title
             a == c[p - 1]
             e == c[p]
  <2>1. L[p] = IF Found(p, w) = {} THEN <<>> ELSE parts[p].body[CHOOSE o \in Found(p, w) : TRUE]
    <3> HIDE DEF w
    <3> QED BY <1>2 DEF Lists
  <2>2. PICK b \in 0 .. Words(parts[p]) : ReaderAt(p, b)
    BY DEF ReaderInv
  <2>3. /\ T[b + 1].word = w => b < Words(parts[p])
        /\ \A k \in 1 .. Words(parts[p]) : T[k].word = w => k = b + 1
        /\ Found(p, w) = IF T[b + 1].word = w THEN {T[b + 1].offset} ELSE {}
    BY <2>2, FoundIs
  <2>4. FileRight(parts[p], a, e) /\ a <= e
    BY <1>1 DEF Cuts
  <2>5. a \in Nat /\ e \in Nat /\ e <= Len(input)
    BY <1>1, <1>3, <1>5
  <2> HIDE DEF w, T, L, a, e
  <2>6. CASE T[b + 1].word = w
    <3>1. b + 1 \in 1 .. Words(parts[p])
      BY <2>2, <2>3, <2>4, <2>6 DEF FileRight
    <3>2. L[p] = parts[p].body[T[b + 1].offset]
      BY <2>1, <2>3, <2>6
    <3>3. /\ parts[p].body[T[b + 1].offset] \in Seq(DocId)
          /\ \A d \in DocId : Count(parts[p].body[T[b + 1].offset], d)
                                = Times(T[b + 1].word, d, e) - Times(T[b + 1].word, d, a)
      BY <2>4, <3>1 DEF FileRight, T
    <3> QED BY <2>6, <3>2, <3>3 DEF a, e
  <2>7. CASE T[b + 1].word # w
    <3>1. L[p] = <<>>
      BY <2>1, <2>3, <2>7
    <3>2. w \notin Within(a + 1, e)
      <4>1. \A k \in 1 .. Words(parts[p]) : T[k].word # w
        BY <2>3, <2>7
      <4>2. {T[k].word : k \in 1 .. Words(parts[p])} = Within(a + 1, e)
        BY <2>4 DEF FileRight, T
      <4> QED BY <4>1, <4>2
    <3>3. ASSUME NEW d \in DocId PROVE Count(L[p], d) = Times(w, d, e) - Times(w, d, a)
      <4>1. Times(w, d, e) = Times(w, d, a)
        BY <1>2, <2>4, <2>5, <3>2, TimesApart
      <4>2. Times(w, d, a) \in Nat
        <5>1. a \in 0 .. Len(input)
          BY <1>3, <2>4, <2>5
        <5> QED BY <1>2, <5>1, TimesNone
      <4>3. Count(L[p], d) = 0
        <5>1. {k \in DOMAIN L[p] : L[p][k] = d} = {}
          BY <3>1
        <5> QED BY <5>1, FS_EmptySet DEF Count
      <4> QED BY <4>1, <4>2, <4>3
    <3>4. L[p] \in Seq(DocId)
      BY <3>1
    <3> QED BY <3>3, <3>4 DEF a, e
  <2> QED BY <2>6, <2>7
<1>7. L \in Seq(Seq(DocId)) /\ Len(L) = n
  <2>1. L = [p \in 1 .. n |-> L[p]]
    <3> HIDE DEF w
    <3> QED BY <1>2 DEF Lists
  <2> HIDE DEF L
  <2>2. L \in [1 .. n -> Seq(DocId)]
    BY <1>6, <2>1
  <2> QED BY <1>2, <2>2
<1>8. c[0] = 0 /\ c[n] = cover
  BY <1>1 DEF Cuts
<1> HIDE DEF L, w, n
<1>9. ASSUME NEW d \in DocId
      PROVE  flat \in Seq(DocId) /\ Count(flat, d) = Times(w, d, cover)
  <2> DEFINE t == [k \in 0 .. n |-> Times(w, d, c[k])]
  <2>1. \A k \in 0 .. n : Times(w, d, c[k]) \in Int
    <3> TAKE k \in 0 .. n
    <3>1. c[k] \in 0 .. Len(input)
      BY <1>1 DEF n
    <3>2. \A m \in 0 .. Len(input) : Times(w, d, m) \in Nat
      BY <1>2, TimesNone
    <3> QED BY <3>1, <3>2
  <2>2. t \in [0 .. n -> Int]
    BY <2>1
  <2>3. t[0] = 0 /\ t[n] = Times(w, d, cover)
    BY <1>2, <1>8, TimesNone DEF n
  <2>4. \A k \in 1 .. n : t[k] = t[k - 1] + Count(L[k], d)
    <3> TAKE k \in 1 .. n
    <3>1. t[k] = Times(w, d, c[k]) /\ t[k - 1] = Times(w, d, c[k - 1])
      BY <1>5 DEF n
    <3>2. t[k] \in Int /\ t[k - 1] \in Int
      BY <1>5, <2>2 DEF n
    <3>3. Count(L[k], d) = Times(w, d, c[k]) - Times(w, d, c[k - 1])
      BY <1>6 DEF n
    <3> HIDE DEF t
    <3> QED BY <3>1, <3>2, <3>3
  <2> HIDE DEF t
  <2>5. FlattenSeq(L) \in Seq(DocId) /\ Count(FlattenSeq(L), d) = t[n]
    BY <1>7, <2>2, <2>3, <2>4, FlattenCount
  <2> QED BY <2>3, <2>5
<1>10. flat \in Seq(DocId)
  <2>1. PICK f \in [0 .. Len(L) -> Seq(DocId)] : FlattenSeq(L) = f[Len(L)]
    BY <1>7, FlattenIs
  <2>2. Len(L) \in 0 .. Len(L)
    BY <1>2, <1>7 DEF n
  <2> QED BY <2>1, <2>2
<1> DEFINE docs == List(L)
<1>11. docs = Ascending(flat)
  BY DEF List
<1> HIDE DEF flat
<1>12. DocId \subseteq Int
  BY WordAssumption
<1>13. /\ Ascending(flat) \in Seq(DocId) /\ Len(Ascending(flat)) = Len(flat)
       /\ \A k, l \in 1 .. Len(flat) : k < l => Ascending(flat)[k] <= Ascending(flat)[l]
       /\ \A d : Count(Ascending(flat), d) = Count(flat, d)
  BY <1>10, <1>12, AscendingIs
<1> HIDE DEF docs
<1>14. /\ docs \in Seq(DocId) /\ Len(docs) \in Nat
       /\ \A x, y \in 1 .. Len(docs) : x < y => docs[x] <= docs[y]
  BY <1>11, <1>13
<1>15. \A d \in DocId : Count(docs, d) = Times(w, d, cover)
  BY <1>9, <1>11, <1>13
<1> QED BY <1>14, <1>15 DEF docs, L, w
LEMMA AllWordsStay ==
  ASSUME input' = input, cover' = cover
  PROVE  AllWords' = AllWords
<1>1. Within(1, cover)' = Within(1, cover)
  BY DEF Within
<1> QED BY <1>1 DEF AllWords

\* The merge begins with nothing written.
LEMMA MergeBegins == SplitInv /\ BeginMerge => ReaderInv' /\ OutputInv'
<1> SUFFICES ASSUME SplitInv, BeginMerge PROVE ReaderInv' /\ OutputInv'
  OBVIOUS
<1> DEFINE n == Len(parts)
           A == AllWords
<1>1. /\ pc = "split" /\ pc' = "merge" /\ input' = input /\ cover' = cover /\ parts' = parts
      /\ output' = output /\ offset' = 16 * (Len(todo') + 1)
      /\ todo' = Sorted(WordsOf(SubSeq(input, 1, cover)))
      /\ reader' = [p \in DOMAIN parts |-> [need |-> TRUE, word |-> 0, offset |-> 0,
                                            addr |-> 0, finished |-> FALSE]]
  BY DEF BeginMerge
<1>2. output = NoFile /\ n \in Nat /\ DOMAIN parts = 1 .. n
  BY <1>1 DEF SplitInv
<1>3. todo' = A
  BY <1>1, AllWordsAre DEF AllWords
<1>4. /\ A \in Seq(Word) /\ Len(A) \in Nat /\ ToSet(A) = Within(1, cover)
  <2>1. Ascends(A, Within(1, cover)) /\ A \in Seq(Word)
    BY AllWordsAre
  <2> HIDE DEF A
  <2> QED BY <2>1 DEF Ascends, ToSet
<1>5. A' = A
  BY <1>1, AllWordsStay
<1> HIDE DEF A
<1>6. OutputInv'
  <2>1. output' \in File
    <3>1. <<>> \in [{} -> Seq(DocId)]
      <4>1. DOMAIN <<>> = {}
        OBVIOUS
      <4> QED BY <4>1
    <3>2. <<>> \in Body
      BY <3>1 DEF Body
    <3>3. <<>> \in Title
      BY DEF Title
    <3> QED BY <1>1, <1>2, <3>2, <3>3 DEF File, NoFile
  <2>2. Len(output'.title) = 0
    BY <1>1, <1>2 DEF NoFile
  <2>3. Written' = 0
    BY <1>1, <2>2 DEF Written
  <2>4. offset' = 16 * (Len(A) + 1) /\ offset' \in Nat
    BY <1>1, <1>3, <1>4
  <2>5. AllWords' = A
    BY <1>5 DEF A
  <2>6. \A i \in 1 .. Len(todo') : todo'[i] = A[0 + i]
    BY <1>3, <1>4
  <2>7. 1 .. Written' = {} /\ Written' \in 0 .. Len(A)
    BY <1>4, <2>3
  <2> HIDE DEF A
  <2> QED BY <1>1, <1>3, <1>4, <2>1, <2>3, <2>4, <2>5, <2>6, <2>7 DEF OutputInv
<1>7. ReaderInv'
  <2> DEFINE r == [need |-> TRUE, word |-> 0, offset |-> 0, addr |-> 0, finished |-> FALSE]
  <2>1. r \in Reader
    BY DEF Reader
  <2>2. \A p \in 1 .. n : reader'[p] = r
    BY <1>1, <1>2
  <2>3. reader' \in Seq(Reader) /\ Len(reader') = n
    <3>1. reader' = [p \in 1 .. n |-> r]
      BY <1>1, <1>2
    <3> HIDE DEF r
    <3>2. reader' \in [1 .. n -> Reader]
      BY <2>1, <3>1
    <3> QED BY <1>2, <3>2
  <2>4. ASSUME NEW p \in 1 .. n PROVE \E b \in 0 .. Words(parts'[p]) : ReaderAt(p, b)'
    <3>1. /\ Words(parts[p]) \in Nat
          /\ \A k \in 1 .. Words(parts[p]) : parts[p].title[k].word \in Within(1, cover)
      BY TitleIs
    <3>2. 0 \in 0 .. Words(parts'[p])
      BY <1>1, <3>1
    <3>3. reader'[p].addr = 0 /\ reader'[p].need /\ ~ reader'[p].finished
      BY <2>2
    <3>4. \A k \in 1 .. Words(parts'[p]) : parts'[p].title[k].word \in ToSet(todo') <=> k > 0
      BY <1>1, <1>3, <1>4, <3>1
    <3>5. ReaderAt(p, 0)'
      BY <3>3, <3>4 DEF ReaderAt, Words
    <3> QED BY <3>2, <3>5
  <2> HIDE DEF r
  <2> QED BY <1>1, <2>3, <2>4 DEF ReaderInv, Words
<1> QED BY <1>6, <1>7

\* A word is written, and every reader stays in step.
LEMMA MergeReads == SplitInv /\ ReaderInv /\ OutputInv /\ WriteWord => ReaderInv'
<1> SUFFICES ASSUME SplitInv, ReaderInv, OutputInv, WriteWord PROVE ReaderInv'
  OBVIOUS
<1> DEFINE n == Len(parts)
<1>1. /\ pc = "merge" /\ pc' = pc /\ todo # <<>> /\ todo' = Tail(todo) /\ parts' = parts
      /\ reader' = [p \in DOMAIN parts |-> Turn(p, Head(todo))]
  BY DEF WriteWord
<1>2. n \in Nat /\ DOMAIN parts = 1 .. n
  BY DEF SplitInv
<1>3. ASSUME NEW p \in 1 .. n
      PROVE  reader'[p] \in Reader /\ \E b \in 0 .. Words(parts[p]) : ReaderAt(p, b)'
  <2>1. reader'[p] = Turn(p, Head(todo))
    BY <1>1, <1>2
  <2> QED BY <1>1, <2>1, TurnIs
<1>4. reader' \in Seq(Reader) /\ Len(reader') = n
  <2>1. reader' = [p \in 1 .. n |-> reader'[p]]
    BY <1>1, <1>2
  <2>2. reader' \in [1 .. n -> Reader]
    BY <1>3, <2>1
  <2> QED BY <1>2, <2>2
<1> QED BY <1>1, <1>3, <1>4 DEF ReaderInv, Words

LEMMA MergeWrites == SplitInv /\ ReaderInv /\ OutputInv /\ WriteWord => OutputInv'
<1> SUFFICES ASSUME SplitInv, ReaderInv, OutputInv, WriteWord PROVE OutputInv'
  OBVIOUS
<1> DEFINE w == Head(todo)
           docs == List(Lists(w))
<1>1. /\ pc = "merge" /\ pc' = pc /\ todo # <<>> /\ todo' = Tail(todo)
      /\ input' = input /\ cover' = cover
  BY DEF WriteWord
<1>2. /\ output' = [title |-> Append(output.title, [word |-> w, offset |-> offset]),
                    body  |-> [o \in DOMAIN output.body \cup {offset} |->
                                 IF o = offset THEN docs ELSE output.body[o]]]
      /\ offset' = offset + ListSize(Len(docs))
  BY DEF WriteWord, Lists, After
<1>3. /\ docs \in Seq(DocId) /\ Len(docs) \in Nat
      /\ \A x, y \in 1 .. Len(docs) : x < y => docs[x] <= docs[y]
      /\ \A d \in DocId : Count(docs, d) = Times(w, d, cover)
  BY <1>1, ListIs
<1>4. /\ w \in Word /\ Written \in Nat /\ Written < Len(AllWords) /\ Len(AllWords) \in Nat
      /\ w = AllWords[Written + 1]
      /\ todo' \in Seq(Word) /\ Len(todo') = Len(todo) - 1
      /\ \A i \in 1 .. Len(todo') : todo'[i] = AllWords[Written + 1 + i]
  BY <1>1, TodoIs
<1> HIDE DEF w, docs
<1>5. PICK m \in Nat, z \in Nat, v \in Word, s \in Seq(DocId), A \in {AllWords} :
        /\ m = Written /\ z = offset /\ v = w /\ s = docs /\ A = AllWords
  <2>1. offset \in Nat
    BY <1>1 DEF OutputInv
  <2> QED BY <1>3, <1>4, <2>1
<1>6. /\ output \in File /\ z >= 16 * (Len(A) + 1) /\ Len(todo) = Len(A) - m
      /\ \A k \in 1 .. m : EntryRight(k)
      /\ \A k, l \in 1 .. m : k < l => LET o == output.title[k].offset
                                       IN  o + ListSize(Len(output.body[o])) <= output.title[l].offset
  BY <1>1, <1>5 DEF OutputInv
<1>7. output.title \in Title /\ output.body \in Body /\ Len(output.title) = m
  <2>1. output.title \in Title /\ output.body \in Body
    BY <1>6 DEF File
  <2>2. Len(output.title) \in Nat
    BY <2>1 DEF Title
  <2> QED BY <1>1, <1>5, <2>1, <2>2 DEF Written
<1>8. AllWords' = A
  BY <1>1, <1>5, AllWordsStay
<1> DEFINE E == [word : Word \cup {0}, offset : Nat]
           e == [word |-> v, offset |-> z]
<1>9. /\ output'.title \in Seq(E) /\ Len(output'.title) = m + 1
      /\ output'.title[m + 1] = e
      /\ \A k \in 1 .. m : output'.title[k] = output.title[k]
  <2>1. output'.title = Append(output.title, e)
    BY <1>2, <1>5
  <2>2. e \in E
    OBVIOUS
  <2>3. output.title \in Seq(E)
    BY <1>7 DEF Title
  <2> HIDE DEF e, E
  <2> QED BY <1>7, <2>1, <2>2, <2>3
<1>10. Written' = m + 1
  BY <1>1, <1>9 DEF Written
<1>11. /\ output'.body = [o \in DOMAIN output.body \cup {z} |-> IF o = z THEN s ELSE output.body[o]]
       /\ DOMAIN output'.body = DOMAIN output.body \cup {z}
       /\ output'.body[z] = s
       /\ \A o \in DOMAIN output.body : o # z => output'.body[o] = output.body[o]
  <2>1. output'.body = [o \in DOMAIN output.body \cup {z} |-> IF o = z THEN s ELSE output.body[o]]
    BY <1>2, <1>5
  <2> QED BY <2>1
<1>12. output' \in File
  <2>1. PICK S \in SUBSET Nat : output.body \in [S -> Seq(DocId)]
    BY <1>7 DEF Body
  <2>2. output'.body \in [S \cup {z} -> Seq(DocId)]
    BY <1>5, <1>11, <2>1
  <2>3. output'.body \in Body
    <3>1. S \cup {z} \in SUBSET Nat
      OBVIOUS
    <3> QED BY <2>2, <3>1 DEF Body
  <2>4. output'.title \in Title
    BY <1>9 DEF Title
  <2>5. output' = [title |-> output'.title, body |-> output'.body]
    BY <1>2
  <2> QED BY <2>3, <2>4, <2>5 DEF File
<1>13. offset' = z + ListSize(Len(s)) /\ offset' \in Nat /\ offset' >= z /\ ListSize(Len(s)) \in Nat
  <2>1. Len(s) \in Nat
    OBVIOUS
  <2> QED BY <1>2, <1>5, <2>1 DEF ListSize
<1>14. \A x, d, n : Times(x, d, n)' = Times(x, d, n)
  BY <1>1 DEF Times
<1>15. ASSUME NEW k \in 1 .. m
       PROVE  /\ output'.title[k].offset = output.title[k].offset
              /\ output'.title[k].word = output.title[k].word
              /\ output.title[k].offset \in Nat
              /\ output'.body[output.title[k].offset] = output.body[output.title[k].offset]
              /\ output.title[k].offset + ListSize(Len(output.body[output.title[k].offset])) <= z
  <2> DEFINE x == output.title[k].offset
  <2>1. /\ x \in DOMAIN output.body /\ output.body[x] \in Seq(DocId)
        /\ x + ListSize(Len(output.body[x])) <= z
    BY <1>5, <1>6 DEF EntryRight
  <2>2. x \in Nat
    <3>1. output.title \in Seq(E)
      BY <1>7 DEF Title
    <3> HIDE DEF E
    <3>2. output.title[k] \in E
      BY <1>5, <1>7, <3>1
    <3> QED BY <3>2 DEF E
  <2> HIDE DEF x
  <2>3. x # z
    <3>1. Len(output.body[x]) \in Nat
      BY <2>1
    <3>2. x + ListSize(Len(output.body[x])) > x
      BY <2>2, <3>1 DEF ListSize
    <3>3. ListSize(Len(output.body[x])) \in Nat
      BY <3>1 DEF ListSize
    <3> QED BY <1>5, <2>1, <2>2, <3>2, <3>3
  <2>4. output'.body[x] = output.body[x]
    BY <1>11, <2>1, <2>3
  <2> QED BY <1>9, <2>1, <2>2, <2>4 DEF x
<1>16. ASSUME NEW k \in 1 .. m PROVE EntryRight(k)'
  <2>1. EntryRight(k)
    BY <1>6
  <2>2. k \in Nat
    OBVIOUS
  <2> DEFINE x == output.title[k].offset
  <2>3. /\ output'.title[k].offset = x /\ output'.title[k].word = output.title[k].word
        /\ x \in Nat /\ output'.body[x] = output.body[x]
        /\ x + ListSize(Len(output.body[x])) <= z
    BY <1>15
  <2>4. /\ output.title[k].word = A[k] /\ x >= 16 * (Len(A) + 1) /\ x \in DOMAIN output.body
        /\ output.body[x] \in Seq(DocId)
        /\ \A i, j \in 1 .. Len(output.body[x]) : i < j => output.body[x][i] <= output.body[x][j]
        /\ \A d \in DocId : Count(output.body[x], d) = Times(output.title[k].word, d, cover)
    BY <1>5, <2>1 DEF EntryRight
  <2> HIDE DEF x
  <2>5. x + ListSize(Len(output.body[x])) <= offset'
    <3>1. ListSize(Len(output.body[x])) \in Nat
      BY <2>4 DEF ListSize
    <3> QED BY <1>5, <1>13, <2>3, <3>1
  <2>6. x \in DOMAIN output'.body
    BY <1>11, <2>4
  <2> QED BY <1>1, <1>8, <1>14, <2>3, <2>4, <2>5, <2>6 DEF EntryRight
<1>17. ASSUME NEW k, k = m + 1 PROVE EntryRight(k)'
  <2>1. output'.title[k].word = v /\ output'.title[k].offset = z
    BY <1>9, <1>17
  <2>2. v = A[k]
    BY <1>4, <1>5, <1>17
  <2>3. z \in DOMAIN output'.body /\ output'.body[z] = s
    BY <1>11
  <2>4. /\ \A i, j \in 1 .. Len(s) : i < j => s[i] <= s[j]
        /\ \A d \in DocId : Count(s, d) = Times(v, d, cover)
    BY <1>3, <1>5
  <2>5. z + ListSize(Len(s)) <= offset'
    BY <1>13
  <2> HIDE DEF e, E
  <2> QED BY <1>1, <1>6, <1>8, <1>14, <2>1, <2>2, <2>3, <2>4, <2>5 DEF EntryRight
<1>18. \A k \in 1 .. m + 1 : EntryRight(k)'
  BY <1>5, <1>16, <1>17
<1>19. ASSUME NEW k \in 1 .. m + 1, NEW l \in 1 .. m + 1, k < l
       PROVE  output'.title[k].offset + ListSize(Len(output'.body[output'.title[k].offset]))
                <= output'.title[l].offset
  <2>1. k \in 1 .. m
    BY <1>5, <1>19
  <2>2. CASE l = m + 1
    <3>1. output'.title[l].offset = z
      BY <1>9, <2>2
    <3> QED BY <1>15, <2>1, <3>1
  <2>3. CASE l # m + 1
    <3>1. l \in 1 .. m
      BY <1>5, <2>3
    <3>2. output.title[k].offset + ListSize(Len(output.body[output.title[k].offset]))
            <= output.title[l].offset
      BY <1>6, <1>19, <2>1, <3>1
    <3> QED BY <1>15, <2>1, <3>1, <3>2
  <2> QED BY <2>2, <2>3
<1>20. /\ todo' \in Seq(Word) /\ Len(todo') = Len(A) - (m + 1)
       /\ \A i \in 1 .. Len(todo') : todo'[i] = A[m + 1 + i]
       /\ m + 1 \in 0 .. Len(A)
  BY <1>4, <1>5, <1>6
<1>21. offset' \in Nat /\ offset' >= 16 * (Len(A) + 1)
  <2>1. Len(A) \in Nat
    BY <1>4, <1>5
  <2> QED BY <1>5, <1>6, <1>13, <2>1
<1> HIDE DEF e, E
<1> QED BY <1>1, <1>8, <1>10, <1>12, <1>18, <1>19, <1>20, <1>21 DEF OutputInv
LEMMA MergeEnds == ReaderInv /\ OutputInv /\ Finish => ReaderInv' /\ OutputInv'
<1> SUFFICES ASSUME ReaderInv, OutputInv, Finish PROVE ReaderInv' /\ OutputInv'
  OBVIOUS
<1>1. /\ pc = "merge" /\ pc' = "done" /\ todo = <<>> /\ todo' = todo /\ parts' = parts
      /\ reader' = reader /\ input' = input /\ cover' = cover /\ offset' = offset
      /\ output' = [output EXCEPT !.title = Append(@, Zeros)]
  BY DEF Finish
<1>2. ReaderInv'
  <2>1. ASSUME NEW p, NEW b, ReaderAt(p, b) PROVE ReaderAt(p, b)'
    BY <1>1, <2>1 DEF ReaderAt, Words
  <2> QED BY <1>1, <2>1 DEF ReaderInv, Words
<1>3. OutputInv'
  <2> DEFINE A == AllWords
             n == Len(A)
             T == output.title
             E == [word : Word \cup {0}, offset : Nat]
  <2>1. PICK m \in 0 .. n : m = Written
    BY <1>1 DEF OutputInv
  <2>2. /\ output \in File /\ offset \in Nat /\ offset >= 16 * (n + 1)
        /\ Len(todo) = n - m /\ \A k \in 1 .. m : EntryRight(k)
        /\ \A k, l \in 1 .. m :
             k < l => T[k].offset + ListSize(Len(output.body[T[k].offset])) <= T[l].offset
    BY <1>1, <2>1 DEF OutputInv
  <2>3. A' = A
    BY <1>1, AllWordsStay
  <2> HIDE DEF A, E
  <2>4. T \in Seq(E) /\ output.body \in Body /\ Len(T) = m /\ m \in Nat
    <3>1. T \in Seq(E) /\ output.body \in Body
      BY <2>2 DEF File, Title, E
    <3>2. Len(T) \in Nat
      BY <3>1
    <3> HIDE DEF T
    <3>3. Len(T) = m
      BY <1>1, <2>1, <3>2 DEF Written, T
    <3> QED BY <3>1, <3>2, <3>3 DEF T
  <2>5. output' = [title |-> Append(T, Zeros), body |-> output.body]
    BY <1>1, <2>2 DEF File
  <2>6. Zeros \in E
    BY DEF Zeros, E
  <2>7. /\ output'.title \in Seq(E) /\ Len(output'.title) = m + 1
        /\ output'.title[m + 1] = Zeros /\ output'.body = output.body
        /\ \A k \in 1 .. m : output'.title[k] = T[k]
    <3> HIDE DEF T
    <3>1. output'.title = Append(T, Zeros) /\ output'.body = output.body
      BY <2>5
    <3> QED BY <2>4, <2>6, <3>1
  <2>8. output' \in File
    BY <2>4, <2>5, <2>7 DEF File, Title, E
  <2>9. Written' = m
    BY <1>1, <2>4, <2>7 DEF Written
  <2>10. \A x, d, i : Times(x, d, i)' = Times(x, d, i)
    BY <1>1 DEF Times
  <2>11. ASSUME NEW k \in 1 .. m PROVE EntryRight(k)'
    <3>1. EntryRight(k) /\ output'.title[k] = output.title[k]
      BY <2>2, <2>7
    <3>2. AllWords' = AllWords
      BY <2>3 DEF A
    <3> HIDE DEF T
    <3> QED BY <1>1, <2>7, <2>10, <3>1, <3>2 DEF EntryRight
  <2>12. \A k, l \in 1 .. m :
           k < l => output'.title[k].offset + ListSize(Len(output'.body[output'.title[k].offset]))
                      <= output'.title[l].offset
    BY <2>2, <2>7
  <2>13. m = n /\ n \in Nat
    <3>1. Len(todo) = 0 /\ n \in Int
      BY <1>1, <2>1, <2>2
    <3> QED BY <2>2, <2>4, <3>1
  <2>14. todo' \in Seq(Word) /\ Len(todo') = 0 /\ 1 .. Len(todo') = {}
    BY <1>1
  <2>15. AllWords' = A
    BY <2>3 DEF A
  <2> HIDE DEF T
  <2> QED BY <1>1, <2>2, <2>7, <2>8, <2>9, <2>11, <2>12, <2>13, <2>14, <2>15 DEF OutputInv
<1> QED BY <1>2, <1>3

LEMMA Inductive == Spec => []IInv
<1>1. Init => IInv
  <2>1. Init => ReaderInv /\ OutputInv
    BY DEF Init, ReaderInv, OutputInv
  <2> QED BY <2>1, SplitInit DEF IInv
<1>2. IInv /\ [Next]_vars => IInv'
  <2> SUFFICES ASSUME SplitInv, ReaderInv, OutputInv, [Next]_vars
               PROVE  SplitInv' /\ ReaderInv' /\ OutputInv'
    BY DEF IInv
  <2>1. CASE BuildPart
    <3>1. pc' = "split"
      BY <2>1 DEF BuildPart
    <3> QED BY <2>1, <3>1, SplitBuild DEF ReaderInv, OutputInv
  <2>2. CASE BeginMerge
    BY <2>2, SplitMerge, MergeBegins
  <2>3. CASE WriteWord
    <3>1. SplitInv'
      BY <2>3, SplitKept DEF WriteWord
    <3> QED BY <2>3, <3>1, MergeReads, MergeWrites
  <2>4. CASE Finish
    <3>1. SplitInv'
      BY <2>4, SplitKept DEF Finish
    <3> QED BY <2>4, <3>1, MergeEnds
  <2>5. CASE UNCHANGED vars
    <3>1. SplitInv'
      <4>1. pc \in {"split", "merge", "done"}
        BY DEF SplitInv
      <4> QED BY <2>5, <4>1, SplitKept DEF vars
    <3>2. ReaderInv'
      <4>1. ASSUME NEW p, NEW b, ReaderAt(p, b) PROVE ReaderAt(p, b)'
        BY <2>5, <4>1 DEF vars, ReaderAt, Words
      <4> QED BY <2>5, <4>1 DEF vars, ReaderInv, Words
    <3>3. OutputInv'
      <4>1. AllWords' = AllWords
        BY <2>5, AllWordsStay DEF vars
      <4>2. \A x, d, i : Times(x, d, i)' = Times(x, d, i)
        BY <2>5 DEF Times, vars
      <4>3. ASSUME NEW k, EntryRight(k) PROVE EntryRight(k)'
        BY <2>5, <4>1, <4>2, <4>3 DEF vars, EntryRight
      <4>4. Written' = Written
        BY <2>5 DEF vars, Written
      <4> QED BY <2>5, <4>1, <4>3, <4>4 DEF vars, OutputInv
    <3> QED BY <3>1, <3>2, <3>3
  <2> QED BY <2>1, <2>2, <2>3, <2>4, <2>5 DEF Next
<1> QED BY <1>1, <1>2, PTL DEF Spec
-----------------------------------------------------------------------------
(* The theorems *)

\* The words in the title of the output, and what stands behind them.
LEMMA EntriesAre ==
  ASSUME SplitInv, OutputInv, pc # "split"
  PROVE  /\ Written \in Nat /\ Entries = 1 .. Written
         /\ Len(AllWords) \in Nat /\ Written + Len(todo) = Len(AllWords)
         /\ Len(output.title) = IF pc = "done" THEN Written + 1 ELSE Written
         /\ output.title \in Title
<1> DEFINE T == output.title
           m == Written
           A == AllWords
<1>1. /\ A \in Seq(Word) /\ Len(A) \in Nat
  BY AllWordsAre DEF Ascends
<1>2. /\ T \in Title /\ m \in 0 .. Len(A) /\ todo \in Seq(Word) /\ Len(todo) = Len(A) - m
      /\ \A k \in 1 .. m : T[k].word = A[k]
      /\ pc = "done" => T[m + 1] = Zeros
  BY DEF OutputInv, File, EntryRight
<1>3. Len(T) \in Nat /\ DOMAIN T = 1 .. Len(T)
  BY <1>2 DEF Title
<1>4. m = Len(T) - (IF pc = "done" THEN 1 ELSE 0)
  BY DEF Written
<1>5. Entries = {k \in DOMAIN T : T[k].word # 0}
  BY DEF Entries
<1> HIDE DEF T, m, A
<1>6. m \in Nat /\ Len(T) = (IF pc = "done" THEN m + 1 ELSE m) /\ m + Len(todo) = Len(A)
  <2>1. m \in Nat /\ m + Len(todo) = Len(A)
    BY <1>1, <1>2
  <2>2. Len(T) = (IF pc = "done" THEN m + 1 ELSE m)
    <3> DEFINE l == Len(T)
    <3>1. l \in Nat /\ m = l - (IF pc = "done" THEN 1 ELSE 0)
      BY <1>3, <1>4
    <3> HIDE DEF l
    <3>2. CASE pc = "done"
      <4>1. m = l - 1
        BY <3>1, <3>2
      <4>2. l = m + 1
        BY <2>1, <3>1, <4>1
      <4> QED BY <3>2, <4>2 DEF l
    <3>3. CASE pc # "done"
      <4>1. m = l - 0
        BY <3>1, <3>3
      <4>2. l = m
        BY <2>1, <3>1, <4>1
      <4> QED BY <3>3, <4>2 DEF l
    <3> QED BY <3>2, <3>3
  <2> QED BY <2>1, <2>2
<1>7. \A k \in 1 .. m : k \in DOMAIN T /\ T[k].word # 0
  <2> TAKE k \in 1 .. m
  <2>1. k \in 1 .. Len(A) /\ k \in 1 .. Len(T)
    BY <1>1, <1>2, <1>6
  <2>2. A[k] \in Word
    BY <1>1, <2>1
  <2> QED BY <1>2, <1>3, <2>1, <2>2, WordAssumption
<1>8. ASSUME NEW k \in DOMAIN T, T[k].word # 0 PROVE k \in 1 .. m
  <2>1. CASE pc = "done"
    <3>1. k # m + 1
      BY <1>2, <1>8, <2>1 DEF Zeros
    <3> QED BY <1>3, <1>6, <2>1, <3>1
  <2>2. CASE pc # "done"
    BY <1>3, <1>6, <2>2
  <2> QED BY <2>1, <2>2
<1>9. Entries = 1 .. m
  <2> DEFINE I == 1 .. m
  <2>1. \A k : k \in I <=> k \in DOMAIN T /\ T[k].word # 0
    BY <1>7, <1>8
  <2> HIDE DEF I
  <2>2. Entries = I
    BY <1>5, <2>1
  <2> QED BY <2>2 DEF I
<1> QED BY <1>1, <1>2, <1>6, <1>9 DEF T, m, A

\* The part files are enough for all parts, and no title is read beyond its end
\* (part_files[], append_doc_ids()).
THEOREM IndexTypes == Spec => []TypeOK
<1>1. IInv => TypeOK
  <2> SUFFICES ASSUME SplitInv, ReaderInv, OutputInv PROVE TypeOK
    BY DEF IInv
  <2>1. /\ pc \in {"split", "merge", "done"}
        /\ pos \in 1 .. Len(input) + 1 /\ cover \in 0 .. pos - 1 /\ Len(parts) <= MaxParts
    BY DEF SplitInv
  <2>2. ASSUME NEW p \in DOMAIN reader
        PROVE  /\ reader[p].need => reader[p].addr < 16 * Len(parts[p].title)
               /\ {reader[p].need, reader[p].finished} \subseteq BOOLEAN
    <3>1. pc # "split"
      BY DEF SplitInv
    <3>2. p \in 1 .. Len(parts) /\ reader[p] \in Reader
      BY <3>1 DEF ReaderInv
    <3>3. PICK b \in 0 .. Words(parts[p]) : ReaderAt(p, b)
      BY <3>1, <3>2 DEF ReaderInv
    <3>4. Words(parts[p]) \in Nat /\ Len(parts[p].title) = Words(parts[p]) + 1
      BY <3>2, TitleIs
    <3>5. reader[p].need => reader[p].addr = 16 * b
      BY <3>3 DEF ReaderAt
    <3>6. reader[p].need => reader[p].addr < 16 * Len(parts[p].title)
      BY <3>3, <3>4, <3>5
    <3> QED BY <3>2, <3>6 DEF Reader
  <2>3. ToSet(todo) \subseteq Word
    <3>1. todo \in Seq(Word)
      <4>1. pc = "split" => todo \in Seq(Word)
        <5>1. <<>> \in Seq(Word)
          OBVIOUS
        <5> QED BY <5>1 DEF SplitInv
      <4>2. pc # "split" => todo \in Seq(Word)
        BY DEF OutputInv
      <4> QED BY <4>1, <4>2
    <3> QED BY <3>1 DEF ToSet
  <2>4. \A k \in DOMAIN output.title : output.title[k].word \in Word \cup {0}
    <3> DEFINE E == [word : Word \cup {0}, offset : Nat]
               T == output.title
    <3>1. T \in Seq(E)
      <4>1. CASE pc = "split"
        <5>1. T = <<>>
          BY <4>1 DEF SplitInv, NoFile
        <5> HIDE DEF T, E
        <5> QED BY <5>1
      <4>2. CASE pc # "split"
        BY <4>2, EntriesAre DEF Title
      <4> QED BY <4>1, <4>2
    <3>2. \A e \in E : e.word \in Word \cup {0}
      OBVIOUS
    <3> HIDE DEF T, E
    <3>3. \A k \in DOMAIN T : T[k] \in E
      BY <3>1
    <3>4. \A k \in DOMAIN T : T[k].word \in Word \cup {0}
      BY <3>2, <3>3
    <3> QED BY <3>4 DEF T
  <2> QED BY <2>1, <2>2, <2>3, <2>4 DEF TypeOK
<1> QED BY <1>1, Inductive, PTL

\* max_parts parts are enough for every input: nothing is left behind the last
\* part but what comes after a part without a word (the loop of build_index()).
THEOREM AllOfItRead == Spec => []AllRead
<1>1. IInv => AllRead
  BY DEF IInv, SplitInv
<1> QED BY <1>1, Inductive, PTL

\* What is kept of each part is its first word that is not yet written, however
\* the words are spread over the parts (append_doc_ids()).
THEOREM MergeInStep == Spec => []InStep
<1>1. IInv => InStep
  <2> SUFFICES ASSUME SplitInv, ReaderInv, OutputInv, pc = "merge", NEW p \in DOMAIN parts
               PROVE  LET title == parts[p].title
                          ahead == {k \in DOMAIN title : title[k].word \in ToSet(todo)}
                          entry == IF reader[p].need THEN Entry(p).word ELSE reader[p].word
                      IN  IF ahead = {} THEN entry = 0 ELSE entry = title[Min(ahead)].word
    BY DEF IInv, InStep
  <2> DEFINE T == parts[p].title
             n == Words(parts[p])
             r == reader[p]
             ahead == {k \in DOMAIN T : T[k].word \in ToSet(todo)}
             entry == IF r.need THEN Entry(p).word ELSE r.word
  <2>1. p \in 1 .. Len(parts)
    BY DEF SplitInv
  <2>2. /\ n \in Nat /\ Len(T) = n + 1 /\ T \in Title /\ T[n + 1].word = 0
    BY <2>1, TitleIs
  <2>3. PICK b \in 0 .. n : ReaderAt(p, b)
    BY <2>1 DEF ReaderInv
  <2>4. /\ r.addr = 16 * (IF r.need THEN b ELSE b + 1)
        /\ ~ r.need => r.word = T[b + 1].word
        /\ \A k \in 1 .. n : T[k].word \in ToSet(todo) <=> k > b
    BY <2>3 DEF ReaderAt
  <2>5. DOMAIN T = 1 .. n + 1
    <3>1. DOMAIN T = 1 .. Len(T)
      BY <2>2 DEF Title
    <3> QED BY <2>2, <3>1
  <2>6. Entry(p) = T[r.addr \div 16 + 1]
    BY DEF Entry
  <2> HIDE DEF T, n, r
  <2>7. b \in Nat /\ b <= n
    BY <2>2
  <2>8. entry = T[b + 1].word
    <3>1. CASE r.need
      <4>1. r.addr = 16 * b /\ (16 * b) \div 16 + 1 = b + 1
        BY <2>4, <2>7, <3>1
      <4>2. Entry(p) = T[b + 1]
        BY <2>6, <4>1
      <4> QED BY <3>1, <4>2
    <3>2. CASE ~ r.need
      BY <2>4, <3>2
    <3> QED BY <3>1, <3>2
  <2>9. 0 \notin ToSet(todo)
    <3>1. todo \in Seq(Word)
      BY DEF OutputInv
    <3> QED BY <3>1, WordAssumption DEF ToSet
  <2>10. \A k : k \in ahead <=> k \in 1 .. n /\ k > b
    <3> TAKE k
    <3>1. k \in 1 .. n + 1 <=> k \in 1 .. n \/ k = n + 1
      BY <2>2
    <3>2. k = n + 1 => T[k].word \notin ToSet(todo)
      BY <2>2, <2>9
    <3> QED BY <2>4, <2>5, <3>1, <3>2
  <2> HIDE DEF ahead, entry
  <2>11. CASE b = n
    <3>1. ahead = {}
      BY <2>7, <2>10, <2>11
    <3> QED BY <2>2, <2>8, <2>11, <3>1 DEF ahead, entry, T, r
  <2>12. CASE b # n
    <3>1. b + 1 \in ahead
      BY <2>2, <2>7, <2>10, <2>12
    <3>2. \A k \in ahead : b + 1 <= k
      BY <2>2, <2>7, <2>10
    <3>3. Min(ahead) = b + 1
      <4>1. \A x, y \in ahead : x \in Int /\ (x <= y /\ y <= x => x = y)
        BY <2>2, <2>10
      <4> QED BY <2>7, <3>1, <3>2, <4>1 DEF Min
    <3>4. ahead # {}
      BY <3>1
    <3> QED BY <2>8, <3>3, <3>4 DEF ahead, entry, T, r
  <2> QED BY <2>11, <2>12
<1> QED BY <1>1, Inductive, PTL

\* The place of the title, foreseen from the number of words, is enough for it,
\* and no list reaches into the next (body_offset).
THEOREM ListsNeverOverlap == Spec => []ListsApart
<1>1. IInv => ListsApart
  <2> SUFFICES ASSUME SplitInv, ReaderInv, OutputInv, pc # "split" PROVE ListsApart
    BY DEF IInv, ListsApart
  <2>1. /\ Written \in Nat /\ Entries = 1 .. Written
        /\ Len(AllWords) \in Nat /\ Written + Len(todo) = Len(AllWords)
    BY EntriesAre
  <2>2. /\ \A k \in 1 .. Written : output.title[k].offset >= 16 * (Len(AllWords) + 1)
        /\ \A k, l \in 1 .. Written :
             k < l => output.title[k].offset + ListSize(Len(output.body[output.title[k].offset]))
                        <= output.title[l].offset
    BY DEF OutputInv, EntryRight
  <2>3. Cardinality(Entries) = Written
    <3> DEFINE m == Written
    <3>1. 1 \in Int /\ m \in Int
      BY <2>1
    <3> HIDE DEF m
    <3>2. Cardinality(1 .. m) = IF 1 > m THEN 0 ELSE m - 1 + 1
      BY ONLY <3>1, FS_Interval
    <3> QED BY <2>1, <3>1, <3>2 DEF m
  <2>4. Cardinality(Entries) + Len(todo) + 1 = Len(AllWords) + 1
    BY <2>1, <2>3
  <2> QED BY <2>1, <2>2, <2>4 DEF ListsApart
<1> QED BY <1>1, Inductive, PTL

\* The output is the inverted index of all documents that were read, whatever
\* the parts they were read in (build_index()).
THEOREM IndexIsRight == Spec => []IndexRight
<1>1. IInv => IndexRight
  <2> SUFFICES ASSUME SplitInv, ReaderInv, OutputInv, pc = "done" PROVE IndexRight
    BY DEF IInv, IndexRight
  <2> DEFINE T == output.title
             A == AllWords
             n == Len(A)
             Docs(k) == output.body[T[k].offset]
  <2>1. /\ Entries = 1 .. Written /\ n \in Nat /\ Written = n /\ Len(T) = n + 1
    <3>1. /\ Written \in Nat /\ Entries = 1 .. Written
          /\ n \in Nat /\ Written + Len(todo) = n /\ Len(T) = Written + 1
      BY EntriesAre
    <3>2. Len(todo) = 0
      BY DEF OutputInv
    <3> HIDE DEF n, T
    <3> QED BY <3>1, <3>2
  <2>2. /\ T[n + 1] = Zeros /\ \A k \in 1 .. n : EntryRight(k)
    BY <2>1 DEF OutputInv
  <2>3. \A k \in 1 .. n :
          /\ T[k].word = A[k] /\ Docs(k) \in Seq(DocId)
          /\ \A x, y \in 1 .. Len(Docs(k)) : x < y => Docs(k)[x] <= Docs(k)[y]
          /\ \A d \in DocId : Count(Docs(k), d) = Times(T[k].word, d, cover)
    BY <2>2 DEF EntryRight
  <2>4. /\ \A k, l \in 1 .. n : k < l => A[k] < A[l]
        /\ \A x : x \in Within(1, cover) <=> \E k \in 1 .. n : A[k] = x
        /\ WordsOf(SubSeq(input, 1, cover)) = Within(1, cover)
    BY AllWordsAre DEF Ascends
  <2> HIDE DEF A, n, T
  <2>5. {T[k].word : k \in Entries} = WordsOf(SubSeq(input, 1, cover))
    <3>1. \A x : x \in {T[k].word : k \in Entries} <=> \E k \in 1 .. n : A[k] = x
      BY <2>1, <2>3
    <3> QED BY <2>4, <3>1
  <2>6. \A k, l \in Entries : k < l => T[k].word < T[l].word
    BY <2>1, <2>3, <2>4
  <2>7. Entries = 1 .. Len(T) - 1 /\ T[Len(T)] = Zeros
    BY <2>1, <2>2
  <2>8. ASSUME NEW k \in Entries
        PROVE  /\ \A x, y \in DOMAIN Docs(k) : x < y => Docs(k)[x] <= Docs(k)[y]
               /\ \A d \in DocId : Count(Docs(k), d) = Times(T[k].word, d, cover)
    <3> DEFINE s == Docs(k)
    <3>1. s \in Seq(DocId) /\ \A x, y \in 1 .. Len(s) : x < y => s[x] <= s[y]
      BY <2>1, <2>3
    <3>2. \A d \in DocId : Count(s, d) = Times(T[k].word, d, cover)
      BY <2>1, <2>3
    <3> HIDE DEF s
    <3>3. DOMAIN s = 1 .. Len(s)
      BY <3>1
    <3>4. \A x, y \in DOMAIN s : x < y => s[x] <= s[y]
      BY <3>1, <3>3
    <3> QED BY <3>2, <3>4 DEF s
  <2> QED BY <2>5, <2>6, <2>7, <2>8 DEF IndexRight, T
<1> QED BY <1>1, Inductive, PTL
=============================================================================
