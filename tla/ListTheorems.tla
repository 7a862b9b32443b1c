---------------------------- MODULE ListTheorems ----------------------------
(***************************************************************************)
(* Facts about numbers, sets, lists and functions that the proofs about    *)
(* the shell, the chat server and the index builder rest on.  Where a fact *)
(* needs induction it is drawn from the least element of a set of naturals *)
(* (LeastNumber, StepwiseHolds).                                           *)
(***************************************************************************)
EXTENDS Integers, SequencesExt, FiniteSetTheorems, WellFoundedInduction, TLAPS


LEMMA LeastNumber ==
  ASSUME NEW S, S \subseteq Nat, S # {}
  PROVE  \E m \in S : \A x \in S : m <= x
<1> DEFINE R == {ss \in Nat \X Nat : ss[1] < ss[2]}
<1>1. IsWellFoundedOn(R, Nat)
  BY NatLessThanWellFounded DEF OpToRel
<1>2. PICK m \in S : \A y \in S : ~ (<<y, m>> \in R)
  <2> HIDE DEF R
  <2> QED BY <1>1, WFMin
<1>3. ASSUME NEW x \in S PROVE m <= x
  <2>1. ~ (<<x, m>> \in R)
    BY <1>2, <1>3
  <2>2. x \in Nat /\ m \in Nat
    BY <1>3
  <2> QED BY <2>1, <2>2
<1> QED BY <1>3

LEMMA MaxIs ==
  ASSUME NEW S, S \subseteq Int, NEW m \in S, \A k \in S : k <= m
  PROVE  Max(S) = m
<1>1. \A y \in S : m >= y
  OBVIOUS
<1>2. \A x \in S : (\A y \in S : x >= y) => x = m
  OBVIOUS
<1>3. Max(S) \in S /\ \A y \in S : Max(S) >= y
  BY <1>1 DEF Max
<1> QED BY <1>2, <1>3

\* Deleting the first entry of a list loses no other value.
LEMMA Removed ==
  ASSUME NEW S, NEW s \in Seq(S), NEW e
  PROVE  /\ RemoveFirst(s, e) \in Seq(S)
         /\ \A x \in Range(s) : x # e => x \in Range(RemoveFirst(s, e))
<1>1. CASE ~ \E i \in 1 .. Len(s) : s[i] = e
  BY <1>1 DEF RemoveFirst
<1>2. CASE \E i \in 1 .. Len(s) : s[i] = e
  <2> DEFINE I == {i \in 1 .. Len(s) : s[i] = e}
  <2>1. PICK m \in I : \A x \in I : m <= x
    <3>1. I \subseteq Nat /\ I # {}
      BY <1>2
    <3> HIDE DEF I
    <3> QED BY <3>1, LeastNumber
  <2>2. Min(I) = m
    BY <2>1 DEF Min
  <2>3. RemoveFirst(s, e) = SubSeq(s, 1, m - 1) \o SubSeq(s, m + 1, Len(s))
    BY <1>2, <2>2 DEF RemoveFirst, RemoveAt, SelectInSeq
  <2>4. m \in 1 .. Len(s) /\ s[m] = e /\ Len(s) \in Nat
    BY <2>1
  <2> DEFINE a == SubSeq(s, 1, m - 1)
             b == SubSeq(s, m + 1, Len(s))
             r == RemoveFirst(s, e)
  <2>5. /\ a \in Seq(S) /\ Len(a) = m - 1 /\ \A i \in 1 .. m - 1 : a[i] = s[i]
        /\ b \in Seq(S) /\ Len(b) = Len(s) - m /\ \A i \in 1 .. Len(s) - m : b[i] = s[m + i]
    BY <2>4
  <2>6. r = a \o b
    BY <2>3
  <2> HIDE DEF I, a, b, r
  <2>7. r \in Seq(S) /\ Len(r) = Len(s) - 1
    BY <2>4, <2>5, <2>6
  <2>8. ASSUME NEW i \in 1 .. Len(s), s[i] # e
        PROVE  \E k \in 1 .. Len(r) : r[k] = s[i]
    <3>1. CASE i < m
      <4>1. i \in 1 .. Len(r) /\ r[i] = a[i] /\ i \in 1 .. m - 1
        BY <3>1, <2>4, <2>5, <2>6, <2>7
      <4> QED BY <4>1, <2>5
    <3>2. CASE i > m
      <4>1. i - 1 \in 1 .. Len(r) /\ r[i - 1] = b[i - m] /\ i - m \in 1 .. Len(s) - m
        BY <3>2, <2>4, <2>5, <2>6, <2>7
      <4>2. b[i - m] = s[m + (i - m)]
        BY <4>1, <2>5
      <4>3. m + (i - m) = i
        BY <2>4, <2>8
      <4> QED BY <4>1, <4>2, <4>3
    <3> QED BY <3>1, <3>2, <2>4, <2>8
  <2>9. \A x \in Range(s) : x # e => x \in Range(r)
    BY <2>7, <2>8 DEF Range
  <2> QED BY <2>7, <2>9 DEF r
<1> QED BY <1>1, <1>2

-----------------------------------------------------------------------------
(* Lists in which nothing stands twice *)

\* Deleting a value from such a list deletes it for good.
LEMMA RemovedForGood ==
  ASSUME NEW S, NEW s \in Seq(S), IsInjective(s), NEW e \in Range(s)
  PROVE  LET r == RemoveFirst(s, e)
         IN  r \in Seq(S) /\ IsInjective(r) /\ Range(r) = Range(s) \ {e} /\ Len(r) = Len(s) - 1
<1>1. PICK m \in 1 .. Len(s) : s[m] = e
  BY DEF Range
<1> DEFINE I == {i \in 1 .. Len(s) : s[i] = e}
<1>2. I = {m}
  BY <1>1 DEF IsInjective
<1>3. Min(I) = m
  BY <1>1, <1>2 DEF Min
<1>4. RemoveFirst(s, e) = SubSeq(s, 1, m - 1) \o SubSeq(s, m + 1, Len(s))
  BY <1>1, <1>3 DEF RemoveFirst, RemoveAt, SelectInSeq
<1> DEFINE a == SubSeq(s, 1, m - 1)
           b == SubSeq(s, m + 1, Len(s))
           r == RemoveFirst(s, e)
<1>5. /\ a \in Seq(S) /\ Len(a) = m - 1 /\ \A i \in 1 .. m - 1 : a[i] = s[i]
      /\ b \in Seq(S) /\ Len(b) = Len(s) - m /\ \A i \in 1 .. Len(s) - m : b[i] = s[m + i]
  BY <1>1
<1>6. r = a \o b
  BY <1>4
<1> HIDE DEF I, a, b, r
<1>7. r \in Seq(S) /\ Len(r) = Len(s) - 1
  BY <1>1, <1>5, <1>6
<1>8. \A k \in 1 .. Len(r) : r[k] = s[IF k < m THEN k ELSE k + 1]
  <2> SUFFICES ASSUME NEW k \in 1 .. Len(r) PROVE r[k] = s[IF k < m THEN k ELSE k + 1]
    OBVIOUS
  <2>1. CASE k < m
    <3>1. r[k] = a[k] /\ k \in 1 .. m - 1
      BY <1>1, <1>5, <1>6, <1>7, <2>1
    <3> QED BY <3>1, <1>5, <2>1
  <2>2. CASE k >= m
    <3>1. r[k] = b[k - (m - 1)] /\ k - (m - 1) \in 1 .. Len(s) - m
      BY <1>1, <1>5, <1>6, <1>7, <2>2
    <3>2. b[k - (m - 1)] = s[m + (k - (m - 1))] /\ m + (k - (m - 1)) = k + 1
      BY <3>1, <1>1, <1>5
    <3> QED BY <3>1, <3>2, <2>2, <1>1
  <2> QED BY <2>1, <2>2, <1>1
<1>9. \A k \in 1 .. Len(r) : LET l == IF k < m THEN k ELSE k + 1
                              IN  l \in 1 .. Len(s) /\ l # m
  BY <1>1, <1>7
<1>10. IsInjective(r)
  <2> SUFFICES ASSUME NEW i \in 1 .. Len(r), NEW j \in 1 .. Len(r), r[i] = r[j] PROVE i = j
    BY <1>7 DEF IsInjective
  <2> DEFINE x == IF i < m THEN i ELSE i + 1
             y == IF j < m THEN j ELSE j + 1
  <2>1. x \in 1 .. Len(s) /\ y \in 1 .. Len(s) /\ s[x] = s[y]
    BY <1>8, <1>9
  <2>2. x = y
    <3> HIDE DEF x, y
    <3> QED BY <2>1 DEF IsInjective
  <2> QED BY <2>2, <1>1, <1>7
<1>11. \A k \in 1 .. Len(r) : r[k] \in Range(s) /\ r[k] # e
  BY <1>1, <1>8, <1>9 DEF Range, IsInjective
<1>12. \A x \in Range(s) : x # e => x \in Range(r)
  BY Removed DEF r
<1>13. Range(r) = Range(s) \ {e}
  <2>1. \A x \in Range(r) : x \in Range(s) /\ x # e
    BY <1>7, <1>11 DEF Range
  <2> QED BY <2>1, <1>12
<1> QED BY <1>7, <1>10, <1>13 DEF r

LEMMA NothingRemoved ==
  ASSUME NEW S, NEW s \in Seq(S), NEW e, e \notin Range(s)
  PROVE  RemoveFirst(s, e) = s
BY DEF RemoveFirst, Range

LEMMA AppendNew ==
  ASSUME NEW S, NEW s \in Seq(S), IsInjective(s), NEW e \in S, e \notin Range(s)
  PROVE  /\ Append(s, e) \in Seq(S) /\ IsInjective(Append(s, e))
         /\ Range(Append(s, e)) = Range(s) \cup {e} /\ Len(Append(s, e)) = Len(s) + 1
<1> DEFINE t == Append(s, e)
<1>1. /\ t \in Seq(S) /\ Len(t) = Len(s) + 1 /\ Len(s) \in Nat /\ t[Len(s) + 1] = e
      /\ \A i \in 1 .. Len(s) : t[i] = s[i] /\ t[i] # e
  BY DEF Range
<1> HIDE DEF t
<1>2. IsInjective(t)
  BY <1>1 DEF IsInjective
<1>3. Range(t) = Range(s) \cup {e}
  BY <1>1 DEF Range
<1> QED BY <1>1, <1>2, <1>3 DEF t

LEMMA TailOfNew ==
  ASSUME NEW S, NEW s \in Seq(S), s # <<>>, IsInjective(s)
  PROVE  /\ Tail(s) \in Seq(S) /\ IsInjective(Tail(s)) /\ Head(s) \in S
         /\ Range(Tail(s)) = Range(s) \ {Head(s)} /\ Len(Tail(s)) = Len(s) - 1
<1> DEFINE t == Tail(s)
<1>1. /\ t \in Seq(S) /\ Len(t) = Len(s) - 1 /\ Len(s) \in Nat \ {0} /\ Head(s) = s[1] /\ s[1] \in S
      /\ \A i \in 1 .. Len(t) : t[i] = s[i + 1]
  OBVIOUS
<1> HIDE DEF t
<1>2. IsInjective(t)
  <2> SUFFICES ASSUME NEW i \in 1 .. Len(t), NEW j \in 1 .. Len(t), t[i] = t[j] PROVE i = j
    BY <1>1 DEF IsInjective
  <2>1. /\ i + 1 \in 1 .. Len(s) /\ j + 1 \in 1 .. Len(s)
        /\ t[i] = s[i + 1] /\ t[j] = s[j + 1]
    BY <1>1
  <2>2. \A x, y \in 1 .. Len(s) : s[x] = s[y] => x = y
    BY DEF IsInjective
  <2>3. s[i + 1] = s[j + 1]
    BY <2>1
  <2>4. i + 1 = j + 1
    BY <2>1, <2>2, <2>3
  <2> QED BY <2>4
<1>3. ASSUME NEW i \in 1 .. Len(t) PROVE t[i] \in Range(s) /\ t[i] # s[1]
  <2>1. i + 1 \in 1 .. Len(s) /\ 1 \in 1 .. Len(s) /\ i + 1 # 1 /\ t[i] = s[i + 1]
    BY <1>1
  <2> QED BY <2>1 DEF Range, IsInjective
<1>4. \A i \in 2 .. Len(s) : i - 1 \in 1 .. Len(t) /\ t[i - 1] = s[i]
  BY <1>1
<1>5. \A x \in Range(s) : x # s[1] => x \in Range(t)
  BY <1>1, <1>4 DEF Range
<1>6. Range(t) = Range(s) \ {s[1]}
  <2>1. \A x \in Range(t) : x \in Range(s) /\ x # s[1]
    BY <1>1, <1>3 DEF Range
  <2> QED BY <2>1, <1>5
<1> QED BY <1>1, <1>2, <1>6 DEF t

\* Such a list has as many entries as values.
LEMMA CountRange ==
  ASSUME NEW S, NEW s \in Seq(S), IsInjective(s)
  PROVE  Cardinality(Range(s)) = Len(s)
<1>1. s \in Surjection(1 .. Len(s), Range(s)) /\ s \in Injection(1 .. Len(s), Range(s))
  BY DEF Surjection, Injection, Range
<1> DEFINE n == Len(s)
<1>a. n \in Nat
  OBVIOUS
<1>2. IsFiniteSet(1 .. n) /\ Cardinality(1 .. n) = n
  <2> HIDE DEF n
  <2>1. Cardinality(1 .. n) = (IF 1 > n THEN 0 ELSE n - 1 + 1) /\ IsFiniteSet(1 .. n)
    BY <1>a, FS_Interval
  <2> QED BY <2>1, <1>a
<1>3. Cardinality(Range(s)) = Cardinality(1 .. Len(s))
  BY <1>1, <1>2, FS_Surjection
<1> QED BY <1>2, <1>3

\* A piece of such a list, and what is in front of it and in it, apart.
LEMMA SplitNew ==
  ASSUME NEW S, NEW s \in Seq(S), IsInjective(s), NEW n \in 0 .. Len(s)
  PROVE  LET a == SubSeq(s, 1, n)
             b == SubSeq(s, n + 1, Len(s))
         IN  /\ a \in Seq(S) /\ IsInjective(a) /\ Len(a) = n
             /\ b \in Seq(S) /\ IsInjective(b)
             /\ Range(a) \subseteq Range(s) /\ Range(b) \subseteq Range(s) \ Range(a)
<1> DEFINE a == SubSeq(s, 1, n)
           b == SubSeq(s, n + 1, Len(s))
<1>1. /\ a \in Seq(S) /\ Len(a) = n /\ \A i \in 1 .. n : a[i] = s[i]
      /\ b \in Seq(S) /\ Len(b) = Len(s) - n /\ \A i \in 1 .. Len(s) - n : b[i] = s[n + i]
      /\ Len(s) \in Nat /\ n \in 0 .. Len(s)
  OBVIOUS
<1> HIDE DEF a, b
<1>2. IsInjective(a)
  BY <1>1 DEF IsInjective
<1>3. IsInjective(b)
  <2> SUFFICES ASSUME NEW i \in 1 .. Len(s) - n, NEW j \in 1 .. Len(s) - n, b[i] = b[j] PROVE i = j
    BY <1>1 DEF IsInjective
  <2>1. s[n + i] = s[n + j] /\ n + i \in 1 .. Len(s) /\ n + j \in 1 .. Len(s)
    BY <1>1
  <2>2. n + i = n + j
    BY <2>1 DEF IsInjective
  <2> QED BY <2>2, <1>1
<1>4. Range(a) \subseteq Range(s)
  BY <1>1 DEF Range
<1>5. ASSUME NEW x \in Range(b)
      PROVE  x \in Range(s) /\ x \notin Range(a)
  <2>1. DOMAIN b = 1 .. Len(s) - n /\ DOMAIN a = 1 .. n /\ DOMAIN s = 1 .. Len(s)
    BY <1>1
  <2>2. PICK i \in 1 .. Len(s) - n : x = b[i]
    BY <2>1, <1>5 DEF Range
  <2>3. x = s[n + i] /\ n + i \in 1 .. Len(s)
    BY <1>1, <2>2
  <2>4. ASSUME NEW j \in 1 .. n PROVE a[j] # x
    <3>1. j \in 1 .. Len(s) /\ j # n + i
      BY <1>1
    <3> QED BY <1>1, <2>1, <2>3, <3>1 DEF IsInjective
  <2> QED BY <2>1, <2>3, <2>4 DEF Range
<1> QED BY <1>1, <1>2, <1>3, <1>4, <1>5 DEF a, b

LEMMA JoinNew ==
  ASSUME NEW S, NEW a \in Seq(S), NEW b \in Seq(S), IsInjective(a), IsInjective(b),
         Range(a) \cap Range(b) = {}
  PROVE  a \o b \in Seq(S) /\ IsInjective(a \o b) /\ Range(a \o b) = Range(a) \cup Range(b)
<1> DEFINE c == a \o b
<1>1. /\ c \in Seq(S) /\ Len(c) = Len(a) + Len(b) /\ Len(a) \in Nat /\ Len(b) \in Nat
      /\ \A i \in 1 .. Len(a) : c[i] = a[i]
      /\ DOMAIN a = 1 .. Len(a) /\ DOMAIN b = 1 .. Len(b) /\ DOMAIN c = 1 .. Len(c)
  OBVIOUS
<1>2. \A i \in 1 .. Len(b) : c[Len(a) + i] = b[i]
  <2> SUFFICES ASSUME NEW i \in 1 .. Len(b) PROVE c[Len(a) + i] = b[i]
    OBVIOUS
  <2>1. Len(a) + i \in 1 .. Len(c) /\ ~ (Len(a) + i <= Len(a)) /\ (Len(a) + i) - Len(a) = i
    BY <1>1
  <2> QED BY <2>1, <1>1
<1> HIDE DEF c
<1>3. \A k \in 1 .. Len(c) :
        \/ k \in 1 .. Len(a) /\ c[k] = a[k]
        \/ k - Len(a) \in 1 .. Len(b) /\ c[k] = b[k - Len(a)]
  <2> SUFFICES ASSUME NEW k \in 1 .. Len(c)
               PROVE  \/ k \in 1 .. Len(a) /\ c[k] = a[k]
                      \/ k - Len(a) \in 1 .. Len(b) /\ c[k] = b[k - Len(a)]
    OBVIOUS
  <2>1. CASE k \in 1 .. Len(a)
    BY <1>1, <2>1
  <2>2. CASE k \notin 1 .. Len(a)
    <3>1. k - Len(a) \in 1 .. Len(b) /\ Len(a) + (k - Len(a)) = k
      BY <1>1, <2>2
    <3>2. c[Len(a) + (k - Len(a))] = b[k - Len(a)]
      BY <3>1, <1>2
    <3> QED BY <3>1, <3>2
  <2> QED BY <2>1, <2>2
<1>4. IsInjective(c)
  <2> SUFFICES ASSUME NEW i \in 1 .. Len(c), NEW j \in 1 .. Len(c), c[i] = c[j] PROVE i = j
    BY <1>1 DEF IsInjective
  <2>1. CASE i \in 1 .. Len(a) /\ c[i] = a[i] /\ j \in 1 .. Len(a) /\ c[j] = a[j]
    BY <2>1, <1>1 DEF IsInjective
  <2>2. CASE /\ i - Len(a) \in 1 .. Len(b) /\ c[i] = b[i - Len(a)]
             /\ j - Len(a) \in 1 .. Len(b) /\ c[j] = b[j - Len(a)]
    <3>1. i - Len(a) = j - Len(a)
      BY <2>2, <1>1 DEF IsInjective
    <3> QED BY <3>1, <1>1
  <2>3. \A k \in 1 .. Len(a), l \in 1 .. Len(b) : a[k] # b[l]
    BY <1>1 DEF Range
  <2> QED BY <1>3, <2>1, <2>2, <2>3
<1>5. Range(c) \subseteq Range(a) \cup Range(b)
  BY <1>1, <1>3 DEF Range
<1>6. Range(a) \subseteq Range(c)
  BY <1>1 DEF Range
<1>7. Range(b) \subseteq Range(c)
  <2> SUFFICES ASSUME NEW i \in 1 .. Len(b) PROVE b[i] \in Range(c)
    BY <1>1 DEF Range
  <2>1. Len(a) + i \in 1 .. Len(c)
    BY <1>1
  <2> QED BY <1>1, <1>2, <2>1 DEF Range
<1> QED BY <1>1, <1>4, <1>5, <1>6, <1>7 DEF c

-----------------------------------------------------------------------------
(* Finite sets of numbers *)

\* The image of a finite set.
LEMMA FiniteImage ==
  ASSUME NEW S, IsFiniteSet(S), NEW f, DOMAIN f = S
  PROVE  IsFiniteSet({f[x] : x \in S}) /\ Cardinality({f[x] : x \in S}) <= Cardinality(S)
<1> DEFINE T == {f[x] : x \in S}
           g == [x \in S |-> f[x]]
<1>1. g \in Surjection(S, T)
  BY DEF Surjection
<1> QED BY <1>1, FS_Surjection

\* A function that takes no value twice keeps the number of elements.
LEMMA SameNumber ==
  ASSUME NEW S, IsFiniteSet(S), NEW f, DOMAIN f = S,
         \A x, y \in S : f[x] = f[y] => x = y
  PROVE  IsFiniteSet({f[x] : x \in S}) /\ Cardinality({f[x] : x \in S}) = Cardinality(S)
<1> DEFINE T == {f[x] : x \in S}
           g == [x \in S |-> f[x]]
<1>1. g \in Surjection(S, T) /\ g \in Injection(S, T)
  BY DEF Surjection, Injection, IsInjective
<1> QED BY <1>1, FS_Surjection

\* One set of numbers has fewer elements than another if it lacks one of them.
LEMMA FewerElements ==
  ASSUME NEW S, IsFiniteSet(S), NEW T \in SUBSET S, NEW x \in S, x \notin T
  PROVE  Cardinality(T) \in Nat /\ Cardinality(S) \in Nat /\ Cardinality(T) < Cardinality(S)
<1>1. IsFiniteSet(T) /\ Cardinality(T) <= Cardinality(S) /\ Cardinality(T) # Cardinality(S)
  BY FS_Subset
<1>2. Cardinality(T) \in Nat /\ Cardinality(S) \in Nat
  BY <1>1, FS_CardinalityType
<1> QED BY <1>1, <1>2

\* More numbers of a set are below the greater one of two.
LEMMA BelowGrows ==
  ASSUME NEW S, S \subseteq Int, IsFiniteSet(S), NEW x \in S, NEW y \in S, x < y
  PROVE  /\ Cardinality({z \in S : z < x}) \in Nat
         /\ Cardinality({z \in S : z < x}) < Cardinality({z \in S : z < y})
<1> DEFINE A == {z \in S : z < x}
           B == {z \in S : z < y}
<1>1. x \in Int /\ y \in Int
  OBVIOUS
<1>2. ASSUME NEW z \in A PROVE z \in B
  <2>1. z \in Int /\ z < x /\ z \in S
    OBVIOUS
  <2>2. z < y
    BY <1>1, <2>1
  <2> QED BY <2>1, <2>2
<1>3. x \in B /\ x \notin A
  BY <1>1
<1>4. IsFiniteSet(B)
  BY FS_Subset
<1> HIDE DEF A, B
<1>5. A \in SUBSET B
  BY <1>2
<1>6. Cardinality(A) \in Nat /\ Cardinality(A) < Cardinality(B)
  BY <1>3, <1>4, <1>5, FewerElements
<1> QED BY <1>6 DEF A, B

LEMMA LeastOf ==
  ASSUME NEW S, S \subseteq Int, IsFiniteSet(S), S # {}
  PROVE  \E m \in S : \A x \in S : m <= x
<1> DEFINE Below(x) == {y \in S : y < x}
           R == {Cardinality(Below(x)) : x \in S}
<1>1. \A x \in S : Cardinality(Below(x)) \in Nat
  BY FS_Subset, FS_CardinalityType
<1>2. PICK m \in S : \A x \in S : Cardinality(Below(m)) <= Cardinality(Below(x))
  <2>1. R \subseteq Nat /\ R # {}
    BY <1>1
  <2>2. PICK r \in R : \A q \in R : r <= q
    <3> HIDE DEF R
    <3> QED BY <2>1, LeastNumber
  <2> QED BY <2>2
<1>3. ASSUME NEW x \in S, x < m PROVE FALSE
  <2>3. Cardinality(Below(x)) < Cardinality(Below(m))
    BY <1>3, BelowGrows
  <2>4. m \in S /\ Cardinality(Below(m)) <= Cardinality(Below(x))
    BY <1>2
  <2>5. Cardinality(Below(m)) \in Nat /\ Cardinality(Below(x)) \in Nat
    BY <1>1
  <2> HIDE DEF Below
  <2> QED BY <2>3, <2>4, <2>5
<1> QED BY <1>3

LEMMA GreatestOf ==
  ASSUME NEW S, S \subseteq Int, IsFiniteSet(S), S # {}
  PROVE  \E m \in S : \A x \in S : x <= m
<1> DEFINE f == [x \in S |-> 0 - x]
           T == {f[x] : x \in S}
<1>1. T \subseteq Int /\ T # {}
  <2>1. \A x \in S : f[x] \in Int
    <3> TAKE x \in S
    <3>1. x \in Int /\ f[x] = 0 - x
      OBVIOUS
    <3> QED BY <3>1
  <2>2. PICK x \in S : TRUE
    OBVIOUS
  <2>3. f[x] \in T
    BY <2>2
  <2> HIDE DEF f
  <2> QED BY <2>1, <2>3
<1>2. IsFiniteSet(T)
  BY FiniteImage
<1>3. PICK t \in T : \A x \in T : t <= x
  <2> HIDE DEF T
  <2> QED BY <1>1, <1>2, LeastOf
<1>4. PICK m \in S : t = 0 - m
  OBVIOUS
<1>5. ASSUME NEW x \in S PROVE x <= m
  <2>1. 0 - x \in T
    OBVIOUS
  <2> QED BY <1>3, <1>4, <2>1
<1> QED BY <1>5

-----------------------------------------------------------------------------
(* Functions defined step by step *)

\* What holds of 0, and of k + 1 if of k, holds of all numbers up to n.
LEMMA StepwiseHolds ==
  ASSUME NEW n \in Nat, NEW P, 0 \in P, \A k \in 0 .. n : k < n /\ k \in P => k + 1 \in P
  PROVE  \A k \in 0 .. n : k \in P
<1> DEFINE Bad == {k \in 0 .. n : k \notin P}
<1> SUFFICES ASSUME Bad # {} PROVE FALSE
  OBVIOUS
<1>1. PICK m \in Bad : \A x \in Bad : m <= x
  <2>1. Bad \subseteq Nat
    OBVIOUS
  <2> HIDE DEF Bad
  <2> QED BY <2>1, LeastNumber
<1>2. m \in 0 .. n /\ m \notin P /\ m # 0
  BY <1>1
<1>3. m - 1 \in 0 .. n /\ m - 1 < n /\ (m - 1) + 1 = m
  BY <1>2
<1>4. m - 1 \notin Bad
  BY <1>1, <1>2
<1>5. m - 1 \in P
  BY <1>3, <1>4
<1> QED BY <1>2, <1>3, <1>5

\* f begins with a, and every value follows from the one before.
Stepwise(f, n, a, g) == f[0] = a /\ \A k \in 1 .. n : f[k] = g[k][f[k - 1]]

\* A function is defined by its first value and the steps from one to the next.
LEMMA StepwiseExists ==
  ASSUME NEW n \in Nat, NEW A, NEW a \in A, NEW g \in [1 .. n -> [A -> A]]
  PROVE  \E f \in [0 .. n -> A] : Stepwise(f, n, a, g)
<1> DEFINE Fine(f, m) == f[0] = a /\ \A k \in 1 .. m : f[k] = g[k][f[k - 1]]
           P == {m \in 0 .. n : \E f \in [0 .. m -> A] : Fine(f, m)}
<1>1. 0 \in P
  <2>1. [k \in 0 .. 0 |-> a] \in [0 .. 0 -> A] /\ Fine([k \in 0 .. 0 |-> a], 0)
    OBVIOUS
  <2> HIDE DEF Fine
  <2> QED BY <2>1
<1>2. ASSUME NEW m \in 0 .. n, m < n, m \in P PROVE m + 1 \in P
  <2>1. PICK f \in [0 .. m -> A] : Fine(f, m)
    BY <1>2
  <2> DEFINE h == [k \in 0 .. m + 1 |-> IF k = m + 1 THEN g[m + 1][f[m]] ELSE f[k]]
  <2>2. m \in Nat /\ m + 1 \in 1 .. n /\ f[m] \in A /\ m + 1 \in 0 .. n
    BY <1>2
  <2>3. g[m + 1][f[m]] \in A
    BY <2>2
  <2>4. h \in [0 .. m + 1 -> A]
    BY <2>2, <2>3
  <2>5. h[0] = a
    BY <2>1, <2>2
  <2>6. ASSUME NEW k \in 1 .. m + 1 PROVE h[k] = g[k][h[k - 1]]
    <3>1. k - 1 \in 0 .. m /\ h[k - 1] = f[k - 1]
      BY <2>2
    <3>2. CASE k = m + 1
      BY <2>2, <3>1, <3>2
    <3>3. CASE k # m + 1
      <4>1. k \in 1 .. m /\ h[k] = f[k]
        BY <2>2, <3>3
      <4> QED BY <2>1, <3>1, <4>1
    <3> QED BY <3>2, <3>3
  <2>7. Fine(h, m + 1)
    <3> HIDE DEF h
    <3> QED BY <2>5, <2>6
  <2> HIDE DEF Fine, h
  <2> QED BY <2>2, <2>4, <2>7
<1>3. \A m \in 0 .. n : m \in P
  <2> HIDE DEF P
  <2> QED BY <1>1, <1>2, StepwiseHolds
<1> QED BY <1>3 DEF Stepwise

\* A function that does not decrease at any step does not decrease.
LEMMA StepwiseGrows ==
  ASSUME NEW n \in Nat, NEW f \in [0 .. n -> Int], \A k \in 1 .. n : f[k - 1] <= f[k],
         NEW a \in 0 .. n, NEW b \in 0 .. n, a <= b
  PROVE  f[a] <= f[b]
<1> DEFINE P == {k \in 0 .. n : k >= a => f[a] <= f[k]}
<1>1. 0 \in P
  OBVIOUS
<1>2. ASSUME NEW k \in 0 .. n, k < n, k \in P PROVE k + 1 \in P
  <2>1. k + 1 \in 1 .. n /\ (k + 1) - 1 = k /\ k + 1 \in 0 .. n
    BY <1>2
  <2>2. f[k] \in Int /\ f[k + 1] \in Int /\ f[a] \in Int /\ f[k] <= f[k + 1]
    BY <2>1
  <2>3. k + 1 >= a => f[a] <= f[k + 1]
    <3>1. CASE k >= a
      BY <1>2, <2>2, <3>1
    <3>2. CASE k + 1 = a
      BY <2>2, <3>2
    <3> QED BY <3>1, <3>2
  <2> QED BY <2>1, <2>3
<1>3. \A k \in 0 .. n : k \in P
  <2> HIDE DEF P
  <2> QED BY <1>1, <1>2, StepwiseHolds
<1> QED BY <1>3
-----------------------------------------------------------------------------
(* Lists of lists, one behind the other *)

LEMMA JoinedIs ==
  ASSUME NEW T, NEW x \in Seq(T), NEW y \in Seq(T)
  PROVE  /\ x \o y \in Seq(T) /\ Len(x \o y) = Len(x) + Len(y)
         /\ Len(x) \in Nat /\ Len(y) \in Nat
         /\ \A k \in 1 .. Len(x) : (x \o y)[k] = x[k]
         /\ \A k \in 1 .. Len(y) : (x \o y)[Len(x) + k] = y[k]
<1>1. ASSUME NEW k \in 1 .. Len(y) PROVE (x \o y)[Len(x) + k] = y[k]
  <2>1. Len(x) + k \in 1 .. Len(x \o y) /\ ~ (Len(x) + k <= Len(x)) /\ (Len(x) + k) - Len(x) = k
    OBVIOUS
  <2> QED BY <2>1
<1> QED BY <1>1

\* FlattenSeq puts one list behind the other.
LEMMA FlattenIs ==
  ASSUME NEW T, NEW s \in Seq(Seq(T))
  PROVE  \E f \in [0 .. Len(s) -> Seq(T)] :
           /\ f[0] = <<>> /\ FlattenSeq(s) = f[Len(s)]
           /\ \A k \in 1 .. Len(s) : f[k] = f[k - 1] \o s[k]
<1> DEFINE n == Len(s)
           A == Seq(T)
           g == [k \in 1 .. n |-> [x \in A |-> x \o s[k]]]
           Recursive(u) == u = [i \in 1 .. n |-> IF i = 1 THEN s[i] ELSE u[i - 1] \o s[i]]
<1>1. n \in Nat /\ \A k \in 1 .. n : s[k] \in A
  OBVIOUS
<1>2. <<>> \in A /\ \A x, y \in A : x \o y \in A
  OBVIOUS
<1>3. n = 0 => FlattenSeq(s) = <<>>
  BY DEF FlattenSeq
<1>4. n # 0 => FlattenSeq(s) = (CHOOSE u : Recursive(u))[n]
  BY DEF FlattenSeq
<1>5. <<>> \o s[1] = s[1] \/ n = 0
  OBVIOUS
<1>6. \A k \in 1 .. n : g[k] \in [A -> A] /\ \A x \in A : g[k][x] = x \o s[k]
  <2> HIDE DEF A, n
  <2> QED BY <1>1, <1>2
<1>7. g \in [1 .. n -> [A -> A]]
  <2> HIDE DEF A, n
  <2> QED BY <1>6
<1> HIDE DEF g, n, A
<1>8. PICK f \in [0 .. n -> A] : f[0] = <<>> /\ \A k \in 1 .. n : f[k] = g[k][f[k - 1]]
  <2>1. PICK f \in [0 .. n -> A] : Stepwise(f, n, <<>>, g)
    BY <1>1, <1>2, <1>7, StepwiseExists
  <2> QED BY <2>1 DEF Stepwise
<1>9. \A k \in 1 .. n : k - 1 \in 0 .. n /\ f[k] = f[k - 1] \o s[k]
  <2> TAKE k \in 1 .. n
  <2>1. k - 1 \in 0 .. n
    BY <1>1
  <2>2. f[k - 1] \in A
    BY <2>1
  <2> QED BY <1>6, <1>8, <2>1, <2>2
<1>10. CASE n = 0
  BY <1>1, <1>3, <1>8, <1>9, <1>10 DEF n, A
<1>11. CASE n # 0
  <2> DEFINE u == CHOOSE u : Recursive(u)
  <2>1. \E v : Recursive(v)
    <3> DEFINE v == [i \in 1 .. n |-> f[i]]
    <3>1. ASSUME NEW i \in 1 .. n PROVE v[i] = IF i = 1 THEN s[i] ELSE v[i - 1] \o s[i]
      <4>1. CASE i = 1
        <5>1. f[1] = f[0] \o s[1]
          <6>1. 1 \in 1 .. n /\ 1 - 1 = 0
            BY <4>1
          <6>2. f[1] = f[1 - 1] \o s[1]
            BY <1>9, <6>1
          <6> QED BY <6>1, <6>2
        <5>2. f[1] = s[1]
          BY <1>5, <1>8, <1>11, <5>1
        <5> QED BY <4>1, <5>2
      <4>2. CASE i # 1
        <5>1. i - 1 \in 1 .. n
          BY <1>1, <4>2
        <5>2. v[i - 1] = f[i - 1] /\ v[i] = f[i] /\ f[i] = f[i - 1] \o s[i]
          BY <1>9, <5>1
        <5> HIDE DEF v
        <5> QED BY <4>2, <5>2
      <4> QED BY <4>1, <4>2
    <3> DEFINE W(i) == IF i = 1 THEN s[i] ELSE v[i - 1] \o s[i]
    <3>2. v = [i \in 1 .. n |-> v[i]]
      OBVIOUS
    <3>3. \A i \in 1 .. n : v[i] = W(i)
      BY <3>1
    <3>4. v = [i \in 1 .. n |-> W(i)]
      <4> HIDE DEF v, W
      <4> QED BY <3>2, <3>3
    <3>5. Recursive(v)
      <4> HIDE DEF v
      <4> QED BY <3>4
    <3> HIDE DEF v, Recursive
    <3> QED BY <3>5
  <2>2. Recursive(u)
    <3> HIDE DEF Recursive
    <3> QED BY <2>1
  <2> HIDE DEF u
  <2>3. \A i \in 1 .. n : u[i] = IF i = 1 THEN s[i] ELSE u[i - 1] \o s[i]
    <3> DEFINE W(i) == IF i = 1 THEN s[i] ELSE u[i - 1] \o s[i]
    <3>1. u = [i \in 1 .. n |-> W(i)]
      BY <2>2
    <3>2. \A i \in 1 .. n : u[i] = W(i)
      <4> HIDE DEF W
      <4> QED BY <3>1
    <3> QED BY <3>2
  <2> DEFINE P == {k \in 0 .. n : k = 0 \/ u[k] = f[k]}
  <2>4. 0 \in P
    BY <1>1
  <2>5. ASSUME NEW k \in 0 .. n, k < n, k \in P PROVE k + 1 \in P
    <3>1. k + 1 \in 1 .. n /\ k + 1 \in 0 .. n /\ (k + 1) - 1 = k
      BY <1>1, <2>5
    <3>2. f[k + 1] = f[k] \o s[k + 1]
      BY <1>9, <3>1
    <3>3. CASE k = 0
      <4>1. u[1] = s[1] /\ f[1] = f[0] \o s[1]
        BY <2>3, <3>1, <3>2, <3>3
      <4>2. u[1] = f[1]
        BY <1>5, <1>8, <1>11, <4>1
      <4> QED BY <3>1, <3>3, <4>2
    <3>4. CASE k # 0
      <4>1. u[k + 1] = u[k] \o s[k + 1]
        <5>1. k + 1 # 1
          BY <3>4
        <5>2. u[k + 1] = u[(k + 1) - 1] \o s[k + 1]
          BY <2>3, <3>1, <5>1
        <5> QED BY <3>1, <5>2
      <4>2. u[k] = f[k]
        BY <2>5, <3>4
      <4>3. u[k + 1] = f[k + 1]
        BY <3>2, <4>1, <4>2
      <4> QED BY <3>1, <4>3
    <3> QED BY <3>3, <3>4
  <2>6. \A k \in 0 .. n : k \in P
    <3> HIDE DEF P
    <3> QED BY <1>1, <2>4, <2>5, StepwiseHolds
  <2>7. FlattenSeq(s) = f[n]
    <3>1. n \in 0 .. n
      BY <1>1
    <3>2. u[n] = f[n]
      BY <1>11, <2>6, <3>1
    <3>3. FlattenSeq(s) = u[n]
      BY <1>4, <1>11 DEF u
    <3> QED BY <3>2, <3>3
  <2> QED BY <1>8, <1>9, <2>7 DEF n, A
<1> QED BY <1>10, <1>11

-----------------------------------------------------------------------------
(* Numbers in order *)

\* The k-th element is the one with k - 1 below it.
Listing(S) ==
  [k \in 1 .. Cardinality(S) |-> CHOOSE x \in S : Cardinality({y \in S : y < x}) = k - 1]

\* Listing lists the elements of a set, each once, in ascending order.
LEMMA ListingIs ==
  ASSUME NEW S, S \subseteq Int, IsFiniteSet(S)
  PROVE  /\ Listing(S) \in Seq(S) /\ Len(Listing(S)) = Cardinality(S) /\ Cardinality(S) \in Nat
         /\ \A k, l \in 1 .. Cardinality(S) : k < l => Listing(S)[k] < Listing(S)[l]
         /\ {Listing(S)[k] : k \in 1 .. Cardinality(S)} = S
<1> DEFINE n == Cardinality(S)
           Below(x) == {y \in S : y < x}
           rank == [x \in S |-> Cardinality(Below(x))]
           Ranks == {rank[x] : x \in S}
<1>1. n \in Nat
  BY FS_CardinalityType
<1>2. \A x \in S : rank[x] \in 0 .. n - 1
  <2> TAKE x \in S
  <2>1. Below(x) \in SUBSET S /\ x \notin Below(x)
    OBVIOUS
  <2> HIDE DEF Below
  <2>2. Cardinality(Below(x)) \in Nat /\ Cardinality(Below(x)) < n
    BY <2>1, FewerElements
  <2> QED BY <1>1, <2>2
<1>3. \A x, y \in S : x < y => rank[x] < rank[y]
  <2> SUFFICES ASSUME NEW x \in S, NEW y \in S, x < y PROVE rank[x] < rank[y]
    OBVIOUS
  <2> QED BY BelowGrows
<1>4. \A x, y \in S : rank[x] = rank[y] => x = y
  <2> SUFFICES ASSUME NEW x \in S, NEW y \in S, rank[x] = rank[y], x # y PROVE FALSE
    OBVIOUS
  <2>1. x < y \/ y < x
    OBVIOUS
  <2>2. rank[x] \in Nat /\ rank[y] \in Nat
    BY <1>1, <1>2
  <2> HIDE DEF rank
  <2> QED BY <1>3, <2>1, <2>2
<1>5. Ranks = 0 .. n - 1
  <2>1. IsFiniteSet(Ranks) /\ Cardinality(Ranks) = n
    <3>1. DOMAIN rank = S
      OBVIOUS
    <3> HIDE DEF rank
    <3>2. \A x, y \in S : rank[x] = rank[y] => x = y
      BY <1>4
    <3>3. /\ IsFiniteSet({rank[x] : x \in S})
          /\ Cardinality({rank[x] : x \in S}) = Cardinality(S)
      BY ONLY IsFiniteSet(S), <3>1, <3>2, SameNumber
    <3> QED BY <3>3
  <2>2. Ranks \subseteq 0 .. n - 1
    BY <1>2
  <2>3. IsFiniteSet(0 .. n - 1) /\ Cardinality(0 .. n - 1) = n
    BY <1>1, FS_Interval
  <2> HIDE DEF Ranks
  <2> QED BY <2>1, <2>2, <2>3, FS_Subset
<1> DEFINE s == Listing(S)
<1>6. ASSUME NEW k \in 1 .. n PROVE s[k] \in S /\ rank[s[k]] = k - 1
  <2>1. \E x \in S : Cardinality(Below(x)) = k - 1
    <3>1. k - 1 \in 0 .. n - 1
      BY <1>1
    <3>2. k - 1 \in Ranks
      <4> HIDE DEF Ranks, n
      <4> QED BY <1>5, <3>1
    <3>3. PICK x \in S : k - 1 = rank[x]
      <4> HIDE DEF rank
      <4> QED BY <3>2
    <3> QED BY <3>3
  <2>2. s[k] = CHOOSE x \in S : Cardinality(Below(x)) = k - 1
    BY DEF Listing
  <2> HIDE DEF s, Below
  <2> QED BY <2>1, <2>2
<1>7. s \in Seq(S) /\ Len(s) = n
  <2>1. s = [k \in 1 .. n |-> s[k]]
    <3> DEFINE g(k) == CHOOSE x \in S : Cardinality(Below(x)) = k - 1
    <3>1. s = [k \in 1 .. n |-> g(k)]
      BY DEF Listing
    <3> HIDE DEF g, s, rank, n, Ranks, Below
    <3> QED BY ONLY <3>1
  <2> HIDE DEF s, rank, n
  <2>2. s \in [1 .. n -> S]
    BY <2>1, <1>6
  <2> QED BY <1>1, <2>2
<1> HIDE DEF s, rank
<1>8. \A k, l \in 1 .. n : k < l => s[k] < s[l]
  <2> SUFFICES ASSUME NEW k \in 1 .. n, NEW l \in 1 .. n, k < l, ~ (s[k] < s[l]) PROVE FALSE
    OBVIOUS
  <2>1. s[k] \in S /\ s[l] \in S /\ rank[s[k]] = k - 1 /\ rank[s[l]] = l - 1
    BY <1>6
  <2>2. s[l] < s[k] \/ s[l] = s[k]
    <3>1. s[k] \in Int /\ s[l] \in Int
      BY <2>1
    <3> QED BY <3>1
  <2>3. k \in Int /\ l \in Int /\ k < l
    BY <1>1
  <2>4. rank[s[l]] < rank[s[k]] \/ rank[s[l]] = rank[s[k]]
    BY <1>3, <2>1, <2>2
  <2> HIDE DEF n
  <2> QED BY <2>1, <2>3, <2>4
<1>9. {s[k] : k \in 1 .. n} = S
  <2>1. ASSUME NEW x \in S PROVE \E k \in 1 .. n : s[k] = x
    <3>1. rank[x] \in 0 .. n - 1
      BY <1>2
    <3>2. rank[x] + 1 \in 1 .. n /\ (rank[x] + 1) - 1 = rank[x]
      BY <1>1, <3>1
    <3>3. rank[s[rank[x] + 1]] = rank[x] /\ s[rank[x] + 1] \in S
      BY <1>6, <3>2
    <3> QED BY <1>4, <3>2, <3>3
  <2> QED BY <1>6, <2>1
<1> QED BY <1>1, <1>7, <1>8, <1>9 DEF s

\* s has the numbers of S, each once, in ascending order.
Ascends(s, S) ==
  /\ s \in Seq(S) /\ Len(s) \in Nat /\ DOMAIN s = 1 .. Len(s)
  /\ \A k, l \in 1 .. Len(s) : k < l => s[k] < s[l]
  /\ \A x : x \in S <=> \E k \in 1 .. Len(s) : s[k] = x

LEMMA ListedAscends ==
  ASSUME NEW S, S \subseteq Int, IsFiniteSet(S)
  PROVE  Ascends([k \in 1 .. Cardinality(S) |->
                    CHOOSE x \in S : Cardinality({y \in S : y < x}) = k - 1], S)
<1> DEFINE c == Cardinality(S)
           s == Listing(S)
<1>1. /\ s \in Seq(S) /\ Len(s) = c
      /\ \A k, l \in 1 .. c : k < l => s[k] < s[l]
      /\ {s[k] : k \in 1 .. c} = S
  BY ListingIs
<1> HIDE DEF c, s
<1>2. Len(s) \in Nat /\ DOMAIN s = 1 .. Len(s)
  BY <1>1
<1>3. \A x : x \in S <=> \E k \in 1 .. Len(s) : s[k] = x
  BY <1>1
<1>4. Ascends(s, S)
  BY <1>1, <1>2, <1>3 DEF Ascends
<1> QED BY <1>4 DEF s, Listing

\* t begins with s.
BeginsWith(t, s) == \A k \in 1 .. Len(s) : k <= Len(t) /\ s[k] = t[k]

\* There is only one such list.
LEMMA OrderBegins ==
  ASSUME NEW S \in SUBSET Int, NEW s, NEW t, Ascends(s, S), Ascends(t, S)
  PROVE  BeginsWith(t, s)
<1> DEFINE D == {k \in 1 .. Len(s) : ~ (k <= Len(t) /\ s[k] = t[k])}
<1> SUFFICES ASSUME D # {} PROVE FALSE
  BY DEF BeginsWith
<1>1. /\ Len(s) \in Nat /\ Len(t) \in Nat
      /\ \A k \in 1 .. Len(s) : s[k] \in S /\ s[k] \in Int
      /\ \A k \in 1 .. Len(t) : t[k] \in S /\ t[k] \in Int
  BY DEF Ascends
<1>2. PICK m \in D : \A k \in D : m <= k
  <2>1. D \subseteq Nat
    BY <1>1
  <2> HIDE DEF D
  <2> QED BY <2>1, LeastNumber
<1>3. m \in 1 .. Len(s) /\ ~ (m <= Len(t) /\ s[m] = t[m])
  BY <1>2
<1>4. \A i \in 1 .. Len(s) : i < m => i <= Len(t) /\ s[i] = t[i]
  <2> TAKE i \in 1 .. Len(s)
  <2>1. i < m => i \notin D
    BY <1>1, <1>2, <1>3
  <2> QED BY <2>1
<1> HIDE DEF D
<1>5. PICK j \in 1 .. Len(t) : t[j] = s[m]
  BY <1>1, <1>3 DEF Ascends
<1>6. ~ (j < m)
  <2> SUFFICES ASSUME j < m PROVE FALSE
    OBVIOUS
  <2>1. j \in 1 .. Len(s)
    BY <1>1, <1>3
  <2>2. s[j] = s[m] /\ s[j] < s[m]
    BY <1>3, <1>4, <1>5, <2>1 DEF Ascends
  <2> QED BY <1>1, <1>3, <2>1, <2>2
<1>7. m \in 1 .. Len(t)
  BY <1>1, <1>3, <1>6
<1>8. PICK i \in 1 .. Len(s) : s[i] = t[m]
  BY <1>1, <1>7 DEF Ascends
<1>9. ~ (i < m)
  <2> SUFFICES ASSUME i < m PROVE FALSE
    OBVIOUS
  <2>1. i \in 1 .. Len(t)
    BY <1>1, <1>4
  <2>2. t[i] = t[m] /\ t[i] < t[m]
    BY <1>4, <1>7, <1>8, <2>1 DEF Ascends
  <2> QED BY <1>1, <1>7, <2>1, <2>2
<1>10. m < j => t[m] < t[j]
  BY <1>7 DEF Ascends
<1>11. m < i => s[m] < s[i]
  BY <1>3 DEF Ascends
<1>12. s[m] = t[m]
  <2>1. m \in Int /\ i \in Int /\ j \in Int
    BY <1>1, <1>3
  <2>2. (m = j \/ m < j) /\ (m = i \/ m < i)
    BY <1>6, <1>9, <2>1
  <2>3. s[m] \in Int /\ t[m] \in Int
    BY <1>1, <1>3, <1>7
  <2> QED BY <1>5, <1>8, <1>10, <1>11, <2>2, <2>3
<1> QED BY <1>1, <1>3, <1>7, <1>12

LEMMA OneOrder ==
  ASSUME NEW S \in SUBSET Int, NEW s, NEW t, Ascends(s, S), Ascends(t, S)
  PROVE  s = t
<1>1. /\ \A k \in 1 .. Len(s) : k <= Len(t) /\ s[k] = t[k]
      /\ \A k \in 1 .. Len(t) : k <= Len(s)
  <2>1. BeginsWith(t, s) /\ BeginsWith(s, t)
    BY OrderBegins
  <2> QED BY <2>1 DEF BeginsWith
<1>2. /\ s \in Seq(S) /\ t \in Seq(S) /\ Len(s) \in Nat /\ Len(t) \in Nat
  BY DEF Ascends
<1>3. Len(s) = Len(t)
  BY <1>1, <1>2
<1> QED BY <1>1, <1>2, <1>3

LEMMA OrderMore ==
  ASSUME NEW S \in SUBSET Int, NEW s, Ascends(s, S), NEW x \in Int, \A y \in S : y < x
  PROVE  Ascends(Append(s, x), S \cup {x})
<1> DEFINE a == Append(s, x)
           n == Len(s)
           T == S \cup {x}
<1>1. n \in Nat /\ s \in Seq(T) /\ x \in T
  <2>1. s \in Seq(S)
    BY DEF Ascends
  <2>2. S \subseteq T
    OBVIOUS
  <2>3. s \in [1 .. n -> S] /\ n \in Nat
    BY <2>1
  <2> HIDE DEF T
  <2>4. s \in [1 .. n -> T]
    BY <2>2, <2>3
  <2> QED BY <2>3, <2>4 DEF T
<1> HIDE DEF T
<1>2. /\ a \in Seq(T) /\ Len(a) = n + 1 /\ a[n + 1] = x
      /\ \A k \in 1 .. n : a[k] = s[k]
  BY <1>1
<1>3. DOMAIN a = 1 .. n + 1
  BY <1>1, <1>2
<1> HIDE DEF a
<1>4. \A k \in 1 .. n : s[k] \in S
  BY DEF Ascends
<1>5. ASSUME NEW k \in 1 .. n + 1, NEW l \in 1 .. n + 1, k < l PROVE a[k] < a[l]
  <2>1. k \in 1 .. n
    BY <1>1, <1>5
  <2>2. CASE l = n + 1
    BY <1>2, <1>4, <2>1, <2>2
  <2>3. CASE l \in 1 .. n
    BY <1>2, <1>5, <2>1, <2>3 DEF Ascends
  <2> QED BY <1>1, <2>2, <2>3
<1>6. ASSUME NEW y PROVE y \in T <=> \E k \in 1 .. n + 1 : a[k] = y
  <2>1. ASSUME y \in S PROVE \E k \in 1 .. n + 1 : a[k] = y
    <3>1. PICK k \in 1 .. n : s[k] = y
      BY <2>1 DEF Ascends
    <3>2. k \in 1 .. n + 1
      BY <1>1
    <3> QED BY <1>2, <3>1, <3>2
  <2>2. n + 1 \in 1 .. n + 1
    BY <1>1
  <2>3. \A k \in 1 .. n + 1 : a[k] \in T
    BY <1>1, <1>2
  <2> QED BY <1>2, <2>1, <2>2, <2>3 DEF T
<1>7. Ascends(a, T)
  BY <1>1, <1>2, <1>3, <1>5, <1>6 DEF Ascends
<1> QED BY <1>7 DEF a, T
==============================================================================
