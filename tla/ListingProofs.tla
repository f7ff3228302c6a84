--------------------------- MODULE ListingProofs ---------------------------
(***************************************************************************)
(* What a stable sort does, whatever it compares: it permutes the          *)
(* elements, and an element comes after another only if it is not less or  *)
(* came after it.  Proved for every sequence and every less that is a      *)
(* strict weak order, which Go's sort.SliceStable asks of its callers.     *)
(***************************************************************************)
EXTENDS Listing, FiniteSetTheorems, SequenceTheorems, TLAPS

\* sort.Interface: less is transitive and so is "neither is less".
StrictWeakOrder(less, D) ==
  /\ \A i \in D : ~less[i][i]
  /\ \A i, j, k \in D : less[i][j] /\ less[j][k] => less[i][k]
  /\ \A i, j, k \in D : less[i][k] => less[i][j] \/ less[j][k]

\* The order of places that the sort makes total.
Earlier(less, j, i) == less[j][i] \/ (j < i /\ ~less[i][j])

\* How many of n places come earlier.
Rank(less, n, i) == Cardinality({j \in 1..n : Earlier(less, j, i)})

\* s sorted is s with its places permuted by p, in that order.
SortedBy(less, D, p) ==
  /\ p \in [D -> D]
  /\ \A j, k \in D : j # k => p[j] # p[k]
  /\ \A i \in D : \E k \in D : p[k] = i
  /\ \A j, k \in D : j < k => Earlier(less, p[j], p[k])
-----------------------------------------------------------------------------
\* It is total ...
LEMMA EarlierIsOrder ==
  ASSUME NEW n \in Nat, NEW less, StrictWeakOrder(less, 1..n)
  PROVE  /\ \A i \in 1..n : ~Earlier(less, i, i)
         /\ \A i, j \in 1..n : i # j => Earlier(less, i, j) \/ Earlier(less, j, i)
         /\ \A i, j, k \in 1..n :
              Earlier(less, i, j) /\ Earlier(less, j, k) => Earlier(less, i, k)
<1>1. \A i \in 1..n : ~Earlier(less, i, i)
  BY DEF Earlier, StrictWeakOrder
<1>2. \A i, j \in 1..n : i # j => Earlier(less, i, j) \/ Earlier(less, j, i)
  BY DEF Earlier, StrictWeakOrder
<1>3. \A i, j, k \in 1..n :
        Earlier(less, i, j) /\ Earlier(less, j, k) => Earlier(less, i, k)
  <2> SUFFICES ASSUME NEW i \in 1..n, NEW j \in 1..n, NEW k \in 1..n,
                      Earlier(less, i, j), Earlier(less, j, k)
               PROVE  Earlier(less, i, k)
    OBVIOUS
  <2>1. i < j /\ j < k => i < k
    OBVIOUS
  <2> QED
    BY <2>1 DEF Earlier, StrictWeakOrder
<1> QED
  BY <1>1, <1>2, <1>3

\* ... so the places can be counted off.
LEMMA RankIsBijection ==
  ASSUME NEW n \in Nat, NEW less, StrictWeakOrder(less, 1..n)
  PROVE  /\ \A i \in 1..n : Rank(less, n, i) \in 0..(n - 1)
         /\ \A i, j \in 1..n : Earlier(less, i, j) <=> Rank(less, n, i) < Rank(less, n, j)
         /\ \A k \in 0..(n - 1) : \E i \in 1..n : Rank(less, n, i) = k
<1> DEFINE Ahead(i) == {j \in 1..n : Earlier(less, j, i)}
           f == [i \in 1..n |-> Rank(less, n, i)]
<1>1. IsFiniteSet(1..n) /\ Cardinality(1..n) = n
  BY FS_Interval
<1>2. IsFiniteSet(0..(n - 1)) /\ Cardinality(0..(n - 1)) = n
  <2>1. n - 1 \in Int /\ (0 > n - 1 <=> n = 0) /\ (n - 1) - 0 + 1 = n
    OBVIOUS
  <2> QED
    BY <2>1, FS_Interval
<1>3. \A i \in 1..n : IsFiniteSet(Ahead(i)) /\ Cardinality(Ahead(i)) = Rank(less, n, i)
  BY <1>1, FS_Subset DEF Rank
<1>4. \A i \in 1..n : Rank(less, n, i) \in Nat
  BY <1>3, FS_CardinalityType
<1>5. ASSUME NEW i \in 1..n PROVE Rank(less, n, i) \in 0..(n - 1)
  <2>1. i \in 1..n /\ i \notin Ahead(i) /\ Ahead(i) \subseteq 1..n
    BY EarlierIsOrder
  <2> HIDE DEF Ahead
  <2>2. Rank(less, n, i) <= n /\ Rank(less, n, i) # n
    BY <1>1, <1>3, <2>1, FS_Subset
  <2> QED
    BY <1>4, <2>2
<1>6. ASSUME NEW i \in 1..n, NEW j \in 1..n, Earlier(less, i, j)
      PROVE  Rank(less, n, i) < Rank(less, n, j)
  <2>1. Ahead(i) \subseteq Ahead(j) /\ i \in Ahead(j) /\ i \notin Ahead(i)
    BY <1>6, EarlierIsOrder
  <2> HIDE DEF Ahead
  <2>2. Rank(less, n, i) <= Rank(less, n, j) /\ Rank(less, n, i) # Rank(less, n, j)
    BY <1>3, <2>1, FS_Subset
  <2> QED
    BY <1>4, <2>2
<1>7. ASSUME NEW i \in 1..n, NEW j \in 1..n
      PROVE  Earlier(less, i, j) <=> Rank(less, n, i) < Rank(less, n, j)
  <2>1. Earlier(less, j, i) => Rank(less, n, j) < Rank(less, n, i)
    BY <1>6
  <2>2. i = j => ~Earlier(less, i, j)
    BY EarlierIsOrder
  <2>3. i # j => Earlier(less, i, j) \/ Earlier(less, j, i)
    BY EarlierIsOrder
  <2> QED
    BY <1>4, <1>6, <2>1, <2>2, <2>3
<1>8. \A k \in 0..(n - 1) : \E i \in 1..n : Rank(less, n, i) = k
  <2>1. f \in [1..n -> 0..(n - 1)]
    BY <1>5
  <2>2. \A i, j \in 1..n : f[i] = f[j] => i = j
    <3> SUFFICES ASSUME NEW i \in 1..n, NEW j \in 1..n, Rank(less, n, i) = Rank(less, n, j)
                 PROVE  i = j
      OBVIOUS
    <3>1. ~Earlier(less, i, j) /\ ~Earlier(less, j, i)
      BY <1>4, <1>7
    <3> QED
      BY <3>1, EarlierIsOrder
  <2>3. f \in Injection(1..n, 0..(n - 1))
    BY <2>1, <2>2 DEF Injection, IsInjective
  <2>4. f \in Surjection(1..n, 0..(n - 1))
    BY <1>1, <1>2, <2>3, FS_Injection
  <2> QED
    BY <2>4 DEF Surjection
<1> QED
  BY <1>5, <1>7, <1>8

\* A stable sort permutes its elements and puts them into order.
THEOREM StableSorts ==
  ASSUME NEW S, NEW s \in Seq(S), NEW less, StrictWeakOrder(less, DOMAIN s)
  PROVE  /\ StableSort(s, less) \in Seq(S)
         /\ DOMAIN StableSort(s, less) = DOMAIN s
         /\ \E p : /\ SortedBy(less, DOMAIN s, p)
                   /\ \A k \in DOMAIN s : StableSort(s, less)[k] = s[p[k]]
<1> DEFINE n == Len(s)
           p == [k \in 1..n |-> CHOOSE i \in 1..n : Rank(less, n, i) = k - 1]
<1>1. n \in Nat /\ DOMAIN s = 1..n /\ \A i \in 1..n : s[i] \in S
  BY LenProperties, ElementOfSeq
<1>2. /\ \A i \in 1..n : Rank(less, n, i) \in 0..(n - 1)
      /\ \A i, j \in 1..n : Earlier(less, i, j) <=> Rank(less, n, i) < Rank(less, n, j)
      /\ \A k \in 0..(n - 1) : \E i \in 1..n : Rank(less, n, i) = k
  BY <1>1, RankIsBijection
<1>3. StableSort(s, less) = [k \in 1..n |-> s[p[k]]]
  BY <1>1 DEF StableSort, Earlier, Rank
<1> HIDE DEF n
<1>4. \A k \in 1..n : p[k] \in 1..n /\ Rank(less, n, p[k]) = k - 1
  <2> SUFFICES ASSUME NEW k \in 1..n PROVE p[k] \in 1..n /\ Rank(less, n, p[k]) = k - 1
    OBVIOUS
  <2>1. k - 1 \in 0..(n - 1)
    BY <1>1
  <2> QED
    BY <1>2, <2>1
<1>5. p \in [1..n -> 1..n]
  BY <1>4
<1> HIDE DEF p
<1>6. \A j, k \in 1..n : j # k => p[j] # p[k]
  BY <1>1, <1>4
<1>7. \A i \in 1..n : \E k \in 1..n : p[k] = i
  <2> SUFFICES ASSUME NEW i \in 1..n PROVE \E k \in 1..n : p[k] = i
    OBVIOUS
  <2> DEFINE k == Rank(less, n, i) + 1
  <2>1. k \in 1..n /\ k - 1 = Rank(less, n, i)
    BY <1>1, <1>2
  <2> HIDE DEF k
  <2>2. p[k] \in 1..n /\ Rank(less, n, p[k]) = Rank(less, n, i)
    BY <1>4, <2>1
  <2>3. ~Earlier(less, p[k], i) /\ ~Earlier(less, i, p[k])
    BY <1>2, <2>2
  <2>4. p[k] = i
    BY <1>1, <2>2, <2>3, EarlierIsOrder
  <2> QED
    BY <2>1, <2>4
<1>8. \A j, k \in 1..n : j < k => Earlier(less, p[j], p[k])
  <2> SUFFICES ASSUME NEW j \in 1..n, NEW k \in 1..n, j < k
               PROVE  Earlier(less, p[j], p[k])
    OBVIOUS
  <2>1. Rank(less, n, p[j]) < Rank(less, n, p[k])
    BY <1>1, <1>4
  <2> QED
    BY <1>2, <1>4, <2>1
<1>9. SortedBy(less, 1..n, p)
  BY <1>5, <1>6, <1>7, <1>8 DEF SortedBy
<1>10. [k \in 1..n |-> s[p[k]]] \in Seq(S)
  BY <1>1, <1>4
<1> QED
  BY <1>1, <1>3, <1>9, <1>10
-----------------------------------------------------------------------------
\* Places that are counted off have a first one: sorting the members of a set
\* to the front shows it.
LEMMA LeastPlace ==
  ASSUME NEW n \in Nat, NEW K \in SUBSET (1..n), K # {}
  PROVE  \E i \in K : \A j \in K : i <= j
<1> DEFINE less == [i \in 1..n |-> [j \in 1..n |-> i \in K /\ j \notin K]]
<1>1. PICK m \in K : TRUE
  OBVIOUS
<1>2. m \in 1..n /\ 0 \in 0..(n - 1)
  OBVIOUS
<1>3. StrictWeakOrder(less, 1..n)
  BY DEF StrictWeakOrder
<1>4. \A i, j \in 1..n : less[i][j] <=> i \in K /\ j \notin K
  OBVIOUS
<1> HIDE DEF less
<1>5. PICK i \in 1..n : Rank(less, n, i) = 0
  BY <1>2, <1>3, RankIsBijection
<1>6. \A j \in 1..n : ~Earlier(less, j, i)
  <2>1. IsFiniteSet(1..n) /\ {j \in 1..n : Earlier(less, j, i)} \in SUBSET (1..n)
    BY FS_Interval
  <2>2. IsFiniteSet({j \in 1..n : Earlier(less, j, i)})
    BY <2>1, FS_Subset
  <2> QED
    BY <1>5, <2>2, FS_EmptySet DEF Rank
<1>7. i \in K
  BY <1>2, <1>4, <1>6 DEF Earlier
<1>8. \A j \in K : ~(j < i)
  BY <1>4, <1>6, <1>7 DEF Earlier
<1> QED
  BY <1>7, <1>8

\* ... and a last one.
LEMMA GreatestPlace ==
  ASSUME NEW n \in Nat, NEW K \in SUBSET (1..n), K # {}
  PROVE  \E i \in K : \A j \in K : j <= i
<1> DEFINE L == {i \in 1..n : n + 1 - i \in K}
<1>1. L # {}
  <2>1. PICK k \in K : TRUE
    OBVIOUS
  <2>2. n + 1 - k \in 1..n /\ n + 1 - (n + 1 - k) = k
    OBVIOUS
  <2> QED
    BY <2>1, <2>2
<1>2. PICK i \in L : \A j \in L : i <= j
  <2>1. L \in SUBSET (1..n)
    OBVIOUS
  <2> HIDE DEF L
  <2> QED
    BY <1>1, <2>1, LeastPlace
<1>3. \A j \in K : j <= n + 1 - i
  <2> SUFFICES ASSUME NEW j \in K PROVE j <= n + 1 - i
    OBVIOUS
  <2>1. j \in 1..n /\ n + 1 - j \in 1..n /\ n + 1 - (n + 1 - j) = j
    OBVIOUS
  <2>2. i <= n + 1 - j
    BY <1>2, <2>1
  <2> QED
    BY <2>1, <2>2
<1> QED
  BY <1>3

\* A list without duplicates that is as long as a set is large lists all of it.
LEMMA Enumerates ==
  ASSUME NEW S, IsFiniteSet(S), NEW s \in [1..Cardinality(S) -> S],
         \A j, k \in DOMAIN s : s[j] = s[k] => j = k
  PROVE  s \in Seq(S) /\ Len(s) = Cardinality(S) /\ \A x \in S : \E k \in DOMAIN s : s[k] = x
<1> DEFINE c == Cardinality(S)
<1>1. c \in Nat
  BY FS_CardinalityType
<1>2. IsFiniteSet(1..c) /\ Cardinality(1..c) = c
  BY <1>1, FS_Interval
<1>3. s \in Injection(1..c, S)
  BY DEF Injection, IsInjective
<1>4. s \in Surjection(1..c, S)
  BY <1>2, <1>3, FS_Injection
<1>5. \A x \in S : \E k \in DOMAIN s : s[k] = x
  BY <1>4 DEF Surjection
<1> HIDE DEF c
<1>6. s \in [1..c -> S]
  BY DEF c
<1>7. s \in Seq(S) /\ Len(s) = c
  BY <1>1, <1>6
<1> QED
  BY <1>5, <1>7 DEF c

\* A list less one element has all the others, and nothing else.
LEMMA Removed ==
  ASSUME NEW S, NEW s \in Seq(S), NEW k \in DOMAIN s
  PROVE  LET t == SubSeq(s, 1, k - 1) \o SubSeq(s, k + 1, Len(s))
         IN  /\ t \in Seq(S)
             /\ \A j \in DOMAIN t : \E i \in DOMAIN s : i # k /\ t[j] = s[i]
             /\ \A i \in DOMAIN s : i # k => \E j \in DOMAIN t : t[j] = s[i]
<1> DEFINE n == Len(s)
           a == SubSeq(s, 1, k - 1)
           b == SubSeq(s, k + 1, n)
           t == a \o b
<1>1. n \in Nat /\ DOMAIN s = 1..n /\ k \in 1..n
  BY LenProperties
<1>2. a \in Seq(S) /\ Len(a) = k - 1 /\ \A i \in 1..(k - 1) : a[i] = s[i]
  <2>1. 1 \in 1..(n + 1) /\ k - 1 \in 0..n
    BY <1>1
  <2> QED
    BY <1>1, <2>1, SubSeqProperties
<1>3. b \in Seq(S) /\ Len(b) = n - k /\ \A i \in 1..(n - k) : b[i] = s[k + i]
  <2>1. CASE k = n
    BY <1>1, <2>1, SubSeqProperties
  <2>2. CASE k < n
    BY <1>1, <2>2, SubSeqProperties
  <2> QED
    BY <1>1, <2>1, <2>2
<1> HIDE DEF a, b, n
<1>4. /\ t \in Seq(S) /\ Len(t) = n - 1
      /\ \A i \in 1..(n - 1) : t[i] = IF i <= k - 1 THEN a[i] ELSE b[i - (k - 1)]
  <2>1. /\ t \in Seq(S) /\ Len(t) = Len(a) + Len(b)
        /\ \A i \in 1..(Len(a) + Len(b)) : t[i] = IF i <= Len(a) THEN a[i] ELSE b[i - Len(a)]
    BY <1>2, <1>3, ConcatProperties
  <2>2. Len(a) + Len(b) = n - 1 /\ Len(a) = k - 1
    BY <1>1, <1>2, <1>3
  <2> HIDE DEF t
  <2> QED
    BY <2>1, <2>2
<1>5. DOMAIN t = 1..(n - 1)
  BY <1>4, LenProperties
<1> HIDE DEF t
<1>6. \A i \in 1..(n - 1) : t[i] = IF i < k THEN s[i] ELSE s[i + 1]
  <2> SUFFICES ASSUME NEW i \in 1..(n - 1) PROVE t[i] = IF i < k THEN s[i] ELSE s[i + 1]
    OBVIOUS
  <2>1. CASE i < k
    BY <1>1, <1>2, <1>4, <2>1
  <2>2. CASE i >= k
    <3>1. i - (k - 1) \in 1..(n - k) /\ k + (i - (k - 1)) = i + 1
      BY <1>1, <2>2
    <3> QED
      BY <1>1, <1>3, <1>4, <2>2, <3>1
  <2> QED
    BY <1>1, <2>1, <2>2
<1>7. \A j \in 1..(n - 1) : \E i \in 1..n : i # k /\ t[j] = s[i]
  <2> SUFFICES ASSUME NEW j \in 1..(n - 1) PROVE \E i \in 1..n : i # k /\ t[j] = s[i]
    OBVIOUS
  <2>1. j \in 1..n /\ j + 1 \in 1..n /\ (j < k => j # k) /\ (j >= k => j + 1 # k)
    BY <1>1
  <2> QED
    BY <1>1, <1>6, <2>1
<1>8. \A i \in 1..n : i # k => \E j \in 1..(n - 1) : t[j] = s[i]
  <2> SUFFICES ASSUME NEW i \in 1..n, i # k PROVE \E j \in 1..(n - 1) : t[j] = s[i]
    OBVIOUS
  <2>1. CASE i < k
    BY <1>1, <1>6, <2>1
  <2>2. CASE i > k
    <3>1. i - 1 \in 1..(n - 1) /\ ~(i - 1 < k) /\ (i - 1) + 1 = i
      BY <1>1, <2>2
    <3> QED
      BY <1>6, <3>1
  <2> QED
    BY <1>1, <2>1, <2>2
<1> QED
  BY <1>1, <1>4, <1>5, <1>7, <1>8 DEF a, b, n, t
=============================================================================
