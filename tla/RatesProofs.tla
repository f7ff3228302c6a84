---------------------------- MODULE RatesProofs ----------------------------
(***************************************************************************)
(* CollectNet, proved for any interfaces, however their counters run and   *)
(* whichever of them come and go: its rates and totals are true, and its   *)
(* rows have one order.  The last part proves the same of CollectCPU:      *)
(* its usages are true and its frequencies in order.                       *)
(***************************************************************************)
EXTENDS NetRates, CpuUsage, ListingProofs
-----------------------------------------------------------------------------
(* Induction over the subsets of a finite set: what is proved of each of     *)
(* them is given by the set of those that have it.                           *)

\* Among some subsets of a finite set there is one with none below it ...
LEMMA SmallestSet ==
  ASSUME NEW S, IsFiniteSet(S), NEW P \in SUBSET (SUBSET S), P # {}
  PROVE  \E U \in P : \A x \in U : U \ {x} \notin P
<1> DEFINE c == Cardinality(S)
           K == {k \in 1..(c + 1) : \E U \in P : Cardinality(U) = k - 1}
<1>1. c \in Nat /\ \A U \in P : IsFiniteSet(U) /\ Cardinality(U) \in 0..c
  <2> SUFFICES ASSUME NEW U \in P
               PROVE  c \in Nat /\ IsFiniteSet(U) /\ Cardinality(U) \in 0..c
    BY FS_CardinalityType
  <2>1. U \in SUBSET S
    OBVIOUS
  <2> QED
    BY <2>1, FS_Subset, FS_CardinalityType
<1> HIDE DEF c
<1>2. K # {}
  <2>1. PICK U \in P : TRUE
    OBVIOUS
  <2>2. Cardinality(U) + 1 \in 1..(c + 1) /\ Cardinality(U) = (Cardinality(U) + 1) - 1
    BY <1>1
  <2> QED
    BY <2>2
<1>3. PICK k \in K : \A j \in K : k <= j
  <2>1. K \in SUBSET (1..(c + 1)) /\ c + 1 \in Nat
    BY <1>1
  <2> HIDE DEF K
  <2> QED
    BY <1>2, <2>1, LeastPlace
<1>4. PICK U \in P : Cardinality(U) = k - 1
  OBVIOUS
<1>5. ASSUME NEW x \in U, U \ {x} \in P PROVE FALSE
  <2>1. Cardinality(U \ {x}) = Cardinality(U) - 1
    BY <1>1, <1>5, FS_RemoveElement
  <2>2. k \in 1..(c + 1) /\ Cardinality(U \ {x}) \in 0..c
    BY <1>1, <1>5
  <2>3. k - 1 \in K
    BY <1>1, <1>4, <1>5, <2>1, <2>2
  <2> QED
    BY <1>3, <2>2, <2>3
<1> QED
  BY <1>5

\* ... so that what goes from each set to the sets with one element more holds
\* of all.
LEMMA SetInduction ==
  ASSUME NEW S, IsFiniteSet(S), NEW P,
         \A U \in SUBSET S : (\A x \in U : U \ {x} \in P) => U \in P
  PROVE  S \in P
<1> DEFINE B == {U \in SUBSET S : U \notin P}
<1>1. CASE B = {}
  BY <1>1
<1>2. CASE B # {}
  <2>1. B \in SUBSET (SUBSET S)
    OBVIOUS
  <2> HIDE DEF B
  <2>2. PICK U \in B : \A x \in U : U \ {x} \notin B
    BY <1>2, <2>1, SmallestSet
  <2> QED
    BY <2>2 DEF B
<1> QED
  BY <1>1, <1>2
-----------------------------------------------------------------------------
(* Sums over finite sets *)

Some(s) == CHOOSE x \in s : TRUE

\* The sum over each subset of S, as the recursion has it.
IsSum(f, S, g) ==
  g = [s \in SUBSET S |-> IF s = {} THEN 0 ELSE f[Some(s)] + g[s \ {Some(s)}]]

\* Such a function exists: it is built from the smaller subsets on.
LEMMA SumExists ==
  ASSUME NEW f, NEW S, IsFiniteSet(S)
  PROVE  \E g : IsSum(f, S, g)
<1> DEFINE c == Cardinality(S)
           L(m) == {s \in SUBSET S : Cardinality(s) < m}
           K == {m \in 1..(c + 1) : \E g :
                   g = [s \in L(m) |-> IF s = {} THEN 0 ELSE f[Some(s)] + g[s \ {Some(s)}]]}
<1>1. c \in Nat /\ \A s \in SUBSET S : IsFiniteSet(s) /\ Cardinality(s) \in 0..c
  <2>1. ASSUME NEW s \in SUBSET S PROVE IsFiniteSet(s) /\ Cardinality(s) \in 0..c
    BY FS_Subset, FS_CardinalityType
  <2> QED
    BY <2>1, FS_CardinalityType
<1>2. \A s \in SUBSET S : s # {} => /\ Some(s) \in s /\ s \ {Some(s)} \in SUBSET S
                                    /\ Cardinality(s \ {Some(s)}) = Cardinality(s) - 1
  <2> SUFFICES ASSUME NEW s \in SUBSET S, s # {}
               PROVE  /\ Some(s) \in s /\ s \ {Some(s)} \in SUBSET S
                      /\ Cardinality(s \ {Some(s)}) = Cardinality(s) - 1
    OBVIOUS
  <2>1. Some(s) \in s
    BY Zenon DEF Some
  <2> QED
    BY <1>1, <2>1, FS_RemoveElement
<1> HIDE DEF c
<1>3. 1 \in K
  <2> DEFINE g == [s \in L(1) |-> 0]
  <2>1. \A s \in L(1) : s = {}
    <3> SUFFICES ASSUME NEW s \in SUBSET S, Cardinality(s) < 1 PROVE s = {}
      OBVIOUS
    <3>1. IsFiniteSet(s) /\ Cardinality(s) = 0
      BY <1>1
    <3> QED
      BY <3>1, FS_EmptySet
  <2>2. g = [s \in L(1) |-> IF s = {} THEN 0 ELSE f[Some(s)] + g[s \ {Some(s)}]]
    <3> HIDE DEF L
    <3> QED
      BY <2>1, Zenon
  <2>3. 1 \in 1..(c + 1)
    BY <1>1
  <2> QED
    BY <2>2, <2>3
<1>4. PICK m \in K : \A j \in K : j <= m
  <2>1. K \in SUBSET (1..(c + 1)) /\ c + 1 \in Nat
    BY <1>1
  <2> HIDE DEF K
  <2> QED
    BY <1>3, <2>1, GreatestPlace
<1>5. PICK g : g = [s \in L(m) |-> IF s = {} THEN 0 ELSE f[Some(s)] + g[s \ {Some(s)}]]
  BY <1>4
<1>6. m \in 1..(c + 1)
  BY <1>4
<1>7. CASE m = c + 1
  <2>1. L(m) = SUBSET S
    BY <1>1, <1>7
  <2> HIDE DEF L
  <2> QED
    BY <1>5, <2>1 DEF IsSum
<1>8. CASE m # c + 1
  <2> DEFINE h == [s \in L(m + 1) |-> IF Cardinality(s) < m THEN g[s]
                                      ELSE f[Some(s)] + g[s \ {Some(s)}]]
  <2>1. ASSUME NEW s \in L(m + 1)
        PROVE  h[s] = IF s = {} THEN 0 ELSE f[Some(s)] + h[s \ {Some(s)}]
    <3>0. s \in SUBSET S /\ Cardinality(s) \in Nat /\ Cardinality(s) < m + 1
      BY <1>1
    <3>1. s # {} => s \ {Some(s)} \in L(m) /\ s \ {Some(s)} \in L(m + 1)
      BY <1>2, <1>6, <3>0
    <3>2. s # {} => h[s \ {Some(s)}] = g[s \ {Some(s)}]
      BY <3>1
    <3>3. CASE Cardinality(s) < m
      <4>1. s \in L(m) /\ h[s] = g[s]
        BY <3>0, <3>3
      <4>2. g[s] = IF s = {} THEN 0 ELSE f[Some(s)] + g[s \ {Some(s)}]
        <5> HIDE DEF L
        <5> QED
          BY <1>5, <4>1, Zenon
      <4> HIDE DEF h, L
      <4> QED
        BY <3>2, <4>1, <4>2, Zenon
    <3>4. CASE ~(Cardinality(s) < m)
      <4>1. s # {}
        <5> SUFFICES ASSUME s = {} PROVE FALSE
          OBVIOUS
        <5>1. Cardinality(s) = 0
          BY FS_EmptySet
        <5>2. 0 < m
          BY <1>6
        <5> QED
          BY <3>4, <5>1, <5>2
      <4>2. h[s] = f[Some(s)] + g[s \ {Some(s)}]
        BY <3>4
      <4> HIDE DEF h, L
      <4> QED
        BY <3>2, <4>1, <4>2, Zenon
    <3> QED
      BY <3>3, <3>4
  <2>2. h = [s \in L(m + 1) |-> IF s = {} THEN 0 ELSE f[Some(s)] + h[s \ {Some(s)}]]
    <3>1. h = [s \in L(m + 1) |-> h[s]]
      OBVIOUS
    <3> HIDE DEF h, L
    <3> QED
      BY <2>1, <3>1, Zenon
  <2>3. m + 1 \in 1..(c + 1)
    BY <1>1, <1>6, <1>8
  <2>4. m + 1 \in K
    <3> HIDE DEF h, L
    <3> QED
      BY <2>2, <2>3
  <2>5. m + 1 <= m
    <3> HIDE DEF K
    <3> QED
      BY <1>4, <2>4
  <2>6. FALSE
    BY <1>6, <2>5
  <2> QED
    BY <2>6
<1> QED
  BY <1>7, <1>8

\* It is the sum over S that the library means.
LEMMA SumIs ==
  ASSUME NEW f, NEW S, IsFiniteSet(S)
  PROVE  \E g : IsSum(f, S, g) /\ SumFunctionOnSet(f, S) = g[S]
<1> DEFINE P(g) == IsSum(f, S, g)
<1>1. SumFunctionOnSet(f, S) = (CHOOSE g : P(g))[S]
  BY Zenon DEF SumFunctionOnSet, FoldFunctionOnSet, MapThenFoldSet, IsSum, Some
<1>2. \E g : P(g)
  BY SumExists
<1>3. P(CHOOSE g : P(g))
  BY <1>2, Zenon
<1> QED
  BY <1>1, <1>3

\* The recursion has one solution, whichever set it began with.
LEMMA SumsAgree ==
  ASSUME NEW f, NEW S, NEW T, NEW g, NEW h, IsFiniteSet(T), T \subseteq S,
         IsSum(f, S, g), IsSum(f, T, h)
  PROVE  g[T] = h[T]
<1> DEFINE P == {U \in SUBSET T : g[U] = h[U]}
<1>1. ASSUME NEW U \in SUBSET T, \A x \in U : U \ {x} \in P
      PROVE  U \in P
  <2>1. /\ g[U] = IF U = {} THEN 0 ELSE f[Some(U)] + g[U \ {Some(U)}]
        /\ h[U] = IF U = {} THEN 0 ELSE f[Some(U)] + h[U \ {Some(U)}]
    BY Zenon DEF IsSum
  <2>2. U # {} => Some(U) \in U
    BY Zenon DEF Some
  <2>3. U # {} => g[U \ {Some(U)}] = h[U \ {Some(U)}]
    BY <1>1, <2>2
  <2>4. g[U] = h[U]
    BY <2>1, <2>3, Zenon
  <2> QED
    BY <2>4
<1> HIDE DEF P
<1>2. T \in P
  BY <1>1, SetInduction, Zenon
<1> QED
  BY <1>2 DEF P

\* One element more adds its term.
LEMMA SumStep ==
  ASSUME NEW f, NEW S, IsFiniteSet(S)
  PROVE  SumFunctionOnSet(f, S) =
           IF S = {} THEN 0 ELSE f[Some(S)] + SumFunctionOnSet(f, S \ {Some(S)})
<1>1. PICK g : IsSum(f, S, g) /\ SumFunctionOnSet(f, S) = g[S]
  BY SumIs
<1>2. S \in SUBSET S
  OBVIOUS
<1>3. g[S] = IF S = {} THEN 0 ELSE f[Some(S)] + g[S \ {Some(S)}]
  BY <1>1, <1>2, Zenon DEF IsSum
<1>4. PICK T : T = S \ {Some(S)}
  OBVIOUS
<1>5. IsFiniteSet(T) /\ T \subseteq S
  BY <1>4, FS_Subset
<1>6. PICK h : IsSum(f, T, h) /\ SumFunctionOnSet(f, T) = h[T]
  BY <1>5, SumIs
<1>7. g[T] = h[T]
  BY <1>1, <1>5, <1>6, SumsAgree
<1> QED
  BY <1>1, <1>3, <1>4, <1>6, <1>7, Zenon

\* A sum of natural numbers is one.
LEMMA SumIsNat ==
  ASSUME NEW f, NEW S, IsFiniteSet(S), \A x \in S : f[x] \in Nat
  PROVE  SumFunctionOnSet(f, S) \in Nat
<1> DEFINE P == {U \in SUBSET S : SumFunctionOnSet(f, U) \in Nat}
<1>1. ASSUME NEW U \in SUBSET S, \A x \in U : U \ {x} \in P
      PROVE  U \in P
  <2>1. IsFiniteSet(U)
    BY FS_Subset
  <2>2. CASE U = {}
    <3>1. SumFunctionOnSet(f, U) = 0
      BY <2>1, <2>2, SumStep
    <3> QED
      BY <3>1
  <2>3. CASE U # {}
    <3>1. Some(U) \in U
      BY <2>3, Zenon DEF Some
    <3>2. SumFunctionOnSet(f, U) = f[Some(U)] + SumFunctionOnSet(f, U \ {Some(U)})
      BY <2>1, <2>3, SumStep
    <3>3. f[Some(U)] \in Nat /\ SumFunctionOnSet(f, U \ {Some(U)}) \in Nat
      BY <1>1, <3>1
    <3> QED
      BY <3>2, <3>3
  <2> QED
    BY <2>2, <2>3
<1> HIDE DEF P
<1>2. S \in P
  BY <1>1, SetInduction, Zenon
<1> QED
  BY <1>2 DEF P

\* Any element can be taken out.
LEMMA SumSplits ==
  ASSUME NEW f, NEW S, IsFiniteSet(S), \A x \in S : f[x] \in Nat, NEW x \in S
  PROVE  SumFunctionOnSet(f, S) = f[x] + SumFunctionOnSet(f, S \ {x})
<1> DEFINE P == {U \in SUBSET S : \A y \in U :
                   SumFunctionOnSet(f, U) = f[y] + SumFunctionOnSet(f, U \ {y})}
<1>0. \A U \in SUBSET S : IsFiniteSet(U) /\ SumFunctionOnSet(f, U) \in Nat
  <2> SUFFICES ASSUME NEW U \in SUBSET S
               PROVE  IsFiniteSet(U) /\ SumFunctionOnSet(f, U) \in Nat
    OBVIOUS
  <2>1. IsFiniteSet(U) /\ \A y \in U : f[y] \in Nat
    BY FS_Subset
  <2> QED
    BY <2>1, SumIsNat
<1>1. ASSUME NEW U \in SUBSET S, \A y \in U : U \ {y} \in P
      PROVE  U \in P
  <2> SUFFICES ASSUME NEW y \in U
               PROVE  SumFunctionOnSet(f, U) = f[y] + SumFunctionOnSet(f, U \ {y})
    OBVIOUS
  <2>1. PICK z \in U : SumFunctionOnSet(f, U) = f[z] + SumFunctionOnSet(f, U \ {z})
    <3>1. Some(U) \in U
      BY Zenon DEF Some
    <3> QED
      BY <1>0, <3>1, SumStep
  <2>2. CASE y = z
    BY <2>1, <2>2
  <2>3. CASE y # z
    <3>1. /\ y \in U \ {z} /\ U \ {z} \in P
          /\ z \in U \ {y} /\ U \ {y} \in P
      BY <1>1, <2>3
    <3>2. PICK V \in SUBSET S : V = (U \ {z}) \ {y} /\ V = (U \ {y}) \ {z}
      BY <3>1
    <3>3. /\ SumFunctionOnSet(f, U \ {z}) = f[y] + SumFunctionOnSet(f, V)
          /\ SumFunctionOnSet(f, U \ {y}) = f[z] + SumFunctionOnSet(f, V)
      BY <3>1, <3>2, Zenon
    <3>4. f[y] \in Nat /\ f[z] \in Nat /\ SumFunctionOnSet(f, V) \in Nat
      BY <1>0
    <3> QED
      BY <2>1, <3>3, <3>4
  <2> QED
    BY <2>2, <2>3
<1> HIDE DEF P
<1>2. S \in P
  BY <1>1, SetInduction, Zenon
<1> QED
  BY <1>2 DEF P

\* A sum of more and greater numbers is greater.
LEMMA SumAtMost ==
  ASSUME NEW f, NEW g, NEW T, NEW S, IsFiniteSet(S), T \subseteq S, NEW k \in Nat,
         \A x \in T : f[x] \in Nat /\ f[x] * k <= g[x], \A x \in S : g[x] \in Nat
  PROVE  SumFunctionOnSet(f, T) * k <= SumFunctionOnSet(g, S)
<1> DEFINE P == {U \in SUBSET S : SumFunctionOnSet(f, U \cap T) * k <= SumFunctionOnSet(g, U)}
<1>0. \A U \in SUBSET S : /\ IsFiniteSet(U) /\ SumFunctionOnSet(g, U) \in Nat
                          /\ IsFiniteSet(U \cap T) /\ SumFunctionOnSet(f, U \cap T) \in Nat
  <2> SUFFICES ASSUME NEW U \in SUBSET S
               PROVE  /\ IsFiniteSet(U) /\ SumFunctionOnSet(g, U) \in Nat
                      /\ IsFiniteSet(U \cap T) /\ SumFunctionOnSet(f, U \cap T) \in Nat
    OBVIOUS
  <2>1. /\ IsFiniteSet(U) /\ \A x \in U : g[x] \in Nat
        /\ IsFiniteSet(U \cap T) /\ \A x \in U \cap T : f[x] \in Nat
    BY FS_Subset
  <2> QED
    BY <2>1, SumIsNat
<1>1. ASSUME NEW U \in SUBSET S, \A x \in U : U \ {x} \in P
      PROVE  U \in P
  <2>1. CASE U = {}
    <3>1. U \cap T = {}
      BY <2>1
    <3>2. SumFunctionOnSet(f, U \cap T) = 0 /\ SumFunctionOnSet(g, U) \in Nat
      BY <1>0, <3>1, SumStep
    <3> QED
      BY <3>2
  <2>2. ASSUME NEW x \in U PROVE U \in P
    <3>1. U \ {x} \in P /\ U \ {x} \in SUBSET S
      BY <1>1
    <3> DEFINE G == SumFunctionOnSet(g, U \ {x})
               F == SumFunctionOnSet(f, (U \ {x}) \cap T)
    <3>2. G \in Nat /\ F \in Nat /\ F * k <= G
      BY <1>0, <3>1
    <3>3. SumFunctionOnSet(g, U) = g[x] + G /\ g[x] \in Nat
      <4>1. IsFiniteSet(U) /\ \A y \in U : g[y] \in Nat
        BY <1>0
      <4> QED
        BY <4>1, SumSplits
    <3>4. CASE x \in T
      <4>1. x \in U \cap T /\ (U \cap T) \ {x} = (U \ {x}) \cap T
        BY <3>4
      <4>2. IsFiniteSet(U \cap T) /\ \A y \in U \cap T : f[y] \in Nat
        BY <1>0
      <4>3. SumFunctionOnSet(f, U \cap T) = f[x] + F
        BY <4>1, <4>2, SumSplits
      <4>4. f[x] \in Nat /\ f[x] * k <= g[x]
        BY <3>4
      <4> HIDE DEF F, G
      <4>5. \A a, b \in Nat : (a + b) * k = a * k + b * k
        OBVIOUS
      <4>6. (f[x] + F) * k = f[x] * k + F * k /\ f[x] * k \in Nat /\ F * k \in Nat
        BY <3>2, <4>4, <4>5
      <4>7. SumFunctionOnSet(f, U \cap T) * k <= SumFunctionOnSet(g, U)
        BY <3>2, <3>3, <4>3, <4>4, <4>6
      <4> QED
        BY <4>7
    <3>5. CASE x \notin T
      <4>1. U \cap T = (U \ {x}) \cap T
        BY <3>5
      <4>2. SumFunctionOnSet(f, U \cap T) = F
        BY <4>1
      <4> HIDE DEF F, G
      <4>3. F * k \in Nat
        BY <3>2
      <4>4. SumFunctionOnSet(f, U \cap T) * k <= SumFunctionOnSet(g, U)
        BY <3>2, <3>3, <4>2, <4>3
      <4> QED
        BY <4>4
    <3> QED
      BY <3>4, <3>5
  <2> QED
    BY <2>1, <2>2
<1>2. S \in P
  <2> HIDE DEF P
  <2> QED
    BY <1>1, SetInduction, Zenon
<1>3. S \cap T = T
  OBVIOUS
<1> QED
  BY <1>2, <1>3
-----------------------------------------------------------------------------
(* The order of the interfaces *)

\* Kind, state and name tell any two interfaces apart.
LEMMA BeforeIsOrder ==
  ASSUME NEW P \in SUBSET Names, NEW status \in [P -> Statuses]
  PROVE  /\ \A a, b \in P : a # b => Before(status, a, b) \/ Before(status, b, a)
         /\ \A a, b \in P : ~(Before(status, a, b) /\ Before(status, b, a))
<1> SUFFICES ASSUME NEW a \in P, NEW b \in P
             PROVE  /\ a # b => Before(status, a, b) \/ Before(status, b, a)
                    /\ ~(Before(status, a, b) /\ Before(status, b, a))
  OBVIOUS
<1>1. Kind[a] \in Int /\ Kind[b] \in Int
  BY NetAssumption
<1>2. NameOrder[a] \in Int /\ NameOrder[b] \in Int /\ (a # b => NameOrder[a] # NameOrder[b])
  BY NetAssumption
<1>3. stateRank(status[a]) \in Int /\ stateRank(status[b]) \in Int
  BY DEF stateRank
<1> QED
  BY <1>1, <1>2, <1>3 DEF Before

\* So there is one sorted order of each set.
LEMMA SortedOnce ==
  ASSUME NEW P \in SUBSET Names, NEW status \in [P -> Statuses],
         NEW s \in Sorted(Orders(P), status), NEW t \in Sorted(Orders(P), status)
  PROVE  s = t
<1> DEFINE n == Cardinality(P)
           K == {k \in 1..n : s[k] # t[k]}
<1>0. IsFiniteSet(P) /\ n \in Nat
  BY NetAssumption, FS_Subset, FS_CardinalityType
<1>1. /\ s \in [1..n -> P] /\ \A i, j \in 1..n : s[i] = s[j] => i = j
      /\ t \in [1..n -> P] /\ \A i, j \in 1..n : t[i] = t[j] => i = j
      /\ \A i, j \in 1..n : i < j => ~Before(status, s[j], s[i])
      /\ \A i, j \in 1..n : i < j => ~Before(status, t[j], t[i])
  BY DEF Sorted, Orders, IsInjective
<1>2. /\ \A x \in P : \E k \in 1..n : s[k] = x
      /\ \A x \in P : \E k \in 1..n : t[k] = x
  <2>1. \A j, k \in DOMAIN s : s[j] = s[k] => j = k
    BY <1>1
  <2>2. \A j, k \in DOMAIN t : t[j] = t[k] => j = k
    BY <1>1
  <2>3. \A x \in P : \E k \in DOMAIN s : s[k] = x
    BY <1>0, <1>1, <2>1, Enumerates
  <2>4. \A x \in P : \E k \in DOMAIN t : t[k] = x
    BY <1>0, <1>1, <2>2, Enumerates
  <2> QED
    BY <1>1, <2>3, <2>4
<1>3. CASE K = {}
  <2>1. \A k \in 1..n : s[k] = t[k]
    BY <1>3
  <2>2. s = [k \in 1..n |-> s[k]] /\ t = [k \in 1..n |-> t[k]]
    BY <1>1
  <2> HIDE DEF n
  <2> QED
    BY <2>1, <2>2, Zenon
<1>4. CASE K # {}
  <2>1. PICK k \in K : \A j \in K : k <= j
    <3>1. K \in SUBSET (1..n)
      OBVIOUS
    <3> HIDE DEF K
    <3> QED
      BY <1>0, <1>4, <3>1, LeastPlace
  <2>2. /\ k \in 1..n /\ s[k] \in P /\ t[k] \in P /\ s[k] # t[k]
        /\ \A j \in 1..n : j < k => s[j] = t[j]
    <3>1. k \in 1..n /\ s[k] \in P /\ t[k] \in P /\ s[k] # t[k]
      BY <1>1
    <3>2. ASSUME NEW j \in 1..n, j < k, s[j] # t[j] PROVE FALSE
      <4>1. j \in K
        BY <3>2
      <4>2. k <= j
        BY <2>1, <4>1
      <4> QED
        BY <1>0, <3>1, <3>2, <4>2
    <3> QED
      BY <3>1, <3>2
  <2> HIDE DEF n, K
  <2>3. PICK j \in 1..n : t[j] = s[k]
    BY <1>2, <2>2
  <2>4. PICK i \in 1..n : s[i] = t[k]
    BY <1>2, <2>2
  <2>5. k < j
    <3>1. j # k
      BY <2>2, <2>3
    <3>2. ~(j < k)
      <4> SUFFICES ASSUME j < k PROVE FALSE
        OBVIOUS
      <4>1. s[j] = s[k]
        BY <2>2, <2>3
      <4>2. j = k
        BY <1>1, <2>2, <4>1
      <4> QED
        BY <3>1, <4>2
    <3> QED
      BY <1>0, <2>2, <3>1, <3>2
  <2>6. k < i
    <3>1. i # k
      BY <2>2, <2>4
    <3>2. ~(i < k)
      <4> SUFFICES ASSUME i < k PROVE FALSE
        OBVIOUS
      <4>1. t[i] = t[k]
        BY <2>2, <2>4
      <4>2. i = k
        BY <1>1, <2>2, <4>1
      <4> QED
        BY <3>1, <4>2
    <3> QED
      BY <1>0, <2>2, <3>1, <3>2
  <2>7. ~Before(status, s[k], t[k]) /\ ~Before(status, t[k], s[k])
    BY <1>1, <2>2, <2>3, <2>4, <2>5, <2>6
  <2> QED
    BY <2>2, <2>7, BeforeIsOrder
<1> QED
  BY <1>3, <1>4
-----------------------------------------------------------------------------
(* The inductive invariant of CollectNet *)

DevType ==
  /\ DOMAIN dev \subseteq Names /\ dev \in [DOMAIN dev -> Counters]
  /\ DOMAIN prevNetSamples \subseteq Names
  /\ prevNetSamples \in [DOMAIN prevNetSamples -> Counters]
  /\ secs \in Nat /\ moved \in [Names -> Counters] /\ steady \subseteq Names

\* The counter of an interface that stayed is ahead by what it moved; one that
\* came back counts nothing older than the sample.
CountersInv ==
  /\ steady \subseteq DOMAIN dev \cap DOMAIN prevNetSamples
  /\ \A n \in steady, d \in Dirs : dev[n][d] = prevNetSamples[n][d] + moved[n][d]
  /\ \A n \in (DOMAIN dev \cap DOMAIN prevNetSamples) \ steady, d \in Dirs :
       dev[n][d] <= moved[n][d]

\* What was returned lists what there is, in an order of the sort's.
ListInv ==
  metrics # Nothing =>
    /\ metrics.interfaces \in Seq(Names) /\ metrics.total \in Counters
    /\ metrics.bps \in [DOMAIN dev -> Counters]
    /\ metrics.status \in [Present -> Statuses]
    /\ metrics.interfaces \in Sorted(Orders(Present), metrics.status)

NetInv == DevType /\ CountersInv /\ ListInv

\* The initial state satisfies the invariant.
LEMMA NetInit == Init => NetInv
<1> SUFFICES ASSUME Init PROVE NetInv
  OBVIOUS
<1>1. PICK P \in SUBSET Names : dev \in [P -> [Dirs -> {0, 1}]]
  BY DEF Init
<1>2. /\ secs = 0 /\ prevNetSamples = <<>> /\ metrics = Nothing
      /\ moved = [n \in Names |-> Zero] /\ steady = {}
  BY DEF Init
<1>3. DOMAIN dev = P /\ dev \in [P -> Counters]
  BY <1>1 DEF Counters
<1>4. DOMAIN prevNetSamples = {} /\ prevNetSamples \in [DOMAIN prevNetSamples -> Counters]
  BY <1>2
<1>5. Zero \in Counters
  BY DEF Zero, Counters
<1> QED
  BY <1>2, <1>3, <1>4, <1>5 DEF NetInv, DevType, CountersInv, ListInv

\* What a rate is: no more than was moved, and exactly that if it stayed.
LEMMA RateIs ==
  ASSUME NetInv, NEW n \in Present, NEW d \in Dirs
  PROVE  /\ Bps(n, d) \in Nat /\ moved[n][d] \in Nat
         /\ Bps(n, d) * secs <= moved[n][d]
         /\ n \in steady /\ secs > 0 => Bps(n, d) = moved[n][d] \div secs
<1>1. n \in Names /\ dev[n][d] \in Nat /\ moved[n][d] \in Nat /\ secs \in Nat
  BY DEF NetInv, DevType, Present, Counters
<1>2. n \in DOMAIN prevNetSamples => prevNetSamples[n][d] \in Nat
  BY DEF NetInv, DevType, Counters
<1>3. n \in steady => /\ n \in DOMAIN prevNetSamples
                      /\ dev[n][d] = prevNetSamples[n][d] + moved[n][d]
  BY DEF NetInv, CountersInv
<1>4. n \in DOMAIN prevNetSamples /\ n \notin steady => dev[n][d] <= moved[n][d]
  BY DEF NetInv, CountersInv, Present
<1>5. CASE n \in DOMAIN prevNetSamples /\ secs > 0 /\ dev[n][d] >= prevNetSamples[n][d]
  <2>1. PICK a \in Nat : a = dev[n][d] - prevNetSamples[n][d]
    BY <1>1, <1>2, <1>5
  <2>2. Bps(n, d) = a \div secs /\ secs \in Nat \ {0}
    BY <1>1, <1>5, <2>1 DEF Bps
  <2>3. (a \div secs) * secs <= a /\ a \div secs \in Nat
    BY <2>2
  <2>4. a <= moved[n][d] /\ (n \in steady => a = moved[n][d])
    BY <1>1, <1>2, <1>3, <1>4, <1>5, <2>1
  <2>5. PICK b \in Nat : b = (a \div secs) * secs
    BY <2>2, <2>3
  <2>6. b <= moved[n][d]
    BY <1>1, <2>1, <2>3, <2>4, <2>5
  <2> QED
    BY <1>1, <2>2, <2>3, <2>4, <2>5, <2>6, Zenon
<1>6. CASE ~(n \in DOMAIN prevNetSamples /\ secs > 0 /\ dev[n][d] >= prevNetSamples[n][d])
  <2>1. Bps(n, d) = 0
    BY <1>6, Zenon DEF Bps
  <2>2. ~(n \in steady /\ secs > 0)
    BY <1>1, <1>2, <1>3, <1>6
  <2> QED
    BY <1>1, <2>1, <2>2
<1> QED
  BY <1>5, <1>6

\* What the total is.
LEMMA TotalIs ==
  ASSUME NetInv, NEW d \in Dirs
  PROVE  LET others == {n \in Names : Kind[n] # 3}
         IN  /\ TotalBps(d) \in Nat
             /\ TotalBps(d) * secs <= Real(others, d)
             /\ secs = 1 => TotalBps(d) >= Real(others \cap steady, d)
<1> DEFINE others == {n \in Names : Kind[n] # 3}
           T == {m \in Present : InTotal(m)}
           f == [n \in T |-> Bps(n, d)]
           g == [n \in others |-> moved[n][d]]
           h == [n \in others \cap steady |-> moved[n][d]]
<1>1. /\ IsFiniteSet(others) /\ IsFiniteSet(T) /\ T \subseteq others
      /\ others \cap steady \subseteq T /\ secs \in Nat
  <2>1. Present \subseteq Names /\ steady \subseteq Present /\ secs \in Nat
    BY DEF NetInv, DevType, CountersInv, Present
  <2>2. others \in SUBSET Names /\ T \in SUBSET Names
    BY <2>1
  <2>3. IsFiniteSet(others) /\ IsFiniteSet(T)
    BY <2>2, NetAssumption, FS_Subset
  <2> QED
    BY <2>1, <2>3 DEF InTotal
<1>2. \A n \in T : f[n] \in Nat /\ f[n] = Bps(n, d) /\ f[n] * secs <= moved[n][d]
  BY RateIs
<1>3. \A n \in Names : moved[n][d] \in Nat
  BY DEF NetInv, DevType, Counters
<1>4. (\A n \in others : g[n] \in Nat) /\ (\A n \in T : g[n] = moved[n][d])
  BY <1>1, <1>3
<1>5. \A n \in others \cap steady : h[n] \in Nat /\ h[n] = moved[n][d]
  BY <1>3
<1>6. /\ TotalBps(d) = SumFunctionOnSet(f, T) /\ Real(others, d) = SumFunctionOnSet(g, others)
      /\ Real(others \cap steady, d) = SumFunctionOnSet(h, others \cap steady)
  <2>1. DOMAIN f = T /\ DOMAIN g = others /\ DOMAIN h = others \cap steady
    OBVIOUS
  <2>2. TotalBps(d) = SumFunction(f)
    BY Zenon DEF TotalBps
  <2>3. Real(others, d) = SumFunction(g) /\ Real(others \cap steady, d) = SumFunction(h)
    BY Zenon DEF Real
  <2> HIDE DEF f, g, h, T, others
  <2> QED
    BY <2>1, <2>2, <2>3, Zenon DEF SumFunction
<1>7. \A n \in others \cap steady : secs = 1 => h[n] * 1 <= f[n]
  <2> SUFFICES ASSUME NEW n \in others \cap steady, secs = 1 PROVE h[n] * 1 <= f[n]
    OBVIOUS
  <2>1. n \in Present /\ n \in steady /\ n \in T
    BY <1>1
  <2>2. f[n] = moved[n][d] \div 1 /\ h[n] = moved[n][d] /\ h[n] \in Nat
    BY <1>2, <1>5, <2>1, RateIs
  <2> QED
    BY <2>2
<1> HIDE DEF others, f, g, h, T
<1>8. SumFunctionOnSet(f, T) \in Nat
  BY <1>1, <1>2, SumIsNat
<1>9. SumFunctionOnSet(f, T) * secs <= SumFunctionOnSet(g, others)
  <2>1. \A n \in T : f[n] \in Nat /\ f[n] * secs <= g[n]
    BY <1>2, <1>4
  <2>2. PICK k \in Nat : k = secs
    BY <1>1
  <2> QED
    BY <1>1, <1>4, <2>1, <2>2, SumAtMost
<1>10. ASSUME secs = 1
       PROVE  SumFunctionOnSet(h, others \cap steady) <= SumFunctionOnSet(f, T)
  <2>1. PICK U : U = others \cap steady
    OBVIOUS
  <2>2. /\ IsFiniteSet(T) /\ U \subseteq T
        /\ \A n \in U : h[n] \in Nat /\ h[n] * 1 <= f[n]
        /\ \A n \in T : f[n] \in Nat
    BY <1>1, <1>2, <1>5, <1>7, <1>10, <2>1
  <2>3. SumFunctionOnSet(h, U) * 1 <= SumFunctionOnSet(f, T)
    BY <2>2, SumAtMost
  <2>4. SumFunctionOnSet(h, U) \in Nat
    <3>1. IsFiniteSet(U)
      BY <2>2, FS_Subset
    <3> QED
      BY <2>2, <3>1, SumIsNat
  <2> QED
    BY <2>1, <2>3, <2>4
<1>11. secs = 1 => TotalBps(d) >= Real(others \cap steady, d)
  <2> SUFFICES ASSUME secs = 1 PROVE TotalBps(d) >= Real(others \cap steady, d)
    OBVIOUS
  <2>1. Real(others \cap steady, d) <= TotalBps(d)
    BY <1>6, <1>10, Zenon
  <2> QED
    BY <2>1
<1>12. TotalBps(d) \in Nat /\ TotalBps(d) * secs <= Real(others, d)
  BY <1>6, <1>8, <1>9, Zenon
<1> QED
  BY <1>11, <1>12, Zenon DEF others

\* A byte through an interface counts for the kernel and for the truth.
LEMMA TrafficStep ==
  ASSUME NetInv, NEW n \in Names, Traffic(n)
  PROVE  NetInv'
<1>1. PICK d \in Dirs : /\ dev' = [dev EXCEPT ![n][d] = @ + 1]
                        /\ moved' = [moved EXCEPT ![n][d] = @ + 1]
  BY DEF Traffic
<1>2. /\ n \in Present /\ metrics' = Nothing
      /\ secs' = secs /\ prevNetSamples' = prevNetSamples /\ steady' = steady
  BY DEF Traffic
<1>3. /\ dev \in [Present -> [Dirs -> Nat]] /\ moved \in [Names -> [Dirs -> Nat]]
      /\ Present \subseteq Names /\ secs \in Nat /\ steady \subseteq Names
      /\ DOMAIN prevNetSamples \subseteq Names
      /\ prevNetSamples \in [DOMAIN prevNetSamples -> [Dirs -> Nat]]
  BY DEF NetInv, DevType, Present, Counters
<1>4. /\ dev' \in [Present -> [Dirs -> Nat]] /\ moved' \in [Names -> [Dirs -> Nat]]
      /\ DOMAIN dev' = Present
  BY <1>1, <1>2, <1>3
<1>5. /\ \A m \in Present, e \in Dirs :
           dev'[m][e] = IF m = n /\ e = d THEN dev[m][e] + 1 ELSE dev[m][e]
      /\ \A m \in Names, e \in Dirs :
           moved'[m][e] = IF m = n /\ e = d THEN moved[m][e] + 1 ELSE moved[m][e]
  BY <1>1, <1>2, <1>3
<1>6. DevType'
  BY <1>2, <1>3, <1>4 DEF DevType, Counters
<1>7. CountersInv'
  <2>1. steady \subseteq Present /\ DOMAIN dev = Present
    BY DEF NetInv, CountersInv, Present
  <2>2. ASSUME NEW m \in steady, NEW e \in Dirs
        PROVE  dev'[m][e] = prevNetSamples[m][e] + moved'[m][e]
    <3>1. dev[m][e] = prevNetSamples[m][e] + moved[m][e] /\ m \in DOMAIN prevNetSamples
      BY DEF NetInv, CountersInv
    <3>2. prevNetSamples[m][e] \in Nat /\ moved[m][e] \in Nat /\ m \in Present /\ m \in Names
      BY <1>3, <2>1, <3>1
    <3> QED
      BY <1>5, <3>1, <3>2
  <2>3. ASSUME NEW m \in Present, m \in DOMAIN prevNetSamples, m \notin steady, NEW e \in Dirs
        PROVE  dev'[m][e] <= moved'[m][e]
    <3>1. dev[m][e] <= moved[m][e]
      BY <2>3 DEF NetInv, CountersInv, Present
    <3>2. dev[m][e] \in Nat /\ moved[m][e] \in Nat /\ m \in Names
      BY <1>3
    <3> QED
      BY <1>5, <3>1, <3>2
  <2>4. steady \subseteq Present \cap DOMAIN prevNetSamples
    BY <2>1 DEF NetInv, CountersInv
  <2> QED
    BY <1>2, <1>4, <2>2, <2>3, <2>4 DEF CountersInv
<1>8. ListInv'
  BY <1>2 DEF ListInv
<1> QED
  BY <1>6, <1>7, <1>8 DEF NetInv

\* An interface that appears counts from zero ...
LEMMA AppearsStep ==
  ASSUME NetInv, NEW n \in Names, Appears(n)
  PROVE  NetInv'
<1>1. /\ n \notin Present /\ dev' = [m \in Present \cup {n} |-> IF m = n THEN Zero ELSE dev[m]]
      /\ metrics' = Nothing /\ secs' = secs /\ prevNetSamples' = prevNetSamples
      /\ moved' = moved /\ steady' = steady
  BY DEF Appears, truthVars
<1>2. /\ DOMAIN dev = Present /\ dev \in [Present -> Counters] /\ Zero \in Counters
      /\ moved \in [Names -> Counters] /\ Present \subseteq Names
  BY DEF NetInv, DevType, Present, Zero, Counters
<1>3. DOMAIN dev' = Present \cup {n} /\ dev' \in [DOMAIN dev' -> Counters]
  BY <1>1, <1>2
<1>4. dev'[n] = Zero /\ \A m \in Present : dev'[m] = dev[m]
  BY <1>1
<1>5. DevType'
  BY <1>1, <1>2, <1>3 DEF NetInv, DevType
<1>6. CountersInv'
  <2>1. steady \subseteq Present \cap DOMAIN prevNetSamples
    BY <1>2 DEF NetInv, CountersInv
  <2>2. \A m \in steady, e \in Dirs : dev'[m][e] = prevNetSamples[m][e] + moved[m][e]
    BY <1>4, <2>1 DEF NetInv, CountersInv
  <2>3. ASSUME NEW m \in DOMAIN dev' \cap DOMAIN prevNetSamples, m \notin steady, NEW e \in Dirs
        PROVE  dev'[m][e] <= moved[m][e]
    <3>1. CASE m = n
      <4>1. dev'[m][e] = 0 /\ moved[m][e] \in Nat
        BY <1>2, <1>4, <3>1 DEF Zero, Counters
      <4> QED
        BY <4>1
    <3>2. CASE m # n
      BY <1>2, <1>3, <1>4, <2>3, <3>2 DEF NetInv, CountersInv
    <3> QED
      BY <3>1, <3>2
  <2> QED
    BY <1>1, <1>3, <2>1, <2>2, <2>3 DEF CountersInv
<1>7. ListInv'
  BY <1>1 DEF ListInv
<1> QED
  BY <1>5, <1>6, <1>7 DEF NetInv

\* ... and one that disappears has not stayed.
LEMMA DisappearsStep ==
  ASSUME NetInv, NEW n \in Names, Disappears(n)
  PROVE  NetInv'
<1>1. /\ dev' = [m \in Present \ {n} |-> dev[m]] /\ steady' = steady \ {n}
      /\ metrics' = Nothing /\ secs' = secs /\ prevNetSamples' = prevNetSamples /\ moved' = moved
  BY DEF Disappears
<1>2. DOMAIN dev = Present /\ dev \in [Present -> Counters] /\ Present \subseteq Names
  BY DEF NetInv, DevType, Present
<1>3. DOMAIN dev' = Present \ {n} /\ \A m \in Present \ {n} : dev'[m] = dev[m]
  BY <1>1
<1>4. DevType'
  <2>1. dev' \in [DOMAIN dev' -> Counters]
    BY <1>1, <1>2
  <2> QED
    BY <1>1, <1>2, <1>3, <2>1 DEF NetInv, DevType
<1>5. CountersInv'
  BY <1>1, <1>2, <1>3 DEF NetInv, CountersInv
<1>6. ListInv'
  BY <1>1 DEF ListInv
<1> QED
  BY <1>4, <1>5, <1>6 DEF NetInv

\* A call returns what it says and takes a sample.
LEMMA CollectStep == NetInv /\ CollectNet => NetInv'
<1> SUFFICES ASSUME NetInv, CollectNet PROVE NetInv'
  OBVIOUS
<1>1. PICK status \in [Present -> Statuses] : \E order \in Sorted(Orders(Present), status) :
        metrics' = [interfaces |-> order, status |-> status,
                    bps |-> [n \in Present |-> [d \in Dirs |-> Bps(n, d)]],
                    total |-> [d \in Dirs |-> TotalBps(d)]]
  BY Zenon DEF CollectNet
<1>2. PICK order \in Sorted(Orders(Present), status) :
        metrics' = [interfaces |-> order, status |-> status,
                    bps |-> [n \in Present |-> [d \in Dirs |-> Bps(n, d)]],
                    total |-> [d \in Dirs |-> TotalBps(d)]]
  BY <1>1
<1>3. /\ prevNetSamples' = dev /\ secs' = 0 /\ moved' = [n \in Names |-> Zero]
      /\ steady' = Present /\ dev' = dev
  BY DEF CollectNet
<1>4. /\ DOMAIN dev = Present /\ dev \in [Present -> Counters] /\ Present \subseteq Names
      /\ Zero \in Counters
  BY DEF NetInv, DevType, Present, Zero, Counters
<1>5. DevType'
  BY <1>3, <1>4 DEF DevType
<1>6. CountersInv'
  <2>1. ASSUME NEW n \in Present, NEW d \in Dirs PROVE dev[n][d] = dev[n][d] + moved'[n][d]
    <3>1. moved'[n][d] = 0 /\ dev[n][d] \in Nat
      BY <1>3, <1>4 DEF Zero, Counters
    <3> QED
      BY <3>1
  <2> QED
    BY <1>3, <1>4, <2>1 DEF CountersInv
<1>7. ListInv'
  <2>1. order \in Seq(Names)
    <3>1. Cardinality(Present) \in Nat
      BY <1>4, NetAssumption, FS_Subset, FS_CardinalityType
    <3>2. order \in [1..Cardinality(Present) -> Present]
      BY DEF Sorted, Orders
    <3>3. order \in [1..Cardinality(Present) -> Names]
      BY <1>4, <3>2
    <3> QED
      BY <3>1, <3>3
  <2>2. [d \in Dirs |-> TotalBps(d)] \in Counters
    BY TotalIs DEF Counters
  <2>3. [n \in Present |-> [d \in Dirs |-> Bps(n, d)]] \in [Present -> Counters]
    BY RateIs DEF Counters
  <2>4. /\ metrics'.interfaces = order /\ metrics'.status = status
        /\ metrics'.bps = [n \in Present |-> [d \in Dirs |-> Bps(n, d)]]
        /\ metrics'.total = [d \in Dirs |-> TotalBps(d)]
    BY <1>2, Zenon
  <2>5. Present' = Present
    BY <1>3 DEF Present
  <2>6. metrics'.interfaces \in Sorted(Orders(Present'), metrics'.status)
    BY <2>4, <2>5, Zenon
  <2> QED
    BY <1>3, <1>4, <2>1, <2>2, <2>3, <2>4, <2>5, <2>6, Zenon DEF ListInv
<1> QED
  BY <1>5, <1>6, <1>7 DEF NetInv

\* Every step keeps the invariant.
LEMMA NetStep == NetInv /\ [Next]_vars => NetInv'
<1> SUFFICES ASSUME NetInv, [Next]_vars PROVE NetInv'
  OBVIOUS
<1>1. ASSUME NEW n \in Names, Traffic(n) \/ Appears(n) \/ Disappears(n) PROVE NetInv'
  BY <1>1, TrafficStep, AppearsStep, DisappearsStep
<1>2. CASE Second \/ CollectNetFails
  <2>1. /\ metrics' = Nothing /\ dev' = dev /\ prevNetSamples' = prevNetSamples
        /\ moved' = moved /\ steady' = steady /\ secs' \in Nat
    BY <1>2 DEF Second, CollectNetFails, kernelVars, truthVars, NetInv, DevType
  <2> QED
    BY <2>1 DEF NetInv, DevType, CountersInv, ListInv
<1>3. CASE CollectNet
  BY <1>3, CollectStep
<1>4. CASE UNCHANGED vars
  <2>1. /\ metrics' = metrics /\ dev' = dev /\ prevNetSamples' = prevNetSamples
        /\ moved' = moved /\ steady' = steady /\ secs' = secs /\ Present' = Present
    BY <1>4 DEF vars, kernelVars, truthVars, Present
  <2> QED
    BY <2>1 DEF NetInv, DevType, CountersInv, ListInv
<1> QED
  BY <1>1, <1>2, <1>3, <1>4 DEF Next

\* The inductive invariant holds.
LEMMA NetInvariance == Spec => []NetInv
BY NetInit, NetStep, PTL DEF Spec

\* The samples and what CollectNet returns keep their types, whatever
\* interfaces there are and come and go.
THEOREM TypeCorrect == Spec => []TypeOK
<1>1. NetInv => TypeOK
  BY DEF NetInv, DevType, ListInv, TypeOK
<1> QED
  BY <1>1, NetInvariance, PTL

\* No rate is more than what really went through the interface, and the total
\* is the sum of what is true (net.go:150-171): for any number of interfaces,
\* also when they come back and count from zero.
THEOREM RatesTrue == Spec => RatesAreTrue
<1>1. ASSUME NetInv, [Next]_vars
      PROVE  [metrics' # Nothing => \A d \in Dirs :
                LET others == {n \in Names : Kind[n] # 3}
                IN  /\ \A n \in Present :
                         /\ metrics'.bps[n][d] * secs <= moved[n][d]
                         /\ n \in steady /\ secs > 0 => metrics'.bps[n][d] = moved[n][d] \div secs
                    /\ metrics'.total[d] * secs <= Real(others, d)
                    /\ secs = 1 => metrics'.total[d] >= Real(others \cap steady, d)]_vars
  <2>1. CASE UNCHANGED vars
    BY <2>1
  <2>2. CASE metrics' = Nothing
    BY <2>2
  <2>3. CASE CollectNet
    <3> SUFFICES ASSUME NEW d \in Dirs
                 PROVE  LET others == {n \in Names : Kind[n] # 3}
                        IN  /\ \A n \in Present :
                                 /\ metrics'.bps[n][d] * secs <= moved[n][d]
                                 /\ n \in steady /\ secs > 0 => metrics'.bps[n][d] = moved[n][d] \div secs
                            /\ metrics'.total[d] * secs <= Real(others, d)
                            /\ secs = 1 => metrics'.total[d] >= Real(others \cap steady, d)
      BY Zenon
    <3>1. PICK status, order :
            metrics' = [interfaces |-> order, status |-> status,
                        bps |-> [n \in Present |-> [e \in Dirs |-> Bps(n, e)]],
                        total |-> [e \in Dirs |-> TotalBps(e)]]
      BY <2>3, Zenon DEF CollectNet
    <3>2. /\ metrics'.total[d] = TotalBps(d)
          /\ \A n \in Present : metrics'.bps[n][d] = Bps(n, d)
      BY <3>1
    <3>3. \A n \in Present : /\ Bps(n, d) * secs <= moved[n][d]
                             /\ n \in steady /\ secs > 0 => Bps(n, d) = moved[n][d] \div secs
      BY <1>1, RateIs
    <3>4. LET others == {n \in Names : Kind[n] # 3}
          IN  /\ TotalBps(d) * secs <= Real(others, d)
              /\ secs = 1 => TotalBps(d) >= Real(others \cap steady, d)
      BY <1>1, TotalIs
    <3> QED
      BY <3>2, <3>3, <3>4, Zenon
  <2>4. Next => CollectNet \/ metrics' = Nothing
    BY DEF Next, Traffic, Appears, Disappears, Second, CollectNetFails
  <2> QED
    BY <1>1, <2>1, <2>2, <2>3, <2>4
<1> QED
  BY <1>1, NetInvariance, PTL DEF Spec, RatesAreTrue

\* The rows have one order, whatever order the map of interfaces was walked
\* in (net.go:173-191).
THEOREM RowsStay == Spec => []OneOrder
<1>1. NetInv => OneOrder
  <2> SUFFICES ASSUME NetInv, metrics # Nothing
               PROVE  Sorted(Orders(Present), metrics.status) = {metrics.interfaces}
    BY DEF OneOrder
  <2>1. /\ Present \in SUBSET Names /\ metrics.status \in [Present -> Statuses]
        /\ metrics.interfaces \in Sorted(Orders(Present), metrics.status)
    BY DEF NetInv, DevType, ListInv, Present
  <2>2. PICK P \in SUBSET Names : P = Present
    BY <2>1
  <2>3. PICK status \in [P -> Statuses] : status = metrics.status
    BY <2>1, <2>2
  <2>4. PICK order \in Sorted(Orders(P), status) : order = metrics.interfaces
    BY <2>1, <2>2, <2>3
  <2>5. \A t \in Sorted(Orders(P), status) : t = order
    BY SortedOnce
  <2> QED
    BY <2>2, <2>3, <2>4, <2>5
<1> QED
  BY <1>1, NetInvariance, PTL
-----------------------------------------------------------------------------
(* CollectCPU, for any number of CPUs that go off and come on line, counters *)
(* of any width and any frequencies.                                         *)

\* Any CPUs can be put in order, each once.
LEMMA InOrderIs ==
  ASSUME NEW S \in SUBSET Nat, IsFiniteSet(S)
  PROVE  /\ InOrder(S) \in [1..Cardinality(S) -> S]
         /\ \A i, j \in DOMAIN InOrder(S) : i < j => InOrder(S)[i] < InOrder(S)[j]
<1> DEFINE n == Cardinality(S)
<1>1. n \in Nat
  BY FS_CardinalityType
<1>2. PICK b \in [1..n -> S] : \A i, j \in 1..n : b[i] = b[j] => i = j
  BY FS_CardinalityType DEF ExistsBijection, Bijection, Injection, IsInjective
<1> HIDE DEF n
<1>3. b \in Seq(S) /\ DOMAIN b = 1..n
  BY <1>1, <1>2
<1> DEFINE less == [i \in 1..n |-> [j \in 1..n |-> b[i] < b[j]]]
<1>4. \A i, j \in 1..n : less[i][j] <=> b[i] < b[j]
  OBVIOUS
<1> HIDE DEF less
<1>5. StrictWeakOrder(less, 1..n)
  <2>1. \A i \in 1..n : b[i] \in Nat
    BY <1>2
  <2> QED
    BY <1>4, <2>1 DEF StrictWeakOrder
<1>6. PICK p : SortedBy(less, 1..n, p)
  <2>1. StrictWeakOrder(less, DOMAIN b)
    BY <1>3, <1>5, Zenon
  <2>2. \E p : SortedBy(less, DOMAIN b, p)
    BY <1>3, <2>1, StableSorts
  <2> QED
    BY <1>3, <2>2, Zenon
<1> DEFINE t == [k \in 1..n |-> b[p[k]]]
<1>7. t \in [1..n -> S]
  BY <1>2, <1>6 DEF SortedBy
<1>8. ASSUME NEW i \in 1..n, NEW j \in 1..n, i < j
      PROVE  t[i] < t[j]
  <2>1. p[i] \in 1..n /\ p[j] \in 1..n /\ p[i] # p[j] /\ Earlier(less, p[i], p[j])
    BY <1>1, <1>6, <1>8 DEF SortedBy
  <2>2. b[p[i]] \in Nat /\ b[p[j]] \in Nat /\ b[p[i]] # b[p[j]]
    BY <1>2, <2>1
  <2>3. ~(b[p[j]] < b[p[i]])
    BY <1>4, <2>1, <2>2 DEF Earlier
  <2> QED
    BY <2>2, <2>3
<1>9. \E c \in [1..n -> S] : \A i, j \in DOMAIN c : i < j => c[i] < c[j]
  <2>1. \A i, j \in DOMAIN t : i < j => t[i] < t[j]
    BY <1>8
  <2> QED
    BY <1>7, <2>1, Zenon
<1> QED
  BY <1>9, Zenon DEF InOrder, n
-----------------------------------------------------------------------------
(* Counters modulo Width *)

\* s is what a counter that stood at p shows after r more jiffies.
Advanced(p, r, s) == s = p + r \/ s = p + r - Width

\* One more jiffy, and the counter wraps or not.
LEMMA OneMore ==
  ASSUME NEW p \in Counter, NEW r \in 0..MaxRan, NEW s \in Counter,
         Advanced(p, r, s), r + 1 <= MaxRan
  PROVE  /\ (s + 1) % Width \in Counter
         /\ Advanced(p, r + 1, (s + 1) % Width)
<1>1. Width \in Nat /\ MaxRan \in Nat /\ MaxRan < Width
  BY CpuAssumption
<1>2. p \in 0..(Width - 1) /\ s \in 0..(Width - 1)
  BY DEF Counter
<1>3. CASE s + 1 < Width
  <2>1. (s + 1) % Width = s + 1
    BY <1>1, <1>2, <1>3
  <2> QED
    BY <1>1, <1>2, <1>3, <2>1 DEF Advanced, Counter
<1>4. CASE s + 1 = Width
  <2>1. (s + 1) % Width = 0
    BY <1>1, <1>4
  <2>2. s # p + r - Width
    BY <1>1, <1>2, <1>4
  <2>3. 0 = p + (r + 1) - Width
    BY <1>1, <1>2, <1>4, <2>2 DEF Advanced
  <2> QED
    BY <1>1, <2>1, <2>3 DEF Advanced, Counter
<1> QED
  BY <1>1, <1>2, <1>3, <1>4

\* What wraps once is a counter again.
LEMMA ModBelow ==
  ASSUME NEW x \in Int
  PROVE  /\ x \in 0..(Width - 1) => x % Width = x
         /\ x \in (-Width)..(-1) => x % Width = x + Width
         /\ x \in Width..(2 * Width - 1) => x % Width = x - Width
<1>1. Width \in Nat /\ Width > 0
  BY CpuAssumption
<1>2. CASE x \in 0..(Width - 1)
  BY <1>1, <1>2
<1>3. CASE x \in (-Width)..(-1)
  BY <1>1, <1>3
<1>4. CASE x \in Width..(2 * Width - 1)
  BY <1>1, <1>4
<1> QED
  BY <1>1, <1>2, <1>3, <1>4

\* The unsigned difference is what was added, if less than Width.
LEMMA MinusIs ==
  ASSUME NEW p \in Counter, NEW s \in Counter, NEW r \in 0..MaxRan,
         Advanced(p, r, s)
  PROVE  Minus(s, p) = r
<1>1. Width \in Nat /\ MaxRan \in Nat /\ MaxRan < Width /\ s \in Int /\ p \in Int
  BY CpuAssumption DEF Counter
<1>2. CASE s = p + r
  <2>1. s - p = r /\ r \in 0..(Width - 1)
    BY <1>1, <1>2
  <2> QED
    BY <2>1, ModBelow DEF Minus
<1>3. CASE s = p + r - Width
  <2>1. s - p = r - Width /\ r - Width \in (-Width)..(-1) /\ r - Width \in Int
    BY <1>1, <1>3
  <2>2. (r - Width) % Width = (r - Width) + Width
    BY <2>1, ModBelow
  <2> QED
    BY <1>1, <2>1, <2>2 DEF Minus
<1> QED
  BY <1>2, <1>3 DEF Advanced

\* A total of two counters is a counter.
LEMMA SampleTotal ==
  ASSUME NEW s \in Sample
  PROVE  /\ total(s) \in Counter
         /\ total(s) = s.active + s.waiting \/ total(s) = s.active + s.waiting - Width
<1>1. Width \in Nat /\ Width > 0 /\ s.active \in 0..(Width - 1) /\ s.waiting \in 0..(Width - 1)
  BY CpuAssumption DEF Sample, Counter
<1>2. PICK x \in Int : x = s.active + s.waiting
  BY <1>1
<1>3. x \in 0..(Width - 1) \/ x \in Width..(2 * Width - 1)
  BY <1>1, <1>2
<1>4. total(s) = x % Width
  BY <1>2 DEF total
<1>5. x % Width = x \/ x % Width = x - Width
  BY <1>3, ModBelow
<1>6. x % Width \in 0..(Width - 1)
  BY <1>1, <1>3, ModBelow
<1>7. PICK t \in Counter : t = total(s) /\ (t = x \/ t = x - Width)
  BY <1>4, <1>5, <1>6, Zenon DEF Counter
<1>8. t = s.active + s.waiting \/ t = s.active + s.waiting - Width
  BY <1>1, <1>2, <1>7
<1> QED
  BY <1>7, <1>8, Zenon

Ran == [active : Nat, waiting : Nat]

\* c was at p when it was sampled, and has run for r since.
Follows(p, r, s) ==
  /\ r.active + r.waiting <= MaxRan
  /\ Advanced(p.active, r.active, s.active) /\ Advanced(p.waiting, r.waiting, s.waiting)

\* The usage of a core is the share of the time that it ran.
LEMMA UsageOf ==
  ASSUME NEW p \in Sample, NEW s \in Sample, NEW r \in Ran, Follows(p, r, s)
  PROVE  coreUsage(p, s) = LET all == r.active + r.waiting
                           IN  IF all = 0 THEN 0 ELSE (100 * r.active) \div all
<1>1. /\ p.active \in Counter /\ p.waiting \in Counter
      /\ s.active \in Counter /\ s.waiting \in Counter
      /\ r.active \in 0..MaxRan /\ r.waiting \in 0..MaxRan /\ r.active + r.waiting \in 0..MaxRan
  BY CpuAssumption DEF Sample, Ran, Follows
<1>2. Minus(active(s), active(p)) = r.active
  BY <1>1, MinusIs DEF active, Follows
<1>3. Minus(total(s), total(p)) = r.active + r.waiting
  <2>1. Width \in Nat /\ MaxRan < Width /\ MaxRan \in Nat
    BY CpuAssumption
  <2>2. PICK t \in Counter, u \in Counter :
          /\ t = total(p) /\ u = total(s)
          /\ t = p.active + p.waiting \/ t = p.active + p.waiting - Width
          /\ u = s.active + s.waiting \/ u = s.active + s.waiting - Width
    BY SampleTotal
  <2>3. PICK a \in 0..MaxRan, w \in 0..MaxRan :
          a = r.active /\ w = r.waiting /\ a + w \in 0..MaxRan
    BY <1>1
  <2>4. Advanced(p.active, a, s.active) /\ Advanced(p.waiting, w, s.waiting)
    BY <2>3 DEF Follows
  <2>5. Advanced(t, a + w, u)
    BY <1>1, <2>1, <2>2, <2>3, <2>4 DEF Advanced, Counter
  <2>6. Minus(u, t) = a + w
    BY <2>2, <2>3, <2>5, MinusIs
  <2> QED
    BY <2>2, <2>3, <2>6
<1> QED
  BY <1>2, <1>3, Zenon DEF coreUsage

\* Whatever the samples are, a usage is a number.
LEMMA UsageIsNat ==
  ASSUME NEW p \in Sample, NEW s \in Sample
  PROVE  coreUsage(p, s) \in Nat
<1>1. Width \in Nat /\ Width > 0
  BY CpuAssumption
<1>2. total(p) \in Int /\ total(s) \in Int /\ active(p) \in Int /\ active(s) \in Int
  BY SampleTotal DEF active, Sample, Counter
<1>3. \A a, b \in Int : Minus(a, b) \in Nat
  BY <1>1 DEF Minus
<1>4. PICK d \in Nat, a \in Nat :
        d = Minus(total(s), total(p)) /\ a = Minus(active(s), active(p))
  BY <1>2, <1>3
<1>5. d # 0 => (100 * a) \div d \in Nat
  OBVIOUS
<1>6. coreUsage(p, s) = IF d = 0 THEN 0 ELSE (100 * a) \div d
  BY <1>4, Zenon DEF coreUsage
<1> QED
  BY <1>5, <1>6
-----------------------------------------------------------------------------
(* Frequencies *)

\* The frequencies of the first k CPUs, put together, for each k.
IsFold(freqs, n, g) ==
  g = [k \in 0..n |-> IF k = 0 THEN NoFreqs ELSE AddFreq(g[k - 1], freqs[k])]

\* They are defined, by recursion over the CPUs.
LEMMA FoldExists ==
  ASSUME NEW freqs, NEW n \in Nat
  PROVE  \E g : IsFold(freqs, n, g)
<1> DEFINE K == {k \in 1..(n + 1) : \E g : IsFold(freqs, k - 1, g)}
<1>1. 1 \in K
  <2>1. IsFold(freqs, 1 - 1, [k \in 0..0 |-> NoFreqs])
    BY DEF IsFold
  <2> QED
    BY <2>1
<1>2. PICK m \in K : \A k \in K : k <= m
  <2>1. K \in SUBSET (1..(n + 1)) /\ K # {} /\ n + 1 \in Nat
    BY <1>1
  <2> HIDE DEF K
  <2> QED
    BY <2>1, GreatestPlace
<1>3. PICK g : IsFold(freqs, m - 1, g)
  OBVIOUS
<1>4. CASE m = n + 1
  BY <1>3, <1>4
<1>5. CASE m # n + 1
  <2>1. m \in 1..n
    BY <1>5
  <2> DEFINE h == [k \in 0..m |-> IF k = m THEN AddFreq(g[m - 1], freqs[m]) ELSE g[k]]
  <2>2. \A k \in 0..(m - 1) : g[k] = IF k = 0 THEN NoFreqs ELSE AddFreq(g[k - 1], freqs[k])
    BY <1>3 DEF IsFold
  <2>3. ASSUME NEW k \in 0..m
        PROVE  h[k] = IF k = 0 THEN NoFreqs ELSE AddFreq(h[k - 1], freqs[k])
    <3>1. CASE k = m
      <4>1. h[k - 1] = g[m - 1] /\ k # 0
        BY <2>1, <3>1
      <4> QED
        BY <3>1, <4>1
    <3>2. CASE k # m
      <4>1. k \in 0..(m - 1) /\ h[k] = g[k] /\ (k # 0 => h[k - 1] = g[k - 1])
        BY <2>1, <3>2
      <4> QED
        BY <2>2, <4>1
    <3> QED
      BY <3>1, <3>2
  <2>4. h = [k \in 0..m |-> h[k]]
    OBVIOUS
  <2> HIDE DEF h
  <2>5. IsFold(freqs, m, h)
    BY <2>3, <2>4 DEF IsFold
  <2>6. m + 1 \in K
    <3>1. m + 1 \in 1..(n + 1) /\ (m + 1) - 1 = m
      BY <2>1
    <3>2. \E f : IsFold(freqs, (m + 1) - 1, f)
      BY <2>5, <3>1
    <3> QED
      BY <3>1, <3>2
  <2> QED
    BY <1>2, <2>1, <2>6
<1> QED
  BY <1>4, <1>5

\* What the frequencies put together say of those there were.
InRange(acc) ==
  /\ acc \in [min : Nat, max : Nat, sum : Nat, count : Nat]
  /\ acc.count = 0 => acc = NoFreqs
  /\ acc.count > 0 => /\ acc.min <= acc.max
                      /\ acc.min * acc.count <= acc.sum /\ acc.sum <= acc.max * acc.count

\* Products of natural numbers grow with their factors.
LEMMA ProductGrows ==
  ASSUME NEW a \in Nat, NEW b \in Nat, NEW c \in Nat, a <= b
  PROVE  a * c <= b * c /\ a * (c + 1) = a * c + a /\ a * c \in Nat
  OBVIOUS

\* One more frequency moves the extremes and the sum as it should ...
LEMMA AddInRange ==
  ASSUME NEW acc, InRange(acc), NEW f \in Freqs \cup {NoValue}
  PROVE  InRange(AddFreq(acc, f))
<1>1. CASE f = NoValue
  BY <1>1 DEF AddFreq
<1>2. CASE f # NoValue
  <2>1. f \in Nat /\ f < Sentinel /\ Sentinel \in Nat
    BY <1>2, CpuAssumption
  <2>2. PICK lo \in Nat, hi \in Nat, sum \in Nat, count \in Nat :
          lo = acc.min /\ hi = acc.max /\ sum = acc.sum /\ count = acc.count
    BY DEF InRange
  <2>3. PICK lo2 \in Nat, hi2 \in Nat :
          lo2 = (IF f < lo THEN f ELSE lo) /\ hi2 = (IF f > hi THEN f ELSE hi)
    BY <2>1
  <2>4. AddFreq(acc, f) = [min |-> lo2, max |-> hi2, sum |-> sum + f, count |-> count + 1]
    BY <1>2, <2>2, <2>3, Zenon DEF AddFreq
  <2>5. lo2 <= f /\ f <= hi2 /\ lo2 <= lo /\ hi <= hi2
    BY <2>1, <2>3
  <2>6. lo2 * (count + 1) <= sum + f /\ sum + f <= hi2 * (count + 1)
    <3>1. CASE count = 0
      <4>1. sum = 0
        BY <2>2, <3>1 DEF InRange, NoFreqs
      <4> QED
        BY <2>1, <2>5, <3>1, <4>1
    <3>2. CASE count # 0
      <4>1. lo * count <= sum /\ sum <= hi * count
        BY <2>2, <3>2 DEF InRange
      <4>2. lo2 * count <= lo * count /\ lo2 * (count + 1) = lo2 * count + lo2 /\ lo2 * count \in Nat
        BY <2>5, ProductGrows
      <4>3. hi * count <= hi2 * count /\ hi * count \in Nat
        BY <2>5, ProductGrows
      <4>4. hi2 * (count + 1) = hi2 * count + hi2 /\ hi2 * count \in Nat /\ lo * count \in Nat
        BY ProductGrows
      <4>5. PICK a \in Nat, b \in Nat, c \in Nat, d \in Nat :
              a = lo2 * count /\ b = lo * count /\ c = hi * count /\ d = hi2 * count
        BY <4>2, <4>3, <4>4
      <4>6. a <= b /\ b <= sum /\ sum <= c /\ c <= d
        BY <4>1, <4>2, <4>3, <4>5
      <4>7. a + lo2 <= sum + f /\ sum + f <= d + hi2
        BY <2>1, <2>5, <4>6
      <4> QED
        BY <4>2, <4>4, <4>5, <4>7, Zenon
    <3> QED
      BY <3>1, <3>2
  <2>7. PICK acc2 : acc2 = AddFreq(acc, f)
    OBVIOUS
  <2>8. /\ acc2 \in [min : Nat, max : Nat, sum : Nat, count : Nat]
        /\ acc2.min = lo2 /\ acc2.max = hi2 /\ acc2.sum = sum + f /\ acc2.count = count + 1
    BY <2>1, <2>4, <2>7
  <2>9. acc2.count # 0 /\ lo2 <= hi2
    BY <2>1, <2>5, <2>8
  <2> QED
    BY <2>6, <2>7, <2>8, <2>9 DEF InRange
<1> QED
  BY <1>1, <1>2

\* ... and so do all of them, of however many CPUs.
LEMMA AllInRange ==
  ASSUME NEW n \in Nat, NEW freqs \in [1..n -> Freqs \cup {NoValue}]
  PROVE  InRange(AllFreqs(freqs))
<1>1. Len(freqs) = n
  <2>1. freqs \in Seq(Freqs \cup {NoValue}) /\ DOMAIN freqs = 1..n
    OBVIOUS
  <2> QED
    BY <2>1, LenProperties
<1> DEFINE P(g) == IsFold(freqs, n, g)
           g == CHOOSE f : P(f)
<1>2. AllFreqs(freqs) = g[n]
  BY <1>1, Zenon DEF AllFreqs, IsFold
<1>3. P(g)
  <2>1. \E f : P(f)
    BY FoldExists
  <2> QED
    BY <2>1, Zenon
<1> HIDE DEF g
<1>4. \A k \in 0..n : g[k] = IF k = 0 THEN NoFreqs ELSE AddFreq(g[k - 1], freqs[k])
  BY <1>3 DEF IsFold
<1> DEFINE K == {k \in 1..(n + 1) : ~InRange(g[k - 1])}
<1>5. ASSUME K # {} PROVE FALSE
  <2>1. PICK k \in K : \A j \in K : k <= j
    <3>1. K \in SUBSET (1..(n + 1)) /\ n + 1 \in Nat
      OBVIOUS
    <3> HIDE DEF K
    <3> QED
      BY <1>5, <3>1, LeastPlace
  <2>2. CASE k = 1
    <3>1. g[k - 1] = NoFreqs
      BY <1>4, <2>2
    <3>2. InRange(NoFreqs)
      BY CpuAssumption DEF InRange, NoFreqs
    <3> QED
      BY <3>1, <3>2
  <2>3. CASE k # 1
    <3>1. k - 1 \in 1..n /\ k - 1 \in 0..n /\ k - 1 # 0 /\ k - 1 \in 1..(n + 1)
      BY <2>3
    <3>2. InRange(g[(k - 1) - 1])
      BY <2>1, <3>1
    <3>3. /\ g[k - 1] = AddFreq(g[(k - 1) - 1], freqs[k - 1])
          /\ freqs[k - 1] \in Freqs \cup {NoValue}
      BY <1>4, <3>1
    <3>4. InRange(g[k - 1])
      BY <3>2, <3>3, AddInRange
    <3> QED
      BY <3>4
  <2> QED
    BY <2>2, <2>3
<1>6. n + 1 \in 1..(n + 1) /\ (n + 1) - 1 = n
  OBVIOUS
<1>7. InRange(g[n])
  BY <1>5, <1>6
<1> QED
  BY <1>2, <1>7
-----------------------------------------------------------------------------
(* The inductive invariant of CollectCPU *)

\* The kernel's counters, the truth and the samples keep their types.
CpuType ==
  /\ online \in (SUBSET CPUs) \ {{}} /\ sampled \subseteq CPUs
  /\ stat \in [CPUs -> Sample] /\ ran \in [CPUs -> Ran]
  /\ prevCPUSamples \in Seq(Sample)

\* Each sample is of a CPU that has run since, for as long as the truth has it.
SampleInv ==
  /\ Len(prevCPUSamples) = Cardinality(sampled)
  /\ \A i \in 1..Cardinality(sampled) :
       LET c == InOrder(sampled)[i] IN Follows(prevCPUSamples[i], ran[c], stat[c])

\* What was returned is well formed.
MetricsInv ==
  cpuMetrics # NoValue => /\ cpuMetrics \in Usages
                       /\ cpuMetrics.freq.min <= cpuMetrics.freq.max
                       /\ cpuMetrics.freq.min * cpuMetrics.freq.count <= cpuMetrics.freq.sum
                       /\ cpuMetrics.freq.sum <= cpuMetrics.freq.max * cpuMetrics.freq.count

CpuInv == CpuType /\ SampleInv /\ MetricsInv

\* There are finitely many CPUs.
LEMMA CPUsFinite == IsFiniteSet(CPUs) /\ CPUs \subseteq Nat
<1>1. NumCPUs - 1 \in Int
  BY CpuAssumption
<1>2. IsFiniteSet(0..(NumCPUs - 1))
  BY <1>1, FS_Interval
<1> QED
  BY <1>2 DEF CPUs

\* Each line of /proc/stat is of one of the CPUs listed.
LEMMA Numbered ==
  ASSUME NEW S \in SUBSET CPUs
  PROVE  /\ IsFiniteSet(S) /\ Cardinality(S) \in Nat /\ (S # {} => Cardinality(S) > 0)
         /\ \A i \in 1..Cardinality(S) : InOrder(S)[i] \in S
<1>1. IsFiniteSet(S) /\ S \in SUBSET Nat
  BY CPUsFinite, FS_Subset
<1>2. Cardinality(S) \in Nat /\ (Cardinality(S) = 0 <=> S = {})
  BY <1>1, FS_CardinalityType, FS_EmptySet
<1>3. InOrder(S) \in [1..Cardinality(S) -> S]
  BY <1>1, InOrderIs
<1>4. S # {} => Cardinality(S) > 0
  BY <1>2
<1>5. \A i \in 1..Cardinality(S) : InOrder(S)[i] \in S
  BY <1>3
<1> QED
  BY <1>1, <1>2, <1>4, <1>5, Zenon

\* The initial state satisfies the invariant.
LEMMA CpuInitInv == CpuInit => CpuInv
<1> SUFFICES ASSUME CpuInit PROVE CpuInv
  OBVIOUS
<1>1. Width \in Nat /\ Width > 0
  BY CpuAssumption
<1>2. 0 \in Counter /\ Width - 1 \in Counter
  BY <1>1 DEF Counter
<1>3. stat \in [CPUs -> Sample]
  BY <1>2 DEF CpuInit, Sample
<1>4. ran \in [CPUs -> Ran]
  BY DEF CpuInit, Ran
<1>5. prevCPUSamples \in Seq(Sample) /\ Len(prevCPUSamples) = 0
  BY EmptySeq DEF CpuInit
<1>6. Cardinality(sampled) = 0
  BY FS_EmptySet DEF CpuInit
<1> QED
  BY <1>3, <1>4, <1>5, <1>6 DEF CpuInit, CpuInv, CpuType, SampleInv, MetricsInv

\* The kernel and the truth count a jiffy alike.
LEMMA JiffyStep == ASSUME CpuInv, NEW c \in CPUs, Jiffy(c) PROVE CpuInv'
<1>0. /\ stat \in [CPUs -> Sample] /\ ran \in [CPUs -> Ran] /\ CpuType /\ SampleInv
      /\ stat[c] \in Sample /\ ran[c] \in Ran
  BY DEF CpuInv, CpuType
<1>1. PICK s \in Sample, r \in Ran :
        /\ stat' = [stat EXCEPT ![c] = s] /\ ran' = [ran EXCEPT ![c] = r]
        /\ \A p \in Sample : Follows(p, ran[c], stat[c]) => Follows(p, r, s)
  <2>0. Width \in Nat /\ MaxRan \in Nat /\ MaxRan < Width
    BY CpuAssumption
  <2>1. PICK field \in {"active", "waiting"} :
          /\ stat' = [stat EXCEPT ![c][field] = (@ + 1) % Width]
          /\ ran' = [ran EXCEPT ![c][field] = @ + 1]
    BY DEF Jiffy
  <2>2. /\ stat[c].active \in Counter /\ stat[c].waiting \in Counter
        /\ ran[c].active \in Nat /\ ran[c].waiting \in Nat
        /\ (stat[c].active + 1) % Width \in Counter
        /\ (stat[c].waiting + 1) % Width \in Counter
        /\ ran[c].active + ran[c].waiting + 1 <= MaxRan
    <3>1. stat[c].active \in Counter /\ stat[c].waiting \in Counter
      BY <1>0 DEF Sample
    <3>2. \A x \in Counter : (x + 1) % Width \in Counter
      BY <2>0 DEF Counter
    <3>3. ran[c].active \in Nat /\ ran[c].waiting \in Nat
      BY <1>0 DEF Ran
    <3>4. ran[c].active + ran[c].waiting < MaxRan
      BY DEF Jiffy
    <3> QED
      BY <2>0, <3>1, <3>2, <3>3, <3>4
  <2>3. CASE field = "active"
    <3> DEFINE s == [active |-> (stat[c].active + 1) % Width, waiting |-> stat[c].waiting]
               r == [active |-> ran[c].active + 1, waiting |-> ran[c].waiting]
    <3>1. stat' = [stat EXCEPT ![c] = s]
      <4>1. stat' = [stat EXCEPT ![c].active = (@ + 1) % Width]
        BY <2>1, <2>3
      <4>2. stat' = [stat EXCEPT ![c] = [stat[c] EXCEPT !.active = (stat[c].active + 1) % Width]]
        BY <1>0, <4>1
      <4>3. [stat[c] EXCEPT !.active = (stat[c].active + 1) % Width] = s
        BY <1>0 DEF Sample
      <4> QED
        BY <4>2, <4>3, Zenon
    <3>2. ran' = [ran EXCEPT ![c] = r]
      <4>1. ran' = [ran EXCEPT ![c].active = @ + 1]
        BY <2>1, <2>3
      <4>2. ran' = [ran EXCEPT ![c] = [ran[c] EXCEPT !.active = ran[c].active + 1]]
        BY <1>0, <4>1
      <4>3. [ran[c] EXCEPT !.active = ran[c].active + 1] = r
        BY <1>0 DEF Ran
      <4> QED
        BY <4>2, <4>3, Zenon
    <3>3. s \in Sample /\ r \in Ran
      BY <2>2 DEF Sample, Ran
    <3>4. ASSUME NEW p \in Sample, Follows(p, ran[c], stat[c])
          PROVE  Follows(p, r, s)
      <4>1. Advanced(p.active, ran[c].active + 1, (stat[c].active + 1) % Width)
        BY <2>0, <2>2, <3>4, OneMore DEF Follows, Sample
      <4>2. (ran[c].active + 1) + ran[c].waiting <= MaxRan
        BY <2>0, <2>2
      <4> QED
        BY <3>4, <4>1, <4>2 DEF Follows
    <3> HIDE DEF s, r
    <3> QED
      BY <3>1, <3>2, <3>3, <3>4, Zenon
  <2>4. CASE field = "waiting"
    <3> DEFINE s == [active |-> stat[c].active, waiting |-> (stat[c].waiting + 1) % Width]
               r == [active |-> ran[c].active, waiting |-> ran[c].waiting + 1]
    <3>1. stat' = [stat EXCEPT ![c] = s]
      <4>1. stat' = [stat EXCEPT ![c].waiting = (@ + 1) % Width]
        BY <2>1, <2>4
      <4>2. stat' = [stat EXCEPT ![c] = [stat[c] EXCEPT !.waiting = (stat[c].waiting + 1) % Width]]
        BY <1>0, <4>1
      <4>3. [stat[c] EXCEPT !.waiting = (stat[c].waiting + 1) % Width] = s
        BY <1>0 DEF Sample
      <4> QED
        BY <4>2, <4>3, Zenon
    <3>2. ran' = [ran EXCEPT ![c] = r]
      <4>1. ran' = [ran EXCEPT ![c].waiting = @ + 1]
        BY <2>1, <2>4
      <4>2. ran' = [ran EXCEPT ![c] = [ran[c] EXCEPT !.waiting = ran[c].waiting + 1]]
        BY <1>0, <4>1
      <4>3. [ran[c] EXCEPT !.waiting = ran[c].waiting + 1] = r
        BY <1>0 DEF Ran
      <4> QED
        BY <4>2, <4>3, Zenon
    <3>3. s \in Sample /\ r \in Ran
      BY <2>2 DEF Sample, Ran
    <3>4. ASSUME NEW p \in Sample, Follows(p, ran[c], stat[c])
          PROVE  Follows(p, r, s)
      <4>1. Advanced(p.waiting, ran[c].waiting + 1, (stat[c].waiting + 1) % Width)
        BY <2>0, <2>2, <3>4, OneMore DEF Follows, Sample
      <4>2. ran[c].active + (ran[c].waiting + 1) <= MaxRan
        BY <2>0, <2>2
      <4> QED
        BY <3>4, <4>1, <4>2 DEF Follows
    <3> HIDE DEF s, r
    <3> QED
      BY <3>1, <3>2, <3>3, <3>4, Zenon
  <2> QED
    BY <2>1, <2>3, <2>4
<1>2. /\ cpuMetrics' = NoValue /\ online' = online /\ sampled' = sampled
      /\ prevCPUSamples' = prevCPUSamples
  BY DEF Jiffy
<1>3. CpuType'
  BY <1>0, <1>1, <1>2 DEF CpuType
<1>4. SampleInv'
  <2> SUFFICES ASSUME NEW i \in 1..Cardinality(sampled)
               PROVE  LET d == InOrder(sampled)[i]
                      IN  Follows(prevCPUSamples[i], ran'[d], stat'[d])
    BY <1>0, <1>2, Zenon DEF SampleInv
  <2>1. PICK d \in CPUs : d = InOrder(sampled)[i]
    BY <1>0, Numbered DEF CpuType
  <2>2. Follows(prevCPUSamples[i], ran[d], stat[d])
    BY <1>0, <2>1 DEF SampleInv
  <2>3. prevCPUSamples[i] \in Sample
    <3>1. Cardinality(sampled) = Len(prevCPUSamples) /\ prevCPUSamples \in Seq(Sample)
      BY <1>0 DEF CpuType, SampleInv
    <3> QED
      BY <3>1, ElementOfSeq
  <2>4. Follows(prevCPUSamples[i], ran'[d], stat'[d])
    BY <1>0, <1>1, <2>2, <2>3
  <2> QED
    BY <2>1, <2>4
<1> QED
  BY <1>2, <1>3, <1>4 DEF CpuInv, MetricsInv

\* What is read of /proc/stat.
LEMMA ReadIs ==
  ASSUME CpuInv
  PROVE  /\ readCPUSamples \in Seq(Sample) /\ Len(readCPUSamples) = Cardinality(online)
         /\ Cardinality(online) \in Nat \ {0}
         /\ \A i \in 1..Cardinality(online) : readCPUSamples[i] = stat[InOrder(online)[i]]
<1>1. PICK S \in SUBSET CPUs : S = online /\ S # {}
  BY DEF CpuInv, CpuType
<1>2. PICK n \in Nat : n = Cardinality(S) /\ n > 0 /\ \A i \in 1..n : InOrder(S)[i] \in S
  BY <1>1, Numbered
<1>3. readCPUSamples = [i \in 1..n |-> stat[InOrder(S)[i]]]
  BY <1>1, <1>2, Zenon DEF readCPUSamples
<1>4. \A i \in 1..n : stat[InOrder(S)[i]] \in Sample
  BY <1>2 DEF CpuInv, CpuType
<1>5. readCPUSamples \in Seq(Sample) /\ DOMAIN readCPUSamples = 1..n
  BY <1>3, <1>4
<1>6. Len(readCPUSamples) = n
  BY <1>5, LenProperties
<1> QED
  BY <1>1, <1>2, <1>3, <1>5, <1>6

\* CollectCPU returns what it says and takes a sample.
LEMMA CpuCollect == CpuInv /\ CollectCPU => CpuInv'
<1> SUFFICES ASSUME CpuInv, CollectCPU PROVE CpuInv'
  OBVIOUS
<1>1. PICK n \in Nat, curr \in Seq(Sample) :
        /\ curr = readCPUSamples /\ Len(curr) = n /\ n = Cardinality(online) /\ n # 0
        /\ \A i \in 1..n : curr[i] = stat[InOrder(online)[i]]
  BY ReadIs
<1>2. PICK prev \in Seq(Sample) : prev = prevCPUSamples
  BY DEF CpuInv, CpuType
<1>3. PICK freqs \in [1..n -> Freqs \cup {NoValue}] :
        cpuMetrics' = [usages |-> CoreUsages(prev, curr),
                       avg |-> AvgUsage(CoreUsages(prev, curr)),
                       freq |-> FreqRange(freqs)]
  BY <1>1, <1>2, Zenon DEF CollectCPU
<1>4. /\ prevCPUSamples' = curr /\ sampled' = online /\ online' = online /\ stat' = stat
      /\ ran' = [c \in CPUs |-> [active |-> 0, waiting |-> 0]]
  BY <1>1, Zenon DEF CollectCPU, Save, cpuKernelVars
<1>5. CpuType'
  <2>1. ran' \in [CPUs -> Ran]
    BY <1>4 DEF Ran
  <2> QED
    BY <1>4, <2>1 DEF CpuInv, CpuType
<1>6. SampleInv'
  <2> SUFFICES ASSUME NEW i \in 1..n
               PROVE  LET c == InOrder(online)[i] IN Follows(curr[i], ran'[c], stat[c])
    BY <1>1, <1>4, Zenon DEF SampleInv
  <2>1. PICK c \in CPUs : c = InOrder(online)[i]
    BY <1>1, Numbered DEF CpuInv, CpuType
  <2>2. stat[c] \in Sample /\ curr[i] = stat[c]
    BY <1>1, <2>1 DEF CpuInv, CpuType
  <2>3. PICK s \in Sample : s = stat[c]
    BY <2>2
  <2>4. s.active \in Nat /\ s.waiting \in Nat /\ MaxRan \in Nat
    BY CpuAssumption DEF Sample, Counter
  <2>5. PICK r : r = ran'[c] /\ r.active = 0 /\ r.waiting = 0
    BY <1>4
  <2>6. Follows(s, r, s)
    BY <2>4, <2>5 DEF Follows, Advanced
  <2> QED
    BY <2>1, <2>2, <2>3, <2>5, <2>6
<1>7. MetricsInv'
  <2>1. PICK usages : usages = CoreUsages(prev, curr)
    OBVIOUS
  <2>2. usages \in Seq(Nat) /\ Len(usages) = n /\ DOMAIN usages = 1..n
    <3>1. DOMAIN curr = 1..n /\ \A i \in 1..n : curr[i] \in Sample
      BY <1>1, LenProperties, ElementOfSeq
    <3>2. Len(prev) = n => \A i \in 1..n : prev[i] \in Sample
      BY ElementOfSeq
    <3>3. \A i \in 1..n : usages[i] \in Nat
      <4> SUFFICES ASSUME NEW i \in 1..n PROVE usages[i] \in Nat
        OBVIOUS
      <4>1. usages[i] = IF Len(prev) = n THEN coreUsage(prev[i], curr[i]) ELSE 0
        BY <1>1, <2>1, <3>1, Zenon DEF CoreUsages
      <4>2. Len(prev) = n => coreUsage(prev[i], curr[i]) \in Nat
        BY <3>1, <3>2, UsageIsNat
      <4> QED
        BY <4>1, <4>2
    <3>4. DOMAIN usages = 1..n /\ usages = [i \in 1..n |-> usages[i]]
      BY <2>1, <3>1, Zenon DEF CoreUsages
    <3>5. usages \in Seq(Nat)
      <4>1. usages \in [1..n -> Nat] /\ n \in Nat
        BY <3>3, <3>4
      <4> QED
        BY <4>1
    <3> QED
      BY <3>4, <3>5, LenProperties
  <2>3. AvgUsage(usages) \in Nat
    <3>1. \A i \in 1..n : usages[i] \in Nat
      BY <2>2, ElementOfSeq
    <3>2. IsFiniteSet(1..n)
      BY FS_Interval
    <3>3. SumFunctionOnSet(usages, 1..n) \in Nat
      BY <3>1, <3>2, SumIsNat
    <3>4. PICK sum \in Nat : sum = SumFunction(usages)
      BY <2>2, <3>3, Zenon DEF SumFunction
    <3>5. n > 0
      BY <1>1
    <3>6. sum \div n \in Nat
      BY <3>5
    <3> QED
      BY <2>2, <3>4, <3>6, Zenon DEF AvgUsage
  <2>4. PICK f : /\ f = FreqRange(freqs) /\ f \in [min : Nat, max : Nat, sum : Nat, count : Nat]
                 /\ f.min <= f.max /\ f.min * f.count <= f.sum /\ f.sum <= f.max * f.count
    <3>1. PICK all : all = AllFreqs(freqs)
      OBVIOUS
    <3>2. InRange(all)
      BY <3>1, AllInRange
    <3>3. CASE all.count = 0
      <4>1. all = [min |-> Sentinel, max |-> 0, sum |-> 0, count |-> 0]
        BY <3>2, <3>3 DEF InRange, NoFreqs
      <4>2. FreqRange(freqs) = [all EXCEPT !.min = 0]
        BY <3>1, <3>3, Zenon DEF FreqRange
      <4>3. FreqRange(freqs) = [min |-> 0, max |-> 0, sum |-> 0, count |-> 0]
        BY <4>1, <4>2
      <4>4. PICK f : f = FreqRange(freqs)
        OBVIOUS
      <4>5. /\ f \in [min : Nat, max : Nat, sum : Nat, count : Nat]
            /\ f.min = 0 /\ f.max = 0 /\ f.sum = 0 /\ f.count = 0
        BY <4>3, <4>4
      <4>6. f.min <= f.max /\ f.min * f.count <= f.sum /\ f.sum <= f.max * f.count
        BY <4>5
      <4> QED
        BY <4>4, <4>5, <4>6, Zenon
    <3>4. CASE all.count # 0
      <4>1. FreqRange(freqs) = all
        BY <3>1, <3>4, Zenon DEF FreqRange
      <4>2. all.count > 0
        BY <3>2, <3>4 DEF InRange
      <4> QED
        BY <3>2, <4>1, <4>2 DEF InRange
    <3> QED
      BY <3>3, <3>4
  <2>5. PICK avg \in Nat : avg = AvgUsage(usages)
    BY <2>3
  <2>6. cpuMetrics' = [usages |-> usages, avg |-> avg, freq |-> f]
    BY <1>3, <2>1, <2>4, <2>5, Zenon
  <2>7. cpuMetrics' \in Usages
    BY <2>2, <2>4, <2>6 DEF Usages
  <2>8. cpuMetrics'.freq = f
    BY <2>6
  <2> QED
    BY <2>4, <2>7, <2>8, Zenon DEF MetricsInv
<1> QED
  BY <1>5, <1>6, <1>7 DEF CpuInv

\* Every step keeps the invariant.
LEMMA CpuStep == CpuInv /\ [CpuNext]_cpuVars => CpuInv'
<1> SUFFICES ASSUME CpuInv, [CpuNext]_cpuVars PROVE CpuInv'
  OBVIOUS
<1>1. ASSUME NEW c \in CPUs, Jiffy(c) PROVE CpuInv'
  BY <1>1, JiffyStep
<1>2. ASSUME NEW c \in CPUs, Hotplug(c) PROVE CpuInv'
  <2>1. /\ cpuMetrics' = NoValue /\ online' \in (SUBSET CPUs) \ {{}} /\ sampled' = sampled
        /\ stat' = stat /\ ran' = ran /\ prevCPUSamples' = prevCPUSamples
    BY <1>2 DEF Hotplug, cpuTruthVars, CpuInv, CpuType
  <2> QED
    BY <2>1 DEF CpuInv, CpuType, SampleInv, MetricsInv
<1>3. CASE CollectCPU
  BY <1>3, CpuCollect
<1>4. CASE CollectCPUFails
  <2>1. /\ cpuMetrics' = NoValue /\ online' = online /\ sampled' = sampled
        /\ stat' = stat /\ ran' = ran /\ prevCPUSamples' = prevCPUSamples
    BY <1>4 DEF CollectCPUFails, cpuKernelVars, cpuTruthVars
  <2> QED
    BY <2>1 DEF CpuInv, CpuType, SampleInv, MetricsInv
<1>5. CASE UNCHANGED cpuVars
  <2>1. /\ cpuMetrics' = cpuMetrics /\ online' = online /\ sampled' = sampled
        /\ stat' = stat /\ ran' = ran /\ prevCPUSamples' = prevCPUSamples
    BY <1>5 DEF cpuVars, cpuKernelVars, cpuTruthVars
  <2> QED
    BY <2>1 DEF CpuInv, CpuType, SampleInv, MetricsInv
<1> QED
  BY <1>1, <1>2, <1>3, <1>4, <1>5 DEF CpuNext

\* The inductive invariant holds.
LEMMA CpuInvariance == CpuSpec => []CpuInv
BY CpuInitInv, CpuStep, PTL DEF CpuSpec

\* The counters, the samples and what CollectCPU returns keep their types,
\* whichever CPUs go off and come on line.
THEOREM CpuTyped == CpuSpec => []CpuTypeOK
<1>1. CpuInv => CpuTypeOK
  BY DEF CpuInv, CpuType, MetricsInv, Ran, CpuTypeOK
<1> QED
  BY <1>1, CpuInvariance, PTL

\* The sentinel never shows, whichever frequencies could be read
\* (cpu.go:95-132).
THEOREM FreqsAreInOrder == CpuSpec => []FreqsInOrder
<1>1. CpuInv => FreqsInOrder
  BY DEF CpuInv, MetricsInv, FreqsInOrder
<1> QED
  BY <1>1, CpuInvariance, PTL

\* Each core's usage is the share of its time that it worked, although counters
\* wrap, calls fail and CPUs go away and come back (cpu.go:83-93, 146-157).
THEOREM UsagesTrue == CpuSpec => UsageIsTrue
<1>1. CpuInv /\ [CpuNext]_cpuVars =>
        [cpuMetrics' # NoValue /\ sampled = online =>
           cpuMetrics'.usages =
             [i \in 1..Cardinality(online) |-> TrueUsage(InOrder(online)[i])]]_cpuVars
  <2> SUFFICES ASSUME CpuInv, CpuNext, cpuMetrics' # NoValue, sampled = online
               PROVE  cpuMetrics'.usages =
                        [i \in 1..Cardinality(online) |-> TrueUsage(InOrder(online)[i])]
    OBVIOUS
  <2>1. CollectCPU
    BY DEF CpuNext, Jiffy, Hotplug, CollectCPUFails
  <2>2. PICK n \in Nat, curr \in Seq(Sample) :
          /\ curr = readCPUSamples /\ Len(curr) = n /\ n = Cardinality(online)
          /\ \A i \in 1..n : curr[i] = stat[InOrder(online)[i]]
    BY ReadIs
  <2>3. PICK prev \in Seq(Sample) : prev = prevCPUSamples /\ Len(prev) = n
    BY <2>2 DEF CpuInv, CpuType, SampleInv
  <2>4. cpuMetrics'.usages = CoreUsages(prev, curr)
    <3>1. PICK avg, freq :
            cpuMetrics' = [usages |-> CoreUsages(prev, curr), avg |-> avg, freq |-> freq]
      BY <2>1, <2>2, <2>3, Zenon DEF CollectCPU
    <3> QED
      BY <3>1
  <2>5. DOMAIN curr = 1..n /\ \A i \in 1..n : curr[i] \in Sample /\ prev[i] \in Sample
    BY <2>2, <2>3, LenProperties, ElementOfSeq
  <2>6. ASSUME NEW i \in 1..n
        PROVE  coreUsage(prev[i], curr[i]) = TrueUsage(InOrder(online)[i])
    <3>1. PICK c \in CPUs : c = InOrder(online)[i]
      BY <2>2, Numbered DEF CpuInv, CpuType
    <3>2. PICK r \in Ran : r = ran[c]
      BY DEF CpuInv, CpuType
    <3>3. Follows(prev[i], r, curr[i])
      <4>1. Follows(prev[i], ran[c], stat[c])
        BY <2>2, <2>3, <3>1 DEF CpuInv, SampleInv
      <4> QED
        BY <2>2, <3>1, <3>2, <4>1, Zenon
    <3>4. coreUsage(prev[i], curr[i]) = LET all == r.active + r.waiting
                                        IN  IF all = 0 THEN 0 ELSE (100 * r.active) \div all
      BY <2>5, <3>3, UsageOf
    <3>5. TrueUsage(c) = coreUsage(prev[i], curr[i])
      BY <3>2, <3>4, Zenon DEF TrueUsage
    <3> QED
      BY <3>1, <3>5, Zenon
  <2>7. CoreUsages(prev, curr) = [i \in 1..n |-> coreUsage(prev[i], curr[i])]
    BY <2>2, <2>3, <2>5 DEF CoreUsages
  <2>8. [i \in 1..n |-> coreUsage(prev[i], curr[i])] =
          [i \in 1..n |-> TrueUsage(InOrder(online)[i])]
    BY <2>6
  <2> QED
    BY <2>2, <2>4, <2>7, <2>8, Zenon
<1> QED
  BY <1>1, CpuInvariance, PTL DEF CpuSpec, UsageIsTrue
=============================================================================
