--------------------------- MODULE ScanListProofs ---------------------------
(***************************************************************************)
(* Splitting a line undoes nmcli's escaping, and the list has one row for  *)
(* each network, strongest first: proved for any access points, SSIDs of   *)
(* any runes and length, lists of any length and warnings.                 *)
(***************************************************************************)
EXTENDS ScanList, ListingProofs

-----------------------------------------------------------------------------
(* Runes in front of texts *)

LEMMA InFront ==
  ASSUME NEW r \in Runes, NEW t \in Text
  PROVE  /\ <<r>> \o t \in Text /\ <<r>> \o t # <<>>
         /\ Head(<<r>> \o t) = r /\ Tail(<<r>> \o t) = t
<1>1. /\ <<r>> \o t \in Seq(Runes) /\ Len(<<r>> \o t) = Len(t) + 1
      /\ Head(<<r>> \o t) = r
  BY DEF Text
<1>2. Tail(<<r>> \o t) = t
  BY DEF Text
<1> QED
  BY <1>1, <1>2, LenProperties DEF Text

LEMMA Associates ==
  ASSUME NEW s \in Text, NEW t \in Text, NEW u \in Text
  PROVE  (s \o t) \o u = s \o (t \o u) /\ s \o t \in Text
BY ConcatAssociative, ConcatProperties DEF Text

LEMMA EmptyText ==
  ASSUME NEW s \in Text
  PROVE  s \o <<>> = s /\ <<>> \o s = s
BY ConcatEmptySeq DEF Text

LEMMA OneRune ==
  ASSUME NEW S, NEW r \in S
  PROVE  <<r>> \in Seq(S)
OBVIOUS

LEMMA InFrontOf ==
  ASSUME NEW r \in Runes, NEW t \in Text, NEW u \in Text
  PROVE  (<<r>> \o t) \o u = <<r>> \o (t \o u) /\ t \o u \in Text
<1>1. <<r>> \in Text
  BY OneRune DEF Text
<1> QED
  BY <1>1, Associates, Zenon

LEMMA NotEmpty ==
  ASSUME NEW r \in Runes, NEW t \in Text, NEW u \in Text
  PROVE  (<<r>> \o t) \o u # <<>>
<1>1. t \o u \in Text /\ (<<r>> \o t) \o u = <<r>> \o (t \o u)
  BY InFrontOf
<1>2. \A v \in Text : <<r>> \o v # <<>>
  BY InFront, Zenon
<1> QED
  BY <1>1, <1>2, Zenon

LEMMA FourTexts ==
  ASSUME NEW S, NEW a \in S, NEW b \in S, NEW c \in S, NEW d \in S
  PROVE  /\ <<a, b, c, d>> \in Seq(S) /\ Len(<<a, b, c, d>>) = 4
         /\ <<a, b, c, d>>[1] = a /\ <<a, b, c, d>>[2] = b
         /\ <<a, b, c, d>>[3] = c /\ <<a, b, c, d>>[4] = d
OBVIOUS

LEMMA OneMore ==
  ASSUME NEW S, NEW s \in Seq(S), NEW k \in 0..Len(s)
  PROVE  /\ SubSeq(s, 1, 0) = <<>> /\ SubSeq(s, 1, Len(s)) = s
         /\ k < Len(s) => Append(SubSeq(s, 1, k), s[k + 1]) = SubSeq(s, 1, k + 1)
OBVIOUS
-----------------------------------------------------------------------------
(* What escaping does, from any rune on *)

IsRest(f, g, m) ==
  g = [k \in m..(Len(f) + 1) |-> IF k > Len(f) THEN <<>> ELSE Quote(f[k]) \o g[k + 1]]

\* Such a function exists: it is built from the end of the field.
LEMMA RestExists ==
  ASSUME NEW f \in Text
  PROVE  \E g : IsRest(f, g, 1)
<1> DEFINE n == Len(f) + 1
           K == {m \in 1..n : \E g : IsRest(f, g, m)}
<1>1. n \in Nat \ {0} /\ Len(f) = n - 1
  BY LenProperties DEF Text
<1>2. n \in K
  <2> DEFINE g == [k \in n..n |-> <<>>]
  <2>1. g = [k \in n..n |-> IF k > n - 1 THEN <<>> ELSE Quote(f[k]) \o g[k + 1]]
    <3>1. \A k \in n..n : k > n - 1
      BY <1>1
    <3> QED
      BY <3>1, Zenon
  <2>2. IsRest(f, g, n)
    BY <1>1, <2>1 DEF IsRest
  <2> QED
    BY <1>1, <2>2
<1> HIDE DEF n
<1>3. PICK m \in K : \A j \in K : m <= j
  BY <1>1, <1>2, LeastPlace
<1>4. ASSUME m # 1 PROVE FALSE
  <2>1. PICK g : IsRest(f, g, m)
    OBVIOUS
  <2>2. m \in 1..n /\ m - 1 \in 1..n
    BY <1>1, <1>4
  <2> DEFINE h == [k \in (m - 1)..n |-> IF k = m - 1 THEN Quote(f[k]) \o g[m] ELSE g[k]]
  <2>3. h = [k \in (m - 1)..n |-> IF k > n - 1 THEN <<>> ELSE Quote(f[k]) \o h[k + 1]]
    <3> SUFFICES ASSUME NEW k \in (m - 1)..n
                 PROVE  h[k] = IF k > n - 1 THEN <<>> ELSE Quote(f[k]) \o h[k + 1]
      OBVIOUS
    <3>1. ASSUME k = m - 1 PROVE h[k] = Quote(f[k]) \o h[k + 1] /\ k < n
      <4>1. h[m] = g[m] /\ k + 1 = m /\ k < n
        BY <1>1, <2>2, <3>1
      <4>2. h[k] = Quote(f[k]) \o g[m]
        BY <3>1
      <4> QED
        BY <4>1, <4>2
    <3>2. k # m - 1 => k \in m..n /\ h[k] = g[k] /\ (k < n => h[k + 1] = g[k + 1])
      BY <1>1, <2>2
    <3>3. k \in m..n => g[k] = IF k > n - 1 THEN <<>> ELSE Quote(f[k]) \o g[k + 1]
      BY <1>1, <2>1 DEF IsRest, n
    <3> QED
      BY <1>1, <2>2, <3>1, <3>2, <3>3
  <2>4. IsRest(f, h, m - 1)
    BY <1>1, <2>3 DEF IsRest, n
  <2>5. m - 1 \in K
    BY <2>2, <2>4
  <2> QED
    BY <1>1, <1>3, <2>2, <2>5
<1> QED
  BY <1>4

\* So the recursion defines it.
LEMMA RestsAre ==
  ASSUME NEW f \in Text
  PROVE  /\ Rests(f)[Len(f) + 1] = <<>>
         /\ \A k \in 1..Len(f) : Rests(f)[k] = Quote(f[k]) \o Rests(f)[k + 1]
<1> DEFINE P(g) == IsRest(f, g, 1)
<1>1. Rests(f) = CHOOSE g : P(g)
  BY Zenon DEF Rests, IsRest
<1>2. \E g : P(g)
  BY RestExists
<1>3. P(CHOOSE g : P(g))
  BY <1>2, Zenon
<1>4. IsRest(f, Rests(f), 1)
  BY <1>1, <1>3, Zenon
<1> HIDE DEF P
<1> DEFINE g == Rests(f)
           n == Len(f)
<1>5. n \in Nat
  BY LenProperties DEF Text
<1>6. g = [k \in 1..(n + 1) |-> IF k > n THEN <<>> ELSE Quote(f[k]) \o g[k + 1]]
  BY <1>4 DEF IsRest
<1> HIDE DEF g, n
<1>7. \A k \in 1..(n + 1) : g[k] = IF k > n THEN <<>> ELSE Quote(f[k]) \o g[k + 1]
  BY <1>6
<1>8. g[n + 1] = <<>>
  BY <1>5, <1>7
<1>9. ASSUME NEW k \in 1..n PROVE g[k] = Quote(f[k]) \o g[k + 1]
  <2>1. k \in 1..(n + 1) /\ ~(k > n)
    BY <1>5
  <2> QED
    BY <1>7, <2>1, Zenon
<1> QED
  BY <1>8, <1>9 DEF g, n

\* A special rune has a backslash before it, another one is as it was.
LEMMA QuoteIsText ==
  ASSUME NEW r \in Runes, NEW t \in Text
  PROVE  /\ Quote(r) \in Text /\ Quote(r) \o t \in Text
         /\ r \in {":", "\\"} => /\ Quote(r) \o t = <<"\\">> \o (<<r>> \o t)
                               /\ "\\" \in Runes
         /\ r \notin {":", "\\"} => Quote(r) \o t = <<r>> \o t
<1> DEFINE b == "\\"
<1>1. b \in Runes
  BY ScanListAssumption
<1>2. Quote(r) = IF r \in {":", "\\"} THEN <<b, r>> ELSE <<r>>
  BY DEF Quote
<1> HIDE DEF b
<1>3. <<b, r>> \in Seq(Runes) /\ <<r>> \in Seq(Runes) /\ <<b, r>> \o t = <<b>> \o (<<r>> \o t)
  BY <1>1 DEF Text
<1>4. Quote(r) \in Seq(Runes)
  BY <1>2, <1>3
<1>5. Quote(r) \o t \in Seq(Runes)
  BY <1>4, ConcatProperties DEF Text
<1> QED
  BY <1>1, <1>2, <1>3, <1>4, <1>5 DEF b, Text

LEMMA QuoteBegins ==
  ASSUME NEW r \in Runes, NEW t \in Text
  PROVE  \E q \in Runes, u \in Text : Quote(r) \o t = <<q>> \o u
<1>1. CASE r \in {":", "\\"}
  <2>1. PICK u \in Text : u = <<r>> \o t
    BY InFront
  <2>2. PICK q : q = "\\"
    OBVIOUS
  <2>3. q \in Runes /\ Quote(r) \o t = <<q>> \o u
    BY <1>1, <2>1, <2>2, QuoteIsText, Zenon
  <2> QED
    BY <2>3, Zenon
<1>2. CASE r \notin {":", "\\"}
  BY <1>2, QuoteIsText, Zenon
<1> QED
  BY <1>1, <1>2

LEMMA RestsAreText ==
  ASSUME NEW f \in Text
  PROVE  \A k \in 1..(Len(f) + 1) : Rests(f)[k] \in Text
<1> DEFINE n == Len(f) + 1
           K == {m \in 1..n : \A k \in m..n : Rests(f)[k] \in Text}
<1>1. n \in Nat \ {0} /\ Len(f) = n - 1 /\ \A k \in 1..(n - 1) : f[k] \in Runes
  BY LenProperties, ElementOfSeq DEF Text
<1>2. Rests(f)[n] = <<>> /\ \A k \in 1..(n - 1) : Rests(f)[k] = Quote(f[k]) \o Rests(f)[k + 1]
  BY <1>1, RestsAre
<1> HIDE DEF n
<1>3. <<>> \in Text
  BY DEF Text
<1>4. n \in K
  BY <1>1, <1>2, <1>3
<1>5. PICK m \in K : \A j \in K : m <= j
  BY <1>1, <1>4, LeastPlace
<1>6. ASSUME m # 1 PROVE FALSE
  <2>1. m - 1 \in 1..(n - 1) /\ m \in m..n /\ m - 1 \in 1..n
    BY <1>1, <1>6
  <2>2. Rests(f)[m - 1] \in Text
    <3>1. f[m - 1] \in Runes /\ Rests(f)[m] \in Text
      BY <1>1, <2>1
    <3>2. Rests(f)[m - 1] = Quote(f[m - 1]) \o Rests(f)[m]
      <4> DEFINE l == m - 1
      <4>1. l \in 1..(n - 1) /\ l + 1 = m
        BY <1>1, <2>1
      <4> HIDE DEF l
      <4>2. Rests(f)[l] = Quote(f[l]) \o Rests(f)[m]
        BY <1>2, <4>1
      <4> QED
        BY <4>2 DEF l
    <3> QED
      BY <3>1, <3>2, QuoteIsText
  <2>3. \A k \in (m - 1)..n : k = m - 1 \/ k \in m..n
    BY <1>1, <2>1
  <2>4. m - 1 \in K
    BY <2>1, <2>2, <2>3
  <2> QED
    BY <1>5, <2>1, <2>4
<1> QED
  BY <1>1, <1>6 DEF n
-----------------------------------------------------------------------------
(* Splitting the line of an access point, rune by rune *)

\* What a line has from behind its j-th field on.
After(f, j) ==
  IF j = 1 THEN <<":">> \o (Escaped(f[2]) \o (<<":">> \o (Escaped(f[3]) \o (<<":">> \o Escaped(f[4])))))
  ELSE IF j = 2 THEN <<":">> \o (Escaped(f[3]) \o (<<":">> \o Escaped(f[4])))
  ELSE IF j = 3 THEN <<":">> \o Escaped(f[4])
  ELSE <<>>

\* The split has taken k runes of the j-th field.
Within(f, j, k) ==
  /\ parts = SubSeq(f, 1, j - 1) /\ cur = SubSeq(f[j], 1, k)
  /\ esc => k < Len(f[j])
  /\ line = (IF esc THEN <<f[j][k + 1]>> \o Rests(f[j])[k + 2] ELSE Rests(f[j])[k + 1]) \o After(f, j)

LEMMA AfterIs ==
  ASSUME NEW f \in Seq(Text), Len(f) = 4
  PROVE  /\ \A j \in 1..4 : f[j] \in Text /\ Escaped(f[j]) \in Text /\ After(f, j) \in Text
         /\ \A j \in 1..3 : After(f, j) = <<":">> \o (Escaped(f[j + 1]) \o After(f, j + 1))
         /\ After(f, 4) = <<>>
<1>1. \A j \in 1..4 : f[j] \in Text
  BY ElementOfSeq
<1>2. \A j \in 1..4 : Escaped(f[j]) \in Text
  <2> SUFFICES ASSUME NEW j \in 1..4 PROVE Escaped(f[j]) \in Text
    OBVIOUS
  <2>1. 1 \in 1..(Len(f[j]) + 1)
    BY <1>1, LenProperties DEF Text
  <2> QED
    BY <1>1, <2>1, RestsAreText DEF Escaped
<1>3. PICK e2, e3, e4 : e2 = Escaped(f[2]) /\ e3 = Escaped(f[3]) /\ e4 = Escaped(f[4])
  OBVIOUS
<1>4. e2 \in Text /\ e3 \in Text /\ e4 \in Text /\ ":" \in Runes
  <2>1. 2 \in 1..4 /\ 3 \in 1..4 /\ 4 \in 1..4
    OBVIOUS
  <2>2. ":" \in Runes
    BY ScanListAssumption
  <2> QED
    BY <1>2, <1>3, <2>1, <2>2, Zenon
<1>5. <<":">> \o e4 \in Text /\ e4 \o <<>> = e4
  BY <1>4, InFront, Associates
<1>6. e3 \o (<<":">> \o e4) \in Text
  BY <1>4, <1>5, Associates
<1>7. <<":">> \o (e3 \o (<<":">> \o e4)) \in Text
  BY <1>4, <1>6, InFront
<1>8. e2 \o (<<":">> \o (e3 \o (<<":">> \o e4))) \in Text
  BY <1>4, <1>7, Associates
<1>9. <<":">> \o (e2 \o (<<":">> \o (e3 \o (<<":">> \o e4)))) \in Text
  BY <1>4, <1>8, InFront
<1>10. /\ After(f, 4) = <<>> /\ After(f, 3) = <<":">> \o e4
       /\ After(f, 2) = <<":">> \o (e3 \o (<<":">> \o e4))
       /\ After(f, 1) = <<":">> \o (e2 \o (<<":">> \o (e3 \o (<<":">> \o e4))))
  <2>1. 4 # 1 /\ 4 # 2 /\ 4 # 3 /\ 3 # 1 /\ 3 # 2 /\ 2 # 1
    OBVIOUS
  <2> QED
    BY <1>3, <2>1, Zenon DEF After
<1>11. \A j \in 1..4 : After(f, j) \in Text
  <2>1. <<>> \in Text
    BY DEF Text
  <2>2. After(f, 1) \in Text /\ After(f, 2) \in Text /\ After(f, 3) \in Text /\ After(f, 4) \in Text
    BY <1>5, <1>7, <1>9, <1>10, <2>1, Zenon
  <2> QED
    BY <2>2
<1>12. \A j \in 1..3 : After(f, j) = <<":">> \o (Escaped(f[j + 1]) \o After(f, j + 1))
  <2>1. After(f, 1) = <<":">> \o (Escaped(f[2]) \o After(f, 2))
    BY <1>3, <1>10, Zenon
  <2>2. After(f, 2) = <<":">> \o (Escaped(f[3]) \o After(f, 3))
    BY <1>3, <1>10, Zenon
  <2>3. After(f, 3) = <<":">> \o (Escaped(f[4]) \o After(f, 4))
    BY <1>3, <1>5, <1>10, Zenon
  <2>4. 1 + 1 = 2 /\ 2 + 1 = 3 /\ 3 + 1 = 4 /\ \A j \in 1..3 : j = 1 \/ j = 2 \/ j = 3
    OBVIOUS
  <2> QED
    BY <2>1, <2>2, <2>3, <2>4, Zenon
<1> QED
  BY <1>1, <1>2, <1>10, <1>11, <1>12

\* A text whose head is taken, as the split takes it.
LEMMA TakeRune ==
  ASSUME NEW r \in Runes, NEW t \in Text, line = <<r>> \o t,
         Rune(Head(line)), line' = Tail(line)
  PROVE  /\ line' = t
         /\ esc => parts' = parts /\ cur' = Append(cur, r) /\ esc' = FALSE
         /\ ~esc /\ r = "\\" => parts' = parts /\ cur' = cur /\ esc' = TRUE
         /\ ~esc /\ r = ":" => parts' = Append(parts, cur) /\ cur' = <<>> /\ esc' = esc
         /\ ~esc /\ r \notin {":", "\\"} => parts' = parts /\ cur' = Append(cur, r) /\ esc' = esc
<1>1. Head(line) = r /\ Tail(line) = t
  BY InFront
<1>2. Rune(r)
  BY <1>1, Zenon
<1>3. ":" # "\\"
  OBVIOUS
<1> QED
  BY <1>1, <1>2, <1>3, Zenon DEF Rune

\* Each rune taken leads further into the fields.
LEMMA FieldStep ==
  ASSUME NEW f \in Seq(Text), Len(f) = 4, NEW j \in 1..4, NEW k \in 0..Len(f[j]),
         Within(f, j, k), esc \in BOOLEAN, line # <<>>, Rune(Head(line)), line' = Tail(line)
  PROVE  esc' \in BOOLEAN /\ \E i \in 1..4 : \E m \in 0..Len(f[i]) : Within(f, i, m)'
<1> DEFINE s == f[j]
           A == After(f, j)
           R(m) == Rests(f[j])[m]
<1>1. s \in Text /\ A \in Text /\ Len(s) \in Nat
  BY AfterIs, LenProperties DEF Text
<1>2. /\ \A m \in 1..(Len(s) + 1) : R(m) \in Text
      /\ R(Len(s) + 1) = <<>> /\ \A m \in 1..Len(s) : R(m) = Quote(s[m]) \o R(m + 1)
  BY <1>1, RestsAre, RestsAreText
<1>3. /\ parts = SubSeq(f, 1, j - 1) /\ cur = SubSeq(s, 1, k)
      /\ esc => k < Len(s) /\ line = (<<s[k + 1]>> \o R(k + 2)) \o A
      /\ ~esc => line = R(k + 1) \o A
  BY Zenon DEF Within
<1>4. k < Len(s) => /\ s[k + 1] \in Runes /\ R(k + 1) = Quote(s[k + 1]) \o R(k + 2)
                    /\ R(k + 2) \in Text /\ k + 1 \in 0..Len(s)
                    /\ Append(SubSeq(s, 1, k), s[k + 1]) = SubSeq(s, 1, k + 1)
  <2> SUFFICES ASSUME k < Len(s)
               PROVE  /\ s[k + 1] \in Runes /\ R(k + 1) = Quote(s[k + 1]) \o R(k + 2)
                      /\ R(k + 2) \in Text /\ k + 1 \in 0..Len(s)
                      /\ Append(SubSeq(s, 1, k), s[k + 1]) = SubSeq(s, 1, k + 1)
    OBVIOUS
  <2>1. k + 1 \in 1..Len(s) /\ (k + 1) + 1 = k + 2 /\ k + 2 \in 1..(Len(s) + 1)
        /\ k + 1 \in 0..Len(s) /\ k \in 0..Len(s)
    BY <1>1
  <2>2. s[k + 1] \in Runes
    BY <1>1, <2>1, ElementOfSeq DEF Text
  <2>3. R(k + 1) = Quote(s[k + 1]) \o R(k + 2) /\ R(k + 2) \in Text
    BY <1>2, <2>1
  <2> QED
    BY <1>1, <2>1, <2>2, <2>3, OneMore DEF Text
<1>5. ":" \in Runes /\ "\\" \in Runes
  BY ScanListAssumption
<1> HIDE DEF A, R
\* An escaped rune is taken as it is ...
<1>6. ASSUME esc PROVE Within(f, j, k + 1)' /\ esc' \in BOOLEAN /\ k + 1 \in 0..Len(s)
  <2> DEFINE r == s[k + 1]
             t == R(k + 2) \o A
  <2>1. r \in Runes /\ R(k + 2) \in Text /\ t \in Text /\ line = <<r>> \o t
    <3>1. r \in Runes /\ R(k + 2) \in Text /\ line = (<<r>> \o R(k + 2)) \o A
      BY <1>3, <1>4, <1>6, Zenon
    <3> QED
      BY <1>1, <3>1, InFrontOf, Zenon
  <2> HIDE DEF r, t
  <2>2. line' = t /\ parts' = parts /\ cur' = Append(cur, r) /\ esc' = FALSE
    BY <1>6, <2>1, TakeRune
  <2>3. cur' = SubSeq(s, 1, k + 1) /\ k + 1 \in 0..Len(s) /\ parts' = SubSeq(f, 1, j - 1)
    BY <1>3, <1>4, <1>6, <2>2 DEF r
  <2>4. line' = Rests(f[j])[(k + 1) + 1] \o After(f, j)
    <3>1. (k + 1) + 1 = k + 2
      OBVIOUS
    <3> QED
      BY <2>2, <3>1 DEF t, R, A
  <2> QED
    BY <2>2, <2>3, <2>4, Zenon DEF Within
\* ... a special one begins with its backslash ...
<1>7. ASSUME ~esc, k < Len(s), s[k + 1] \in {":", "\\"}
      PROVE  Within(f, j, k)' /\ esc' \in BOOLEAN
  <2> DEFINE r == s[k + 1]
             t == <<r>> \o R(k + 2)
             b == "\\"
  <2>1. r \in Runes /\ R(k + 2) \in Text /\ b \in Runes
    BY <1>4, <1>5, <1>7, Zenon
  <2>2. R(k + 1) = <<b>> \o t
    BY <1>4, <1>7, <2>1, QuoteIsText, Zenon
  <2>3. t \in Text
    BY <2>1, InFront, Zenon
  <2> HIDE DEF b, t
  <2>8. t \o A \in Text /\ line = <<b>> \o (t \o A)
    <3>1. line = (<<b>> \o t) \o A
      BY <1>3, <1>7, <2>2, Zenon
    <3> QED
      BY <1>1, <2>1, <2>3, <3>1, InFrontOf, Zenon
  <2>4. line' = t \o A /\ parts' = parts /\ cur' = cur /\ esc' = TRUE
    <3> DEFINE u == t \o A
    <3>1. u \in Text /\ line = <<b>> \o u /\ b = "\\"
      BY <2>8 DEF b
    <3> HIDE DEF u
    <3>2. line' = u /\ parts' = parts /\ cur' = cur /\ esc' = TRUE
      BY <1>7, <2>1, <3>1, TakeRune
    <3> QED
      BY <3>2 DEF u
  <2>5. line' = (<<f[j][k + 1]>> \o Rests(f[j])[k + 2]) \o After(f, j)
    BY <2>4 DEF t, R, A
  <2>6. parts' = SubSeq(f, 1, j - 1) /\ cur' = SubSeq(f[j], 1, k)
    BY <1>3, <2>4
  <2> QED
    BY <1>7, <2>4, <2>5, <2>6, Zenon DEF Within
\* ... and another one is taken.
<1>8. ASSUME ~esc, k < Len(s), s[k + 1] \notin {":", "\\"}
      PROVE  Within(f, j, k + 1)' /\ esc' \in BOOLEAN /\ k + 1 \in 0..Len(s)
  <2> DEFINE r == s[k + 1]
             t == R(k + 2) \o A
  <2>1. r \in Runes /\ R(k + 2) \in Text /\ t \in Text /\ line = <<r>> \o t
    <3>1. r \in Runes /\ R(k + 2) \in Text /\ R(k + 1) = Quote(r) \o R(k + 2)
      BY <1>4, <1>8, Zenon
    <3>2. line = (<<r>> \o R(k + 2)) \o A
      BY <1>3, <1>8, <3>1, QuoteIsText, Zenon
    <3> QED
      BY <1>1, <3>1, <3>2, InFrontOf, Zenon
  <2>2. line' = t /\ parts' = parts /\ cur' = Append(cur, r) /\ esc' = esc
    <3> HIDE DEF t
    <3>1. r \in Runes /\ r \notin {":", "\\"}
      BY <1>8, <2>1
    <3> HIDE DEF r
    <3> QED
      BY <1>8, <2>1, <3>1, TakeRune
  <2>3. cur' = SubSeq(s, 1, k + 1) /\ k + 1 \in 0..Len(s) /\ parts' = SubSeq(f, 1, j - 1)
    BY <1>3, <1>4, <1>8, <2>2
  <2>4. line' = Rests(f[j])[(k + 1) + 1] \o After(f, j)
    <3>1. (k + 1) + 1 = k + 2
      OBVIOUS
    <3> QED
      BY <2>2, <3>1 DEF R, A
  <2> QED
    BY <1>8, <2>2, <2>3, <2>4, Zenon DEF Within
\* At the end of a field a colon leads to the next.
<1>9. ASSUME ~esc, k = Len(s)
      PROVE  j + 1 \in 1..4 /\ 0 \in 0..Len(f[j + 1]) /\ Within(f, j + 1, 0)' /\ esc' \in BOOLEAN
  <2>1. line = A
    <3>1. line = R(Len(s) + 1) \o A
      BY <1>3, <1>9
    <3>2. line = <<>> \o A
      BY <1>2, <3>1 DEF R
    <3> QED
      BY <1>1, <3>2, Associates
  <2>2. j \in 1..3 /\ j + 1 \in 1..4
    <3>1. A # <<>>
      BY <2>1
    <3> QED
      BY <3>1, AfterIs DEF A
  <2> DEFINE t == Escaped(f[j + 1]) \o After(f, j + 1)
  <2>3. line = <<":">> \o t /\ t \in Text /\ f[j + 1] \in Text
    <3>1. Escaped(f[j + 1]) \in Text /\ After(f, j + 1) \in Text /\ f[j + 1] \in Text
      BY <2>2, AfterIs
    <3> QED
      BY <2>1, <2>2, <3>1, AfterIs, Associates DEF A
  <2> HIDE DEF t
  <2>4. line' = t /\ parts' = Append(parts, cur) /\ cur' = <<>> /\ esc' = esc
    BY <1>5, <1>9, <2>3, TakeRune
  <2>5. parts' = SubSeq(f, 1, (j + 1) - 1)
    <3>1. cur = f[j]
      BY <1>1, <1>3, <1>9, OneMore DEF Text
    <3>2. j - 1 \in 0..Len(f) /\ j - 1 < Len(f) /\ (j - 1) + 1 = j /\ (j + 1) - 1 = j
      OBVIOUS
    <3>3. Append(SubSeq(f, 1, j - 1), f[j]) = SubSeq(f, 1, j)
      BY <3>2, OneMore
    <3> QED
      BY <1>3, <2>4, <3>1, <3>2, <3>3
  <2>6. cur' = SubSeq(f[j + 1], 1, 0) /\ 0 \in 0..Len(f[j + 1])
    <3>1. 0 \in 0..Len(f[j + 1])
      BY <2>3, LenProperties DEF Text
    <3> QED
      BY <2>3, <2>4, <3>1, OneMore DEF Text
  <2>7. line' = Rests(f[j + 1])[0 + 1] \o After(f, j + 1)
    <3>1. 0 + 1 = 1
      OBVIOUS
    <3> QED
      BY <2>4, <3>1, Zenon DEF t, Escaped
  <2> QED
    BY <1>9, <2>2, <2>4, <2>5, <2>6, <2>7, Zenon DEF Within
<1>10. k < Len(s) \/ k = Len(s)
  BY <1>1
<1>12. PICK i \in 1..4 : \E m \in 0..Len(f[i]) : Within(f, i, m)' /\ esc' \in BOOLEAN
  <2>1. CASE esc
    BY <1>6, <2>1, Zenon
  <2>2. CASE ~esc /\ k < Len(s)
    BY <1>7, <1>8, <2>2, Zenon
  <2>3. CASE ~esc /\ k = Len(s)
    BY <1>9, <2>3, Zenon
  <2> QED
    BY <1>10, <2>1, <2>2, <2>3
<1> QED
  BY <1>12

LEMMA FieldsAre ==
  ASSUME NEW ap \in AccessPoint
  PROVE  /\ Fields(ap) \in Seq(Text) /\ Len(Fields(ap)) = 4
         /\ Fields(ap)[1] = (IF ap.inUse THEN <<"*">> ELSE <<" ">>)
         /\ Fields(ap)[2] = ap.ssid /\ Fields(ap)[3] = <<Digits[ap.signal]>>
         /\ Fields(ap)[4] = ap.security
<1>1. ap.ssid \in Text /\ ap.security \in Text /\ ap.signal \in DOMAIN Digits
  BY DEF AccessPoint
<1>2. Digits[ap.signal] \in Runes /\ "*" \in Runes /\ " " \in Runes
  <2>1. /\ "0" \in Runes /\ "1" \in Runes /\ "2" \in Runes
        /\ "*" \in Runes /\ " " \in Runes
    BY ScanListAssumption
  <2>2. PICK d \in 1..3 : d = ap.signal
    BY <1>1 DEF Digits
  <2>3. Digits[1] = "0" /\ Digits[2] = "1" /\ Digits[3] = "2"
    BY DEF Digits
  <2>4. Digits[d] \in Runes
    <3>1. d = 1 \/ d = 2 \/ d = 3
      OBVIOUS
    <3> QED
      BY <2>1, <2>3, <3>1, Zenon
  <2> QED
    BY <2>1, <2>2, <2>4
<1>3. PICK a, c : a = (IF ap.inUse THEN <<"*">> ELSE <<" ">>) /\ c = <<Digits[ap.signal]>>
  OBVIOUS
<1>4. a \in Text /\ c \in Text
  <2>1. <<"*">> \in Text /\ <<" ">> \in Text
    BY <1>2, OneRune DEF Text
  <2>2. c \in Text
    BY <1>2, <1>3, OneRune DEF Text
  <2> QED
    BY <1>3, <2>1, <2>2, Zenon
<1>5. Fields(ap) = <<a, ap.ssid, c, ap.security>>
  BY <1>3, Zenon DEF Fields
<1>6. /\ Fields(ap) \in Seq(Text) /\ Len(Fields(ap)) = 4
      /\ Fields(ap)[1] = a /\ Fields(ap)[2] = ap.ssid
      /\ Fields(ap)[3] = c /\ Fields(ap)[4] = ap.security
  BY <1>1, <1>4, <1>5, FourTexts
<1> QED
  BY <1>3, <1>6, Zenon

\* A line begins with its first field and nothing taken.
LEMMA LineIs ==
  ASSUME NEW ap \in AccessPoint
  PROVE  /\ Line(ap) \in Text
         /\ Line(ap) = Rests(Fields(ap)[1])[1] \o After(Fields(ap), 1)
<1>1. Line(ap) = Escaped(Fields(ap)[1]) \o After(Fields(ap), 1)
  BY Zenon DEF Line, After
<1>2. Escaped(Fields(ap)[1]) \in Text /\ After(Fields(ap), 1) \in Text
  <2>1. PICK f : f = Fields(ap)
    OBVIOUS
  <2>2. f \in Seq(Text) /\ Len(f) = 4
    BY <2>1, FieldsAre, Zenon
  <2>3. Escaped(f[1]) \in Text /\ After(f, 1) \in Text
    <3>1. 1 \in 1..4
      OBVIOUS
    <3> QED
      BY <2>2, <3>1, AfterIs, Zenon
  <2> QED
    BY <2>1, <2>3, Zenon
<1> QED
  BY <1>1, <1>2, Associates DEF Escaped

\* At the end of the line there is nothing left of any field.
LEMMA AllTaken ==
  ASSUME NEW f \in Seq(Text), Len(f) = 4, NEW j \in 1..4, NEW k \in 0..Len(f[j]),
         Within(f, j, k), line = <<>>
  PROVE  Append(parts, cur) = f
<1> DEFINE s == f[j]
           A == After(f, j)
           R(m) == Rests(f[j])[m]
<1>1. s \in Text /\ A \in Text /\ Len(s) \in Nat
  BY AfterIs, LenProperties DEF Text
<1>2. /\ \A m \in 1..(Len(s) + 1) : R(m) \in Text
      /\ R(Len(s) + 1) = <<>> /\ \A m \in 1..Len(s) : R(m) = Quote(s[m]) \o R(m + 1)
  BY <1>1, RestsAre, RestsAreText
<1>3. /\ parts = SubSeq(f, 1, j - 1) /\ cur = SubSeq(s, 1, k)
      /\ esc => k < Len(s) /\ line = (<<s[k + 1]>> \o R(k + 2)) \o A
      /\ ~esc => line = R(k + 1) \o A
  BY Zenon DEF Within
<1> HIDE DEF A, R
<1>4. ASSUME k < Len(s) PROVE FALSE
  <2>1. k + 1 \in 1..Len(s) /\ (k + 1) + 1 = k + 2 /\ k + 2 \in 1..(Len(s) + 1)
    BY <1>1, <1>4
  <2>2. s[k + 1] \in Runes /\ R(k + 2) \in Text /\ R(k + 1) = Quote(s[k + 1]) \o R(k + 2)
    BY <1>1, <1>2, <2>1, ElementOfSeq DEF Text
  <2>3. PICK r \in Runes, t \in Text : R(k + 1) = <<r>> \o t
    <3>1. PICK q \in Runes, u \in Text : q = s[k + 1] /\ u = R(k + 2)
      BY <2>2
    <3>2. \E r \in Runes, t \in Text : Quote(q) \o u = <<r>> \o t
      BY QuoteBegins
    <3> QED
      BY <2>2, <3>1, <3>2, Zenon
  <2>4. CASE esc
    <3>1. line = (<<s[k + 1]>> \o R(k + 2)) \o A
      BY <1>3, <2>4
    <3> QED
      BY <1>1, <2>2, <3>1, NotEmpty, Zenon
  <2>5. CASE ~esc
    <3>1. line = (<<r>> \o t) \o A
      BY <1>3, <2>3, <2>5, Zenon
    <3> QED
      BY <1>1, <3>1, NotEmpty, Zenon
  <2> QED
    BY <2>4, <2>5
<1>5. k = Len(s) /\ ~esc
  BY <1>1, <1>3, <1>4
<1>6. A = <<>>
  <2>1. line = <<>> \o A
    BY <1>2, <1>3, <1>5
  <2> QED
    BY <1>1, <2>1, EmptyText, Zenon
<1>7. j = 4
  <2>1. ASSUME j \in 1..3 PROVE FALSE
    <3>1. j + 1 \in 1..4
      BY <2>1
    <3>2. PICK t \in Text : A = <<":">> \o t
      <4>1. /\ Escaped(f[j + 1]) \in Text /\ After(f, j + 1) \in Text
            /\ A = <<":">> \o (Escaped(f[j + 1]) \o After(f, j + 1))
        BY <2>1, <3>1, AfterIs, Zenon DEF A
      <4> QED
        BY <4>1, Associates, Zenon
    <3>3. ":" \in Runes
      BY ScanListAssumption
    <3> QED
      BY <1>6, <3>2, <3>3, InFront, Zenon
  <2> QED
    BY <2>1
<1>8. cur = f[4]
  BY <1>1, <1>3, <1>5, <1>7, OneMore DEF Text
<1>9. parts = SubSeq(f, 1, 3) /\ 3 \in 0..Len(f) /\ 3 < Len(f) /\ 3 + 1 = 4
  BY <1>3, <1>7
<1> QED
  BY <1>8, <1>9, OneMore
-----------------------------------------------------------------------------
(* Splitting another line *)

\* In another line, each part is behind a colon.
WithinNoise(l) ==
  LET taken == 1..(Len(l) - Len(line))
  IN  /\ line \in Text /\ Len(line) <= Len(l)
      /\ \A i \in DOMAIN line : line[i] = l[Len(l) - Len(line) + i]
      /\ parts \in Seq(Text) /\ Len(parts) <= 2
      /\ Len(parts) = 1 => \E i \in taken : l[i] = ":"
      /\ Len(parts) = 2 => \E i, j \in taken : i < j /\ l[i] = ":" /\ l[j] = ":"


LEMMA NoiseStep ==
  ASSUME NEW l \in Noise, WithinNoise(l), esc \in BOOLEAN, cur \in Text,
         line # <<>>, Rune(Head(line)), line' = Tail(line)
  PROVE  WithinNoise(l)' /\ esc' \in BOOLEAN /\ cur' \in Text
<1> DEFINE n == Len(l)
           m == Len(line)
           r == Head(line)
<1>1. /\ n \in Nat /\ DOMAIN l = 1..n /\ \A i \in 1..n : l[i] \in Runes
      /\ m \in Nat /\ m <= n /\ m > 0 /\ line \in Seq(Runes)
      /\ \A i \in 1..m : line[i] = l[(n - m) + i]
      /\ parts \in Seq(Text) /\ Len(parts) \in Nat /\ Len(parts) <= 2
  <2>1. l \in Seq(Runes) /\ line \in Seq(Runes) /\ parts \in Seq(Text) /\ m <= n
        /\ Len(parts) <= 2
    BY ScanListAssumption DEF WithinNoise, Text
  <2>2. n \in Nat /\ m \in Nat /\ DOMAIN l = 1..n /\ DOMAIN line = 1..m /\ Len(parts) \in Nat
    BY <2>1, LenProperties
  <2>3. m > 0
    BY <2>1, <2>2, EmptySeq
  <2>4. \A i \in 1..n : l[i] \in Runes
    BY <2>1, ElementOfSeq
  <2>5. \A i \in 1..m : line[i] = l[(n - m) + i]
    BY <2>2 DEF WithinNoise
  <2> QED
    BY <2>1, <2>2, <2>3, <2>4, <2>5
<1>2. /\ Len(parts) = 1 => \E i \in 1..(n - m) : l[i] = ":"
      /\ Len(parts) = 2 => \E i, j \in 1..(n - m) : i < j /\ l[i] = ":" /\ l[j] = ":"
  BY DEF WithinNoise
<1>3. /\ line' \in Seq(Runes) /\ Len(line') = m - 1
      /\ \A i \in 1..(m - 1) : line'[i] = line[i + 1]
      /\ r = line[1] /\ r \in Runes
  BY <1>1
<1>4. DOMAIN line' = 1..(m - 1)
  BY <1>3, LenProperties
<1>5. \/ parts' = parts
      \/ r = ":" /\ parts' = Append(parts, cur)
  BY DEF Rune
<1>6. esc' \in BOOLEAN /\ cur' \in Text
  <2>1. Append(cur, r) \in Text /\ <<>> \in Text
    BY <1>3, AppendProperties, EmptySeq DEF Text
  <2> HIDE DEF r
  <2>2. Rune(r)
    BY DEF r
  <2> QED
    BY <2>1, <2>2, Zenon DEF Rune
<1> DEFINE p == (n - m) + 1
<1>7. p \in 1..n /\ r = l[p] /\ n - (m - 1) = p /\ \A i \in 1..(n - m) : i \in 1..p /\ i < p /\ i \in 1..n
  BY <1>1, <1>3
<1>8. \A i \in 1..(m - 1) : line'[i] = l[p + i]
  <2> SUFFICES ASSUME NEW i \in 1..(m - 1) PROVE line'[i] = l[p + i]
    OBVIOUS
  <2>1. i + 1 \in 1..m /\ (n - m) + (i + 1) = p + i
    BY <1>1
  <2> QED
    BY <1>1, <1>3, <2>1
<1> HIDE DEF n, m, r, p
<1>9. /\ parts' \in Seq(Text) /\ Len(parts') <= 2
      /\ Len(parts') = 1 => \E i \in 1..p : l[i] = ":"
      /\ Len(parts') = 2 => \E i, j \in 1..p : i < j /\ l[i] = ":" /\ l[j] = ":"
  <2>1. CASE parts' = parts
    BY <1>1, <1>2, <1>7, <2>1
  <2>2. CASE r = ":" /\ parts' = Append(parts, cur)
    <3>1. parts' \in Seq(Text) /\ Len(parts') = Len(parts) + 1
      BY <1>1, <2>2, AppendProperties
    <3>2. p \in 1..p
      BY <1>1, <1>7
    <3>3. Len(parts) # 2
      <4> SUFFICES ASSUME Len(parts) = 2 PROVE FALSE
        OBVIOUS
      <4>1. PICK i, j \in 1..(n - m) : i < j /\ l[i] = ":" /\ l[j] = ":"
        BY <1>2
      <4>2. i \in DOMAIN l /\ j \in DOMAIN l /\ p \in DOMAIN l /\ j < p /\ l[p] = ":"
        BY <1>1, <1>7, <2>2
      <4> QED
        BY <4>1, <4>2, ScanListAssumption
    <3>4. Len(parts') <= 2 /\ (Len(parts') = 2 => Len(parts) = 1)
      <4>1. PICK c : c = Len(parts)
        OBVIOUS
      <4>2. c \in Nat /\ c <= 2 /\ c # 2 /\ Len(parts') = c + 1
        BY <1>1, <3>1, <3>3, <4>1, Zenon
      <4> QED
        BY <4>1, <4>2
    <3>5. ASSUME Len(parts') = 1 PROVE \E i \in 1..p : l[i] = ":"
      BY <1>7, <2>2, <3>2
    <3>6. ASSUME Len(parts') = 2 PROVE \E i, j \in 1..p : i < j /\ l[i] = ":" /\ l[j] = ":"
      <4>1. PICK i \in 1..(n - m) : l[i] = ":"
        BY <1>2, <3>4, <3>6
      <4>2. i \in 1..p /\ i < p /\ l[p] = ":"
        BY <1>7, <2>2
      <4> QED
        BY <3>2, <4>1, <4>2
    <3> QED
      BY <3>1, <3>4, <3>5, <3>6
  <2> QED
    BY <1>5, <2>1, <2>2
<1>10. Len(line') \in Nat /\ Len(line') <= n /\ n - Len(line') = p /\ DOMAIN line' = 1..(m - 1)
  BY <1>1, <1>3, <1>4, <1>7
<1> QED
  BY <1>3, <1>6, <1>8, <1>9, <1>10 DEF WithinNoise, Text, n
-----------------------------------------------------------------------------
(* The inductive invariant: which lines are to come, how far the split of    *)
(* the one in hand is, and which rows those before it have.                  *)

\* The line of nmcli's list that was read last; 0 is one before the list.
LastRead == Len(listed) - Len(lines)

LinesInv ==
  /\ listed \in Seq(AccessPoints) /\ lines \in Seq(Text) /\ Len(lines) <= Len(listed) + 1
  /\ \A k \in DOMAIN lines : IF LastRead + k = 0 THEN lines[k] \in Noise
                                               ELSE lines[k] = Line(listed[LastRead + k])

SplitInv ==
  stage = "split" =>
    /\ LastRead \in 0..Len(listed) /\ esc \in BOOLEAN
    /\ IF LastRead = 0
       THEN cur \in Text /\ \E l \in Noise : WithinNoise(l)
       ELSE \E j \in 1..4 : \E k \in 0..Len(Fields(listed[LastRead])[j]) :
              Within(Fields(listed[LastRead]), j, k)

\* Each network among the first h of the list has one row, that of its first
\* access point.
IsFirst(j) == \A i \in 1..(j - 1) : listed[i].ssid # listed[j].ssid

RowsAre(h) ==
  /\ nets \in Seq(AccessPoint)
  /\ \A k \in DOMAIN nets : \E j \in 1..h : nets[k] = listed[j] /\ IsFirst(j)
  /\ \A j, k \in DOMAIN nets : j # k => nets[j].ssid # nets[k].ssid
  /\ \A k \in DOMAIN nets : nets[k].ssid \in seen
  /\ \A s \in seen : s # <<>> /\ \E k \in DOMAIN nets : nets[k].ssid = s
  /\ \A j \in 1..h : listed[j].ssid # <<>> => listed[j].ssid \in seen

RowsInv == RowsAre(IF stage = "split" THEN LastRead - 1 ELSE LastRead)

SortedInv ==
  stage = "done" =>
    lines = <<>> /\ \A j, k \in DOMAIN nets : j < k => ~Stronger(nets[k], nets[j])

Inv == LinesInv /\ SplitInv /\ RowsInv /\ SortedInv

\* Arithmetic of the place in the list.
LEMMA Places ==
  ASSUME LinesInv
  PROVE  /\ Len(listed) \in Nat /\ Len(lines) \in Nat /\ LastRead \in -1..Len(listed)
         /\ DOMAIN listed = 1..Len(listed) /\ DOMAIN lines = 1..Len(lines)
         /\ \A j \in 1..Len(listed) : listed[j] \in AccessPoint
<1>1. listed \in Seq(AccessPoints) /\ lines \in Seq(Text) /\ Len(lines) <= Len(listed) + 1
  BY DEF LinesInv
<1>2. Len(listed) \in Nat /\ Len(lines) \in Nat
      /\ DOMAIN listed = 1..Len(listed) /\ DOMAIN lines = 1..Len(lines)
  BY <1>1, LenProperties
<1>3. \A j \in 1..Len(listed) : listed[j] \in AccessPoint
  BY <1>1, ElementOfSeq, ScanListAssumption
<1> QED
  BY <1>1, <1>2, <1>3 DEF LastRead

\* nmcli's lines, with or without a warning in front.
LEMMA InitInv == Init => Inv
<1> SUFFICES ASSUME Init PROVE Inv
  OBVIOUS
<1>1. listed \in Seq(AccessPoints)
  <2>1. PICK n \in 0..MaxListed : listed \in [1..n -> AccessPoints]
    BY Zenon DEF Init, Lists
  <2>2. MaxListed \in Nat
    BY ScanListAssumption
  <2>3. n \in Nat
    BY <2>2
  <2> QED
    BY <2>1, <2>3
<1> DEFINE n == Len(listed)
           all == [k \in DOMAIN listed |-> Line(listed[k])]
<1>2. n \in Nat /\ DOMAIN listed = 1..n /\ \A k \in 1..n : listed[k] \in AccessPoint
  BY <1>1, LenProperties, ElementOfSeq, ScanListAssumption
<1>3. \A k \in 1..n : Line(listed[k]) \in Text
  BY <1>2, LineIs
<1>4. all \in Seq(Text) /\ Len(all) = n /\ \A k \in 1..n : all[k] = Line(listed[k])
  BY <1>2, <1>3
<1>5. PICK before \in Noise \cup {<<>>} :
        lines = (IF before = <<>> THEN <<>> ELSE <<before>>) \o all
  BY DEF Init
<1> HIDE DEF n, all
<1>6. LinesInv
  <2>1. CASE before = <<>>
    <3>1. lines = all
      BY <1>4, <1>5, <2>1
    <3>2. LastRead = 0 /\ DOMAIN lines = 1..n
      BY <1>2, <1>4, <3>1, LenProperties DEF LastRead, n
    <3>3. \A k \in DOMAIN lines : LastRead + k = k /\ k # 0 /\ lines[k] = Line(listed[k])
      BY <1>2, <1>4, <3>1, <3>2
    <3>4. Len(lines) <= Len(listed) + 1
      BY <1>2, <1>4, <3>1 DEF n
    <3> QED
      BY <1>1, <1>4, <3>1, <3>3, <3>4, Zenon DEF LinesInv
  <2>2. CASE before # <<>>
    <3>1. before \in Noise /\ before \in Text /\ lines = <<before>> \o all
      BY <1>5, <2>2, ScanListAssumption
    <3>2. lines \in Seq(Text) /\ Len(lines) = n + 1 /\ lines[1] = before
          /\ \A k \in 1..n : lines[k + 1] = all[k]
      BY <1>2, <1>4, <3>1
    <3>3. LastRead = -1 /\ DOMAIN lines = 1..(n + 1)
      BY <1>2, <3>2, LenProperties DEF LastRead, n
    <3>4. ASSUME NEW k \in DOMAIN lines
          PROVE  IF LastRead + k = 0 THEN lines[k] \in Noise ELSE lines[k] = Line(listed[LastRead + k])
      <4>1. CASE k = 1
        <5>1. LastRead + k = 0
          BY <3>3, <4>1
        <5> QED
          BY <3>1, <3>2, <4>1, <5>1
      <4>2. CASE k # 1
        <5>1. k - 1 \in 1..n /\ (k - 1) + 1 = k /\ LastRead + k = k - 1 /\ k - 1 # 0
          BY <1>2, <3>3, <4>2
        <5>2. lines[k] = Line(listed[k - 1])
          BY <1>4, <3>2, <5>1
        <5> QED
          BY <5>1, <5>2, Zenon
      <4> QED
        BY <4>1, <4>2
    <3>5. Len(lines) <= Len(listed) + 1
      BY <1>2, <3>2 DEF n
    <3> QED
      BY <1>1, <3>2, <3>4, <3>5, Zenon DEF LinesInv
  <2> QED
    BY <2>1, <2>2
<1>7. SplitInv /\ SortedInv
  BY DEF Init, SplitInv, SortedInv
<1>8. RowsInv
  <2>1. nets = <<>> /\ seen = {} /\ stage # "split" /\ LastRead <= 0
    <3>1. LastRead <= 0
      BY <1>2, <1>4, <1>5, <1>6, LenProperties DEF LastRead, n
    <3> QED
      BY <3>1 DEF Init
  <2>2. LastRead \in -1..Len(listed)
    BY <1>6, Places
  <2>3. nets \in Seq(AccessPoint) /\ DOMAIN nets = {} /\ 1..LastRead = {}
    BY <2>1, <2>2
  <2> QED
    BY <2>1, <2>3 DEF RowsInv, RowsAre
<1> QED
  BY <1>6, <1>7, <1>8 DEF Inv

\* A line with a name adds a row, if the network has none ...
LEMMA KeepStep ==
  ASSUME NEW h \in Nat, h + 1 \in 1..Len(listed), NEW row \in AccessPoint,
         row = listed[h + 1], row.ssid # <<>>,
         RowsAre(h), Keep(row), listed' = listed
  PROVE  RowsAre(h + 1)'
<1>1. /\ nets \in Seq(AccessPoint)
      /\ \A k \in DOMAIN nets : \E j \in 1..h : nets[k] = listed[j] /\ IsFirst(j)
      /\ \A j, k \in DOMAIN nets : j # k => nets[j].ssid # nets[k].ssid
      /\ \A k \in DOMAIN nets : nets[k].ssid \in seen
      /\ \A s \in seen : s # <<>> /\ \E k \in DOMAIN nets : nets[k].ssid = s
      /\ \A j \in 1..h : listed[j].ssid # <<>> => listed[j].ssid \in seen
  BY Zenon DEF RowsAre
<1>2. \A j \in 1..(h + 1) : j \in 1..h \/ j = h + 1
  OBVIOUS
<1>3. \A j \in 1..h : j \in 1..(h + 1) /\ j # h + 1
  OBVIOUS
<1>4. \A j : IsFirst(j)' <=> IsFirst(j)
  BY Zenon DEF IsFirst
<1>5. CASE row.ssid \in seen
  <2>1. seen' = seen /\ nets' = nets
    BY <1>5 DEF Keep, listVars
  <2>2. \A j \in 1..(h + 1) : listed[j].ssid # <<>> => listed[j].ssid \in seen
    BY <1>1, <1>2, <1>5, Zenon
  <2> QED
    BY <1>1, <1>3, <1>4, <2>1, <2>2, Zenon DEF RowsAre
<1>6. CASE row.ssid \notin seen
  <2>1. seen' = seen \cup {row.ssid} /\ nets' = Append(nets, row)
    BY <1>6, Zenon DEF Keep
  <2> DEFINE n == Len(nets)
  <2>2. n \in Nat /\ DOMAIN nets = 1..n
    BY <1>1, LenProperties
  <2>3. /\ nets' \in Seq(AccessPoint) /\ DOMAIN nets' = 1..(n + 1)
        /\ nets'[n + 1] = row /\ \A k \in 1..n : nets'[k] = nets[k]
    BY <1>1, <2>1, <2>2
  <2> HIDE DEF n
  <2>4. \A k \in 1..(n + 1) : k \in 1..n \/ k = n + 1
    BY <2>2
  <2>5. \A k \in 1..n : k \in 1..(n + 1) /\ k # n + 1
    BY <2>2
  <2>6. n + 1 \in 1..(n + 1) /\ h + 1 \in 1..(h + 1)
    BY <2>2
  <2>7. IsFirst(h + 1)
    <3>1. (h + 1) - 1 = h
      OBVIOUS
    <3>2. \A i \in 1..h : listed[i].ssid # listed[h + 1].ssid
      BY <1>1, <1>6, Zenon
    <3> QED
      BY <3>1, <3>2 DEF IsFirst
  <2>8. \A k \in DOMAIN nets' : \E j \in 1..(h + 1) : nets'[k] = listed[j] /\ IsFirst(j)
    BY <1>1, <1>3, <2>2, <2>3, <2>4, <2>6, <2>7, Zenon
  <2>9. \A j, k \in DOMAIN nets' : j # k => nets'[j].ssid # nets'[k].ssid
    <3>1. \A k \in 1..n : nets[k].ssid # row.ssid
      BY <1>1, <1>6, <2>2, Zenon
    <3>2. \A j, k \in 1..n : j # k => nets[j].ssid # nets[k].ssid
      BY <1>1, <2>2, Zenon
    <3> SUFFICES ASSUME NEW j \in 1..(n + 1), NEW k \in 1..(n + 1), j # k
                 PROVE  nets'[j].ssid # nets'[k].ssid
      BY <2>3, Zenon
    <3>3. CASE j = n + 1
      BY <2>3, <2>4, <3>1, <3>3, Zenon
    <3>4. CASE k = n + 1
      BY <2>3, <2>4, <3>1, <3>4, Zenon
    <3>5. CASE j \in 1..n /\ k \in 1..n
      BY <2>3, <3>2, <3>5, Zenon
    <3> QED
      BY <2>4, <3>3, <3>4, <3>5, Zenon
  <2>10. \A k \in DOMAIN nets' : nets'[k].ssid \in seen'
    <3> SUFFICES ASSUME NEW k \in 1..(n + 1) PROVE nets'[k].ssid \in seen'
      BY <2>3, Zenon
    <3>1. CASE k = n + 1
      BY <2>1, <2>3, <3>1
    <3>2. CASE k \in 1..n
      BY <1>1, <2>1, <2>2, <2>3, <3>2
    <3> QED
      BY <2>4, <3>1, <3>2, Zenon
  <2>11. \A s \in seen' : s # <<>> /\ \E k \in DOMAIN nets' : nets'[k].ssid = s
    <3> SUFFICES ASSUME NEW s \in seen'
                 PROVE  s # <<>> /\ \E k \in DOMAIN nets' : nets'[k].ssid = s
      OBVIOUS
    <3>1. CASE s \in seen
      BY <1>1, <2>2, <2>3, <2>5, <3>1, Zenon
    <3>2. CASE s = row.ssid
      BY <2>3, <2>6, <3>2, Zenon
    <3>3. s \in seen \/ s = row.ssid
      BY <2>1
    <3> QED
      BY <3>1, <3>2, <3>3, Zenon
  <2>12. \A j \in 1..(h + 1) : listed[j].ssid # <<>> => listed[j].ssid \in seen'
    <3>1. seen \subseteq seen' /\ row.ssid \in seen'
      BY <2>1
    <3> QED
      BY <1>1, <1>2, <3>1
  <2> QED
    BY <1>4, <2>3, <2>8, <2>9, <2>10, <2>11, <2>12, Zenon DEF RowsAre
<1> QED
  BY <1>5, <1>6

\* ... and one without a name adds none.
LEMMA SkipStep ==
  ASSUME NEW h \in Nat, listed[h + 1].ssid = <<>>, RowsAre(h),
         nets' = nets, seen' = seen, listed' = listed
  PROVE  RowsAre(h + 1)'
<1>1. \A j \in 1..(h + 1) : j \in 1..h \/ j = h + 1
  OBVIOUS
<1>2. \A j \in 1..h : j \in 1..(h + 1)
  OBVIOUS
<1>3. \A j : IsFirst(j)' <=> IsFirst(j)
  BY Zenon DEF IsFirst
<1> QED
  BY <1>1, <1>2, <1>3, Zenon DEF RowsAre

LEMMA SignalIs ==
  ASSUME NEW s \in DOMAIN Digits
  PROVE  Atoi(<<Digits[s]>>) = s
<1>1. Digits[1] = "0" /\ Digits[2] = "1" /\ Digits[3] = "2" /\ DOMAIN Digits = {1, 2, 3}
  BY DEF Digits
<1>2. \A d \in DOMAIN Digits : <<Digits[s]>> = <<Digits[d]>> => d = s
  <2> SUFFICES ASSUME NEW d \in DOMAIN Digits, <<Digits[s]>> = <<Digits[d]>> PROVE d = s
    OBVIOUS
  <2>1. <<Digits[s]>>[1] = <<Digits[d]>>[1]
    OBVIOUS
  <2>2. Digits[s] = Digits[d]
    BY <2>1
  <2> QED
    BY <1>1, <2>2
<1> QED
  BY <1>2 DEF Atoi

\* The row of a line that was split is the access point.
LEMMA RowIs ==
  ASSUME NEW ap \in AccessPoint, Split = Fields(ap)
  PROVE  /\ Len(Split) = 4 /\ Split[2] = ap.ssid
         /\ [inUse |-> Split[1] = <<"*">>, ssid |-> Split[2],
             signal |-> Atoi(Split[3]), security |-> Split[4]] = ap
<1>1. /\ Len(Split) = 4 /\ Split[1] = (IF ap.inUse THEN <<"*">> ELSE <<" ">>)
      /\ Split[2] = ap.ssid /\ Split[3] = <<Digits[ap.signal]>> /\ Split[4] = ap.security
  BY FieldsAre
<1>2. (Split[1] = <<"*">>) = ap.inUse
  <2>1. <<"*">>[1] = "*" /\ <<" ">>[1] = " " /\ "*" # " "
    OBVIOUS
  <2>2. <<"*">> # <<" ">>
    BY <2>1, Zenon
  <2>3. ap.inUse \in BOOLEAN
    BY DEF AccessPoint
  <2> QED
    BY <1>1, <2>2, <2>3, Zenon
<1>3. Atoi(Split[3]) = ap.signal
  BY <1>1, SignalIs DEF AccessPoint
<1>4. ap = [inUse |-> ap.inUse, ssid |-> ap.ssid, signal |-> ap.signal, security |-> ap.security]
  BY DEF AccessPoint
<1> QED
  BY <1>1, <1>2, <1>3, <1>4, Zenon

LEMMA RowsStay ==
  ASSUME NEW h, RowsAre(h), listed' = listed, nets' = nets, seen' = seen
  PROVE  RowsAre(h)'
<1>1. \A j : IsFirst(j)' <=> IsFirst(j)
  BY Zenon DEF IsFirst
<1> QED
  BY <1>1, Zenon DEF RowsAre

\* The output begins: nothing is read yet.
LEMMA ScanStep ==
  ASSUME Inv, ScanFails \/ ScanReturns
  PROVE  Inv'
<1>1. /\ stage # "split" /\ stage' # "split" /\ stage' # "done"
      /\ listed' = listed /\ lines' = lines /\ nets' = nets /\ seen' = seen
  BY DEF ScanFails, ScanReturns, listVars
<1>2. LastRead' = LastRead
  BY <1>1 DEF LastRead
<1>3. LinesInv' /\ SplitInv' /\ SortedInv'
  BY <1>1, <1>2 DEF Inv, LinesInv, SplitInv, SortedInv
<1>4. PICK h : h = LastRead
  OBVIOUS
<1>5. RowsAre(h)
  BY <1>1, <1>4 DEF Inv, RowsInv
<1>6. RowsAre(h)'
  BY <1>1, <1>5, RowsStay, Zenon
<1>7. RowsInv'
  BY <1>1, <1>2, <1>4, <1>6 DEF RowsInv
<1> QED
  BY <1>3, <1>7 DEF Inv

\* A line is taken, and no rune of it.
LEMMA ReadStep == Inv /\ ReadLine => Inv'
<1> SUFFICES ASSUME Inv, ReadLine PROVE Inv'
  OBVIOUS
<1>1. /\ stage = "next" /\ lines # <<>> /\ stage' = "split" /\ line' = Head(lines)
      /\ lines' = Tail(lines) /\ parts' = <<>> /\ cur' = <<>> /\ esc' = FALSE
      /\ listed' = listed /\ nets' = nets /\ seen' = seen
  BY DEF ReadLine, listVars
<1> DEFINE n == Len(listed)
           m == Len(lines)
           h == LastRead
<1>2. /\ n \in Nat /\ m \in Nat /\ m > 0 /\ m <= n + 1 /\ h = n - m
      /\ lines \in Seq(Text) /\ DOMAIN lines = 1..m /\ listed \in Seq(AccessPoints)
      /\ \A j \in 1..n : listed[j] \in AccessPoint
  BY <1>1, Places, EmptySeq DEF Inv, LinesInv, LastRead
<1>3. \A k \in 1..m : IF h + k = 0 THEN lines[k] \in Noise ELSE lines[k] = Line(listed[h + k])
  BY <1>2, Zenon DEF Inv, LinesInv
<1>4. /\ lines' \in Seq(Text) /\ Len(lines') = m - 1 /\ line' = lines[1]
      /\ \A k \in 1..(m - 1) : lines'[k] = lines[k + 1]
  BY <1>1, <1>2
<1>5. DOMAIN lines' = 1..(m - 1)
  BY <1>4, LenProperties
<1>6. LastRead' = h + 1 /\ h + 1 \in 0..n
  BY <1>1, <1>2, <1>4 DEF LastRead
<1> HIDE DEF n, m, h
<1>7. LinesInv'
  <2>1. ASSUME NEW k \in 1..(m - 1)
        PROVE  IF (h + 1) + k = 0 THEN lines'[k] \in Noise ELSE lines'[k] = Line(listed[(h + 1) + k])
    <3>1. k + 1 \in 1..m /\ h + (k + 1) = (h + 1) + k
      BY <1>2
    <3> QED
      BY <1>3, <1>4, <3>1, Zenon
  <2>2. listed' \in Seq(AccessPoints) /\ Len(lines') <= Len(listed') + 1
    BY <1>1, <1>2, <1>4 DEF n
  <2> QED
    BY <1>1, <1>4, <1>5, <1>6, <2>1, <2>2, Zenon DEF LinesInv
<1>8. IF h + 1 = 0 THEN line' \in Noise
                   ELSE h + 1 \in 1..n /\ line' = Line(listed[h + 1])
  <2>1. 1 \in 1..m
    BY <1>2
  <2>2. h + 1 # 0 => h + 1 \in 1..n
    BY <1>2, <1>6
  <2> QED
    BY <1>3, <1>4, <2>1, <2>2, Zenon
<1>9. SplitInv'
  <2>1. CASE h + 1 = 0
    <3>1. line' \in Noise /\ line' \in Text
      BY <1>8, <2>1, ScanListAssumption
    <3>2. Len(line') \in Nat /\ DOMAIN line' = 1..Len(line')
      BY <3>1, LenProperties DEF Text
    <3>3. PICK l \in Noise : l = line'
      BY <3>1
    <3>4. parts' \in Seq(Text) /\ Len(parts') = 0 /\ cur' \in Text
      BY <1>1, EmptySeq DEF Text
    <3>5. \A i \in DOMAIN line' : Len(l) - Len(line') + i = i
      BY <3>2, <3>3
    <3>6. Len(line') <= Len(l)
      BY <3>2, <3>3
    <3>7. WithinNoise(l)'
      BY <3>1, <3>3, <3>4, <3>5, <3>6 DEF WithinNoise
    <3>8. LastRead' = 0 /\ LastRead' \in 0..Len(listed') /\ esc' \in BOOLEAN
      BY <1>1, <1>2, <1>6, <2>1 DEF n
    <3> QED
      BY <3>4, <3>7, <3>8 DEF SplitInv
  <2>2. CASE h + 1 # 0
    <3>1. PICK ap \in AccessPoint : ap = listed[h + 1] /\ line' = Line(ap)
      BY <1>2, <1>8, <2>2
    <3>2. PICK f : f = Fields(ap)
      OBVIOUS
    <3>3. f \in Seq(Text) /\ Len(f) = 4 /\ line' = Rests(f[1])[1] \o After(f, 1)
      BY <3>1, <3>2, FieldsAre, LineIs, Zenon
    <3>4. f[1] \in Text
      <4>1. 1 \in 1..4
        OBVIOUS
      <4> QED
        BY <3>3, <4>1, AfterIs
    <3>5. 0 \in 0..Len(f[1]) /\ 1 \in 1..4 /\ 0 + 1 = 1 /\ 1 - 1 = 0
      BY <3>4, LenProperties DEF Text
    <3>6. SubSeq(f, 1, 0) = <<>> /\ SubSeq(f[1], 1, 0) = <<>>
      BY <3>3, <3>4, <3>5, OneMore DEF Text
    <3>7. Within(f, 1, 0)'
      BY <1>1, <3>3, <3>5, <3>6, Zenon DEF Within
    <3>8. /\ LastRead' # 0 /\ LastRead' \in 0..Len(listed') /\ esc' \in BOOLEAN
          /\ Fields(listed'[LastRead']) = f
      BY <1>1, <1>6, <2>2, <3>1, <3>2 DEF n
    <3> QED
      BY <3>5, <3>7, <3>8, Zenon DEF SplitInv
  <2> QED
    BY <2>1, <2>2
<1>10. RowsInv'
  <2>1. PICK g : g = h
    OBVIOUS
  <2>2. RowsAre(g)
    BY <1>1, <2>1 DEF Inv, RowsInv, h
  <2>3. RowsAre(g)'
    BY <1>1, <2>2, RowsStay, Zenon
  <2>4. LastRead' - 1 = g
    BY <1>2, <1>6, <2>1
  <2> QED
    BY <1>1, <2>3, <2>4 DEF RowsInv
<1>11. SortedInv'
  BY <1>1 DEF SortedInv
<1> QED
  BY <1>7, <1>9, <1>10, <1>11 DEF Inv

\* A rune is taken.
LEMMA RuneStep == Inv /\ splitNmcliLine => Inv'
<1> SUFFICES ASSUME Inv, splitNmcliLine PROVE Inv'
  OBVIOUS
<1>1. /\ stage = "split" /\ stage' = "split" /\ line # <<>> /\ line' = Tail(line)
      /\ Rune(Head(line)) /\ listed' = listed /\ lines' = lines
      /\ nets' = nets /\ seen' = seen
  BY DEF splitNmcliLine, listVars
<1>2. LastRead' = LastRead
  BY <1>1 DEF LastRead
<1>3. LinesInv'
  BY <1>1, <1>2 DEF Inv, LinesInv
<1>4. RowsInv' /\ SortedInv'
  <2>1. PICK h : h = LastRead - 1
    OBVIOUS
  <2>2. RowsAre(h)
    BY <1>1, <2>1 DEF Inv, RowsInv
  <2>3. RowsAre(h)'
    BY <1>1, <2>2, RowsStay, Zenon
  <2> QED
    BY <1>1, <1>2, <2>1, <2>3 DEF RowsInv, SortedInv
<1>5. /\ LastRead \in 0..Len(listed) /\ esc \in BOOLEAN
      /\ IF LastRead = 0
         THEN cur \in Text /\ \E l \in Noise : WithinNoise(l)
         ELSE \E j \in 1..4 : \E k \in 0..Len(Fields(listed[LastRead])[j]) :
                Within(Fields(listed[LastRead]), j, k)
  BY <1>1 DEF Inv, SplitInv
<1>6. SplitInv'
  <2>1. CASE LastRead = 0
    <3>1. PICK l \in Noise : WithinNoise(l)
      BY <1>5, <2>1
    <3>2. WithinNoise(l)' /\ esc' \in BOOLEAN /\ cur' \in Text
      BY <1>1, <1>5, <2>1, <3>1, NoiseStep
    <3> QED
      BY <1>1, <1>2, <1>5, <2>1, <3>2, Zenon DEF SplitInv
  <2>2. CASE LastRead # 0
    <3>1. PICK f : f = Fields(listed[LastRead])
      OBVIOUS
    <3>2. LastRead \in 1..Len(listed)
      BY <1>5, <2>2, Places DEF Inv
    <3>3. listed[LastRead] \in AccessPoint
      BY <3>2, Places DEF Inv
    <3>4. f \in Seq(Text) /\ Len(f) = 4
      BY <3>1, <3>3, FieldsAre
    <3>5. PICK j \in 1..4 : \E k \in 0..Len(f[j]) : Within(f, j, k)
      BY <1>5, <2>2, <3>1, Zenon
    <3>6. PICK k \in 0..Len(f[j]) : Within(f, j, k)
      BY <3>5
    <3>7. esc' \in BOOLEAN /\ \E i \in 1..4 : \E m \in 0..Len(f[i]) : Within(f, i, m)'
      BY <1>1, <1>5, <3>4, <3>6, FieldStep
    <3>8. f = Fields(listed'[LastRead']) /\ LastRead' # 0 /\ LastRead' \in 0..Len(listed')
      BY <1>1, <1>2, <1>5, <2>2, <3>1
    <3> QED
      BY <3>7, <3>8, Zenon DEF SplitInv
  <2> QED
    BY <2>1, <2>2
<1> QED
  BY <1>3, <1>4, <1>6 DEF Inv

\* At the end of a line its parts are the fields of the access point, or too few.
LEMMA SplitIs ==
  ASSUME Inv, stage = "split", line = <<>>
  PROVE  /\ LastRead \in 0..Len(listed)
         /\ LastRead = 0 => Len(Split) < 4
         /\ LastRead # 0 => Split = Fields(listed[LastRead]) /\ listed[LastRead] \in AccessPoint
<1>1. /\ LastRead \in 0..Len(listed) /\ esc \in BOOLEAN
      /\ IF LastRead = 0
         THEN cur \in Text /\ \E l \in Noise : WithinNoise(l)
         ELSE \E j \in 1..4 : \E k \in 0..Len(Fields(listed[LastRead])[j]) :
                Within(Fields(listed[LastRead]), j, k)
  BY DEF Inv, SplitInv
<1>2. ASSUME LastRead = 0 PROVE Len(Split) < 4
  <2>1. cur \in Text /\ parts \in Seq(Text) /\ Len(parts) <= 2
    BY <1>1, <1>2 DEF WithinNoise
  <2>2. Len(Append(parts, cur)) = Len(parts) + 1 /\ Len(parts) \in Nat
    BY <2>1, AppendProperties, LenProperties
  <2> QED
    BY <2>1, <2>2 DEF Split
<1>3. ASSUME LastRead # 0 PROVE Split = Fields(listed[LastRead]) /\ listed[LastRead] \in AccessPoint
  <2>1. PICK f : f = Fields(listed[LastRead])
    OBVIOUS
  <2>2. LastRead \in 1..Len(listed)
    BY <1>1, <1>3, Places DEF Inv
  <2>3. listed[LastRead] \in AccessPoint
    BY <2>2, Places DEF Inv
  <2>4. f \in Seq(Text) /\ Len(f) = 4
    BY <2>1, <2>3, FieldsAre
  <2>5. PICK j \in 1..4 : \E k \in 0..Len(f[j]) : Within(f, j, k)
    BY <1>1, <1>3, <2>1, Zenon
  <2>6. Append(parts, cur) = f
    BY <2>4, <2>5, AllTaken
  <2> QED
    BY <2>1, <2>3, <2>6 DEF Split
<1> QED
  BY <1>1, <1>2, <1>3

\* The line is done: its network has a row now.
LEMMA AddStep == Inv /\ AddNetwork => Inv'
<1> SUFFICES ASSUME Inv, AddNetwork PROVE Inv'
  OBVIOUS
<1>1. /\ stage = "split" /\ line = <<>> /\ stage' = "next"
      /\ listed' = listed /\ lines' = lines
  BY DEF AddNetwork
<1>2. IF Len(Split) < 4 \/ (Len(Split) >= 4 /\ Split[2] = <<>>)
      THEN nets' = nets /\ seen' = seen
      ELSE Keep([inUse |-> Split[1] = <<"*">>, ssid |-> Split[2],
                 signal |-> Atoi(Split[3]), security |-> Split[4]])
  BY DEF AddNetwork, listVars
<1>3. LastRead' = LastRead
  BY <1>1 DEF LastRead
<1>4. LinesInv' /\ SplitInv' /\ SortedInv'
  BY <1>1, <1>3 DEF Inv, LinesInv, SplitInv, SortedInv
<1>5. PICK h \in Int : h = LastRead - 1
  BY Places DEF Inv
<1>6. RowsAre(h) /\ h + 1 = LastRead
  BY <1>1, <1>5, Places DEF Inv, RowsInv
<1>7. RowsAre(h + 1)'
  <2>1. CASE LastRead = 0
    <3>1. nets' = nets /\ seen' = seen /\ h = -1
      BY <1>1, <1>2, <1>5, <2>1, SplitIs
    <3>2. RowsAre(h)'
      BY <1>1, <1>6, <3>1, RowsStay, Zenon
    <3>3. 1..h = {} /\ 1..(h + 1) = {}
      BY <3>1
    <3> QED
      BY <3>2, <3>3, Zenon DEF RowsAre
  <2>2. CASE LastRead # 0
    <3>1. h \in Nat /\ h + 1 \in 1..Len(listed)
      BY <1>1, <1>5, <2>2, SplitIs, Places DEF Inv
    <3>2. PICK ap \in AccessPoint : ap = listed[h + 1] /\ Split = Fields(ap)
      BY <1>1, <1>6, <2>2, SplitIs
    <3>3. /\ Len(Split) = 4 /\ Split[2] = ap.ssid
          /\ [inUse |-> Split[1] = <<"*">>, ssid |-> Split[2],
              signal |-> Atoi(Split[3]), security |-> Split[4]] = ap
      BY <3>2, RowIs
    <3>4. ~(Len(Split) < 4) /\ Len(Split) >= 4
      BY <3>3
    <3>5. IF ap.ssid = <<>> THEN nets' = nets /\ seen' = seen ELSE Keep(ap)
      BY <1>2, <3>3, <3>4, Zenon
    <3>6. CASE ap.ssid = <<>>
      BY <1>1, <1>6, <3>1, <3>2, <3>5, <3>6, SkipStep, Zenon
    <3>7. CASE ap.ssid # <<>>
      BY <1>1, <1>6, <3>1, <3>2, <3>5, <3>7, KeepStep, Zenon
    <3> QED
      BY <3>6, <3>7
  <2> QED
    BY <2>1, <2>2
<1>8. RowsInv'
  BY <1>1, <1>3, <1>6, <1>7 DEF RowsInv
<1> QED
  BY <1>4, <1>8 DEF Inv

\* The rows are sorted: the same rows, in another order.
LEMMA SortStep == Inv /\ Sort => Inv'
<1> SUFFICES ASSUME Inv, Sort PROVE Inv'
  OBVIOUS
<1> DEFINE less == [j \in DOMAIN nets |-> [k \in DOMAIN nets |-> Stronger(nets[j], nets[k])]]
<1>1. /\ stage = "next" /\ stage' = "done" /\ lines = <<>> /\ listed' = listed
      /\ lines' = lines /\ seen' = seen /\ nets' = StableSort(nets, less)
  BY DEF Sort
<1>2. LastRead' = LastRead
  BY <1>1 DEF LastRead
<1>3. LinesInv' /\ SplitInv'
  BY <1>1, <1>2 DEF Inv, LinesInv, SplitInv
<1>4. PICK h : h = LastRead
  OBVIOUS
<1>5. RowsAre(h)
  BY <1>1, <1>4 DEF Inv, RowsInv
<1>6. /\ nets \in Seq(AccessPoint) /\ DOMAIN nets = 1..Len(nets) /\ Len(nets) \in Nat
      /\ \A k \in DOMAIN nets : nets[k] \in AccessPoint
  BY <1>5, LenProperties, ElementOfSeq DEF RowsAre
<1>7. \A j, k \in DOMAIN nets : less[j][k] <=> Stronger(nets[j], nets[k])
  OBVIOUS
<1>8. \A k \in DOMAIN nets : nets[k].signal \in Int
  <2>1. DOMAIN Digits \subseteq Int
    BY DEF Digits
  <2> QED
    BY <1>6, <2>1 DEF AccessPoint
<1> HIDE DEF less
<1>9. StrictWeakOrder(less, DOMAIN nets)
  BY <1>7, <1>8 DEF StrictWeakOrder, Stronger
<1>10. nets' \in Seq(AccessPoint) /\ DOMAIN nets' = DOMAIN nets
  BY <1>1, <1>6, <1>9, StableSorts
<1>11. PICK p : SortedBy(less, DOMAIN nets, p) /\ \A k \in DOMAIN nets : nets'[k] = nets[p[k]]
  <2>1. \E p : /\ SortedBy(less, DOMAIN nets, p)
               /\ \A k \in DOMAIN nets : StableSort(nets, less)[k] = nets[p[k]]
    BY <1>6, <1>9, StableSorts
  <2> QED
    BY <1>1, <2>1
<1>12. /\ \A k \in DOMAIN nets : p[k] \in DOMAIN nets
       /\ \A j, k \in DOMAIN nets : j # k => p[j] # p[k]
       /\ \A i \in DOMAIN nets : \E k \in DOMAIN nets : p[k] = i
       /\ \A j, k \in DOMAIN nets : j < k => Earlier(less, p[j], p[k])
  BY <1>11 DEF SortedBy
<1>13. RowsAre(h)'
  <2>1. /\ \A k \in DOMAIN nets : \E j \in 1..h : nets[k] = listed[j] /\ IsFirst(j)
        /\ \A j, k \in DOMAIN nets : j # k => nets[j].ssid # nets[k].ssid
        /\ \A k \in DOMAIN nets : nets[k].ssid \in seen
        /\ \A s \in seen : s # <<>> /\ \E k \in DOMAIN nets : nets[k].ssid = s
        /\ \A j \in 1..h : listed[j].ssid # <<>> => listed[j].ssid \in seen
    BY <1>5, Zenon DEF RowsAre
  <2>2. \A j : IsFirst(j)' <=> IsFirst(j)
    BY <1>1, Zenon DEF IsFirst
  <2>3. ASSUME NEW k \in DOMAIN nets
        PROVE  \E j \in 1..h : nets'[k] = listed[j] /\ IsFirst(j)
    <3>1. p[k] \in DOMAIN nets /\ nets'[k] = nets[p[k]]
      BY <1>11, <1>12, Zenon
    <3> QED
      BY <2>1, <3>1, Zenon
  <2>4. ASSUME NEW j \in DOMAIN nets, NEW k \in DOMAIN nets, j # k
        PROVE  nets'[j].ssid # nets'[k].ssid
    <3>1. /\ p[j] \in DOMAIN nets /\ p[k] \in DOMAIN nets /\ p[j] # p[k]
          /\ nets'[j] = nets[p[j]] /\ nets'[k] = nets[p[k]]
      BY <1>11, <1>12, <2>4, Zenon
    <3>2. nets[p[j]].ssid # nets[p[k]].ssid
      BY <2>1, <3>1, Zenon
    <3> QED
      BY <3>1, <3>2
  <2>5. \A k \in DOMAIN nets : nets'[k].ssid \in seen
    BY <1>11, <1>12, <2>1, Zenon
  <2>6. ASSUME NEW s \in seen
        PROVE  s # <<>> /\ \E k \in DOMAIN nets : nets'[k].ssid = s
    <3>1. PICK i \in DOMAIN nets : s # <<>> /\ nets[i].ssid = s
      BY <2>1, Zenon
    <3>2. PICK k \in DOMAIN nets : p[k] = i
      BY <1>12, Zenon
    <3> QED
      BY <1>11, <3>1, <3>2, Zenon
  <2> QED
    BY <1>1, <1>10, <2>1, <2>2, <2>3, <2>4, <2>5, <2>6, Zenon DEF RowsAre
<1>14. RowsInv'
  BY <1>1, <1>2, <1>4, <1>13 DEF RowsInv
<1>15. \A j, k \in DOMAIN nets : j < k => ~Stronger(nets'[k], nets'[j])
  <2> SUFFICES ASSUME NEW j \in DOMAIN nets, NEW k \in DOMAIN nets, j < k
               PROVE  ~Stronger(nets'[k], nets'[j])
    OBVIOUS
  <2>1. p[j] \in DOMAIN nets /\ p[k] \in DOMAIN nets /\ Earlier(less, p[j], p[k])
    BY <1>12
  <2>2. ~less[p[k]][p[j]]
    BY <1>9, <2>1 DEF Earlier, StrictWeakOrder
  <2>3. ~Stronger(nets[p[k]], nets[p[j]])
    BY <1>7, <2>1, <2>2
  <2> QED
    BY <1>11, <2>3, Zenon
<1>16. SortedInv'
  BY <1>1, <1>10, <1>15, Zenon DEF SortedInv, Stronger
<1> QED
  BY <1>3, <1>14, <1>16 DEF Inv

LEMMA StepInv == Inv /\ [Next]_vars => Inv'
<1> SUFFICES ASSUME Inv, [Next]_vars PROVE Inv'
  OBVIOUS
<1>1. CASE ScanFails \/ ScanReturns
  BY <1>1, ScanStep
<1>2. CASE ReadLine
  BY <1>2, ReadStep
<1>3. CASE splitNmcliLine
  BY <1>3, RuneStep
<1>4. CASE AddNetwork
  BY <1>4, AddStep
<1>5. CASE Sort
  BY <1>5, SortStep
<1>6. CASE UNCHANGED vars
  <2>1. /\ listed' = listed /\ lines' = lines /\ stage' = stage /\ line' = line
        /\ parts' = parts /\ cur' = cur /\ esc' = esc /\ seen' = seen /\ nets' = nets
    BY <1>6 DEF vars, splitVars, listVars
  <2>2. LastRead' = LastRead
    BY <2>1 DEF LastRead
  <2>3. LinesInv' /\ SortedInv'
    BY <2>1, <2>2 DEF Inv, LinesInv, SortedInv
  <2>4. SplitInv'
    <3>1. \A f, j, k : Within(f, j, k)' <=> Within(f, j, k)
      BY <2>1, Zenon DEF Within
    <3>2. \A l : WithinNoise(l)' <=> WithinNoise(l)
      BY <2>1, Zenon DEF WithinNoise
    <3> QED
      BY <2>1, <2>2, <3>1, <3>2 DEF Inv, SplitInv
  <2>5. RowsInv'
    <3>1. PICK h : h = IF stage = "split" THEN LastRead - 1 ELSE LastRead
      OBVIOUS
    <3>2. RowsAre(h)
      BY <3>1 DEF Inv, RowsInv
    <3>3. RowsAre(h)'
      BY <2>1, <3>2, RowsStay, Zenon
    <3> QED
      BY <2>1, <2>2, <3>1, <3>3 DEF RowsInv
  <2> QED
    BY <2>3, <2>4, <2>5 DEF Inv
<1>7. CASE Returned
  BY <1>6, <1>7 DEF Returned
<1> QED
  BY <1>1, <1>2, <1>3, <1>4, <1>5, <1>6, <1>7 DEF Next


\* The inductive invariant holds.
LEMMA Invariance == Spec => []Inv
BY InitInv, StepInv, PTL DEF Spec

\* Splitting undoes nmcli's escaping (splitNmcliLine, wifi.go:136-161), whatever
\* runes an SSID has: no colon or backslash of one moves into another field.
THEOREM SplitUndoesEscaping == Spec => []SplitInverts
<1>1. Inv => SplitInverts
  <2> SUFFICES ASSUME Inv, stage = "split", line = <<>>
               PROVE  LET k == Len(listed) - Len(lines)
                      IN  \/ k >= 1 /\ Split = Fields(listed[k])
                          \/ k = 0 /\ Len(Split) < 4
    BY Zenon DEF SplitInverts
  <2>1. /\ LastRead \in 0..Len(listed)
        /\ LastRead = 0 => Len(Split) < 4
        /\ LastRead # 0 => Split = Fields(listed[LastRead])
    BY SplitIs, Zenon
  <2>2. LastRead = 0 \/ LastRead >= 1
    <3>1. Len(listed) \in Nat
      BY Places DEF Inv
    <3> QED
      BY <2>1, <3>1
  <2> QED
    BY <2>1, <2>2, Zenon DEF LastRead
<1> QED
  BY <1>1, Invariance, PTL

\* Each network has one row, that of one of its access points, and the rows are
\* sorted (WifiScan, wifi.go:67-86), whatever nmcli lists.
THEOREM OneRowPerNetwork == Spec => []NetworksListed
<1>1. Inv => NetworksListed
  <2> SUFFICES ASSUME Inv, stage = "done" PROVE NetworksListed
    BY DEF NetworksListed
  <2>1. PICK n \in Nat : n = Len(listed) /\ n = LastRead /\ DOMAIN listed = 1..n
    <3>1. lines = <<>> /\ Len(listed) \in Nat /\ DOMAIN listed = 1..Len(listed)
      BY Places DEF Inv, SortedInv
    <3>2. Len(lines) = 0
      BY <3>1, EmptySeq
    <3>3. Len(listed) = LastRead
      BY <3>1, <3>2 DEF LastRead
    <3> QED
      BY <3>1, <3>3, Zenon
  <2>2. RowsAre(n)
    BY <2>1 DEF Inv, RowsInv
  <2>3. /\ nets \in Seq(AccessPoint)
        /\ \A k \in DOMAIN nets : \E j \in 1..n : nets[k] = listed[j] /\ IsFirst(j)
        /\ \A j, k \in DOMAIN nets : j # k => nets[j].ssid # nets[k].ssid
        /\ \A k \in DOMAIN nets : nets[k].ssid \in seen
        /\ \A s \in seen : s # <<>> /\ \E k \in DOMAIN nets : nets[k].ssid = s
        /\ \A j \in 1..n : listed[j].ssid # <<>> => listed[j].ssid \in seen
    BY <2>2, Zenon DEF RowsAre
  <2>4. {nets[k].ssid : k \in DOMAIN nets} = {listed[j].ssid : j \in DOMAIN listed} \ {<<>>}
    <3>1. ASSUME NEW k \in DOMAIN nets
          PROVE  nets[k].ssid # <<>> /\ \E j \in DOMAIN listed : nets[k].ssid = listed[j].ssid
      BY <2>1, <2>3, Zenon
    <3>2. ASSUME NEW j \in DOMAIN listed, listed[j].ssid # <<>>
          PROVE  \E k \in DOMAIN nets : nets[k].ssid = listed[j].ssid
      BY <2>1, <2>3, <3>2, Zenon
    <3> QED
      BY <3>1, <3>2
  <2>5. ASSUME NEW j \in DOMAIN nets, NEW k \in DOMAIN nets, j < k
        PROVE  nets[j].ssid # nets[k].ssid /\ nets[j].signal >= nets[k].signal
    <3>1. ~Stronger(nets[k], nets[j])
      BY <2>5 DEF Inv, SortedInv
    <3>2. nets[j] \in AccessPoint /\ nets[k] \in AccessPoint /\ j # k
      BY <2>3, <2>5, ElementOfSeq, LenProperties
    <3>3. nets[j].signal \in Int /\ nets[k].signal \in Int
      <4>1. DOMAIN Digits \subseteq Int
        BY DEF Digits
      <4> QED
        BY <3>2, <4>1 DEF AccessPoint
    <3> QED
      BY <2>3, <3>1, <3>2, <3>3 DEF Stronger
  <2>6. ASSUME NEW k \in DOMAIN nets
        PROVE  LET own == {j \in DOMAIN listed : listed[j].ssid = nets[k].ssid}
                   first == CHOOSE j \in own : \A i \in own : j <= i
               IN  /\ \E j \in own : nets[k] = listed[j]
                   /\ listed[first].inUse => nets[k].inUse
                   /\ (\A j \in own : listed[j].signal <= listed[first].signal) =>
                        \A j \in own : listed[j].signal <= nets[k].signal
    <3> DEFINE own == {j \in DOMAIN listed : listed[j].ssid = nets[k].ssid}
               first == CHOOSE j \in own : \A i \in own : j <= i
    <3>1. PICK f \in 1..n : nets[k] = listed[f] /\ IsFirst(f)
      BY <2>3
    <3>2. f \in own /\ own \subseteq 1..n
      BY <2>1, <3>1
    <3>3. \A i \in own : f <= i
      <4> SUFFICES ASSUME NEW i \in own, ~(f <= i) PROVE FALSE
        OBVIOUS
      <4>1. i \in 1..(f - 1) /\ listed[i].ssid = listed[f].ssid
        BY <3>1, <3>2
      <4> QED
        BY <3>1, <4>1 DEF IsFirst
    <3>4. first = f
      <4> HIDE DEF own
      <4>1. first \in own /\ \A i \in own : first <= i
        BY <3>2, <3>3, Zenon
      <4>2. first <= f /\ f <= first /\ first \in 1..n
        BY <3>2, <3>3, <4>1
      <4> QED
        BY <4>2
    <3> HIDE DEF own, first
    <3>5. /\ \E j \in own : nets[k] = listed[j]
          /\ listed[first].inUse => nets[k].inUse
          /\ (\A j \in own : listed[j].signal <= listed[first].signal) =>
               \A j \in own : listed[j].signal <= nets[k].signal
      BY <3>1, <3>2, <3>4, Zenon
    <3> QED
      BY <3>5 DEF own, first
  <2> QED
    BY <2>4, <2>5, <2>6, Zenon DEF NetworksListed
<1> QED
  BY <1>1, Invariance, PTL
=============================================================================
