--------------------------- MODULE DatabaseProofs ---------------------------
(***************************************************************************)
(* What the readers of a connection string find in every well-formed one,  *)
(* whatever its tokens and its query.                                      *)
(***************************************************************************)
EXTENDS Database, FiniteSetTheorems, SequenceTheorems, TLAPS

\* Where c occurs in the first n tokens of s, and how often.
Hits(s, c, n) == {j \in 1..n : s[j] = c}

CountTo(s, c, n) == Cardinality(Hits(s, c, n))

-----------------------------------------------------------------------------
(* strings.Split *)

\* A set of numbers that is not empty has a least element.
LEMMA Least ==
    ASSUME NEW T \in SUBSET Nat, T # {}
    PROVE  \E i \in T : \A j \in T : i <= j
<1>1. PICK i \in T : \A j \in T : ~(<<j, i>> \in OpToRel(<, Nat))
  BY NatLessThanWellFounded, WFMin
<1>2. ASSUME NEW j \in T
      PROVE  i <= j
  <2>1. <<j, i>> \in OpToRel(<, Nat) <=> j < i
    BY Zenon DEF OpToRel
  <2>2. ~(j < i)
    BY <1>1, <2>1, Zenon
  <2> QED BY <2>2
<1> QED BY <1>2

\* The occurrences of a separator among the first tokens are finitely many, and
\* not fewer among more tokens.
LEMMA CountToType ==
    ASSUME NEW s, NEW c, NEW n \in Nat
    PROVE  IsFiniteSet(Hits(s, c, n)) /\ CountTo(s, c, n) \in Nat
<1>1. IsFiniteSet(1..n)
  BY FS_Interval
<1>2. IsFiniteSet(Hits(s, c, n))
  BY <1>1, FS_Subset DEF Hits
<1> QED BY <1>2, FS_CardinalityType DEF CountTo

\* Among more tokens there are not fewer separators.
LEMMA CountToGrows ==
    ASSUME NEW s, NEW c, NEW n \in Nat, NEW m \in Nat, n <= m
    PROVE  CountTo(s, c, n) <= CountTo(s, c, m)
<1>1. Hits(s, c, n) \in SUBSET Hits(s, c, m)
  BY DEF Hits
<1> QED BY <1>1, CountToType, FS_Subset DEF CountTo

\* Tokens that are not the separator do not count.
LEMMA CountToMiss ==
    ASSUME NEW s, NEW c, NEW n \in Nat, NEW m \in Nat, n <= m,
           \A j \in (n + 1)..m : s[j] # c
    PROVE  CountTo(s, c, m) = CountTo(s, c, n)
<1>1. Hits(s, c, m) = Hits(s, c, n)
  BY DEF Hits
<1> QED BY <1>1 DEF CountTo

\* The next separator counts one.
LEMMA CountToHit ==
    ASSUME NEW s, NEW c, NEW n \in Nat, NEW m \in Nat, n < m,
           \A j \in (n + 1)..(m - 1) : s[j] # c, s[m] = c
    PROVE  CountTo(s, c, m) = CountTo(s, c, n) + 1
<1>1. Hits(s, c, m) = Hits(s, c, n) \cup {m} /\ m \notin Hits(s, c, n)
  BY DEF Hits
<1> QED BY <1>1, CountToType, FS_AddElement DEF CountTo

\* No separator stands before the first token.
LEMMA CountToZero ==
    ASSUME NEW s, NEW c
    PROVE  CountTo(s, c, 0) = 0
<1>1. Hits(s, c, 0) = {}
  BY DEF Hits
<1> QED BY <1>1, FS_EmptySet DEF CountTo

\* The first separator.
LEMMA CountToFirst ==
    ASSUME NEW s, NEW c, NEW p \in Nat, p > 0, \A j \in 1..(p - 1) : s[j] # c, s[p] = c
    PROVE  CountTo(s, c, p) = 1
  BY CountToZero, CountToHit

\* All of them.
LEMMA CountIs ==
    ASSUME NEW S, NEW s \in Seq(S), NEW c
    PROVE  Count(s, c) = CountTo(s, c, Len(s)) /\ Count(s, c) \in Nat
<1>1. Count(s, c) = CountTo(s, c, Len(s))
  BY Zenon DEF Count, CountTo, Hits
<1> QED BY <1>1, CountToType

\* The text is cut at the token that is the separator for the n-th time.
LEMMA CutAt ==
    ASSUME NEW S, NEW s \in Seq(S), NEW c, NEW p \in 1..Len(s), s[p] = c,
           NEW n \in Nat, CountTo(s, c, p) = n
    PROVE  n >= 1 /\ n <= Count(s, c) /\ Cut(s, c, n) = p
<1>1. Count(s, c) = CountTo(s, c, Len(s)) /\ Count(s, c) \in Nat
  BY CountIs
<1>2. n <= Count(s, c)
  BY <1>1, CountToGrows
<1>3. ASSUME NEW i \in 1..Len(s), s[i] = c, NEW j \in 1..Len(s), s[j] = c, i < j
      PROVE  CountTo(s, c, i) < CountTo(s, c, j)
  <2>1. CountTo(s, c, i) <= CountTo(s, c, j - 1) /\ CountTo(s, c, j) = CountTo(s, c, j - 1) + 1
    BY <1>3, CountToGrows, CountToHit
  <2> QED BY <2>1, CountToType
<1>4. n >= 1
  <2>1. CountTo(s, c, p) = CountTo(s, c, p - 1) + 1
    BY CountToHit
  <2> QED BY <2>1, CountToType
<1>5. \A i \in 1..Len(s) : s[i] = c /\ CountTo(s, c, i) = n => i = p
  BY <1>3
<1>6. Cut(s, c, n) = CHOOSE i \in 1..Len(s) : s[i] = c /\ CountTo(s, c, i) = n
  <2>1. n # 0 /\ ~(n > Count(s, c))
    BY <1>1, <1>2, <1>4
  <2> QED BY <2>1, Zenon DEF Cut, CountTo, Hits
<1> QED BY <1>2, <1>4, <1>5, <1>6

\* The next cut is behind all tokens that have been counted, and behind the last
\* token when there is no further separator.
LEMMA CutAfter ==
    ASSUME NEW S, NEW s \in Seq(S), NEW c, NEW p \in 0..Len(s),
           NEW n \in Nat, CountTo(s, c, p) = n, NEW m, m = n + 1
    PROVE  /\ Count(s, c) \in Nat /\ n <= Count(s, c)
           /\ Cut(s, c, m) \in (p + 1)..(Len(s) + 1)
           /\ p = Len(s) => n = Count(s, c) /\ Cut(s, c, m) = Len(s) + 1
<1> DEFINE total == Count(s, c)
<1>1. total = CountTo(s, c, Len(s)) /\ total \in Nat
  BY CountIs
<1>2. n <= total
  BY <1>1, CountToGrows
<1>3. CASE n + 1 > total
  <2>1. Cut(s, c, n + 1) = Len(s) + 1
    BY <1>1, <1>3 DEF Cut
  <2> QED BY <1>1, <1>2, <1>3, <2>1
<1>4. CASE n + 1 <= total
  <2> DEFINE T == {i \in 0..Len(s) : CountTo(s, c, i) >= n + 1}
  <2>1. Len(s) \in T
    BY <1>1, <1>4
  <2>2. PICK i \in T : \A j \in T : i <= j
    <3>1. T \in SUBSET Nat /\ T # {}
      BY <2>1
    <3> HIDE DEF T
    <3> QED BY <3>1, Least
  <2>3. i > p
    <3>1. CASE i <= p
      <4>1. CountTo(s, c, i) <= CountTo(s, c, p)
        BY <3>1, CountToGrows
      <4> QED BY <4>1, <2>2, CountToType
    <3> QED BY <3>1
  <2>4. CountTo(s, c, i - 1) <= n
    <3>1. i - 1 \in 0..Len(s) /\ i - 1 \notin T
      BY <2>2, <2>3
    <3> QED BY <3>1, CountToType
  <2>5. s[i] = c
    <3>1. CASE s[i] # c
      <4>1. CountTo(s, c, i) = CountTo(s, c, i - 1)
        BY <2>3, <3>1, CountToMiss
      <4> QED BY <2>2, <2>3, <2>4, <4>1, CountToType
    <3> QED BY <3>1
  <2>6. CountTo(s, c, i) = n + 1
    <3>1. CountTo(s, c, i) = CountTo(s, c, i - 1) + 1
      BY <2>3, <2>5, CountToHit
    <3> QED BY <2>2, <2>3, <2>4, <3>1, CountToType
  <2>7. Cut(s, c, n + 1) = i
    BY <2>3, <2>5, <2>6, CutAt
  <2> QED BY <1>1, <1>2, <1>4, <2>3, <2>7
<1> QED BY <1>1, <1>2, <1>3, <1>4

\* After the last separator strings.Split cuts at the end of the string.
LEMMA CutEnd ==
    ASSUME NEW S, NEW s \in Seq(S), NEW c, NEW n \in Nat, CountTo(s, c, Len(s)) = n,
           NEW m, m = n + 1
    PROVE  Count(s, c) = n /\ Cut(s, c, m) = Len(s) + 1
  BY CutAfter

\* There is one part more than separators.
LEMMA SplitLen ==
    ASSUME NEW S, NEW s \in Seq(S), NEW c
    PROVE  Len(Split(s, c)) = Count(s, c) + 1
  BY CountIs DEF Split

\* t is the text of s, tokens of S, between the tokens a and b.
Between(S, t, s, a, b) ==
    /\ t \in Seq(S) /\ Len(t) = b - a - 1
    /\ \A k \in 1..(b - a - 1) : t[k] = s[a + k]

\* The m-th and the n-th c of s, its neighbour, are the tokens a and b.
Neighbours(s, c, m, n, a, b) ==
    /\ m <= Count(s, c) /\ n = m + 1 /\ a \in 0..Len(s) /\ b \in 1..(Len(s) + 1)
    /\ a < b /\ Cut(s, c, m) = a /\ Cut(s, c, n) = b

\* The tokens between two cuts make a part.
LEMMA PartIs ==
    ASSUME NEW S, NEW s \in Seq(S), NEW c, NEW m \in Nat, NEW n \in Nat, NEW a, NEW b,
           Neighbours(s, c, m, n, a, b)
    PROVE  Between(S, Split(s, c)[n], s, a, b)
<1>0. /\ m <= Count(s, c) /\ n = m + 1 /\ a \in 0..Len(s) /\ b \in 1..(Len(s) + 1)
      /\ a < b /\ Cut(s, c, m) = a /\ Cut(s, c, n) = b
  BY Zenon DEF Neighbours
<1>1. Split(s, c)[n] = SubSeq(s, a + 1, b - 1)
  <2>1. n \in 1..(Count(s, c) + 1) /\ n - 1 = m
    BY <1>0, CountIs
  <2>2. Split(s, c)[n] = SubSeq(s, Cut(s, c, n - 1) + 1, Cut(s, c, n) - 1)
    BY <2>1, Zenon DEF Split
  <2> QED BY <1>0, <2>1, <2>2, Zenon
<1>2. \A i \in (a + 1)..(b - 1) : s[i] \in S
  BY <1>0
<1>3. /\ SubSeq(s, a + 1, b - 1) \in Seq(S)
      /\ Len(SubSeq(s, a + 1, b - 1)) = IF a + 1 <= b - 1 THEN b - 1 - (a + 1) + 1 ELSE 0
      /\ \A i \in 1..(b - 1 - (a + 1) + 1) : SubSeq(s, a + 1, b - 1)[i] = s[a + 1 + i - 1]
  <2>1. a + 1 \in Int /\ b - 1 \in Int
    BY <1>0
  <2> QED BY <1>2, <2>1, SubSeqProperties
<1> DEFINE part == SubSeq(s, a + 1, b - 1)
<1>4. Between(S, part, s, a, b)
  <2> HIDE DEF part
  <2>1. /\ part \in Seq(S)
        /\ Len(part) = IF a + 1 <= b - 1 THEN b - 1 - (a + 1) + 1 ELSE 0
        /\ \A i \in 1..(b - 1 - (a + 1) + 1) : part[i] = s[a + 1 + i - 1]
    BY <1>3, Zenon DEF part
  <2> QED BY <1>0, <2>1 DEF Between
<1> QED BY <1>1, <1>4, Zenon

\* The first part ends before the first separator, or with the text.
LEMMA FirstPart ==
    ASSUME NEW S, NEW s \in Seq(S), NEW c, NEW p \in 1..(Len(s) + 1),
           p <= Len(s) => s[p] = c, \A j \in 1..(p - 1) : s[j] # c
    PROVE  Between(S, Split(s, c)[1], s, 0, p)
<1>1. CountTo(s, c, 0) = 0 /\ Cut(s, c, 0) = 0
  BY CountToZero DEF Cut
<1>2. Cut(s, c, 1) = p
  <2>1. CASE p <= Len(s)
    <3>1. CountTo(s, c, p) = 1
      BY <1>1, <2>1, CountToHit
    <3> QED BY <2>1, <3>1, CutAt
  <2>2. CASE p = Len(s) + 1
    <3>1. CountTo(s, c, Len(s)) = 0
      BY <1>1, <2>2, CountToMiss
    <3> QED BY <2>2, <3>1, CutAfter
  <2> QED BY <2>1, <2>2
<1>3. Neighbours(s, c, 0, 1, 0, p)
  BY <1>1, <1>2, CountIs DEF Neighbours
<1> QED BY <1>3, PartIs

\* The second part begins behind the first separator; it holds the tokens up to
\* q when there is no other separator among them.
LEMMA SecondPart ==
    ASSUME NEW S, NEW s \in Seq(S), NEW c, NEW p \in 1..Len(s), s[p] = c,
           \A j \in 1..(p - 1) : s[j] # c,
           NEW q \in p..Len(s), \A j \in (p + 1)..q : s[j] # c
    PROVE  /\ Len(Split(s, c)) >= 2
           /\ \E b \in (q + 1)..(Len(s) + 1) : Between(S, Split(s, c)[2], s, p, b)
           /\ q = Len(s) => Len(Split(s, c)) = 2
<1>1. CountTo(s, c, 0) = 0
  BY CountToZero
<1>2. CountTo(s, c, p) = 1
  BY <1>1, CountToHit
<1>3. CountTo(s, c, q) = 1
  BY <1>2, CountToMiss
<1>4. Cut(s, c, 1) = p
  BY <1>2, CutAt
<1>5. /\ Count(s, c) \in Nat /\ 1 <= Count(s, c) /\ Cut(s, c, 2) \in (q + 1)..(Len(s) + 1)
      /\ q = Len(s) => Count(s, c) = 1
  BY <1>3, CutAfter, q \in 0..Len(s)
<1>6. Neighbours(s, c, 1, 2, p, Cut(s, c, 2))
  BY <1>4, <1>5 DEF Neighbours
<1>7. Between(S, Split(s, c)[2], s, p, Cut(s, c, 2))
  BY <1>6, PartIs
<1>8. Len(Split(s, c)) = Count(s, c) + 1
  BY SplitLen
<1>9. \E b \in (q + 1)..(Len(s) + 1) : Between(S, Split(s, c)[2], s, p, b)
  BY <1>5, <1>7, Zenon
<1> QED BY <1>5, <1>8, <1>9

\* A part of one token.
LEMMA OneToken ==
    ASSUME NEW S, NEW s \in Seq(S), Len(s) = 1
    PROVE  s = <<s[1]>>
  OBVIOUS

\* t is the token i of s alone.
IsToken(t, s, i) == t = <<s[i]>>

\* The part between two separators that have one token between them.
LEMMA BetweenOne ==
    ASSUME NEW S, NEW t, NEW s, NEW a \in Nat, NEW i, i = a + 1, NEW b, b = a + 2,
           Between(S, t, s, a, b)
    PROVE  IsToken(t, s, i)
<1>1. t \in Seq(S) /\ Len(t) = 1 /\ t[1] = s[i]
  BY DEF Between
<1>2. t = <<t[1]>>
  BY <1>1, OneToken
<1> QED BY <1>1, <1>2 DEF IsToken

-----------------------------------------------------------------------------
(* parseConnectionString *)

\* The tokens of a well-formed string.
LEMMA Shape ==
    ASSUME NEW S, NEW cs \in Seq(S), WellFormed(cs)
    PROVE  /\ Len(cs) \in Nat /\ Len(cs) >= 11
           /\ cs[2] = ":" /\ cs[4] = ":" /\ cs[5] = "/" /\ cs[6] = "/" /\ cs[8] = ":"
           /\ cs[10] = "/"
           /\ \A c \in Separators :
                 cs[1] # c /\ cs[3] # c /\ cs[7] # c /\ cs[9] # c /\ cs[11] # c
           /\ Len(cs) > 11 => cs[12] = "?"
<1>1. /\ Len(cs) >= 11
      /\ cs[2] = ":" /\ cs[4] = ":" /\ cs[5] = "/" /\ cs[6] = "/" /\ cs[8] = ":"
      /\ cs[10] = "/"
      /\ \A i \in {1, 3, 7, 9, 11} : cs[i] \notin Separators
      /\ Len(cs) > 11 => cs[12] = "?"
  BY Zenon DEF WellFormed
<1>2. /\ cs[1] \notin Separators /\ cs[3] \notin Separators /\ cs[7] \notin Separators
      /\ cs[9] \notin Separators /\ cs[11] \notin Separators
  BY <1>1, Zenon
<1>3. Len(cs) \in Nat
  OBVIOUS
<1> QED BY <1>1, <1>2, <1>3, Zenon

\* What the code splits at.
LEMMA SeparatorsAre == ":" \in Separators /\ "/" \in Separators /\ "?" \in Separators
  BY DEF Separators

\* The parts between the colons.
LEMMA ColonParts ==
    ASSUME NEW S, NEW cs \in Seq(S), WellFormed(cs)
    PROVE  /\ Len(Split(cs, ":")) >= 4
           /\ Split(cs, ":")[2] = <<cs[3]>>
           /\ Split(cs, ":")[3] \in Seq(S) /\ Len(Split(cs, ":")[3]) = 3
           /\ Split(cs, ":")[3][1] = "/" /\ Split(cs, ":")[3][2] = "/"
           /\ Split(cs, ":")[3][3] = cs[7]
           /\ Split(cs, ":")[4] \in Seq(S) /\ Len(Split(cs, ":")[4]) >= 3
           /\ Split(cs, ":")[4][1] = cs[9] /\ Split(cs, ":")[4][2] = "/"
           /\ Split(cs, ":")[4][3] = cs[11]
           /\ Len(Split(cs, ":")[4]) > 3 => Split(cs, ":")[4][4] = "?"
<1> DEFINE c == ":"
<1>0. /\ cs \in Seq(S) /\ Len(cs) >= 11 /\ Len(cs) \in Nat
      /\ cs[2] = c /\ cs[4] = c /\ cs[8] = c
      /\ cs[1] # c /\ cs[3] # c /\ cs[5] # c /\ cs[6] # c /\ cs[7] # c /\ cs[9] # c
      /\ cs[10] # c /\ cs[11] # c
      /\ cs[5] = "/" /\ cs[6] = "/" /\ cs[10] = "/"
      /\ Len(cs) > 11 => cs[12] = "?"
  BY Shape, SeparatorsAre, Zenon
<1> HIDE DEF c
<1>1. CountTo(cs, c, 0) = 0
  BY CountToZero
<1>2. CountTo(cs, c, 2) = 1
  BY <1>0, <1>1, CountToHit, \A j \in (0 + 1)..(2 - 1) : j = 1
<1>3. CountTo(cs, c, 4) = 2
  BY <1>0, <1>2, CountToHit, \A j \in (2 + 1)..(4 - 1) : j = 3
<1>4. CountTo(cs, c, 8) = 3
  BY <1>0, <1>3, CountToHit, \A j \in (4 + 1)..(8 - 1) : j \in {5, 6, 7}
<1>5. CountTo(cs, c, 11) = 3
  BY <1>0, <1>4, CountToMiss, \A j \in (8 + 1)..11 : j \in {9, 10, 11}
<1>6. Cut(cs, c, 1) = 2 /\ Cut(cs, c, 2) = 4 /\ Cut(cs, c, 3) = 8
  <2>1. 2 \in 1..Len(cs) /\ 4 \in 1..Len(cs) /\ 8 \in 1..Len(cs)
    BY <1>0
  <2>2. Cut(cs, c, 1) = 2
    BY <1>0, <1>2, <2>1, CutAt
  <2>3. Cut(cs, c, 2) = 4
    BY <1>0, <1>3, <2>1, CutAt
  <2>4. Cut(cs, c, 3) = 8
    BY <1>0, <1>4, <2>1, CutAt
  <2> QED BY <2>2, <2>3, <2>4
<1>7. /\ Count(cs, c) \in Nat /\ Count(cs, c) >= 3
      /\ Cut(cs, c, 4) \in 12..(Len(cs) + 1)
  BY <1>0, <1>5, CutAfter, 11 \in 0..Len(cs)
<1>8. Len(Split(cs, c)) >= 4
  BY <1>0, <1>7, SplitLen
<1>9a. /\ Neighbours(cs, c, 1, 2, 2, 4) /\ Neighbours(cs, c, 2, 3, 4, 8)
      /\ Neighbours(cs, c, 3, 4, 8, Cut(cs, c, 4))
  BY <1>0, <1>6, <1>7 DEF Neighbours
<1>9. Split(cs, c)[2] = <<cs[3]>>
  <2>1. Between(S, Split(cs, c)[2], cs, 2, 4)
    BY <1>0, <1>9a, PartIs
  <2>2. IsToken(Split(cs, c)[2], cs, 3)
    BY <2>1, BetweenOne, 3 = 2 + 1, 4 = 2 + 2
  <2> QED BY <2>2 DEF IsToken
<1>10. /\ Split(cs, c)[3] \in Seq(S) /\ Len(Split(cs, c)[3]) = 3
       /\ Split(cs, c)[3][1] = "/" /\ Split(cs, c)[3][2] = "/" /\ Split(cs, c)[3][3] = cs[7]
  <2>1. Between(S, Split(cs, c)[3], cs, 4, 8)
    BY <1>0, <1>9a, PartIs
  <2> QED BY <1>0, <2>1 DEF Between
<1>11. /\ Split(cs, c)[4] \in Seq(S) /\ Len(Split(cs, c)[4]) >= 3
       /\ Split(cs, c)[4][1] = cs[9] /\ Split(cs, c)[4][2] = "/"
       /\ Split(cs, c)[4][3] = cs[11]
       /\ Len(Split(cs, c)[4]) > 3 => Split(cs, c)[4][4] = "?"
  <2>1. PICK b \in 12..(Len(cs) + 1) : Cut(cs, c, 4) = b
    BY <1>7
  <2>2. Between(S, Split(cs, c)[4], cs, 8, b)
    BY <1>0, <1>9a, <2>1, PartIs
  <2>3. PICK t : t = Split(cs, c)[4]
    OBVIOUS
  <2>4. t \in Seq(S) /\ Len(t) = b - 9 /\ \A k \in 1..(b - 9) : t[k] = cs[8 + k]
    BY <2>1, <2>2, <2>3 DEF Between
  <2>5. t[1] = cs[9] /\ t[2] = cs[10] /\ t[3] = cs[11] /\ (b > 12 => t[4] = cs[12])
    BY <2>1, <2>4
  <2>6. /\ Len(t) \in Nat /\ Len(t) >= 3 /\ (Len(t) > 3 => b > 12)
        /\ b > 12 => Len(cs) > 11
    BY <1>0, <2>1, <2>4
  <2> QED BY <1>0, <2>3, <2>4, <2>5, <2>6, Zenon
<1> QED BY <1>8, <1>9, <1>10, <1>11 DEF c

\* The host behind "//".
LEMMA HostPart ==
    ASSUME NEW S, NEW t \in Seq(S), Len(t) = 3, t[1] = "/", t[2] = "/", t[3] # "/"
    PROVE  Len(Split(t, "/")) = 3 /\ Split(t, "/")[3] = <<t[3]>>
<1> DEFINE c == "/"
<1>0. t[1] = c /\ t[2] = c /\ t[3] # c
  OBVIOUS
<1> HIDE DEF c
<1>1. CountTo(t, c, 1) = 1
  BY <1>0, CountToFirst
<1>2. CountTo(t, c, 2) = 2
  BY <1>0, <1>1, CountToHit
<1>3. CountTo(t, c, 3) = 2
  BY <1>0, <1>2, CountToMiss
<1>4. Cut(t, c, 2) = 2
  BY <1>0, <1>2, CutAt
<1>5. Count(t, c) = 2 /\ Cut(t, c, 3) = 4
  <2>1. CountTo(t, c, Len(t)) = 2 /\ Len(t) \in 0..Len(t)
    BY <1>3
  <2>2. \A m : m = 2 + 1 => Count(t, c) = 2 /\ Cut(t, c, m) = Len(t) + 1
    BY <2>1, CutEnd, Zenon
  <2> QED BY <2>2
<1>6. Neighbours(t, c, 2, 3, 2, 4)
  BY <1>4, <1>5 DEF Neighbours
<1>7. Between(S, Split(t, c)[3], t, 2, 4)
  BY <1>6, PartIs
<1>8. IsToken(Split(t, c)[3], t, 3)
  BY <1>7, BetweenOne, 3 = 2 + 1, 4 = 2 + 2
<1>9. Len(Split(t, c)) = Count(t, c) + 1
  BY SplitLen
<1>10. Len(Split(t, c)) = 3
  BY <1>5, <1>9
<1> QED BY <1>8, <1>10, Zenon DEF c, IsToken

\* The port and the name behind it, with what belongs to the query.
LEMMA PortParts ==
    ASSUME NEW S, NEW t \in Seq(S), Len(t) >= 3, t[1] # "/", t[2] = "/", t[3] # "/", t[3] # "?",
           Len(t) > 3 => t[4] = "?"
    PROVE  /\ Len(Split(t, "/")) >= 2
           /\ Split(t, "/")[1] = <<t[1]>>
           /\ TrimQuery(Split(t, "/")[2]) = <<t[3]>>
<1>1. \A j \in 1..(2 - 1) : t[j] # "/"
  OBVIOUS
<1>2. Split(t, "/")[1] = <<t[1]>>
  <2>1. Between(S, Split(t, "/")[1], t, 0, 2)
    BY <1>1, FirstPart
  <2>2. IsToken(Split(t, "/")[1], t, 1)
    BY <2>1, BetweenOne, 1 = 0 + 1, 2 = 0 + 2
  <2> QED BY <2>2 DEF IsToken
<1>3. \A j \in (2 + 1)..3 : t[j] # "/"
  OBVIOUS
<1>4. PICK b \in 4..(Len(t) + 1) : Between(S, Split(t, "/")[2], t, 2, b)
  BY <1>1, <1>3, SecondPart
<1>5. Len(Split(t, "/")) >= 2
  BY <1>1, <1>3, SecondPart
<1>6. PICK x : x = Split(t, "/")[2]
  OBVIOUS
<1>7. x \in Seq(S) /\ Len(x) = b - 3 /\ \A k \in 1..(b - 3) : x[k] = t[2 + k]
  BY <1>4, <1>6 DEF Between
<1>8. Len(x) >= 1 /\ x[1] = t[3] /\ (Len(x) > 1 => x[2] = t[4] /\ Len(t) > 3)
  BY <1>4, <1>7
<1>9. Between(S, Split(x, "?")[1], x, 0, 2)
  BY <1>7, <1>8, FirstPart, \A j \in 1..(2 - 1) : j = 1
<1>10. IsToken(Split(x, "?")[1], x, 1)
  BY <1>9, BetweenOne, 1 = 0 + 1, 2 = 0 + 2
<1> QED BY <1>2, <1>5, <1>6, <1>8, <1>10 DEF TrimQuery, IsToken

\* parseConnectionString finds the type, the host, the port and the name that the
\* user wrote, whatever the query; a type without a driver is an error.
LEMMA ParseWellFormed ==
    ASSUME NEW S, NEW cs \in Seq(S), WellFormed(cs)
    PROVE  parseConnectionString(cs) =
               IF GetDatabaseDriver(<<cs[3]>>) = Error THEN Error
               ELSE Ok([type   |-> <<cs[3]>>,
                        driver |-> GetDatabaseDriver(<<cs[3]>>).val,
                        host   |-> <<cs[7]>>,
                        port   |-> <<cs[9]>>,
                        name   |-> <<cs[11]>>])
<1> DEFINE parts == Split(cs, ":")
           hostParts == Split(parts[3], "/")
           portParts == Split(parts[4], "/")
<1>0. cs[7] # "/" /\ cs[9] # "/" /\ cs[11] # "/" /\ cs[11] # "?"
  BY Shape, SeparatorsAre, Zenon
<1>1. Len(parts) >= 4 /\ Len(parts) \in Nat /\ parts[2] = <<cs[3]>>
  <2>1. Len(parts) \in Nat
    BY SplitLen, CountIs
  <2> QED BY <2>1, ColonParts
<1>2. Len(hostParts) = 3 /\ hostParts[3] = <<cs[7]>>
  <2>1. /\ parts[3] \in Seq(S) /\ Len(parts[3]) = 3
        /\ parts[3][1] = "/" /\ parts[3][2] = "/" /\ parts[3][3] = cs[7]
    BY ColonParts, Zenon
  <2> HIDE DEF parts
  <2> QED BY <1>0, <2>1, HostPart, Zenon
<1>3. Len(portParts) >= 2 /\ portParts[1] = <<cs[9]>> /\ TrimQuery(portParts[2]) = <<cs[11]>>
  <2>1. /\ parts[4] \in Seq(S) /\ Len(parts[4]) >= 3
        /\ parts[4][1] = cs[9] /\ parts[4][2] = "/" /\ parts[4][3] = cs[11]
        /\ Len(parts[4]) > 3 => parts[4][4] = "?"
    BY ColonParts, Zenon
  <2> HIDE DEF parts
  <2>2. PICK t : t = parts[4]
    OBVIOUS
  <2> QED BY <1>0, <2>1, <2>2, PortParts, Zenon
<1>4. Len(portParts) \in Nat
  <2>1. parts[4] \in Seq(S)
    BY ColonParts
  <2> HIDE DEF parts
  <2> QED BY <2>1, SplitLen, CountIs
<1>5. parseConnectionString(cs) =
          IF Len(parts) < 3 THEN Error
          ELSE IF GetDatabaseDriver(parts[2]) = Error THEN Error
          ELSE IF Len(hostParts) < 2 THEN Error
          ELSE IF Len(hostParts) < 3 THEN Panic
          ELSE IF Len(parts) < 4 THEN Panic
          ELSE IF Len(portParts) < 2 THEN Panic
          ELSE Ok([type   |-> parts[2],
                   driver |-> GetDatabaseDriver(parts[2]).val,
                   host   |-> hostParts[3],
                   port   |-> portParts[1],
                   name   |-> TrimQuery(portParts[2])])
  BY Zenon DEF parseConnectionString
<1> HIDE DEF parts, hostParts, portParts
<1>6. ~(Len(parts) < 3) /\ ~(Len(hostParts) < 2) /\ ~(Len(hostParts) < 3) /\ ~(Len(parts) < 4)
      /\ ~(Len(portParts) < 2)
  BY <1>1, <1>2, <1>3, <1>4
<1> QED BY <1>1, <1>2, <1>3, <1>5, <1>6, Zenon

-----------------------------------------------------------------------------
(* GetDatabaseHost *)

\* The schema job waits for the host that the user wrote, whatever the query.
LEMMA HostWellFormed ==
    ASSUME NEW S, NEW cs \in Seq(S), WellFormed(cs)
    PROVE  GetDatabaseHost(cs) = Ok(<<cs[7]>>)
<1>0. /\ cs \in Seq(S) /\ Len(cs) >= 11 /\ Len(cs) \in Nat
      /\ cs[5] = "/" /\ cs[6] = "/" /\ cs[8] = ":" /\ cs[10] = "/"
      /\ cs[1] # "/" /\ cs[2] # "/" /\ cs[3] # "/" /\ cs[4] # "/" /\ cs[7] # "/"
      /\ cs[9] # "/" /\ cs[11] # "/" /\ cs[7] # ":" /\ cs[9] # ":"
  BY Shape, SeparatorsAre, Zenon
<1>1. 5 \in SlashPairs(cs) /\ \A j \in SlashPairs(cs) : 5 <= j
  <2>1. ASSUME NEW j \in 1..4
        PROVE  cs[j] # "/"
    BY <1>0, j \in {1, 2, 3, 4}
  <2> QED BY <1>0, <2>1 DEF SlashPairs
<1> DEFINE rest == SubSeq(cs, 7, Len(cs))
           next == SlashPairs(rest)
           text == IF next = {} THEN rest ELSE SubSeq(rest, 1, FirstPair(rest) - 1)
<1>2. AfterSlashes(cs) = text
  <2>1. FirstPair(cs) = 5
    <3>1. SlashPairs(cs) \in SUBSET Nat
      BY DEF SlashPairs
    <3> QED BY <1>1, <3>1 DEF FirstPair
  <2>2. FirstPair(cs) + 2 = 7
    BY <2>1
  <2> QED BY <2>1, <2>2, Zenon DEF AfterSlashes
<1>3. /\ rest \in Seq(S) /\ Len(rest) = Len(cs) - 6
      /\ \A i \in 1..(Len(cs) - 6) : rest[i] = cs[6 + i]
  <2>1. /\ rest \in Seq(S)
        /\ Len(rest) = IF 7 <= Len(cs) THEN Len(cs) - 7 + 1 ELSE 0
        /\ \A i \in 1..(Len(cs) - 7 + 1) : rest[i] = cs[7 + i - 1]
    BY <1>0, SubSeqProperties
  <2> HIDE DEF rest
  <2> QED BY <1>0, <2>1
<1> HIDE DEF rest
<1>4. /\ rest[1] = cs[7] /\ rest[2] = ":" /\ rest[3] = cs[9] /\ rest[4] = "/" /\ rest[5] = cs[11]
      /\ Len(rest) >= 5
  BY <1>0, <1>3
<1>5. \A i \in next : i \in Nat /\ i > 5 /\ i < Len(rest)
  <2>1. ASSUME NEW i \in next PROVE i \in Nat /\ i > 5 /\ i < Len(rest)
    <3>1. i \in 1..(Len(rest) - 1) /\ rest[i] = "/" /\ rest[i + 1] = "/"
      BY <2>1 DEF SlashPairs
    <3>2. i # 1 /\ i # 2 /\ i # 3 /\ i # 4 /\ i # 5
      <4>1. 4 + 1 = 5
        OBVIOUS
      <4> QED BY <1>0, <1>4, <3>1, <4>1, Zenon
    <3> QED BY <1>3, <3>1, <3>2
  <2> QED BY <2>1
<1>6. /\ text \in Seq(S) /\ Len(text) >= 4
      /\ text[1] = cs[7] /\ text[2] = ":" /\ text[3] = cs[9] /\ text[4] = "/"
  <2>1. CASE next = {}
    BY <1>3, <1>4, <2>1
  <2>2. CASE next # {}
    <3> DEFINE i == FirstPair(rest)
    <3>1. i \in next
      <4>1. next \in SUBSET Nat
        BY <1>5
      <4>2. \E x \in next : \A j \in next : x <= j
        <5> HIDE DEF next
        <5> QED BY <2>2, <4>1, Least
      <4> QED BY <4>2, Zenon DEF FirstPair
    <3>2. i \in Nat /\ i > 5 /\ i < Len(rest)
      BY <1>5, <3>1
    <3>3. text = SubSeq(rest, 1, i - 1)
      BY <2>2
    <3> HIDE DEF i, next, text
    <3>4. \A x \in 1..(i - 1) : rest[x] \in S
      BY <1>3, <3>2
    <3>5. /\ SubSeq(rest, 1, i - 1) \in Seq(S)
          /\ Len(SubSeq(rest, 1, i - 1)) = IF 1 <= i - 1 THEN i - 1 - 1 + 1 ELSE 0
          /\ \A k \in 1..(i - 1 - 1 + 1) : SubSeq(rest, 1, i - 1)[k] = rest[1 + k - 1]
      BY <3>2, <3>4, SubSeqProperties, i - 1 \in Int
    <3>6. /\ text \in Seq(S)
          /\ Len(text) = IF 1 <= i - 1 THEN i - 1 - 1 + 1 ELSE 0
          /\ \A k \in 1..(i - 1 - 1 + 1) : text[k] = rest[1 + k - 1]
      BY <3>3, <3>5, Zenon
    <3>7. Len(text) = i - 1 /\ \A k \in 1..(i - 1) : text[k] = rest[k]
      BY <3>2, <3>6
    <3> QED BY <1>4, <3>2, <3>6, <3>7
  <2> QED BY <2>1, <2>2
<1> HIDE DEF text
<1>7. PICK h : h = Split(text, "/")[1]
  OBVIOUS
<1>8. h \in Seq(S) /\ Len(h) = 3 /\ h[1] = cs[7] /\ h[2] = ":" /\ h[3] = cs[9]
  <2>1. \A j \in 1..(4 - 1) : text[j] # "/"
    BY <1>0, <1>6
  <2>2. Between(S, h, text, 0, 4)
    <3>1. 4 \in 1..(Len(text) + 1)
      BY <1>6
    <3> QED BY <1>6, <1>7, <2>1, <3>1, FirstPart, Zenon
  <2>3. h \in Seq(S) /\ Len(h) = 3 /\ \A k \in 1..3 : h[k] = text[0 + k]
    BY <2>2 DEF Between
  <2> QED BY <1>6, <2>3
<1>9. \A j \in 1..(2 - 1) : h[j] # ":"
  BY <1>0, <1>8
<1>10. Split(h, ":")[1] = <<cs[7]>>
  <2>1. Between(S, Split(h, ":")[1], h, 0, 2)
    BY <1>8, <1>9, FirstPart
  <2>2. IsToken(Split(h, ":")[1], h, 1)
    BY <2>1, BetweenOne, 1 = 0 + 1, 2 = 0 + 2
  <2> QED BY <1>8, <2>2 DEF IsToken
<1>11. Len(Split(h, ":")) = 2
  <2>1. \A j \in (2 + 1)..3 : h[j] # ":"
    BY <1>0, <1>8
  <2>2. 2 \in 1..Len(h) /\ 3 \in 2..Len(h) /\ Len(h) = 3 /\ h[2] = ":"
    BY <1>8
  <2> QED BY <1>8, <1>9, <2>1, <2>2, SecondPart, Zenon
<1>12. SlashPairs(cs) # {}
  BY <1>1
<1> QED BY <1>2, <1>7, <1>10, <1>11, <1>12, Zenon DEF GetDatabaseHost

-----------------------------------------------------------------------------
(* setCredentialsFromConnectionString *)

\* A connection string has credentials, possibly empty ones, when it has a query.
LEMMA CredentialsWellFormed ==
    ASSUME NEW S, NEW cs \in Seq(S), WellFormed(cs)
    PROVE  IF Len(cs) > 11 THEN setCredentialsFromConnectionString(cs).out = "ok"
           ELSE setCredentialsFromConnectionString(cs) = Error
<1>0. /\ cs \in Seq(S) /\ Len(cs) >= 11 /\ Len(cs) \in Nat
      /\ \A j \in 1..11 : cs[j] # "?"
      /\ Len(cs) > 11 => cs[12] = "?"
  <2>1. /\ cs[1] # "?" /\ cs[2] # "?" /\ cs[3] # "?" /\ cs[4] # "?" /\ cs[5] # "?"
        /\ cs[6] # "?" /\ cs[7] # "?" /\ cs[8] # "?" /\ cs[9] # "?" /\ cs[10] # "?"
        /\ cs[11] # "?"
    BY Shape, SeparatorsAre, Zenon
  <2>2. ASSUME NEW j \in 1..11 PROVE cs[j] # "?"
    BY <2>1, j \in {1, 2, 3, 4, 5, 6, 7, 8, 9, 10, 11}
  <2> QED BY <2>2, Shape, Zenon
<1>1. CASE Len(cs) > 11
  <2>1. \A j \in 1..(12 - 1) : cs[j] # "?"
    BY <1>0
  <2>2. \A j \in (12 + 1)..12 : cs[j] # "?"
    OBVIOUS
  <2>3. 12 \in 1..Len(cs) /\ 12 \in 12..Len(cs) /\ cs[12] = "?"
    BY <1>0, <1>1
  <2>4. Len(Split(cs, "?")) >= 2
    BY <1>0, <2>1, <2>2, <2>3, SecondPart, Zenon
  <2>5. Len(Split(cs, "?")) \in Nat
    BY <1>0, SplitLen, CountIs
  <2>6. ~(Len(Split(cs, "?")) < 2)
    BY <2>4, <2>5
  <2> QED BY <1>1, <2>6, Zenon DEF setCredentialsFromConnectionString, Ok
<1>2. CASE Len(cs) = 11
  <2>1. CountTo(cs, "?", 11) = CountTo(cs, "?", 0)
    <3>1. 0 <= 11 /\ \A j \in (0 + 1)..11 : cs[j] # "?"
      BY <1>0
    <3> QED BY <3>1, CountToMiss, Zenon
  <2>2. Count(cs, "?") = 0
    BY <1>0, <1>2, <2>1, CountToZero, CountIs, Zenon
  <2>3. Len(Split(cs, "?")) = 0 + 1
    BY <1>0, <2>2, SplitLen, Zenon
  <2>4. ~(Len(cs) > 11)
    BY <1>2, ~(11 > 11), Zenon
  <2>5. Len(Split(cs, "?")) < 2
    BY <2>3, 0 + 1 < 2, Zenon
  <2> QED BY <2>4, <2>5, Zenon DEF setCredentialsFromConnectionString
<1>3. Len(cs) > 11 \/ Len(cs) = 11
  <2>1. \A n \in Nat : n >= 11 => n > 11 \/ n = 11
    OBVIOUS
  <2> QED BY <1>0, <2>1, Zenon
<1> QED BY <1>1, <1>2, <1>3, Zenon
=============================================================================
