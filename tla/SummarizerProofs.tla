-------------------------- MODULE SummarizerProofs --------------------------
(***************************************************************************)
(* Theorems about Summarizer, for any frames, any limits and any chunks:   *)
(* where the lines of a stream go however it is cut, what the summary then *)
(* says of them, and what is known of a body of which a prefix was kept.   *)
(***************************************************************************)
EXTENDS Summarizer, SequenceTheorems, FiniteSetTheorems, WellFoundedInduction, TLAPS

-----------------------------------------------------------------------------
(* Induction: a set of numbers that is not empty has a least member.       *)

LEMMA Least ==
  ASSUME NEW T \in SUBSET Nat, T # {}
  PROVE  \E m \in T : \A n \in T : m <= n
<1>1. IsWellFoundedOn(OpToRel(<,Nat), Nat)
  BY NatLessThanWellFounded
<1>2. PICK m \in T : \A n \in T : <<n, m>> \notin OpToRel(<,Nat)
  BY <1>1, WFMin
<1>3. \A n \in T : ~ (n < m)
  BY <1>2, Zenon DEF OpToRel
<1> QED BY <1>3

LEMMA Induct ==
  ASSUME NEW S, 0 \in S, \A n \in Nat : n \in S => n + 1 \in S
  PROVE  Nat \subseteq S
<1> SUFFICES ASSUME Nat \ S # {} PROVE FALSE
  OBVIOUS
<1>1. PICK m \in Nat \ S : \A n \in Nat \ S : m <= n
  BY Least
<1> QED BY <1>1

\* Up to a bound, which is how far a sequence goes.
LEMMA InductUpTo ==
  ASSUME NEW S, NEW b \in Nat, 0 \in S, \A n \in 1 .. b : n - 1 \in S => n \in S
  PROVE  0 .. b \subseteq S
<1> DEFINE N == {n \in Nat : n <= b => n \in S}
<1>1. 0 \in N
  OBVIOUS
<1>2. ASSUME NEW n \in Nat, n \in N PROVE n + 1 \in N
  <2> SUFFICES ASSUME n + 1 <= b PROVE n + 1 \in S
    OBVIOUS
  <2>1. n + 1 \in 1 .. b /\ (n + 1) - 1 = n /\ n \in S
    BY <1>2
  <2> QED BY <2>1
<1>3. Nat \subseteq N
  <2> HIDE DEF N
  <2> QED BY <1>1, <1>2, Induct
<1> QED BY <1>3

-----------------------------------------------------------------------------
(* Parts of a text.                                                        *)

LEMMA PartType ==
  ASSUME NEW S, NEW t \in Seq(S), NEW a \in Nat, NEW b \in Int, b <= Len(t)
  PROVE  /\ SubSeq(t, a + 1, b) \in Seq(S)
         /\ Len(SubSeq(t, a + 1, b)) = IF a <= b THEN b - a ELSE 0
         /\ \A i \in 1 .. b - a : SubSeq(t, a + 1, b)[i] = t[a + i]
<1>1. Len(t) \in Nat /\ \A i \in 1 .. Len(t) : t[i] \in S
  BY LenProperties, ElementOfSeq
<1>2. \A i \in a + 1 .. b : t[i] \in S
  BY <1>1
<1>3. /\ SubSeq(t, a + 1, b) \in Seq(S)
      /\ Len(SubSeq(t, a + 1, b)) = IF a + 1 <= b THEN b - (a + 1) + 1 ELSE 0
      /\ \A i \in 1 .. b - (a + 1) + 1 : SubSeq(t, a + 1, b)[i] = t[(a + 1) + i - 1]
  BY <1>2, SubSeqProperties
<1>4. \A i \in 1 .. b - a : (a + 1) + i - 1 = a + i /\ i \in 1 .. b - (a + 1) + 1
  OBVIOUS
<1> QED BY <1>3, <1>4

\* A part of a part.
LEMMA PartOfPart ==
  ASSUME NEW S, NEW t \in Seq(S), NEW s \in 0 .. Len(t),
         NEW a \in Nat, NEW b \in Int, s + b <= Len(t)
  PROVE  SubSeq(SubSeq(t, s + 1, Len(t)), a + 1, b) = SubSeq(t, (s + a) + 1, s + b)
<1> DEFINE u == SubSeq(t, s + 1, Len(t))
           x == SubSeq(u, a + 1, b)
           y == SubSeq(t, (s + a) + 1, s + b)
<1>0. Len(t) \in Nat
  BY LenProperties
<1>1. /\ u \in Seq(S) /\ Len(u) = Len(t) - s
      /\ \A i \in 1 .. Len(t) - s : u[i] = t[s + i]
  BY <1>0, PartType
<1> HIDE DEF u
<1>2. /\ x \in Seq(S) /\ Len(x) = IF a <= b THEN b - a ELSE 0
      /\ \A i \in 1 .. b - a : x[i] = u[a + i]
  BY <1>0, <1>1, PartType
<1>3. /\ y \in Seq(S) /\ Len(y) = IF s + a <= s + b THEN (s + b) - (s + a) ELSE 0
      /\ \A i \in 1 .. (s + b) - (s + a) : y[i] = t[(s + a) + i]
  <2>1. s + a \in Nat /\ s + b \in Int
    BY <1>0
  <2> QED BY <2>1, PartType
<1> HIDE DEF x, y
<1>4. ASSUME NEW i \in 1 .. Len(x) PROVE x[i] = y[i]
  <2>1. i \in 1 .. b - a /\ a + i \in 1 .. Len(t) - s /\ i \in 1 .. (s + b) - (s + a)
    BY <1>0, <1>2
  <2>2. x[i] = t[s + (a + i)] /\ y[i] = t[(s + a) + i]
    BY <1>1, <1>2, <1>3, <2>1
  <2>3. s + (a + i) = (s + a) + i
    BY <1>0, <2>1
  <2> QED BY <2>2, <2>3
<1>5. Len(x) = Len(y)
  BY <1>0, <1>2, <1>3
<1>6. x = y
  BY <1>2, <1>3, <1>4, <1>5, SeqEqual
<1> QED BY <1>6 DEF x, y, u

\* Of two parts with the same end the shorter is a suffix of the longer.
LEMMA ShorterIsSuffix ==
  ASSUME NEW S, NEW t \in Seq(S), NEW a \in Nat, NEW b \in Nat, a <= b,
         NEW e \in Int, b <= e, e <= Len(t)
  PROVE  IsSuffix(SubSeq(t, b + 1, e), SubSeq(t, a + 1, e))
<1> DEFINE x == SubSeq(t, b + 1, e)
           y == SubSeq(t, a + 1, e)
<1>0. Len(t) \in Nat
  BY LenProperties
<1>1. /\ x \in Seq(S) /\ Len(x) = e - b
      /\ \A i \in 1 .. e - b : x[i] = t[b + i]
  BY <1>0, PartType
<1>2. /\ y \in Seq(S) /\ Len(y) = e - a
      /\ \A i \in 1 .. e - a : y[i] = t[a + i]
  BY <1>0, PartType
<1> HIDE DEF x, y
<1>3. ASSUME NEW z \in Seq(S)
      PROVE  /\ Reverse(z) \in Seq(S) /\ Len(Reverse(z)) = Len(z)
             /\ \A i \in 1 .. Len(z) : Reverse(z)[i] = z[(Len(z) - i) + 1]
  <2>1. Len(z) \in Nat /\ \A i \in 1 .. Len(z) : z[(Len(z) - i) + 1] \in S
    BY LenProperties, ElementOfSeq
  <2>2. Reverse(z) = [i \in 1 .. Len(z) |-> z[(Len(z) - i) + 1]]
    BY DEF Reverse
  <2>3. Reverse(z) \in Seq(S)
    BY <2>1, <2>2, IsASeq
  <2> QED BY <2>1, <2>2, <2>3, LenProperties
<1> DEFINE rx == Reverse(x)
           ry == Reverse(y)
<1>4. /\ rx \in Seq(S) /\ Len(rx) = e - b
      /\ \A i \in 1 .. e - b : rx[i] = x[((e - b) - i) + 1]
  BY <1>1, <1>3
<1>5. /\ ry \in Seq(S) /\ Len(ry) = e - a
      /\ \A i \in 1 .. e - a : ry[i] = y[((e - a) - i) + 1]
  BY <1>2, <1>3
<1> HIDE DEF rx, ry
<1>6. ASSUME NEW i \in 1 .. e - b PROVE rx[i] = ry[i]
  <2>1. /\ ((e - b) - i) + 1 \in 1 .. e - b /\ i \in 1 .. e - a
        /\ ((e - a) - i) + 1 \in 1 .. e - a
        /\ b + (((e - b) - i) + 1) = a + (((e - a) - i) + 1)
    OBVIOUS
  <2>2. rx[i] = t[b + (((e - b) - i) + 1)]
    BY <1>1, <1>4, <2>1
  <2>3. ry[i] = t[a + (((e - a) - i) + 1)]
    BY <1>2, <1>5, <2>1
  <2> QED BY <2>1, <2>2, <2>3
<1>7. SubSeq(rx, 1, Len(rx)) = SubSeq(ry, 1, Len(rx))
  <2> DEFINE p == SubSeq(rx, 0 + 1, e - b)
             q == SubSeq(ry, 0 + 1, e - b)
  <2>1. /\ p \in Seq(S) /\ Len(p) = e - b
        /\ \A i \in 1 .. (e - b) - 0 : p[i] = rx[0 + i]
    BY <1>4, PartType
  <2>2. /\ q \in Seq(S) /\ Len(q) = e - b
        /\ \A i \in 1 .. (e - b) - 0 : q[i] = ry[0 + i]
    BY <1>5, PartType
  <2>3. 0 + 1 = 1 /\ (e - b) - 0 = e - b /\ \A i \in 1 .. e - b : 0 + i = i
    OBVIOUS
  <2> HIDE DEF p, q
  <2>4. p = q
    BY <2>1, <2>2, <2>3, <1>6, SeqEqual
  <2> QED BY <2>3, <2>4, <1>4 DEF p, q
<1>8. IsSuffix(x, y)
  BY <1>4, <1>5, <1>7 DEF IsSuffix, IsPrefix, rx, ry
<1> QED BY <1>8 DEF x, y

-----------------------------------------------------------------------------
(* The newlines of a text, counted.                                        *)

Newlines(text, i) == Cardinality({j \in Ends(text) : j <= i})
IsText(text) == text \in Seq(Bytes)

LEMMA EndsType ==
  ASSUME NEW t, IsText(t)
  PROVE  /\ Len(t) \in Nat
         /\ Ends(t) = {i \in 1 .. Len(t) : t[i] = NL}
         /\ IsFiniteSet(Ends(t)) /\ Cardinality(Ends(t)) \in Nat
         /\ \A i : /\ IsFiniteSet({j \in Ends(t) : j <= i})
                   /\ Newlines(t, i) \in Nat
<1>1. Len(t) \in Nat /\ DOMAIN t = 1 .. Len(t)
  BY LenProperties DEF IsText
<1>2. IsFiniteSet(1 .. Len(t))
  BY <1>1, FS_Interval
<1>3. Ends(t) = {i \in 1 .. Len(t) : t[i] = NL}
  BY <1>1 DEF Ends
<1>4. IsFiniteSet(Ends(t))
  BY <1>2, <1>3, FS_Subset
<1>5. \A i : IsFiniteSet({j \in Ends(t) : j <= i})
  BY <1>4, FS_Subset
<1> QED BY <1>1, <1>3, <1>4, <1>5, FS_CardinalityType DEF Newlines

LEMMA CountSteps ==
  ASSUME NEW t, IsText(t)
  PROVE  /\ Newlines(t, 0) = 0
         /\ Newlines(t, Len(t)) = Cardinality(Ends(t))
         /\ \A i \in 1 .. Len(t) :
              Newlines(t, i) = Newlines(t, i - 1) + IF i \in Ends(t) THEN 1 ELSE 0
<1>1. /\ Len(t) \in Nat /\ Ends(t) \subseteq 1 .. Len(t)
      /\ \A i : IsFiniteSet({j \in Ends(t) : j <= i})
  BY EndsType
<1>2. {j \in Ends(t) : j <= 0} = {} /\ {j \in Ends(t) : j <= Len(t)} = Ends(t)
  BY <1>1
<1>3. ASSUME NEW i \in 1 .. Len(t)
      PROVE  Newlines(t, i) = Newlines(t, i - 1) + IF i \in Ends(t) THEN 1 ELSE 0
  <2> DEFINE A == {j \in Ends(t) : j <= i - 1}
             B == {j \in Ends(t) : j <= i}
  <2>1. CASE i \in Ends(t)
    <3>1. B = A \cup {i} /\ i \notin A
      BY <1>1, <2>1
    <3>2. Cardinality(B) = Cardinality(A) + 1
      <4>1. IsFiniteSet(A)
        BY <1>1
      <4> QED BY <3>1, <4>1, FS_AddElement
    <3> QED BY <2>1, <3>2 DEF Newlines
  <2>2. CASE i \notin Ends(t)
    <3>1. B = A
      BY <1>1, <2>2
    <3>2. Newlines(t, i) = Newlines(t, i - 1)
      BY <3>1 DEF Newlines
    <3>3. Newlines(t, i - 1) \in Nat
      BY EndsType
    <3> QED BY <2>2, <3>2, <3>3
  <2> QED BY <2>1, <2>2
<1> QED BY <1>2, <1>3, FS_EmptySet DEF Newlines

LEMMA CountGrows ==
  ASSUME NEW t, IsText(t), NEW i \in 0 .. Len(t), NEW j \in 0 .. Len(t), i <= j
  PROVE  /\ Newlines(t, i) <= Newlines(t, j)
         /\ i < j /\ j \in Ends(t) => Newlines(t, i) < Newlines(t, j)
<1>1. ASSUME NEW k \in 0 .. Len(t), i <= k PROVE Newlines(t, i) <= Newlines(t, k)
  <2>1. {n \in Ends(t) : n <= i} \subseteq {n \in Ends(t) : n <= k}
    BY EndsType, <1>1
  <2> QED BY <2>1, EndsType, FS_Subset DEF Newlines
<1>2. ASSUME i < j, j \in Ends(t) PROVE Newlines(t, i) < Newlines(t, j)
  <2>1. j - 1 \in 0 .. Len(t) /\ i <= j - 1 /\ j \in 1 .. Len(t)
    BY <1>2, EndsType
  <2>2. Newlines(t, i) <= Newlines(t, j - 1) /\ Newlines(t, j) = Newlines(t, j - 1) + 1
    BY <1>1, <1>2, <2>1, CountSteps
  <2>3. Newlines(t, i) \in Nat /\ Newlines(t, j) \in Nat /\ Newlines(t, j - 1) \in Nat
    BY EndsType
  <2> QED BY <2>2, <2>3
<1> QED BY <1>1, <1>2

\* The k-th newline is where the count gets to k.
LEMMA EndAt ==
  ASSUME NEW t, IsText(t), NEW i \in Ends(t) \cup {0}
  PROVE  End(t, Newlines(t, i)) = i
<1> DEFINE e == End(t, Newlines(t, i))
<1>1. e \in Ends(t) \cup {0} /\ Newlines(t, e) = Newlines(t, i)
  BY DEF End, Newlines
<1>2. i \in 0 .. Len(t) /\ e \in 0 .. Len(t) /\ Len(t) \in Nat
  BY <1>1, EndsType
<1>0. Newlines(t, i) \in Nat
  BY EndsType
<1> HIDE DEF e
<1>3. ~ (i < e)
  <2> SUFFICES ASSUME i < e PROVE FALSE
    OBVIOUS
  <2>1. e \in Ends(t)
    BY <1>1, <1>2
  <2>2. Newlines(t, i) < Newlines(t, e)
    BY <1>2, <2>1, CountGrows
  <2> QED BY <1>0, <1>1, <2>2
<1>4. ~ (e < i)
  <2> SUFFICES ASSUME e < i PROVE FALSE
    OBVIOUS
  <2>1. i \in Ends(t)
    BY <1>2
  <2>2. Newlines(t, e) < Newlines(t, i)
    BY <1>2, <2>1, CountGrows
  <2> QED BY <1>0, <1>1, <2>2
<1>5. e = i
  BY <1>2, <1>3, <1>4
<1> QED BY <1>5 DEF e

LEMMA EndType ==
  ASSUME NEW t, IsText(t), NEW k \in 0 .. Cardinality(Ends(t))
  PROVE  /\ End(t, k) \in Ends(t) \cup {0} /\ End(t, k) \in 0 .. Len(t)
         /\ Newlines(t, End(t, k)) = k
         /\ End(t, k) = 0 <=> k = 0
<1>0. /\ Len(t) \in Nat /\ Cardinality(Ends(t)) \in Nat
      /\ Ends(t) \subseteq 1 .. Len(t) /\ \A j : Newlines(t, j) \in Nat
  BY EndsType
<1>1. \E i \in Ends(t) \cup {0} : Newlines(t, i) = k
  <2> DEFINE T == {i \in 0 .. Len(t) : Newlines(t, i) >= k}
  <2>1. T \in SUBSET Nat /\ Len(t) \in T
    BY <1>0, CountSteps
  <2>2. PICK m \in T : \A n \in T : m <= n
    BY <2>1, Least
  <2>3. CASE m = 0
    BY <1>0, <2>2, <2>3, CountSteps
  <2>4. CASE m # 0
    <3>1. m \in 1 .. Len(t) /\ m - 1 \in 0 .. Len(t) /\ ~ (m <= m - 1)
      BY <1>0, <2>2, <2>4
    <3>2. Newlines(t, m - 1) < k /\ Newlines(t, m) >= k
      BY <1>0, <2>2, <3>1
    <3>3. Newlines(t, m) = Newlines(t, m - 1) + IF m \in Ends(t) THEN 1 ELSE 0
      BY <3>1, CountSteps
    <3>4. m \in Ends(t) /\ Newlines(t, m) = k
      <4>1. CASE m \in Ends(t)
        BY <1>0, <3>2, <3>3, <4>1
      <4>2. CASE m \notin Ends(t)
        BY <1>0, <3>2, <3>3, <4>2
      <4> QED BY <4>1, <4>2
    <3> QED BY <3>4
  <2> QED BY <2>3, <2>4
<1>2. PICK i \in Ends(t) \cup {0} : Newlines(t, i) = k
  BY <1>1
<1>3. End(t, k) = i
  BY <1>2, EndAt
<1>4. i = 0 <=> k = 0
  <2>1. i = 0 => k = 0
    BY <1>2, CountSteps
  <2>2. ASSUME i # 0 PROVE k # 0
    <3>1. i \in Ends(t) /\ 0 < i /\ i \in 0 .. Len(t) /\ 0 \in 0 .. Len(t)
      BY <1>0, <2>2
    <3>2. Newlines(t, 0) < Newlines(t, i)
      BY <3>1, CountGrows
    <3> QED BY <1>0, <1>2, <3>2, CountSteps
  <2> QED BY <2>1, <2>2
<1> QED BY <1>0, <1>2, <1>3, <1>4

LEMMA EndsAscend ==
  ASSUME NEW t, IsText(t), NEW k \in 1 .. Cardinality(Ends(t))
  PROVE  /\ End(t, k) \in Ends(t) /\ End(t, k - 1) < End(t, k)
<1>0. Len(t) \in Nat /\ Cardinality(Ends(t)) \in Nat
  BY EndsType
<1>1. k - 1 \in 0 .. Cardinality(Ends(t)) /\ k \in 0 .. Cardinality(Ends(t)) /\ k # 0
  BY <1>0
<1> DEFINE a == End(t, k - 1)
           b == End(t, k)
<1>2. /\ a \in 0 .. Len(t) /\ Newlines(t, a) = k - 1
      /\ b \in Ends(t) /\ b \in 0 .. Len(t) /\ Newlines(t, b) = k
  BY <1>1, EndType
<1> HIDE DEF a, b
<1>3. ~ (b <= a)
  <2> SUFFICES ASSUME b <= a PROVE FALSE
    OBVIOUS
  <2>1. Newlines(t, b) <= Newlines(t, a)
    BY <1>2, CountGrows
  <2> QED BY <1>0, <1>2, <2>1
<1>4. a < b
  BY <1>0, <1>2, <1>3
<1> QED BY <1>2, <1>4 DEF a, b

-----------------------------------------------------------------------------
(* The lines of a text from some place on, and those of what it grows to.  *)

\* The text from after place s on.
From(t, s) == SubSeq(t, s + 1, Len(t))

LEMMA FromType ==
  ASSUME NEW t, IsText(t), NEW s \in 0 .. Len(t)
  PROVE  /\ IsText(From(t, s)) /\ Len(From(t, s)) = Len(t) - s
         /\ \A i \in 1 .. Len(t) - s :
              /\ From(t, s)[i] = t[s + i]
              /\ i \in Ends(From(t, s)) <=> s + i \in Ends(t)
<1>0. Len(t) \in Nat
  BY EndsType
<1> DEFINE u == SubSeq(t, s + 1, Len(t))
<1>1. /\ u \in Seq(Bytes) /\ Len(u) = Len(t) - s
      /\ \A i \in 1 .. Len(t) - s : u[i] = t[s + i]
  BY <1>0, PartType DEF IsText
<1> HIDE DEF u
<1>2. Ends(u) = {i \in 1 .. Len(u) : u[i] = NL} /\ Ends(t) = {i \in 1 .. Len(t) : t[i] = NL}
  BY <1>1, EndsType DEF IsText
<1>3. \A i \in 1 .. Len(t) - s : i \in Ends(u) <=> s + i \in Ends(t)
  BY <1>0, <1>1, <1>2
<1> QED BY <1>1, <1>3 DEF From, IsText, u

LEMMA FromCounts ==
  ASSUME NEW t, IsText(t), NEW s \in 0 .. Len(t)
  PROVE  /\ \A i \in 0 .. Len(t) - s :
              Newlines(From(t, s), i) = Newlines(t, s + i) - Newlines(t, s)
         /\ Cardinality(Ends(From(t, s))) = Cardinality(Ends(t)) - Newlines(t, s)
<1> DEFINE u == From(t, s)
           S == {i \in 0 .. Len(t) - s : Newlines(u, i) = Newlines(t, s + i) - Newlines(t, s)}
<1>0. /\ Len(t) \in Nat /\ Len(t) - s \in Nat
      /\ \A i : Newlines(t, i) \in Nat
  <2>1. Len(t) \in Nat /\ \A i : Newlines(t, i) \in Nat
    BY EndsType
  <2> QED BY <2>1
<1>1. /\ IsText(u) /\ Len(u) = Len(t) - s
      /\ \A i \in 1 .. Len(t) - s : i \in Ends(u) <=> s + i \in Ends(t)
  BY FromType
<1> HIDE DEF u
<1>2. 0 \in S
  <2>1. Newlines(u, 0) = 0 /\ s + 0 = s
    BY <1>1, CountSteps
  <2>2. Newlines(t, s) \in Nat
    BY <1>0
  <2> QED BY <1>0, <2>1, <2>2
<1>3. ASSUME NEW i \in 1 .. Len(t) - s, i - 1 \in S PROVE i \in S
  <2>1. /\ s + i \in 1 .. Len(t) /\ (s + i) - 1 = s + (i - 1)
        /\ i \in 1 .. Len(u) /\ i \in 0 .. Len(t) - s
    BY <1>0, <1>1
  <2>2. Newlines(u, i) = Newlines(u, i - 1) + IF i \in Ends(u) THEN 1 ELSE 0
    BY <1>1, <2>1, CountSteps
  <2>3. Newlines(t, s + i) = Newlines(t, s + (i - 1)) + IF s + i \in Ends(t) THEN 1 ELSE 0
    BY <2>1, CountSteps
  <2>4. i \in Ends(u) <=> s + i \in Ends(t)
    BY <1>1
  <2>5. Newlines(u, i - 1) = Newlines(t, s + (i - 1)) - Newlines(t, s)
    BY <1>3
  <2>6. /\ Newlines(t, s) \in Nat /\ Newlines(t, s + (i - 1)) \in Nat
        /\ Newlines(t, s + i) \in Nat
    BY <1>0
  <2>7. Newlines(u, i) = Newlines(t, s + i) - Newlines(t, s)
    <3>1. CASE i \in Ends(u)
      BY <2>2, <2>3, <2>4, <2>5, <2>6, <3>1
    <3>2. CASE i \notin Ends(u)
      BY <2>2, <2>3, <2>4, <2>5, <2>6, <3>2
    <3> QED BY <3>1, <3>2
  <2> QED BY <2>1, <2>7
<1>4. 0 .. Len(t) - s \subseteq S
  <2> HIDE DEF S
  <2> QED BY <1>0, <1>2, <1>3, InductUpTo
<1>5. Cardinality(Ends(u)) = Cardinality(Ends(t)) - Newlines(t, s)
  <2>1. Newlines(u, Len(u)) = Cardinality(Ends(u)) /\ Newlines(t, Len(t)) = Cardinality(Ends(t))
    BY <1>1, CountSteps
  <2>2. Len(u) \in 0 .. Len(t) - s /\ s + Len(u) = Len(t)
    BY <1>0, <1>1
  <2>3. Newlines(u, Len(u)) = Newlines(t, s + Len(u)) - Newlines(t, s)
    BY <1>4, <2>2
  <2> QED BY <2>1, <2>2, <2>3
<1> QED BY <1>4, <1>5 DEF u

LEMMA FromEnds ==
  ASSUME NEW t, IsText(t), NEW s \in 0 .. Len(t),
         NEW k \in 1 .. Cardinality(Ends(From(t, s)))
  PROVE  /\ End(From(t, s), k) = End(t, Newlines(t, s) + k) - s
         /\ Newlines(t, s) + k \in 1 .. Cardinality(Ends(t))
         /\ End(t, Newlines(t, s) + k) \in s + 1 .. Len(t)
<1> DEFINE u == From(t, s)
           n == Newlines(t, s)
           e == End(t, n + k)
<1>0. Len(t) \in Nat /\ n \in Nat /\ Cardinality(Ends(t)) \in Nat
  BY EndsType
<1>1. n + k \in 1 .. Cardinality(Ends(t))
  <2>1. Cardinality(Ends(u)) = Cardinality(Ends(t)) - n
    BY FromCounts
  <2> HIDE DEF u, n
  <2> QED BY <1>0, <2>1 DEF u
<1> HIDE DEF n
<1>2. e \in Ends(t) /\ e \in 0 .. Len(t) /\ Newlines(t, e) = n + k
  <2>1. n + k \in 0 .. Cardinality(Ends(t))
    BY <1>0, <1>1
  <2> QED BY <1>1, <2>1, EndType, EndsAscend
<1> HIDE DEF e
<1>3. e \in s + 1 .. Len(t)
  <2>1. ~ (e <= s)
    <3> SUFFICES ASSUME e <= s PROVE FALSE
      OBVIOUS
    <3>1. Newlines(t, e) <= Newlines(t, s)
      BY <1>2, CountGrows
    <3> QED BY <1>0, <1>2, <3>1 DEF n
  <2> QED BY <1>0, <1>2, <2>1
<1>4. e - s \in 1 .. Len(t) - s /\ s + (e - s) = e
  BY <1>0, <1>3
<1>5. IsText(u) /\ e - s \in Ends(u)
  BY <1>2, <1>4, FromType
<1>6. Newlines(u, e - s) = k
  <2>1. Newlines(u, e - s) = Newlines(t, s + (e - s)) - n
    BY <1>4, FromCounts DEF n
  <2> QED BY <1>0, <1>2, <1>4, <2>1
<1>7. End(u, k) = e - s
  <2> HIDE DEF u
  <2> QED BY <1>5, <1>6, EndAt
<1> QED BY <1>1, <1>3, <1>7 DEF u, n, e

\* What the lines are, and what is left, of the text from s on.
LEMMA FromLines ==
  ASSUME NEW t, IsText(t), NEW s \in 0 .. Len(t)
  PROVE  LET u == From(t, s)
             n == Newlines(t, s)
             m == Cardinality(Ends(u))
         IN /\ n \in Nat /\ m \in Nat /\ Cardinality(Ends(t)) = n + m
            /\ Lines(u) \in Seq(Seq(Bytes)) /\ Len(Lines(u)) = m
            /\ \A k \in 1 .. m :
                 Lines(u)[k] = SubSeq(t, (IF k = 1 THEN s ELSE End(t, (n + k) - 1)) + 1,
                                      End(t, n + k) - 1)
            /\ Rest(u) = From(t, IF m = 0 THEN s ELSE End(t, n + m))
<1> DEFINE u == From(t, s)
           n == Newlines(t, s)
           m == Cardinality(Ends(u))
           L == Len(t)
<1>1. /\ L \in Nat /\ n \in Nat /\ m \in Nat /\ Cardinality(Ends(t)) = n + m
      /\ IsText(u) /\ Len(u) = L - s
  <2>1. IsText(u) /\ Len(u) = L - s
    BY FromType
  <2>2. L \in Nat /\ n \in Nat /\ Cardinality(Ends(t)) \in Nat
    BY EndsType
  <2>3. m \in Nat
    <3> HIDE DEF u
    <3> QED BY <2>1, EndsType
  <2>4. m = Cardinality(Ends(t)) - n
    BY FromCounts
  <2> HIDE DEF m, n
  <2> QED BY <2>1, <2>2, <2>3, <2>4
<1>2. /\ End(u, 0) = 0
      /\ \A k \in 1 .. m : /\ End(u, k) = End(t, n + k) - s
                           /\ n + k \in 1 .. Cardinality(Ends(t))
                           /\ End(t, n + k) \in s + 1 .. L
  <2>1. End(u, 0) = 0
    <3> HIDE DEF u
    <3>1. 0 \in 0 .. Cardinality(Ends(u))
      BY <1>1
    <3> QED BY <1>1, <3>1, EndType
  <2> QED BY <2>1, FromEnds
<1> HIDE DEF m, n
<1>3. ASSUME NEW k \in 1 .. m
      PROVE  LET a == (IF k = 1 THEN s ELSE End(t, (n + k) - 1))
                 b == End(t, n + k) - 1
             IN /\ SubSeq(u, End(u, k - 1) + 1, End(u, k) - 1) = SubSeq(t, a + 1, b)
                /\ SubSeq(t, a + 1, b) \in Seq(Bytes)
  <2> DEFINE a == (IF k = 1 THEN s ELSE End(t, (n + k) - 1))
             b == End(t, n + k) - 1
  <2>1. a \in s .. L /\ End(u, k - 1) = a - s
    <3>1. CASE k = 1
      BY <1>1, <1>2, <3>1
    <3>2. CASE k # 1
      <4>1. k - 1 \in 1 .. m /\ n + (k - 1) = (n + k) - 1
        BY <1>1, <3>2
      <4>2. End(u, k - 1) = End(t, n + (k - 1)) - s /\ End(t, n + (k - 1)) \in s + 1 .. L
        BY <1>2, <4>1
      <4> QED BY <1>1, <3>2, <4>1, <4>2
    <3> QED BY <3>1, <3>2
  <2>2. b \in s .. L /\ End(u, k) - 1 = b - s
    <3>1. End(u, k) = End(t, n + k) - s /\ End(t, n + k) \in s + 1 .. L
      BY <1>2
    <3> HIDE DEF u
    <3> QED BY <1>1, <3>1
  <2> HIDE DEF a, b, u
  <2>3. a - s \in Nat /\ b - s \in Int /\ s + (b - s) <= L /\ s + (a - s) = a /\ s + (b - s) = b
        /\ a \in Nat /\ b \in Int /\ b <= L
    BY <1>1, <2>1, <2>2
  <2>4. SubSeq(SubSeq(t, s + 1, Len(t)), (a - s) + 1, b - s) = SubSeq(t, a + 1, b)
    <3>1. SubSeq(SubSeq(t, s + 1, Len(t)), (a - s) + 1, b - s)
            = SubSeq(t, (s + (a - s)) + 1, s + (b - s))
      BY <2>3, PartOfPart DEF IsText
    <3> QED BY <2>3, <3>1
  <2>5. SubSeq(t, a + 1, b) \in Seq(Bytes)
    BY <2>3, PartType DEF IsText
  <2> QED BY <2>1, <2>2, <2>4, <2>5 DEF a, b, u, From
<1>4. /\ Lines(u) = [k \in 1 .. m |-> SubSeq(u, End(u, k - 1) + 1, End(u, k) - 1)]
  BY DEF Lines, m
<1>5. /\ Lines(u) \in Seq(Seq(Bytes)) /\ Len(Lines(u)) = m
      /\ \A k \in 1 .. m : Lines(u)[k] = SubSeq(u, End(u, k - 1) + 1, End(u, k) - 1)
  <2>1. \A k \in 1 .. m : SubSeq(u, End(u, k - 1) + 1, End(u, k) - 1) \in Seq(Bytes)
    BY <1>3
  <2> HIDE DEF u
  <2>2. Lines(u) \in Seq(Seq(Bytes))
    BY <1>1, <1>4, <2>1, IsASeq
  <2> DEFINE f == Lines(u)
  <2>3. f \in Seq(Seq(Bytes)) /\ DOMAIN f = 1 .. m /\ m \in Nat
        /\ \A k \in 1 .. m : f[k] = SubSeq(u, End(u, k - 1) + 1, End(u, k) - 1)
    BY <1>1, <1>4, <2>2
  <2> HIDE DEF f
  <2>4. Len(f) = m
    BY <2>3, LenProperties
  <2> QED BY <2>3, <2>4 DEF f
<1>6. Rest(u) = From(t, IF m = 0 THEN s ELSE End(t, n + m))
  <2> DEFINE a == (IF m = 0 THEN s ELSE End(t, n + m))
  <2>1. a \in s .. L /\ End(u, m) = a - s
    <3>1. CASE m = 0
      BY <1>1, <1>2, <3>1
    <3>2. CASE m # 0
      <4>1. m \in 1 .. m
        BY <1>1, <3>2
      <4>2. End(u, m) = End(t, n + m) - s /\ End(t, n + m) \in s + 1 .. L
        BY <1>2, <4>1
      <4> QED BY <1>1, <3>2, <4>2
    <3> QED BY <3>1, <3>2
  <2>2. Rest(u) = SubSeq(u, End(u, m) + 1, Len(u))
    BY DEF Rest, m
  <2> HIDE DEF a
  <2>3. a - s \in Nat /\ L - s \in Int /\ s + (L - s) <= L /\ s + (a - s) = a /\ s + (L - s) = L
    BY <1>1, <2>1
  <2>4. SubSeq(SubSeq(t, s + 1, Len(t)), (a - s) + 1, L - s) = SubSeq(t, a + 1, L)
    <3>1. SubSeq(SubSeq(t, s + 1, Len(t)), (a - s) + 1, L - s)
            = SubSeq(t, (s + (a - s)) + 1, s + (L - s))
      BY <2>3, PartOfPart DEF IsText
    <3> QED BY <2>3, <3>1
  <2>5. Rest(u) = SubSeq(u, (a - s) + 1, L - s)
    <3> HIDE DEF u, L
    <3> QED BY <1>1, <2>1, <2>2
  <2>6. Rest(u) = From(t, a)
    BY <2>4, <2>5 DEF From
  <2> QED BY <2>6 DEF a
<1> HIDE DEF u
<1>7. \A k \in 1 .. m :
        Lines(u)[k] = SubSeq(t, (IF k = 1 THEN s ELSE End(t, (n + k) - 1)) + 1,
                             End(t, n + k) - 1)
  BY <1>3, <1>5
<1> QED BY <1>1, <1>5, <1>6, <1>7 DEF u, n, m

LEMMA WholeLines ==
  ASSUME NEW t, IsText(t)
  PROVE  /\ Lines(t) \in Seq(Seq(Bytes)) /\ Len(Lines(t)) = Cardinality(Ends(t))
         /\ DOMAIN Lines(t) = 1 .. Cardinality(Ends(t))
         /\ \A k \in 1 .. Cardinality(Ends(t)) :
              /\ Lines(t)[k] = SubSeq(t, End(t, k - 1) + 1, End(t, k) - 1)
              /\ Len(Lines(t)[k]) = (End(t, k) - 1) - End(t, k - 1)
         /\ Rest(t) = From(t, End(t, Cardinality(Ends(t))))
         /\ Len(Rest(t)) = Len(t) - End(t, Cardinality(Ends(t)))
<1> DEFINE n == Cardinality(Ends(t))
           Line(k) == SubSeq(t, End(t, k - 1) + 1, End(t, k) - 1)
<1>0. Len(t) \in Nat /\ n \in Nat
  BY EndsType
<1>1. ASSUME NEW k \in 1 .. n
      PROVE  Line(k) \in Seq(Bytes) /\ Len(Line(k)) = (End(t, k) - 1) - End(t, k - 1)
  <2> DEFINE a == End(t, k - 1)
             b == End(t, k)
  <2>1. k - 1 \in 0 .. n /\ k \in 0 .. n
    BY <1>0
  <2>2. a \in 0 .. Len(t) /\ b \in 0 .. Len(t) /\ a < b
    BY <2>1, EndType, EndsAscend
  <2> HIDE DEF a, b
  <2>3. a \in Nat /\ b - 1 \in Int /\ b - 1 <= Len(t) /\ a <= b - 1
    BY <1>0, <2>2
  <2>4. /\ SubSeq(t, a + 1, b - 1) \in Seq(Bytes)
        /\ Len(SubSeq(t, a + 1, b - 1)) = IF a <= b - 1 THEN (b - 1) - a ELSE 0
    BY <2>3, PartType DEF IsText
  <2> QED BY <2>3, <2>4 DEF a, b
<1>2. Lines(t) = [k \in 1 .. n |-> Line(k)]
  BY DEF Lines
<1> HIDE DEF n, Line
<1> DEFINE f == Lines(t)
<1>3. f \in Seq(Seq(Bytes)) /\ DOMAIN f = 1 .. n /\ \A k \in 1 .. n : f[k] = Line(k)
  BY <1>0, <1>1, <1>2, IsASeq
<1> HIDE DEF f
<1>4. Len(f) = n
  BY <1>0, <1>3, LenProperties
<1>5. End(t, n) \in 0 .. Len(t)
  <2>1. n \in 0 .. n
    BY <1>0
  <2> QED BY <2>1, EndType DEF n
<1>6. Rest(t) = From(t, End(t, n)) /\ Len(From(t, End(t, n))) = Len(t) - End(t, n)
  BY <1>5, FromType DEF Rest, From, n
<1> QED BY <1>1, <1>3, <1>4, <1>6 DEF n, Line, f

\* What a text that grows keeps.
LEMMA Grows ==
  ASSUME NEW r, IsText(r), NEW c, IsText(c)
  PROVE  LET t == r \o c
             n == Cardinality(Ends(r))
         IN /\ IsText(t) /\ Len(t) = Len(r) + Len(c)
            /\ \A a \in 0 .. Len(r) : From(r, a) \o c = From(t, a)
            /\ \A i \in 0 .. Len(r) : Newlines(t, i) = Newlines(r, i)
            /\ n \in 0 .. Cardinality(Ends(t))
            /\ \A k \in 0 .. n : End(t, k) = End(r, k)
            /\ \A k \in 1 .. n : Lines(t)[k] = Lines(r)[k]
<1> DEFINE t == r \o c
           n == Cardinality(Ends(r))
<1>0. Len(r) \in Nat /\ Len(c) \in Nat /\ n \in Nat
  BY EndsType
<1>1. /\ IsText(t) /\ Len(t) = Len(r) + Len(c)
      /\ \A i \in 1 .. Len(r) : t[i] = r[i]
  <2>1. /\ t \in Seq(Bytes) /\ Len(t) = Len(r) + Len(c)
        /\ \A i \in 1 .. Len(r) + Len(c) : t[i] = IF i <= Len(r) THEN r[i] ELSE c[i - Len(r)]
    BY ConcatProperties DEF IsText
  <2> HIDE DEF t
  <2> QED BY <1>0, <2>1 DEF IsText
<1>2. ASSUME NEW a \in 0 .. Len(r) PROVE From(r, a) \o c = From(t, a)
  <2> DEFINE x == From(r, a)
             y == From(t, a)
  <2>1. x \in Seq(Bytes) /\ Len(x) = Len(r) - a /\ \A i \in 1 .. Len(r) - a : x[i] = r[a + i]
    BY FromType DEF IsText
  <2>2. a \in 0 .. Len(t)
    BY <1>0, <1>1
  <2>3. y \in Seq(Bytes) /\ Len(y) = Len(t) - a /\ \A i \in 1 .. Len(t) - a : y[i] = t[a + i]
    <3> HIDE DEF t
    <3> QED BY <1>1, <2>2, FromType DEF IsText
  <2>4. \A i \in 1 .. Len(r) + Len(c) : t[i] = IF i <= Len(r) THEN r[i] ELSE c[i - Len(r)]
    BY ConcatProperties DEF IsText
  <2> HIDE DEF x, y
  <2>5. /\ x \o c \in Seq(Bytes) /\ Len(x \o c) = (Len(r) - a) + Len(c)
        /\ \A i \in 1 .. (Len(r) - a) + Len(c) :
             (x \o c)[i] = IF i <= Len(r) - a THEN x[i] ELSE c[i - (Len(r) - a)]
    <3>1. x \in Seq(Bytes) /\ c \in Seq(Bytes)
      BY <2>1 DEF IsText
    <3>2. /\ x \o c \in Seq(Bytes) /\ Len(x \o c) = Len(x) + Len(c)
          /\ \A i \in 1 .. Len(x) + Len(c) :
               (x \o c)[i] = IF i <= Len(x) THEN x[i] ELSE c[i - Len(x)]
      BY <3>1, ConcatProperties
    <3>3. Len(x) = Len(r) - a
      BY <2>1
    <3> QED BY <3>2, <3>3
  <2> DEFINE z == x \o c
  <2> HIDE DEF z, t
  <2>6. ASSUME NEW i \in 1 .. Len(z) PROVE z[i] = y[i]
    <3>1. /\ i \in 1 .. (Len(r) - a) + Len(c) /\ i \in 1 .. Len(t) - a
          /\ a + i \in 1 .. Len(r) + Len(c)
      BY <1>0, <1>1, <2>5 DEF z
    <3>2. y[i] = t[a + i]
      BY <2>3, <3>1
    <3>3. CASE i <= Len(r) - a
      <4>1. z[i] = x[i] /\ x[i] = r[a + i] /\ a + i <= Len(r)
        BY <1>0, <2>1, <2>5, <3>1, <3>3 DEF z
      <4> QED BY <2>4, <3>1, <3>2, <4>1
    <3>4. CASE ~ (i <= Len(r) - a)
      <4>1. z[i] = c[i - (Len(r) - a)] /\ ~ (a + i <= Len(r))
            /\ i - (Len(r) - a) = (a + i) - Len(r)
        BY <1>0, <2>5, <3>1, <3>4 DEF z
      <4> QED BY <2>4, <3>1, <3>2, <4>1
    <3> QED BY <3>3, <3>4
  <2>7. Len(z) = Len(y)
    BY <1>0, <1>1, <2>3, <2>5 DEF z
  <2>8. z = y
    <3>1. z \in Seq(Bytes)
      BY <2>5 DEF z
    <3> QED BY <2>3, <2>6, <2>7, <3>1, SeqEqual
  <2> QED BY <2>8 DEF x, y, z
<1> HIDE DEF t
<1>3. ASSUME NEW i \in 0 .. Len(r) PROVE Newlines(t, i) = Newlines(r, i)
  <2>1. Ends(t) = {j \in 1 .. Len(t) : t[j] = NL} /\ Ends(r) = {j \in 1 .. Len(r) : r[j] = NL}
    BY <1>1, EndsType
  <2>2. {j \in Ends(t) : j <= i} = {j \in Ends(r) : j <= i}
    BY <1>0, <1>1, <2>1
  <2> QED BY <2>2 DEF Newlines
<1>4. n \in 0 .. Cardinality(Ends(t))
  <2>1. Len(r) \in 0 .. Len(r) /\ Len(r) \in 0 .. Len(t) /\ Len(t) \in 0 .. Len(t) /\ Len(r) <= Len(t)
    BY <1>0, <1>1
  <2>2. Newlines(t, Len(r)) = n
    BY <1>3, <2>1, CountSteps
  <2>3. Newlines(t, Len(r)) <= Newlines(t, Len(t))
    BY <1>1, <2>1, CountGrows
  <2>4. Newlines(t, Len(t)) = Cardinality(Ends(t)) /\ Cardinality(Ends(t)) \in Nat
    BY <1>1, EndsType, CountSteps
  <2> HIDE DEF n
  <2> QED BY <1>0, <2>2, <2>3, <2>4
<1>5. ASSUME NEW k \in 0 .. n PROVE End(t, k) = End(r, k)
  <2> DEFINE e == End(r, k)
  <2>1. e \in Ends(r) \cup {0} /\ e \in 0 .. Len(r) /\ Newlines(r, e) = k
    BY EndType
  <2> HIDE DEF e
  <2>2. Newlines(t, e) = k
    BY <1>3, <2>1
  <2>3. e \in Ends(t) \cup {0}
    <3>1. Ends(t) = {j \in 1 .. Len(t) : t[j] = NL} /\ Ends(r) = {j \in 1 .. Len(r) : r[j] = NL}
      BY <1>1, EndsType
    <3> QED BY <1>0, <1>1, <2>1, <3>1
  <2>4. End(t, Newlines(t, e)) = e
    BY <1>1, <2>3, EndAt
  <2> QED BY <2>2, <2>4 DEF e
<1>6. ASSUME NEW k \in 1 .. n PROVE Lines(t)[k] = Lines(r)[k]
  <2> DEFINE a == End(r, k - 1)
             b == End(r, k) - 1
  <2>1. k - 1 \in 0 .. n /\ k \in 0 .. n /\ k \in 1 .. Cardinality(Ends(t))
    <3>1. Cardinality(Ends(t)) \in Nat
      BY <1>1, EndsType
    <3> HIDE DEF n
    <3> QED BY <1>0, <1>4, <3>1
  <2>2. End(t, k - 1) = a /\ End(t, k) - 1 = b
    BY <1>5, <2>1
  <2>3. Lines(t)[k] = SubSeq(t, a + 1, b)
    <3>1. Lines(t)[k] = SubSeq(t, End(t, k - 1) + 1, End(t, k) - 1)
      BY <1>1, <2>1, WholeLines
    <3> QED BY <2>2, <3>1
  <2>4. Lines(r)[k] = SubSeq(r, a + 1, b)
    BY WholeLines
  <2>5. a \in 0 .. Len(r) /\ b + 1 \in 0 .. Len(r) /\ b \in Int
    <3>1. a \in 0 .. Len(r) /\ End(r, k) \in 0 .. Len(r)
      BY <2>1, EndType
    <3> QED BY <3>1
  <2> HIDE DEF a, b
  <2> DEFINE x == SubSeq(t, a + 1, b)
             y == SubSeq(r, a + 1, b)
  <2>6. a \in Nat /\ b <= Len(r) /\ b <= Len(t)
    BY <1>0, <1>1, <2>5
  <2>7. /\ x \in Seq(Bytes) /\ Len(x) = IF a <= b THEN b - a ELSE 0
        /\ \A i \in 1 .. b - a : x[i] = t[a + i]
    <3>1. t \in Seq(Bytes)
      BY <1>1 DEF IsText
    <3> QED BY <2>5, <2>6, <3>1, PartType
  <2>8. /\ y \in Seq(Bytes) /\ Len(y) = IF a <= b THEN b - a ELSE 0
        /\ \A i \in 1 .. b - a : y[i] = r[a + i]
    BY <2>5, <2>6, PartType DEF IsText
  <2> HIDE DEF x, y
  <2>9. \A i \in 1 .. Len(x) : x[i] = y[i]
    <3> SUFFICES ASSUME NEW i \in 1 .. Len(x) PROVE x[i] = y[i]
      OBVIOUS
    <3>1. i \in 1 .. b - a /\ a + i \in 1 .. Len(r)
      BY <2>5, <2>6, <2>7
    <3> QED BY <1>1, <2>7, <2>8, <3>1
  <2>10. x = y
    BY <2>7, <2>8, <2>9, SeqEqual
  <2> QED BY <2>3, <2>4, <2>10 DEF x, y
<1> QED BY <1>1, <1>2, <1>3, <1>4, <1>5, <1>6 DEF t, n


-----------------------------------------------------------------------------
(* The fold over the lines of a chunk: what its function computes of the    *)
(* first k lines, one line after the other.                                 *)

FoldStep(s, lines, g, d) ==
  IF d = {} THEN s ELSE Parsed(g[d \ {Max(d)}], lines[Max(d)])
FoldFits(s, lines, D, g) == g = [d \in D |-> FoldStep(s, lines, g, d)]
FoldFcn(s, lines) ==
  CHOOSE g : g = [d \in SUBSET (DOMAIN lines) |-> FoldStep(s, lines, g, d)]

LEMMA FoldIsFcn ==
  ASSUME NEW s, NEW lines
  PROVE  FoldLeft(Parsed, s, lines) = FoldFcn(s, lines)[DOMAIN lines]
BY DEF FoldLeft, FoldFcn, FoldStep, MapThenFoldSet

LEMMA FoldAt ==
  ASSUME NEW s, NEW lines, NEW D, NEW g, FoldFits(s, lines, D, g), NEW d \in D
  PROVE  g[d] = FoldStep(s, lines, g, d)
<1>1. g = [e \in D |-> FoldStep(s, lines, g, e)]
  BY DEF FoldFits
<1> QED BY <1>1

LEMMA MaxIsThere ==
  ASSUME NEW n \in Nat, NEW d \in SUBSET (1 .. n), d # {}
  PROVE  Max(d) \in d /\ \A y \in d : y <= Max(d)
<1> DEFINE T == {n - x : x \in d}
<1>1. T \in SUBSET Nat /\ T # {}
  <2>1. \A x \in d : n - x \in Nat
    OBVIOUS
  <2>2. PICK x \in d : TRUE
    OBVIOUS
  <2>3. n - x \in T
    OBVIOUS
  <2>4. T \subseteq Nat
    BY <2>1
  <2> QED BY <2>3, <2>4
<1>2. PICK m \in T : \A y \in T : m <= y
  <2> HIDE DEF T
  <2> QED BY <1>1, Least
<1>3. PICK x \in d : m = n - x
  BY <1>2
<1>4. \A y \in d : x >= y
  <2> SUFFICES ASSUME NEW y \in d PROVE x >= y
    OBVIOUS
  <2>1. n - y \in T
    OBVIOUS
  <2>2. n - x <= n - y /\ x \in 1 .. n /\ y \in 1 .. n
    BY <1>2, <1>3, <2>1
  <2> HIDE DEF T
  <2> QED BY <2>2
<1>5. Max(d) \in d /\ \A y \in d : Max(d) >= y
  BY <1>4 DEF Max
<1>6. \A y \in d : y \in Int
  OBVIOUS
<1> QED BY <1>5, <1>6

UpTo(S, n) == {d \in SUBSET S : Cardinality(d) <= n}

LEMMA UpToLayers ==
  ASSUME NEW S, IsFiniteSet(S)
  PROVE  /\ UpTo(S, 0) = {{}}
         /\ \A n \in Nat : \A d \in UpTo(S, n + 1) : \A x \in d :
              d \ {x} \in UpTo(S, n) /\ d \ {x} \in UpTo(S, n + 1)
         /\ Cardinality(S) \in Nat /\ UpTo(S, Cardinality(S)) = SUBSET S
<1>1. \A d \in SUBSET S : /\ IsFiniteSet(d) /\ Cardinality(d) \in Nat
                           /\ (Cardinality(d) = 0 <=> d = {})
                           /\ Cardinality(d) <= Cardinality(S)
  BY FS_Subset, FS_CardinalityType, FS_EmptySet
<1>2. UpTo(S, 0) = {{}}
  <2>1. \A d \in UpTo(S, 0) : d = {}
    BY <1>1 DEF UpTo
  <2>2. {} \in UpTo(S, 0)
    BY <1>1 DEF UpTo
  <2> QED BY <2>1, <2>2
<1>3. ASSUME NEW n \in Nat, NEW d \in UpTo(S, n + 1), NEW x \in d
      PROVE  d \ {x} \in UpTo(S, n) /\ d \ {x} \in UpTo(S, n + 1)
  <2>1. d \in SUBSET S /\ d \ {x} \in SUBSET S /\ Cardinality(d) <= n + 1
    BY DEF UpTo
  <2>2. Cardinality(d \ {x}) = Cardinality(d) - 1
    BY <1>1, <2>1, FS_RemoveElement
  <2> QED BY <1>1, <2>1, <2>2 DEF UpTo
<1>4. Cardinality(S) \in Nat /\ UpTo(S, Cardinality(S)) = SUBSET S
  BY <1>1 DEF UpTo
<1> QED BY <1>2, <1>3, <1>4

LEMMA FoldExists ==
  ASSUME NEW s, NEW lines, NEW n \in Nat, DOMAIN lines = 1 .. n
  PROVE  FoldFits(s, lines, SUBSET (1 .. n), FoldFcn(s, lines))
<1> DEFINE S == 1 .. n
           N == {k \in Nat : \E g : FoldFits(s, lines, UpTo(S, k), g)}
<1>0. /\ UpTo(S, 0) = {{}}
      /\ \A k \in Nat : \A d \in UpTo(S, k + 1) : \A x \in d :
           d \ {x} \in UpTo(S, k) /\ d \ {x} \in UpTo(S, k + 1)
      /\ Cardinality(S) \in Nat /\ UpTo(S, Cardinality(S)) = SUBSET S
  <2>1. IsFiniteSet(S)
    BY FS_Interval
  <2> HIDE DEF S
  <2> QED BY <2>1, UpToLayers
<1>1. 0 \in N
  <2>1. FoldFits(s, lines, {{}}, [d \in {{}} |-> s])
    BY DEF FoldFits, FoldStep
  <2>2. FoldFits(s, lines, UpTo(S, 0), [d \in {{}} |-> s])
    <3> HIDE DEF S
    <3> QED BY <1>0, <2>1
  <2> QED BY <2>2
<1>2. ASSUME NEW k \in N PROVE k + 1 \in N
  <2>1. PICK g : FoldFits(s, lines, UpTo(S, k), g)
    OBVIOUS
  <2> DEFINE h == [d \in UpTo(S, k + 1) |-> FoldStep(s, lines, g, d)]
  <2>2. ASSUME NEW d \in UpTo(S, k + 1)
        PROVE  FoldStep(s, lines, g, d) = FoldStep(s, lines, h, d)
    <3>1. CASE d = {}
      BY <3>1 DEF FoldStep
    <3>2. CASE d # {}
      <4> DEFINE e == d \ {Max(d)}
      <4>0. d \in SUBSET (1 .. n)
        BY DEF UpTo
      <4>1. Max(d) \in d
        BY <3>2, <4>0, MaxIsThere
      <4>2. e \in UpTo(S, k) /\ e \in UpTo(S, k + 1)
        BY <1>0, <4>1
      <4> HIDE DEF e
      <4>3. h[e] = FoldStep(s, lines, g, e) /\ g[e] = FoldStep(s, lines, g, e)
        BY <2>1, <4>2, FoldAt
      <4> QED BY <3>2, <4>3 DEF FoldStep, e
    <3> QED BY <3>1, <3>2
  <2> HIDE DEF h
  <2>3. h = [d \in UpTo(S, k + 1) |-> FoldStep(s, lines, g, d)]
    BY DEF h
  <2> QED BY <2>2, <2>3 DEF FoldFits
<1>3. Nat \subseteq N
  <2> HIDE DEF N
  <2> QED BY <1>1, <1>2, Induct
<1>4. \E g : FoldFits(s, lines, SUBSET S, g)
  <2>1. \E g : FoldFits(s, lines, UpTo(S, Cardinality(S)), g)
    BY <1>0, <1>3
  <2> HIDE DEF S
  <2> QED BY <1>0, <2>1
<1> QED BY <1>4 DEF FoldFcn, FoldFits

\* What one line after the other keeps is kept by all of them.
LEMMA FoldKeeps ==
  ASSUME NEW s, NEW lines, NEW n \in Nat, DOMAIN lines = 1 .. n,
         NEW J, s \in J[0],
         \A k \in 1 .. n : \A f \in J[k - 1] : Parsed(f, lines[k]) \in J[k]
  PROVE  FoldLeft(Parsed, s, lines) \in J[n]
<1> DEFINE g == FoldFcn(s, lines)
           S == {k \in 0 .. n : g[1 .. k] \in J[k]}
<1>1. ASSUME NEW d \in SUBSET (1 .. n) PROVE g[d] = FoldStep(s, lines, g, d)
  BY FoldExists, FoldAt
<1> HIDE DEF g
<1>2. 0 \in S
  <2>1. 1 .. 0 = {} /\ {} \in SUBSET (1 .. n)
    OBVIOUS
  <2>2. g[{}] = s
    BY <1>1, <2>1 DEF FoldStep
  <2> QED BY <2>1, <2>2
<1>3. ASSUME NEW k \in 1 .. n, k - 1 \in S PROVE k \in S
  <2> DEFINE d == 1 .. k
  <2>1. d \in SUBSET (1 .. n) /\ d # {} /\ k \in d /\ \A y \in d : y <= k
    <3>1. k \in d /\ \A y \in d : y <= k /\ y \in 1 .. n
      OBVIOUS
    <3> HIDE DEF d
    <3> QED BY <3>1
  <2>2. Max(d) \in d /\ \A y \in d : y <= Max(d)
    <3> HIDE DEF d
    <3> QED BY <2>1, MaxIsThere
  <2>3. Max(d) = k
    BY <2>1, <2>2
  <2>4. d \ {k} = 1 .. k - 1
    OBVIOUS
  <2>5. g[d] = Parsed(g[1 .. k - 1], lines[k])
    <3>1. g[d] = FoldStep(s, lines, g, d)
      BY <1>1, <2>1
    <3> HIDE DEF d
    <3> QED BY <2>1, <2>3, <2>4, <3>1 DEF FoldStep
  <2>6. g[1 .. k - 1] \in J[k - 1]
    BY <1>3
  <2> QED BY <2>5, <2>6
<1>4. 0 .. n \subseteq S
  <2> HIDE DEF S
  <2> QED BY <1>2, <1>3, InductUpTo
<1>5. g[1 .. n] \in J[n]
  BY <1>4
<1> QED BY <1>5, FoldIsFcn DEF g

-----------------------------------------------------------------------------
(* The types of the state.                                                 *)

LEMMA ParsedType ==
  ASSUME NEW s \in Summaries, NEW line, IsText(line)
  PROVE  Parsed(s, line) \in Summaries
<1> DEFINE c == line[Len(line)]
           T == {Type[x] : x \in Closers} \ {""}
           M == {Model[x] : x \in Closers}
<1>1. CASE ~ IsJson(line)
  BY <1>1 DEF Parsed
<1>2. CASE IsJson(line)
  <2>1. c \in Closers
    BY <1>2 DEF IsJson
  <2>2. /\ s.events \in [T -> Nat] /\ s.errors \in Seq(Closers \cup {Dropped})
        /\ s.answer \in Nat /\ s.models \in Seq(M) /\ s.usage \in Closers \cup {None}
    BY DEF Summaries
  <2>3. Model[c] \in M /\ Delta[c] \in Nat
    BY <2>1, SummarizerAssumption
  <2> DEFINE ev == [t \in DOMAIN s.events |-> s.events[t] + IF t = Type[c] THEN 1 ELSE 0]
             er == IF Type[c] = "response.failed" THEN Append(s.errors, c) ELSE s.errors
             an == IF Type[c] = "delta" THEN Grown(s.answer, Delta[c]) ELSE s.answer
             mo == AddOnce(s.models, Model[c])
             us == IF Usage[c] THEN c ELSE s.usage
  <2> HIDE DEF c, M
  <2>4. ev \in [T -> Nat]
    <3> HIDE DEF T
    <3>1. DOMAIN s.events = T /\ \A t \in T : s.events[t] \in Nat
      BY <2>2
    <3>2. \A t \in T : (s.events[t] + IF t = Type[c] THEN 1 ELSE 0) \in Nat
      BY <3>1
    <3> QED BY <3>1, <3>2
  <2>5. er \in Seq(Closers \cup {Dropped})
    BY <2>1, <2>2, AppendProperties
  <2>6. an \in Nat
    <3>1. s.answer \in Nat /\ Delta[c] \in Nat
      BY <2>2, <2>3
    <3>2. s.answer + Delta[c] \in Nat
      BY <3>1
    <3> QED BY <3>1, <3>2 DEF Grown
  <2>7. mo \in Seq(M)
    BY <2>2, <2>3, AppendProperties DEF AddOnce
  <2>8. us \in Closers \cup {None}
    BY <2>1, <2>2
  <2>9. Parsed(s, line) = [events |-> ev, errors |-> er, answer |-> an, models |-> mo, usage |-> us]
    BY <1>2 DEF Parsed, c
  <2> HIDE DEF ev, er, an, mo, us, T
  <2>10. [events |-> ev, errors |-> er, answer |-> an, models |-> mo, usage |-> us]
           \in [events : [T -> Nat], errors : Seq(Closers \cup {Dropped}),
               answer : Nat, models : Seq(M), usage : Closers \cup {None}]
    BY <2>4, <2>5, <2>6, <2>7, <2>8
  <2> QED BY <2>9, <2>10, Zenon DEF Summaries, T, M
<1> QED BY <1>1, <1>2

LEMMA FoldedType ==
  ASSUME NEW s \in Summaries, NEW lines \in Seq(Seq(Bytes))
  PROVE  FoldLeft(Parsed, s, lines) \in Summaries
<1> DEFINE n == Len(lines)
           J == [k \in 0 .. n |-> Summaries]
<1>1. n \in Nat /\ DOMAIN lines = 1 .. n /\ \A k \in 1 .. n : IsText(lines[k])
  BY LenProperties, ElementOfSeq DEF IsText
<1> HIDE DEF n
<1>2. s \in J[0]
  BY <1>1
<1>3. \A k \in 1 .. n : \A f \in J[k - 1] : Parsed(f, lines[k]) \in J[k]
  <2> SUFFICES ASSUME NEW k \in 1 .. n, NEW f \in J[k - 1] PROVE Parsed(f, lines[k]) \in J[k]
    OBVIOUS
  <2>1. k \in 0 .. n /\ k - 1 \in 0 .. n
    BY <1>1
  <2>2. f \in Summaries /\ J[k] = Summaries
    BY <2>1
  <2> HIDE DEF J
  <2> QED BY <1>1, <2>2, ParsedType
<1>4. J[n] = Summaries
  BY <1>1
<1> HIDE DEF J
<1>5. FoldLeft(Parsed, s, lines) \in J[n]
  BY <1>1, <1>2, <1>3, FoldKeeps
<1> QED BY <1>4, <1>5

LEMMA ChunkType == ASSUME NEW chunk \in Chunks PROVE IsText(chunk)
<1>1. PICK n \in 0 .. MaxChunk : chunk \in [1 .. n -> Bytes]
  BY DEF Chunks
<1>2. MaxChunk \in Nat
  BY SummarizerAssumption
<1>3. n \in Nat
  BY <1>2
<1> QED BY <1>1, <1>3 DEF IsText

LEMMA JoinType ==
  ASSUME NEW x, IsText(x), NEW y, IsText(y)
  PROVE  IsText(x \o y) /\ Len(x \o y) = Len(x) + Len(y)
BY ConcatProperties DEF IsText

LEMMA BlankType == Blank \in Summaries
<1>1. [t \in {Type[c] : c \in Closers} \ {""} |-> 0] \in [{Type[c] : c \in Closers} \ {""} -> Nat]
  OBVIOUS
<1>2. << >> \in Seq(Closers \cup {Dropped}) /\ << >> \in Seq({Model[c] : c \in Closers})
  BY EmptySeq
<1> QED BY <1>1, <1>2 DEF Blank, Summaries

LEMMA FieldsAre ==
  ASSUME NEW s \in Summaries
  PROVE  s = [events |-> s.events, errors |-> s.errors, answer |-> s.answer,
              models |-> s.models, usage |-> s.usage]
BY DEF Summaries

\* What a chunk of an event stream is made of, and leaves.
LEMMA PushLinesType ==
  ASSUME TypeOK, NEW chunk, IsText(chunk)
  PROVE  LET text == pending \o chunk
             sum == FoldLeft(Parsed, Fields, Lines(text))
         IN /\ IsText(text) /\ IsText(Rest(text)) /\ Lines(text) \in Seq(Seq(Bytes))
            /\ sum \in Summaries
<1> DEFINE text == pending \o chunk
<1>1. IsText(text)
  BY JoinType DEF TypeOK, IsText
<1> HIDE DEF text
<1>2. Lines(text) \in Seq(Seq(Bytes)) /\ Rest(text) = From(text, End(text, Cardinality(Ends(text))))
  BY <1>1, WholeLines
<1>3. End(text, Cardinality(Ends(text))) \in 0 .. Len(text)
  <2>1. Cardinality(Ends(text)) \in Nat
    BY <1>1, EndsType
  <2>2. Cardinality(Ends(text)) \in 0 .. Cardinality(Ends(text))
    BY <2>1
  <2> QED BY <1>1, <2>2, EndType
<1>4. IsText(Rest(text))
  BY <1>1, <1>2, <1>3, FromType
<1>5. FoldLeft(Parsed, Fields, Lines(text)) \in Summaries
  BY <1>2, FoldedType DEF TypeOK
<1> QED BY <1>1, <1>2, <1>4, <1>5 DEF text

LEMMA TypesStart == Init => TypeOK
<1> SUFFICES ASSUME Init PROVE TypeOK
  OBVIOUS
<1>1. Fields = Blank
  BY DEF Init, Fields, Blank
<1>2. cap \in Nat /\ << >> \in Seq(Bytes) /\ << >> \in Seq(Seq(Bytes))
  BY SummarizerAssumption, EmptySeq DEF Init
<1> QED BY <1>1, <1>2, BlankType DEF Init, TypeOK

LEMMA TypesStep == TypeOK /\ [Next]_vars => TypeOK'
<1> SUFFICES ASSUME TypeOK, [Next]_vars PROVE TypeOK'
  OBVIOUS
<1> USE DEF TypeOK
<1>1. ASSUME NEW chunk \in Chunks, Pushed(chunk)
      PROVE  received' \in Seq(Bytes) /\ bytes' \in Nat /\ UNCHANGED <<sse, cap, encoding, done>>
  <2>1. IsText(chunk) /\ IsText(received)
    BY ChunkType DEF IsText
  <2>2. IsText(received \o chunk) /\ Len(chunk) \in Nat
    BY <2>1, JoinType, EndsType
  <2> QED BY <1>1, <2>2 DEF Pushed, fixed, IsText
<1>2. ASSUME NEW chunk \in Chunks, PushLines(chunk) PROVE TypeOK'
  <2> DEFINE text == pending \o chunk
             rest == Rest(text)
             sum == FoldLeft(Parsed, Fields, Lines(text))
  <2>1. IsText(rest) /\ Lines(text) \in Seq(Seq(Bytes)) /\ sum \in Summaries
    BY ChunkType, PushLinesType
  <2>2. /\ Pushed(chunk) /\ handed' = handed \o Lines(text)
        /\ pending' = IF TooLong(rest) THEN << >> ELSE rest
        /\ errors' = IF TooLong(rest) THEN Append(sum.errors, Dropped) ELSE sum.errors
        /\ events' = sum.events /\ answer' = sum.answer
        /\ models' = sum.models /\ usage' = sum.usage
        /\ UNCHANGED <<raw, truncated>>
    BY <1>2 DEF PushLines
  <2> HIDE DEF sum, rest, text
  <2>3. pending' \in Seq(Bytes)
    BY <2>1, <2>2, EmptySeq DEF IsText
  <2>4. handed' \in Seq(Seq(Bytes))
    BY <2>1, <2>2, ConcatProperties
  <2>5. Fields' \in Summaries
    <3>1. /\ sum.events \in [{Type[c] : c \in Closers} \ {""} -> Nat]
          /\ sum.errors \in Seq(Closers \cup {Dropped}) /\ sum.answer \in Nat
          /\ sum.models \in Seq({Model[c] : c \in Closers}) /\ sum.usage \in Closers \cup {None}
      BY <2>1 DEF Summaries
    <3>2. errors' \in Seq(Closers \cup {Dropped})
      <4>1. Append(sum.errors, Dropped) \in Seq(Closers \cup {Dropped})
        BY <3>1, AppendProperties
      <4> QED BY <2>2, <3>1, <4>1
    <3>3. Fields' = [events |-> events', errors |-> errors', answer |-> answer',
                     models |-> models', usage |-> usage']
      BY DEF Fields
    <3> QED BY <2>2, <3>1, <3>2, <3>3 DEF Summaries
  <2> QED BY <1>1, <2>2, <2>3, <2>4, <2>5
<1>3. ASSUME NEW chunk \in Chunks, PushRaw(chunk) PROVE TypeOK'
  <2> DEFINE room == cap - Len(raw)
             take == IF room < Len(chunk) THEN room ELSE Len(chunk)
  <2>1. Pushed(chunk) /\ raw' = raw \o SubSeq(chunk, 1, take)
        /\ truncated' = (truncated \/ Cut(chunk, take))
        /\ UNCHANGED <<pending, fields, handed>>
    BY <1>3 DEF PushRaw
  <2>2. IsText(chunk) /\ Len(chunk) \in Nat /\ Len(raw) \in Nat
    BY ChunkType, EndsType DEF IsText
  <2>3. take \in Int /\ take <= Len(chunk)
    BY <2>2
  <2> HIDE DEF take
  <2>4. SubSeq(chunk, 0 + 1, take) \in Seq(Bytes) /\ 0 + 1 = 1
    BY <2>2, <2>3, PartType DEF IsText
  <2>5. raw' \in Seq(Bytes)
    BY <2>1, <2>4, ConcatProperties
  <2>6. Fields' = Fields
    BY <2>1 DEF fields, Fields
  <2> QED BY <1>1, <2>1, <2>5, <2>6
<1>4. CASE Finish
  <2>1. Fields' = Fields
    BY <1>4 DEF Finish, fields, Fields
  <2> QED BY <1>4, <2>1 DEF Finish, fixed
<1>5. CASE UNCHANGED vars
  <2>1. Fields' = Fields
    BY <1>5 DEF vars, fields, Fields
  <2> QED BY <1>5, <2>1 DEF vars, fixed
<1> QED BY <1>2, <1>3, <1>4, <1>5 DEF Next

\* The types of the state, whatever the chunks and the frames are.
THEOREM TypeCorrect == Spec => []TypeOK
BY TypesStart, TypesStep, PTL DEF Spec

-----------------------------------------------------------------------------
(* What is kept of a body and of the answer.                               *)

\* How much of a body that is not an event stream is kept.
Kept == IF Len(received) <= cap THEN Len(received) ELSE cap

\* The prefix that is kept is as long as it can be, and the mark says so.
RawInv ==
  /\ bytes = Len(received)
  /\ sse => raw = << >>
  /\ ~sse => /\ Len(raw) = Kept
             /\ \A i \in 1 .. Len(raw) : raw[i] = received[i]
             /\ truncated <=> Len(received) > cap

InBound(a) == a < TextCap \/ \E c \in Closers : a - Delta[c] < TextCap

LEMMA ParsedBound ==
  ASSUME NEW s \in Summaries, InBound(s.answer), NEW line, IsText(line)
  PROVE  InBound(Parsed(s, line).answer)
<1> DEFINE c == line[Len(line)]
<1>1. CASE ~ IsJson(line)
  BY <1>1 DEF Parsed
<1>2. CASE IsJson(line)
  <2>1. c \in Closers
    BY <1>2 DEF IsJson
  <2>2. Parsed(s, line).answer = IF Type[c] = "delta" THEN Grown(s.answer, Delta[c]) ELSE s.answer
    BY <1>2 DEF Parsed
  <2> HIDE DEF c
  <2>3. InBound(Grown(s.answer, Delta[c]))
    <3>1. s.answer \in Nat
      BY DEF Summaries
    <3>2. Delta[c] \in Nat
      BY <2>1, SummarizerAssumption
    <3>3. TextCap \in Nat
      BY SummarizerAssumption
    <3>4. CASE s.answer < TextCap
      <4>1. Grown(s.answer, Delta[c]) = s.answer + Delta[c]
        BY <3>4 DEF Grown
      <4>2. (s.answer + Delta[c]) - Delta[c] = s.answer
        BY <3>1, <3>2
      <4> QED BY <2>1, <3>4, <4>1, <4>2 DEF InBound
    <3>5. CASE ~ (s.answer < TextCap)
      BY <3>5 DEF Grown
    <3> QED BY <3>4, <3>5
  <2> QED BY <2>2, <2>3
<1> QED BY <1>1, <1>2

LEMMA FoldedBound ==
  ASSUME NEW s \in Summaries, InBound(s.answer), NEW lines \in Seq(Seq(Bytes))
  PROVE  InBound(FoldLeft(Parsed, s, lines).answer)
<1> DEFINE n == Len(lines)
           B == {f \in Summaries : InBound(f.answer)}
           J == [k \in 0 .. n |-> B]
<1>1. n \in Nat /\ DOMAIN lines = 1 .. n /\ \A k \in 1 .. n : IsText(lines[k])
  BY LenProperties, ElementOfSeq DEF IsText
<1> HIDE DEF n
<1>2. s \in J[0]
  BY <1>1
<1>3. \A k \in 1 .. n : \A f \in J[k - 1] : Parsed(f, lines[k]) \in J[k]
  <2> SUFFICES ASSUME NEW k \in 1 .. n, NEW f \in J[k - 1] PROVE Parsed(f, lines[k]) \in J[k]
    OBVIOUS
  <2>1. k \in 0 .. n /\ k - 1 \in 0 .. n
    BY <1>1
  <2>2. f \in B /\ J[k] = B
    BY <2>1
  <2>3. IsText(lines[k])
    BY <1>1
  <2> HIDE DEF J
  <2> QED BY <2>2, <2>3, ParsedType, ParsedBound
<1>4. J[n] = B
  BY <1>1
<1> HIDE DEF J
<1>5. FoldLeft(Parsed, s, lines) \in J[n]
  BY <1>1, <1>2, <1>3, FoldKeeps
<1> QED BY <1>4, <1>5

KeptInv == TypeOK /\ RawInv /\ InBound(answer) /\ Len(pending) <= MaxLine

LEMMA KeptStart == Init => KeptInv
<1> SUFFICES ASSUME Init PROVE KeptInv
  OBVIOUS
<1>1. TypeOK
  BY TypesStart
<1>2. answer = 0 /\ Len(<< >>) = 0 /\ cap \in Nat /\ MaxLine \in Nat /\ TextCap \in Nat /\ TextCap # 0
  BY <1>1, SummarizerAssumption, EmptySeq DEF Init, Blank, TypeOK
<1>3. InBound(answer)
  BY <1>2 DEF InBound
<1>4. RawInv
  BY <1>2 DEF Init, RawInv, Kept
<1>5. Len(pending) <= MaxLine
  BY <1>2 DEF Init
<1> QED BY <1>1, <1>3, <1>4, <1>5 DEF KeptInv

LEMMA KeptStep == KeptInv /\ [Next]_vars => KeptInv'
<1> SUFFICES ASSUME KeptInv, [Next]_vars PROVE KeptInv'
  OBVIOUS
<1>0. TypeOK /\ TypeOK' /\ RawInv /\ InBound(answer) /\ Len(pending) <= MaxLine
  BY TypesStep DEF KeptInv
<1>1. Fields \in Summaries /\ Fields.answer = answer /\ cap \in Nat /\ MaxLine \in Nat
  BY <1>0, SummarizerAssumption DEF TypeOK, Fields
<1>2. ASSUME NEW chunk \in Chunks, Pushed(chunk)
      PROVE  /\ IsText(chunk) /\ Len(chunk) \in Nat
             /\ IsText(received) /\ Len(received) \in Nat
             /\ received' = received \o chunk /\ bytes' = bytes + Len(chunk)
             /\ Len(received') = Len(received) + Len(chunk)
             /\ bytes' = Len(received')
             /\ UNCHANGED <<sse, cap>>
  <2>1. IsText(chunk) /\ IsText(received)
    BY <1>0, ChunkType DEF TypeOK, IsText
  <2>2. Len(received \o chunk) = Len(received) + Len(chunk) /\ Len(chunk) \in Nat
        /\ Len(received) \in Nat
    BY <2>1, JoinType, EndsType
  <2> QED BY <1>0, <1>2, <2>1, <2>2 DEF Pushed, fixed, RawInv
<1>3. ASSUME NEW chunk \in Chunks, PushLines(chunk) PROVE KeptInv'
  <2> DEFINE text == pending \o chunk
             rest == Rest(text)
             sum == FoldLeft(Parsed, Fields, Lines(text))
  <2>1. IsText(rest) /\ Lines(text) \in Seq(Seq(Bytes)) /\ sum \in Summaries
    BY <1>0, ChunkType, PushLinesType
  <2>2. /\ sse /\ Pushed(chunk) /\ pending' = IF TooLong(rest) THEN << >> ELSE rest
        /\ answer' = sum.answer /\ UNCHANGED <<raw, truncated>>
    BY <1>3 DEF PushLines
  <2>3. InBound(sum.answer)
    BY <1>0, <1>1, <2>1, FoldedBound
  <2> HIDE DEF sum, rest, text
  <2>4. InBound(answer')
    BY <2>2, <2>3
  <2>5. Len(pending') <= MaxLine
    <3>1. Len(<< >>) = 0 /\ Len(rest) \in Nat
      BY <2>1, EmptySeq, EndsType
    <3> QED BY <1>1, <2>2, <3>1 DEF TooLong
  <2>6. RawInv'
    BY <1>0, <1>2, <2>2 DEF RawInv
  <2> QED BY <1>0, <2>4, <2>5, <2>6 DEF KeptInv, InBound
<1>4. ASSUME NEW chunk \in Chunks, PushRaw(chunk) PROVE KeptInv'
  <2> DEFINE room == cap - Len(raw)
             take == IF room < Len(chunk) THEN room ELSE Len(chunk)
             more == SubSeq(chunk, 0 + 1, take)
  <2>1. ~sse /\ Pushed(chunk) /\ raw' = raw \o SubSeq(chunk, 1, take)
        /\ truncated' = (truncated \/ Cut(chunk, take))
        /\ UNCHANGED <<pending, fields, handed>>
    BY <1>4 DEF PushRaw
  <2>2. /\ IsText(chunk) /\ Len(chunk) \in Nat
        /\ IsText(received) /\ Len(received) \in Nat
        /\ received' = received \o chunk
        /\ Len(received') = Len(received) + Len(chunk)
        /\ bytes' = Len(received')
        /\ UNCHANGED <<sse, cap>>
    BY <1>2, <2>1
  <2>3. /\ raw \in Seq(Bytes) /\ Len(raw) \in Nat /\ Len(raw) = Kept
        /\ \A i \in 1 .. Len(raw) : raw[i] = received[i]
        /\ truncated <=> Len(received) > cap
    BY <1>0, <2>1, LenProperties DEF RawInv, TypeOK
  <2>4. /\ room \in Nat /\ take \in 0 .. Len(chunk)
        /\ Len(raw) + take = IF Len(received) + Len(chunk) <= cap
                               THEN Len(received) + Len(chunk) ELSE cap
        /\ take > 0 => Len(raw) = Len(received)
        /\ Len(raw) <= Len(received)
        /\ take < Len(chunk) \/ Len(received) > cap <=> Len(received) + Len(chunk) > cap
    <3> DEFINE l == Len(raw)
               m == Len(received)
               d == Len(chunk)
    <3>1. l \in Nat /\ m \in Nat /\ d \in Nat /\ cap \in Nat /\ l = IF m <= cap THEN m ELSE cap
      BY <1>1, <2>2, <2>3 DEF Kept
    <3> HIDE DEF l, m, d
    <3>2. LET T == IF cap - l < d THEN cap - l ELSE d
          IN /\ cap - l \in Nat /\ T \in 0 .. d
             /\ l + T = IF m + d <= cap THEN m + d ELSE cap
             /\ T > 0 => l = m
             /\ l <= m
             /\ T < d \/ m > cap <=> m + d > cap
      BY <3>1
    <3> QED BY <3>2 DEF l, m, d
  <2> HIDE DEF take, room
  <2>5. /\ more \in Seq(Bytes) /\ Len(more) = take
        /\ \A i \in 1 .. take - 0 : more[i] = chunk[0 + i]
    BY <2>2, <2>4, PartType DEF IsText
  <2> HIDE DEF more
  <2>6. raw' = raw \o more
    BY <2>1 DEF more
  <2>7. /\ Len(raw') = Len(raw) + take
        /\ \A i \in 1 .. Len(raw) + take : raw'[i] = IF i <= Len(raw) THEN raw[i] ELSE more[i - Len(raw)]
    BY <2>3, <2>5, <2>6, ConcatProperties
  <2>8. \A i \in 1 .. Len(received) + Len(chunk) :
          received'[i] = IF i <= Len(received) THEN received[i] ELSE chunk[i - Len(received)]
    BY <2>2, ConcatProperties DEF IsText
  <2>9. ASSUME NEW i \in 1 .. Len(raw') PROVE raw'[i] = received'[i]
    <3>1. i \in 1 .. Len(raw) + take /\ i \in 1 .. Len(received) + Len(chunk)
      BY <2>2, <2>3, <2>4, <2>7
    <3>2. CASE i <= Len(raw)
      <4>1. i \in 1 .. Len(raw) /\ i <= Len(received)
        BY <2>2, <2>3, <2>4, <3>1, <3>2
      <4> QED BY <2>3, <2>7, <2>8, <3>1, <3>2, <4>1
    <3>3. CASE ~ (i <= Len(raw))
      <4>1. Len(raw) = Len(received) /\ i - Len(raw) \in 1 .. take - 0 /\ 0 + (i - Len(raw)) = i - Len(raw)
        BY <2>2, <2>3, <2>4, <3>1, <3>3
      <4>2. raw'[i] = more[i - Len(raw)] /\ more[i - Len(raw)] = chunk[i - Len(raw)]
        BY <2>5, <2>7, <3>1, <3>3, <4>1
      <4> QED BY <2>8, <3>1, <3>3, <4>1, <4>2
    <3> QED BY <3>2, <3>3
  <2>10. RawInv'
    <3>1. Len(raw') = Kept'
      BY <2>2, <2>4, <2>7 DEF Kept
    <3>2. truncated' <=> Len(received') > cap'
      BY <2>1, <2>2, <2>3, <2>4 DEF Cut
    <3> QED BY <2>1, <2>2, <2>9, <3>1, <3>2 DEF RawInv
  <2>11. InBound(answer)' /\ (Len(pending) <= MaxLine)'
    BY <1>0, <2>1 DEF fields, InBound
  <2> QED BY <1>0, <2>10, <2>11 DEF KeptInv
<1>5. CASE Finish
  BY <1>0, <1>5 DEF Finish, fixed, fields, KeptInv, RawInv, Kept, InBound
<1>6. CASE UNCHANGED vars
  BY <1>0, <1>6 DEF vars, fixed, fields, KeptInv, RawInv, Kept, InBound
<1> QED BY <1>3, <1>4, <1>5, <1>6 DEF Next

\* A body of which only a prefix was looked at is never described as whole.
THEOREM NeverCalledWhole == Spec => []CatalogHonest
<1>1. KeptInv => CatalogHonest
  <2> SUFFICES ASSUME KeptInv, ~sse PROVE CatalogHonest
    BY DEF CatalogHonest
  <2>1. /\ received \in Seq(Bytes) /\ Len(received) \in Nat /\ raw \in Seq(Bytes)
        /\ Len(raw) \in Nat /\ cap \in Nat
    BY LenProperties DEF KeptInv, TypeOK
  <2>2. /\ bytes = Len(received) /\ Len(raw) = Kept
        /\ \A i \in 1 .. Len(raw) : raw[i] = received[i]
        /\ truncated <=> Len(received) > cap
    BY DEF KeptInv, RawInv
  <2>3. Len(raw) <= Len(received) /\ (Len(received) <= cap => Len(raw) = Len(received))
    BY <2>1, <2>2 DEF Kept
  <2>4. raw = SubSeq(received, 1, Len(raw))
    <3> DEFINE x == SubSeq(received, 0 + 1, Len(raw))
    <3>1. /\ x \in Seq(Bytes) /\ Len(x) = Len(raw)
          /\ \A i \in 1 .. Len(raw) - 0 : x[i] = received[0 + i]
      BY <2>1, <2>3, PartType
    <3>2. \A i \in 1 .. Len(raw) : i \in 1 .. Len(raw) - 0 /\ 0 + i = i
      BY <2>1
    <3> HIDE DEF x
    <3>3. \A i \in 1 .. Len(raw) : raw[i] = x[i]
      BY <2>2, <3>1, <3>2
    <3>4. raw = x
      BY <2>1, <3>1, <3>3, SeqEqual
    <3> QED BY <3>4 DEF x
  <2>5. Catalog.truncated <=> Len(received) > cap
    <3>1. Catalog.truncated = (truncated \/ (cap = 0 /\ bytes > 0))
      BY DEF Catalog
    <3> QED BY <2>1, <2>2, <3>1
  <2>6. ~ Catalog.truncated => raw = received
    <3> SUFFICES ASSUME ~ Catalog.truncated PROVE raw = received
      OBVIOUS
    <3>1. Len(raw) = Len(received)
      BY <2>1, <2>3, <2>5
    <3> QED BY <2>1, <2>2, <3>1, SeqEqual
  <2> QED BY <2>4, <2>5, <2>6 DEF CatalogHonest
<1> QED BY KeptStart, KeptStep, <1>1, PTL DEF Spec

-----------------------------------------------------------------------------
(* What a chunk does to the lines: u is the line under way, from after s    *)
(* on, with the chunk behind it.                                           *)

LEMMA NextLines ==
  ASSUME NEW r, IsText(r), NEW c, IsText(c), NEW s \in 0 .. Len(r),
         End(r, Cardinality(Ends(r))) <= s
  PROVE  LET q == r \o c
             u == From(r, s) \o c
             n == Cardinality(Ends(r))
             m == Cardinality(Ends(u))
             e == End(r, n)
             f == End(q, n + m)
             a == IF m = 0 THEN s ELSE f
         IN /\ IsText(q) /\ Len(q) = Len(r) + Len(c) /\ IsText(u)
            /\ n \in Nat /\ m \in Nat /\ Cardinality(Ends(q)) = n + m
            /\ e \in 0 .. Len(r) /\ f \in e .. Len(q)
            /\ m = 0 => f = e
            /\ m # 0 => f > Len(r)
            /\ Lines(u) \in Seq(Seq(Bytes)) /\ Len(Lines(u)) = m
            /\ \A k \in 1 .. n : Lines(q)[k] = Lines(r)[k]
            /\ \A k \in 1 .. m :
                 /\ IsSuffix(Lines(u)[k], Lines(q)[n + k])
                 /\ k # 1 \/ s = e => Lines(u)[k] = Lines(q)[n + k]
                 /\ k = 1 => Len(Lines(q)[n + k]) >= Len(r) - e
            /\ Rest(u) = From(q, a) /\ Len(Rest(u)) = Len(q) - a
<1> DEFINE q == r \o c
           u == From(r, s) \o c
           n == Cardinality(Ends(r))
           m == Cardinality(Ends(u))
           e == End(r, n)
           f == End(q, n + m)
           a == IF m = 0 THEN s ELSE f
<1>0. Len(r) \in Nat /\ Len(c) \in Nat /\ n \in Nat /\ n \in 0 .. n
  <2>1. Len(r) \in Nat /\ Len(c) \in Nat /\ n \in Nat
    BY EndsType
  <2> HIDE DEF n
  <2> QED BY <2>1
<1>1. /\ IsText(q) /\ Len(q) = Len(r) + Len(c) /\ u = From(q, s)
      /\ \A i \in 0 .. Len(r) : Newlines(q, i) = Newlines(r, i)
      /\ \A k \in 0 .. n : End(q, k) = End(r, k)
      /\ \A k \in 1 .. n : Lines(q)[k] = Lines(r)[k]
  BY Grows
<1>2. e \in 0 .. Len(r) /\ Newlines(r, e) = n /\ e <= s
  BY <1>0, EndType
<1>3. Newlines(r, s) = n
  <2>1. Len(r) \in 0 .. Len(r) /\ s <= Len(r)
    BY <1>0
  <2>2. Newlines(r, e) <= Newlines(r, s) /\ Newlines(r, s) <= Newlines(r, Len(r))
    <3> HIDE DEF e
    <3> QED BY <1>2, <2>1, CountGrows
  <2>3. Newlines(r, Len(r)) = n /\ Newlines(r, s) \in Nat
    BY CountSteps, EndsType
  <2> HIDE DEF e, n
  <2> QED BY <1>0, <1>2, <2>2, <2>3
<1>4. s \in 0 .. Len(q) /\ Newlines(q, s) = n
  BY <1>0, <1>1, <1>3
<1> HIDE DEF q, u
<1>5. /\ m \in Nat /\ Cardinality(Ends(q)) = n + m
      /\ Lines(u) \in Seq(Seq(Bytes)) /\ Len(Lines(u)) = m
      /\ \A k \in 1 .. m :
           Lines(u)[k] = SubSeq(q, (IF k = 1 THEN s ELSE End(q, (n + k) - 1)) + 1,
                                End(q, n + k) - 1)
      /\ Rest(u) = From(q, a)
  <2> DEFINE v == From(q, s)
             w == Newlines(q, s)
             j == Cardinality(Ends(v))
  <2>1. /\ j \in Nat /\ Cardinality(Ends(q)) = w + j
        /\ Lines(v) \in Seq(Seq(Bytes)) /\ Len(Lines(v)) = j
        /\ \A k \in 1 .. j :
             Lines(v)[k] = SubSeq(q, (IF k = 1 THEN s ELSE End(q, (w + k) - 1)) + 1,
                                  End(q, w + k) - 1)
        /\ Rest(v) = From(q, IF j = 0 THEN s ELSE End(q, w + j))
    BY <1>1, <1>4, FromLines
  <2>2. v = u /\ w = n
    BY <1>1, <1>4
  <2> HIDE DEF v, w, n
  <2> QED BY <2>1, <2>2
<1> HIDE DEF n, m, e
<1>6. End(q, n) = e
  BY <1>0, <1>1 DEF e
<1>7. ASSUME NEW k \in 1 .. m PROVE End(q, n + k) \in s + 1 .. Len(q) /\ End(q, n + k) > Len(r)
  <2>1. End(q, n + k) \in s + 1 .. Len(q)
    <3>1. k \in 1 .. Cardinality(Ends(From(q, s)))
      BY <1>1 DEF m
    <3>2. End(q, Newlines(q, s) + k) \in s + 1 .. Len(q)
      BY <1>1, <1>4, <3>1, FromEnds
    <3> QED BY <1>4, <3>2
  <2>2. ~ (End(q, n + k) <= Len(r))
    <3> SUFFICES ASSUME End(q, n + k) <= Len(r) PROVE FALSE
      OBVIOUS
    <3>1. n + k \in 0 .. Cardinality(Ends(q))
      BY <1>0, <1>5
    <3>2. Newlines(q, End(q, n + k)) = n + k
      BY <1>1, <3>1, EndType
    <3> DEFINE b == End(q, n + k)
    <3> HIDE DEF b
    <3>3. b \in 0 .. Len(q) /\ Len(r) \in 0 .. Len(q) /\ b <= Len(r) /\ Len(r) \in 0 .. Len(r)
      BY <1>0, <1>1, <1>4, <2>1 DEF b
    <3>4. Newlines(q, b) <= Newlines(q, Len(r))
      BY <1>1, <3>3, CountGrows
    <3>5. Newlines(q, Len(r)) = n
      BY <1>1, <3>3, CountSteps DEF n
    <3>6. n + k <= n
      BY <3>2, <3>4, <3>5 DEF b
    <3> QED BY <1>0, <3>6
  <2>3. End(q, n + k) \in Int
    BY <2>1
  <2> QED BY <1>0, <2>1, <2>2, <2>3
<1>8. f \in e .. Len(q) /\ (m = 0 => f = e) /\ (m # 0 => f > Len(r)) /\ a \in 0 .. Len(q)
  <2>1. CASE m = 0
    <3>1. f = e
      BY <1>0, <1>6, <2>1
    <3> QED BY <1>0, <1>1, <1>2, <1>4, <2>1, <3>1
  <2>2. CASE m # 0
    <3>1. m \in 1 .. m
      BY <1>5, <2>2
    <3>2. f \in s + 1 .. Len(q) /\ f > Len(r)
      BY <1>7, <3>1
    <3> HIDE DEF f
    <3> QED BY <1>0, <1>1, <1>2, <2>2, <3>2
  <2> QED BY <2>1, <2>2
<1>9. ASSUME NEW k \in 1 .. m
      PROVE  /\ IsSuffix(Lines(u)[k], Lines(q)[n + k])
             /\ k # 1 \/ s = e => Lines(u)[k] = Lines(q)[n + k]
             /\ k = 1 => Len(Lines(q)[n + k]) >= Len(r) - e
  <2> DEFINE x == End(q, (n + k) - 1)
             y == IF k = 1 THEN s ELSE x
             z == End(q, n + k) - 1
  <2>1. n + k \in 1 .. Cardinality(Ends(q)) /\ (n + k) - 1 \in 0 .. Cardinality(Ends(q))
    BY <1>0, <1>5
  <2>2. x \in 0 .. Len(q) /\ x < End(q, n + k)
    BY <1>1, <2>1, EndType, EndsAscend
  <2>3. z + 1 \in s + 1 .. Len(q) /\ z + 1 > Len(r) /\ z \in Int
    <3>1. End(q, n + k) \in s + 1 .. Len(q) /\ End(q, n + k) > Len(r)
      BY <1>7
    <3> QED BY <3>1
  <2>4. k = 1 => x = e
    BY <1>0, <1>6
  <2>5. Lines(u)[k] = SubSeq(q, y + 1, z)
    BY <1>5
  <2>6. Lines(q)[n + k] = SubSeq(q, x + 1, z) /\ Len(Lines(q)[n + k]) = z - x
    BY <1>1, <2>1, WholeLines
  <2>7. x < z + 1
    <3>1. z + 1 = End(q, n + k)
      <4>1. End(q, n + k) \in Int
        BY <1>7
      <4> QED BY <4>1
    <3> QED BY <2>2, <3>1
  <2> HIDE DEF x, z
  <2>8. /\ x \in Nat /\ y \in Nat /\ z \in Int /\ x <= y /\ y <= z /\ z <= Len(q)
        /\ k # 1 \/ s = e => y = x
        /\ k = 1 => z - x >= Len(r) - e
    BY <1>0, <1>1, <1>2, <2>2, <2>3, <2>4, <2>7
  <2> HIDE DEF y
  <2>9. IsSuffix(SubSeq(q, y + 1, z), SubSeq(q, x + 1, z))
    BY <1>1, <2>8, ShorterIsSuffix DEF IsText
  <2> QED BY <2>5, <2>6, <2>8, <2>9
<1>10. Len(Rest(u)) = Len(q) - a /\ IsText(u)
  <2> HIDE DEF a
  <2>1. a \in 0 .. Len(q) /\ Rest(u) = From(q, a) /\ u = From(q, s) /\ IsText(q) /\ s \in 0 .. Len(q)
    BY <1>1, <1>4, <1>5, <1>8
  <2>2. Len(From(q, a)) = Len(q) - a /\ IsText(From(q, s))
    BY <2>1, FromType
  <2> QED BY <2>1, <2>2
<1> QED BY <1>0, <1>1, <1>2, <1>5, <1>8, <1>9, <1>10 DEF q, u, n, m, e

-----------------------------------------------------------------------------
(* Every line is looked at once.                                           *)

DropsOf(errs) == {i \in DOMAIN errs : errs[i] = Dropped}

LEMMA DropsAppend ==
  ASSUME NEW errs \in Seq(Closers \cup {Dropped}), NEW x \in Closers \cup {Dropped}
  PROVE  /\ IsFiniteSet(DropsOf(errs)) /\ Cardinality(DropsOf(errs)) \in Nat
         /\ DropsOf(Append(errs, x)) =
              DropsOf(errs) \cup IF x = Dropped THEN {Len(errs) + 1} ELSE {}
         /\ Len(errs) + 1 \notin DropsOf(errs)
<1> DEFINE n == Len(errs)
           f == Append(errs, x)
<1>1. n \in Nat /\ DOMAIN errs = 1 .. n
  BY LenProperties
<1>2. /\ f \in Seq(Closers \cup {Dropped}) /\ Len(f) = n + 1
      /\ \A i \in 1 .. n : f[i] = errs[i]
      /\ f[n + 1] = x
  BY AppendProperties
<1>3. DOMAIN f = 1 .. n + 1
  <2> HIDE DEF f, n
  <2> QED BY <1>2, LenProperties
<1> HIDE DEF f, n
<1>4. IsFiniteSet(DropsOf(errs)) /\ Cardinality(DropsOf(errs)) \in Nat
  <2>1. IsFiniteSet(1 .. n)
    BY <1>1, FS_Interval
  <2> QED BY <1>1, <2>1, FS_Subset, FS_CardinalityType DEF DropsOf
<1>5. DropsOf(f) = DropsOf(errs) \cup IF x = Dropped THEN {n + 1} ELSE {}
  <2>1. \A i : i \in 1 .. n + 1 <=> i \in 1 .. n \/ i = n + 1
    BY <1>1
  <2>2. DropsOf(f) = {i \in 1 .. n + 1 : f[i] = Dropped} /\ DropsOf(errs) = {i \in 1 .. n : errs[i] = Dropped}
    BY <1>1, <1>3 DEF DropsOf
  <2> QED BY <1>2, <2>1, <2>2
<1>6. n + 1 \notin DropsOf(errs)
  BY <1>1 DEF DropsOf
<1> QED BY <1>4, <1>5, <1>6 DEF f, n

\* A line that is parsed adds no such error.
LEMMA ParsedDrops ==
  ASSUME NEW s \in Summaries, NEW line, IsText(line)
  PROVE  DropsOf(Parsed(s, line).errors) = DropsOf(s.errors)
<1> DEFINE c == line[Len(line)]
<1>1. CASE ~ IsJson(line)
  BY <1>1 DEF Parsed
<1>2. CASE IsJson(line)
  <2>1. c \in Closers /\ c # Dropped
    BY <1>2, SummarizerAssumption DEF IsJson
  <2>2. Parsed(s, line).errors = IF Type[c] = "response.failed" THEN Append(s.errors, c) ELSE s.errors
    BY <1>2 DEF Parsed
  <2>3. s.errors \in Seq(Closers \cup {Dropped})
    BY DEF Summaries
  <2> HIDE DEF c
  <2>4. DropsOf(Append(s.errors, c)) = DropsOf(s.errors)
    BY <2>1, <2>3, DropsAppend
  <2> QED BY <2>2, <2>4
<1> QED BY <1>1, <1>2

LEMMA FoldedDrops ==
  ASSUME NEW s \in Summaries, NEW lines \in Seq(Seq(Bytes))
  PROVE  DropsOf(FoldLeft(Parsed, s, lines).errors) = DropsOf(s.errors)
<1> DEFINE n == Len(lines)
           B == {f \in Summaries : DropsOf(f.errors) = DropsOf(s.errors)}
           J == [k \in 0 .. n |-> B]
<1>1. n \in Nat /\ DOMAIN lines = 1 .. n /\ \A k \in 1 .. n : IsText(lines[k])
  BY LenProperties, ElementOfSeq DEF IsText
<1> HIDE DEF n
<1>2. s \in J[0]
  BY <1>1
<1>3. \A k \in 1 .. n : \A f \in J[k - 1] : Parsed(f, lines[k]) \in J[k]
  <2> SUFFICES ASSUME NEW k \in 1 .. n, NEW f \in J[k - 1] PROVE Parsed(f, lines[k]) \in J[k]
    OBVIOUS
  <2>1. k \in 0 .. n /\ k - 1 \in 0 .. n
    BY <1>1
  <2>2. f \in B /\ J[k] = B
    BY <2>1
  <2>3. IsText(lines[k])
    BY <1>1
  <2> HIDE DEF J
  <2> QED BY <2>2, <2>3, ParsedType, ParsedDrops
<1>4. J[n] = B
  BY <1>1
<1> HIDE DEF J
<1>5. FoldLeft(Parsed, s, lines) \in J[n]
  BY <1>1, <1>2, <1>3, FoldKeeps
<1> QED BY <1>4, <1>5

\* The lines received, where the last of them ends, where the line under way
\* starts, and the lines of which not all was looked at.
Total == Cardinality(Ends(received))
LastEnd == End(received, Total)
Start == Len(received) - Len(pending)
CutLines == {i \in 1 .. Total : handed[i] # Heard[i]}

\* What is pending is the end of what was received, from the last newline on
\* or from where a line that had become too long was last dropped; each line
\* of which a part was dropped, the one under way too, has its own error.
LineInv ==
  sse => /\ pending = From(received, Start)
         /\ Start \in LastEnd .. Len(received)
         /\ Start > LastEnd => Len(received) - LastEnd > MaxLine
         /\ Len(handed) = Total
         /\ \A i \in 1 .. Total :
              /\ IsSuffix(handed[i], Heard[i])
              /\ Len(Heard[i]) <= MaxLine => handed[i] = Heard[i]
         /\ Cardinality(CutLines) + (IF Start > LastEnd THEN 1 ELSE 0)
              <= Cardinality(Drops)
         /\ Drops # {} => ~ShortSoFar

StreamInv == TypeOK /\ LineInv

LEMMA TextOf == ASSUME TypeOK PROVE /\ IsText(received) /\ IsText(pending)
                                    /\ Len(received) \in Nat /\ Len(pending) \in Nat /\ Total \in Nat
BY EndsType DEF TypeOK, IsText, Total

LEMMA StreamStart == Init => StreamInv
<1> SUFFICES ASSUME Init PROVE StreamInv
  OBVIOUS
<1>1. TypeOK
  BY TypesStart
<1>2. received = << >> /\ pending = << >> /\ handed = << >> /\ errors = << >> /\ Len(<< >>) = 0
  BY EmptySeq DEF Init, Blank
<1>3. Ends(<< >>) = {}
  <2>1. IsText(<< >>)
    BY EmptySeq DEF IsText
  <2>2. Ends(<< >>) = {i \in 1 .. Len(<< >>) : << >>[i] = NL}
    BY <2>1, EndsType
  <2> QED BY <1>2, <2>2
<1>4. Total = 0
  BY <1>2, <1>3, FS_EmptySet DEF Total
<1>5. LastEnd = 0
  <2>1. IsText(received) /\ 0 \in 0 .. Cardinality(Ends(received))
    BY <1>1, <1>4, TextOf DEF Total
  <2> QED BY <1>4, <2>1, EndType DEF LastEnd
<1>6. Start = 0
  BY <1>2 DEF Start
<1>7. pending = From(received, Start)
  <2>1. IsText(received) /\ 0 \in 0 .. Len(received)
    BY <1>1, <1>2, TextOf
  <2>2. IsText(From(received, 0)) /\ Len(From(received, 0)) = Len(received) - 0
    BY <2>1, FromType
  <2>3. From(received, 0) = << >>
    BY <1>2, <2>2, EmptySeq DEF IsText
  <2> QED BY <1>2, <1>6, <2>3
<1>8. Drops = {} /\ Cardinality(Drops) = 0
  <2>1. DOMAIN << >> = {}
    BY EmptySeq
  <2>2. Drops = {}
    BY <1>2, <2>1 DEF Drops
  <2> QED BY <2>2, FS_EmptySet
<1>9. CutLines = {} /\ Cardinality(CutLines) = 0
  <2>1. CutLines = {}
    BY <1>4 DEF CutLines
  <2> QED BY <2>1, FS_EmptySet
<1> QED BY <1>1, <1>2, <1>4, <1>5, <1>6, <1>7, <1>8, <1>9 DEF StreamInv, LineInv

\* The same of one chunk, apart from the state: q is received with the chunk.
LEMMA StreamPush ==
  ASSUME TypeOK, LineInv, sse, NEW chunk, IsText(chunk), PushLines(chunk)
  PROVE  LineInv'
<1> DEFINE r == received
           q == received \o chunk
           s == Start
           u == pending \o chunk
           n == Total
           m == Cardinality(Ends(u))
           e == LastEnd
           f == End(q, n + m)
           a == IF m = 0 THEN s ELSE f
           rest == Rest(u)
           sum == FoldLeft(Parsed, Fields, Lines(u))
<1>1. /\ IsText(r) /\ Len(r) \in Nat /\ Len(chunk) \in Nat /\ n \in Nat /\ MaxLine \in Nat
  BY TextOf, EndsType, SummarizerAssumption
<1>2. /\ pending = From(r, s) /\ s \in e .. Len(r)
      /\ s > e => Len(r) - e > MaxLine
      /\ Len(handed) = n
      /\ \A i \in 1 .. n : /\ IsSuffix(handed[i], Heard[i])
                           /\ Len(Heard[i]) <= MaxLine => handed[i] = Heard[i]
      /\ Cardinality(CutLines) + (IF s > e THEN 1 ELSE 0) <= Cardinality(Drops)
      /\ Drops # {} => ~ShortSoFar
  BY DEF LineInv
<1>3. /\ received' = q /\ handed' = handed \o Lines(u)
      /\ pending' = IF TooLong(rest) THEN << >> ELSE rest
      /\ errors' = IF TooLong(rest) THEN Append(sum.errors, Dropped) ELSE sum.errors
      /\ sse' = sse
  BY DEF PushLines, Pushed, fixed
<1>4. /\ IsText(q) /\ Len(q) = Len(r) + Len(chunk) /\ IsText(u)
      /\ m \in Nat /\ Cardinality(Ends(q)) = n + m
      /\ e \in 0 .. Len(r) /\ f \in e .. Len(q)
      /\ m = 0 => f = e
      /\ m # 0 => f > Len(r)
      /\ Lines(u) \in Seq(Seq(Bytes)) /\ Len(Lines(u)) = m
      /\ \A k \in 1 .. n : Lines(q)[k] = Lines(r)[k]
      /\ \A k \in 1 .. m :
           /\ IsSuffix(Lines(u)[k], Lines(q)[n + k])
           /\ k # 1 \/ s = e => Lines(u)[k] = Lines(q)[n + k]
           /\ k = 1 => Len(Lines(q)[n + k]) >= Len(r) - e
      /\ Rest(u) = From(q, a) /\ Len(Rest(u)) = Len(q) - a
  <2>1. e \in 0 .. Len(r)
    <3>1. n \in 0 .. Cardinality(Ends(r))
      BY <1>1 DEF Total
    <3> QED BY <1>1, <3>1, EndType DEF LastEnd
  <2>2. s \in 0 .. Len(r) /\ End(r, Cardinality(Ends(r))) <= s /\ u = From(r, s) \o chunk
    BY <1>1, <1>2, <2>1 DEF LastEnd, Total
  <2>3. q = r \o chunk /\ n = Cardinality(Ends(r)) /\ e = End(r, n)
    BY DEF LastEnd, Total
  <2> HIDE DEF r, q, s, u, n, e
  <2>4. LET x == r \o chunk
            y == From(r, s) \o chunk
            k0 == Cardinality(Ends(r))
            j == Cardinality(Ends(y))
            e0 == End(r, k0)
            f0 == End(x, k0 + j)
            a0 == IF j = 0 THEN s ELSE f0
        IN /\ IsText(x) /\ Len(x) = Len(r) + Len(chunk) /\ IsText(y)
           /\ k0 \in Nat /\ j \in Nat /\ Cardinality(Ends(x)) = k0 + j
           /\ e0 \in 0 .. Len(r) /\ f0 \in e0 .. Len(x)
           /\ j = 0 => f0 = e0
           /\ j # 0 => f0 > Len(r)
           /\ Lines(y) \in Seq(Seq(Bytes)) /\ Len(Lines(y)) = j
           /\ \A k \in 1 .. k0 : Lines(x)[k] = Lines(r)[k]
           /\ \A k \in 1 .. j :
                /\ IsSuffix(Lines(y)[k], Lines(x)[k0 + k])
                /\ k # 1 \/ s = e0 => Lines(y)[k] = Lines(x)[k0 + k]
                /\ k = 1 => Len(Lines(x)[k0 + k]) >= Len(r) - e0
           /\ Rest(y) = From(x, a0) /\ Len(Rest(y)) = Len(x) - a0
    BY <1>1, <2>2, NextLines
  <2> QED BY <2>2, <2>3, <2>4
<1>5. sum \in Summaries /\ DropsOf(sum.errors) = Drops
  <2>1. Fields \in Summaries /\ Fields.errors = errors
    BY DEF TypeOK, Fields
  <2> QED BY <1>4, <2>1, FoldedType, FoldedDrops DEF Drops, DropsOf
<1>6. Heard' = Lines(q) /\ Total' = n + m /\ LastEnd' = f /\ Rest(received)' = Rest(q)
  BY <1>3, <1>4 DEF Heard, Total, LastEnd
<1>7. Len(Rest(q)) = Len(q) - f /\ DOMAIN Lines(q) = 1 .. n + m
  BY <1>4, WholeLines
<1> HIDE DEF q, u, s, n, m, e, f, sum
<1>8. a \in f .. Len(q) /\ (a > f => m = 0 /\ s > e)
  BY <1>1, <1>2, <1>4
<1> HIDE DEF a
<1>9. /\ Len(rest) = Len(q) - a
      /\ TooLong(rest) <=> Len(q) - a > MaxLine
  BY <1>4 DEF TooLong
<1>10. Start' = IF TooLong(rest) THEN Len(q) ELSE a
  <2>1. Start' = Len(q) - Len(pending')
    BY <1>3 DEF Start
  <2>2. CASE TooLong(rest)
    <3>1. Len(pending') = 0
      BY <1>3, <2>2, EmptySeq
    <3> QED BY <1>1, <1>4, <2>1, <2>2, <3>1
  <2>3. CASE ~ TooLong(rest)
    <3>1. Len(pending') = Len(q) - a
      <4> HIDE DEF rest
      <4>1. pending' = rest
        BY <1>3, <2>3
      <4> QED BY <1>9, <4>1
    <3> QED BY <1>1, <1>4, <1>8, <2>1, <2>3, <3>1
  <2> QED BY <2>2, <2>3
<1>11. (pending = From(received, Start))'
  <2>1. CASE TooLong(rest)
    <3>1. Len(q) \in 0 .. Len(q)
      BY <1>1, <1>4
    <3>2. IsText(From(q, Len(q))) /\ Len(From(q, Len(q))) = Len(q) - Len(q)
      BY <1>4, <3>1, FromType
    <3>3. From(q, Len(q)) = << >>
      BY <1>1, <1>4, <3>2, EmptySeq DEF IsText
    <3> QED BY <1>3, <1>10, <2>1, <3>3
  <2>2. CASE ~ TooLong(rest)
    BY <1>3, <1>4, <1>10, <2>2
  <2> QED BY <2>1, <2>2
<1>12. /\ Start' \in f .. Len(q)
       /\ Start' > f => Len(q) - f > MaxLine
  <2>1. CASE TooLong(rest)
    BY <1>1, <1>4, <1>8, <1>9, <1>10, <2>1
  <2>2. CASE ~ TooLong(rest)
    BY <1>1, <1>2, <1>4, <1>8, <1>9, <1>10, <2>2
  <2> QED BY <2>1, <2>2
<1>13. /\ Len(handed') = n + m
       /\ \A i \in 1 .. n + m : handed'[i] = IF i <= n THEN handed[i] ELSE Lines(u)[i - n]
  <2> DEFINE L == Lines(u)
  <2>1. handed \in Seq(Seq(Bytes)) /\ L \in Seq(Seq(Bytes)) /\ Len(L) = m
    BY <1>4 DEF TypeOK
  <2> HIDE DEF L
  <2>2. /\ Len(handed \o L) = Len(handed) + Len(L)
        /\ \A i \in 1 .. Len(handed) + Len(L) :
             (handed \o L)[i] = IF i <= Len(handed) THEN handed[i] ELSE L[i - Len(handed)]
    BY <2>1, ConcatProperties
  <2>3. handed' = handed \o L /\ Len(handed) = n
    BY <1>2, <1>3 DEF L
  <2> QED BY <2>1, <2>2, <2>3 DEF L
<1>14. ASSUME NEW i \in 1 .. n + m
       PROVE  /\ IsSuffix(handed'[i], Lines(q)[i])
              /\ Len(Lines(q)[i]) <= MaxLine => handed'[i] = Lines(q)[i]
              /\ handed'[i] # Lines(q)[i] =>
                   i \in CutLines \cup IF m # 0 /\ s > e THEN {n + 1} ELSE {}
  <2>1. CASE i <= n
    <3>1. i \in 1 .. n /\ handed'[i] = handed[i]
      BY <1>1, <1>13, <2>1
    <3>2. Lines(q)[i] = Heard[i]
      BY <1>4, <3>1 DEF Heard
    <3> QED BY <1>2, <3>1, <3>2 DEF CutLines, n
  <2>2. CASE ~ (i <= n)
    <3> DEFINE k == i - n
    <3>1. k \in 1 .. m /\ n + k = i /\ (k = 1 <=> i = n + 1) /\ m # 0
      BY <1>1, <1>4, <2>2
    <3>2. handed'[i] = Lines(u)[k]
      BY <1>13, <2>2
    <3> HIDE DEF k
    <3>3. /\ IsSuffix(Lines(u)[k], Lines(q)[i])
          /\ k # 1 \/ s = e => Lines(u)[k] = Lines(q)[i]
          /\ k = 1 => Len(Lines(q)[i]) >= Len(r) - e
      BY <1>4, <3>1
    <3>4. k = 1 /\ s # e => s > e /\ Len(r) - e > MaxLine
      BY <1>1, <1>2, <1>4
    <3>5. Len(Lines(q)[i]) <= MaxLine => ~ (k = 1 /\ s # e)
      <4>1. Len(Lines(q)[i]) \in Nat
        <5>1. Lines(q) \in Seq(Seq(Bytes)) /\ i \in DOMAIN Lines(q)
          BY <1>4, <1>7, WholeLines
        <5>2. Lines(q)[i] \in Seq(Bytes)
          BY <5>1, ElementOfSeq, LenProperties
        <5> QED BY <5>2, LenProperties
      <4> DEFINE z == Len(Lines(q)[i])
      <4>2. z \in Nat /\ (k = 1 => z >= Len(r) - e)
        BY <3>3, <4>1
      <4> HIDE DEF z
      <4>3. z <= MaxLine => ~ (k = 1 /\ s # e)
        BY <1>1, <1>4, <3>4, <4>2
      <4> QED BY <4>3 DEF z
    <3> QED BY <3>1, <3>2, <3>3, <3>4, <3>5
  <2> QED BY <2>1, <2>2
<1>15. /\ IsFiniteSet(CutLines') /\ Cardinality(CutLines') \in Nat /\ Cardinality(CutLines) \in Nat
       /\ Cardinality(CutLines') <= Cardinality(CutLines) + IF m # 0 /\ s > e THEN 1 ELSE 0
  <2> DEFINE X == CutLines
             Y == IF m # 0 /\ s > e THEN {n + 1} ELSE {}
  <2>1. CutLines' \subseteq X \cup Y
    <3>1. CutLines' = {i \in 1 .. n + m : handed'[i] # Lines(q)[i]}
      BY <1>6 DEF CutLines
    <3> QED BY <1>14, <3>1
  <2>2. IsFiniteSet(X) /\ IsFiniteSet(Y)
    <3>1. IsFiniteSet(1 .. n)
      BY <1>1, FS_Interval
    <3>2. IsFiniteSet(X)
      BY <3>1, FS_Subset DEF CutLines, n
    <3> QED BY <3>2, FS_EmptySet, FS_Singleton
  <2>3. Cardinality(Y) = IF m # 0 /\ s > e THEN 1 ELSE 0
    BY FS_EmptySet, FS_Singleton
  <2> HIDE DEF X, Y
  <2>4. IsFiniteSet(X \cup Y) /\ Cardinality(X \cup Y) <= Cardinality(X) + Cardinality(Y)
    <3>1. IsFiniteSet(X \cap Y) /\ Cardinality(X \cap Y) \in Nat
      BY <2>2, FS_Subset, FS_CardinalityType
    <3>2. Cardinality(X \cup Y) = Cardinality(X) + Cardinality(Y) - Cardinality(X \cap Y)
      BY <2>2, FS_Union
    <3>3. Cardinality(X) \in Nat /\ Cardinality(Y) \in Nat
      BY <2>2, FS_CardinalityType
    <3> QED BY <2>2, <3>1, <3>2, <3>3, FS_Union
  <2>5. IsFiniteSet(CutLines') /\ Cardinality(CutLines') <= Cardinality(X \cup Y)
    BY <2>1, <2>4, FS_Subset
  <2>6. Cardinality(CutLines') \in Nat /\ Cardinality(X) \in Nat /\ Cardinality(X \cup Y) \in Nat
    BY <2>2, <2>4, <2>5, FS_CardinalityType
  <2>7. Cardinality(CutLines') <= Cardinality(X) + IF m # 0 /\ s > e THEN 1 ELSE 0
    BY <2>3, <2>4, <2>5, <2>6
  <2> QED BY <2>5, <2>6, <2>7 DEF X
<1>16. /\ Cardinality(Drops) \in Nat
       /\ Cardinality(Drops') = Cardinality(Drops) + IF TooLong(rest) THEN 1 ELSE 0
       /\ ~ TooLong(rest) => Drops' = Drops
  <2>1. sum.errors \in Seq(Closers \cup {Dropped})
    BY <1>5 DEF Summaries
  <2>2. /\ IsFiniteSet(Drops) /\ Cardinality(Drops) \in Nat
        /\ DropsOf(Append(sum.errors, Dropped)) = Drops \cup {Len(sum.errors) + 1}
        /\ Len(sum.errors) + 1 \notin Drops
    BY <1>5, <2>1, DropsAppend
  <2>3. Drops' = IF TooLong(rest) THEN Drops \cup {Len(sum.errors) + 1} ELSE Drops
    <3>1. Drops' = DropsOf(errors')
      BY DEF Drops, DropsOf
    <3> QED BY <1>3, <1>5, <2>2, <3>1
  <2>4. Cardinality(Drops \cup {Len(sum.errors) + 1}) = Cardinality(Drops) + 1
    BY <2>2, FS_AddElement
  <2> QED BY <2>2, <2>3, <2>4
<1>17. Cardinality(CutLines') + (IF Start' > f THEN 1 ELSE 0) <= Cardinality(Drops')
  <2>1. CASE TooLong(rest)
    BY <1>2, <1>15, <1>16, <2>1
  <2>2. CASE ~ TooLong(rest)
    <3>1. Start' = a
      BY <1>10, <2>2
    <3> QED BY <1>2, <1>8, <1>15, <1>16, <2>2, <3>1
  <2> QED BY <2>1, <2>2
<1>18. ShortSoFar' => ~ TooLong(rest) /\ ShortSoFar
  <2>0. SUFFICES ASSUME ShortSoFar' PROVE ~ TooLong(rest) /\ ShortSoFar
    OBVIOUS
  <2>1. /\ \A i \in 1 .. n + m : Len(Lines(q)[i]) <= MaxLine
        /\ Len(q) - f <= MaxLine
    BY <1>6, <1>7, <2>0 DEF ShortSoFar
  <2>2. ~ TooLong(rest)
    BY <1>1, <1>4, <1>8, <1>9, <2>1
  <2>3. \A i \in 1 .. n : Len(Lines(r)[i]) <= MaxLine
    <3> SUFFICES ASSUME NEW i \in 1 .. n PROVE Len(Lines(r)[i]) <= MaxLine
      OBVIOUS
    <3>1. i \in 1 .. n + m /\ Lines(q)[i] = Lines(r)[i]
      BY <1>1, <1>4
    <3> QED BY <2>1, <3>1
  <2>4. Len(r) - e <= MaxLine
    <3>1. CASE m = 0
      BY <1>1, <1>4, <2>1, <3>1
    <3>2. CASE m # 0
      <4>1. 1 \in 1 .. m /\ n + 1 \in 1 .. n + m
        BY <1>1, <1>4, <3>2
      <4> DEFINE z == Len(Lines(q)[n + 1])
      <4>2. z >= Len(r) - e /\ z <= MaxLine
        BY <1>4, <2>1, <4>1
      <4>3. z \in Nat
        <5>1. Lines(q) \in Seq(Seq(Bytes)) /\ n + 1 \in DOMAIN Lines(q)
          BY <1>4, <1>7, <4>1, WholeLines
        <5>2. Lines(q)[n + 1] \in Seq(Bytes)
          BY <5>1, ElementOfSeq, LenProperties
        <5> QED BY <5>2, LenProperties
      <4> HIDE DEF z
      <4> QED BY <1>1, <1>4, <4>2, <4>3
    <3> QED BY <3>1, <3>2
  <2>5. DOMAIN Heard = 1 .. n /\ Len(Rest(received)) = Len(r) - e
    BY <1>1, WholeLines DEF Heard, n, Total, e, LastEnd
  <2> QED BY <2>2, <2>3, <2>4, <2>5 DEF ShortSoFar, Heard
<1>19. Drops' # {} => ~ ShortSoFar'
  BY <1>2, <1>16, <1>18
<1>20. /\ \A i \in 1 .. Total' : /\ IsSuffix(handed'[i], Heard'[i])
                                 /\ Len(Heard'[i]) <= MaxLine => handed'[i] = Heard'[i]
       /\ Len(handed') = Total'
  BY <1>6, <1>13, <1>14
<1>21. /\ Start' \in LastEnd' .. Len(received')
       /\ Start' > LastEnd' => Len(received') - LastEnd' > MaxLine
       /\ Cardinality(CutLines') + (IF Start' > LastEnd' THEN 1 ELSE 0) <= Cardinality(Drops')
  BY <1>3, <1>6, <1>12, <1>17
<1> QED BY <1>11, <1>19, <1>20, <1>21 DEF LineInv

LEMMA StreamStep == StreamInv /\ [Next]_vars => StreamInv'
<1> SUFFICES ASSUME StreamInv, [Next]_vars PROVE StreamInv'
  OBVIOUS
<1>0. TypeOK /\ LineInv /\ TypeOK'
  BY TypesStep DEF StreamInv
<1>1. ASSUME NEW chunk \in Chunks, PushLines(chunk) PROVE LineInv'
  <2>1. sse /\ IsText(chunk)
    BY <1>1, ChunkType DEF PushLines
  <2> QED BY <1>0, <1>1, <2>1, StreamPush
<1>2. ASSUME NEW chunk \in Chunks, PushRaw(chunk) PROVE LineInv'
  BY <1>2 DEF PushRaw, Pushed, fixed, LineInv
<1>3. ASSUME UNCHANGED <<sse, received, pending, handed, errors>> PROVE LineInv'
  <2>1. /\ Start' = Start /\ LastEnd' = LastEnd /\ Total' = Total /\ Drops' = Drops
        /\ CutLines' = CutLines /\ Heard' = Heard /\ ShortSoFar' = ShortSoFar
    BY <1>3 DEF Start, LastEnd, Total, Drops, CutLines, Heard, ShortSoFar
  <2> QED BY <1>0, <1>3, <2>1 DEF LineInv
<1>4. Finish \/ UNCHANGED vars => UNCHANGED <<sse, received, pending, handed, errors>>
  BY DEF Finish, vars, fixed, fields
<1>5. LineInv'
  BY <1>1, <1>2, <1>3, <1>4 DEF Next
<1> QED BY <1>0, <1>5 DEF StreamInv

LEMMA StreamOnce == StreamInv => EachLineOnce
<1> SUFFICES ASSUME StreamInv, sse PROVE EachLineOnce
  BY DEF EachLineOnce
<1>1. TypeOK /\ LineInv
  BY DEF StreamInv
<1>2. Total \in Nat /\ DOMAIN Heard = 1 .. Total /\ Len(Heard) = Total /\ DOMAIN handed = 1 .. Len(handed)
  BY <1>1, TextOf, WholeLines, LenProperties DEF Heard, Total, TypeOK
<1>3. {i \in DOMAIN handed : handed[i] # Heard[i]} = CutLines
  BY <1>1, <1>2 DEF LineInv, CutLines
<1>4. Cardinality(CutLines) <= Cardinality(Drops)
  <2>1. Cardinality(CutLines) \in Nat /\ Cardinality(Drops) \in Nat
    <3>1. errors \in Seq(Closers \cup {Dropped})
      BY <1>1 DEF TypeOK, Fields, Summaries
    <3>2. Cardinality(DropsOf(errors)) \in Nat
      BY <3>1, DropsAppend
    <3>3. IsFiniteSet(1 .. Total)
      BY <1>2, FS_Interval
    <3>4. IsFiniteSet(CutLines)
      BY <3>3, FS_Subset DEF CutLines
    <3> QED BY <3>2, <3>4, FS_CardinalityType DEF Drops, DropsOf
  <2> QED BY <1>1, <2>1 DEF LineInv
<1> QED BY <1>1, <1>2, <1>3, <1>4 DEF EachLineOnce, LineInv

\* However a stream is cut into chunks, each of its lines is looked at once,
\* in order: whole if it is no longer than MAX_LINE, and else perhaps only its
\* tail, of which there is then an error.
THEOREM LinesOnce == Spec => []EachLineOnce
BY StreamStart, StreamStep, StreamOnce, PTL DEF Spec

-----------------------------------------------------------------------------
(* Caps.                                                                     *)

\* Every note of a dropped line is paid for by the bytes that were let go.
Paid == sse => Cardinality(Drops) * (MaxLine + 1) + Len(pending) <= Len(received)

LEMMA OneMorePaid ==
  ASSUME NEW d \in Nat, NEW m \in Nat
  PROVE  d * m \in Nat /\ (d + 1) * m = d * m + m
  OBVIOUS

LEMMA PaidPush ==
  ASSUME TypeOK, Paid, NEW chunk \in Chunks, PushLines(chunk)
  PROVE  Paid'
<1> DEFINE text == pending \o chunk
           rest == Rest(text)
           sum == FoldLeft(Parsed, Fields, Lines(text))
           d == Cardinality(Drops)
           m == MaxLine + 1
<1>1. /\ IsText(chunk) /\ IsText(pending) /\ IsText(received)
      /\ Len(pending) \in Nat /\ Len(chunk) \in Nat /\ Len(received) \in Nat
  BY ChunkType, TextOf, EndsType
<1>2. IsText(text) /\ Len(text) = Len(pending) + Len(chunk)
  BY <1>1, JoinType
<1>3. IsText(rest) /\ Lines(text) \in Seq(Seq(Bytes)) /\ sum \in Summaries
  BY <1>1, PushLinesType
<1>4. Len(rest) \in Nat /\ Len(rest) <= Len(text)
  <2> HIDE DEF text
  <2>1. rest = From(text, End(text, Cardinality(Ends(text))))
    BY <1>2, WholeLines
  <2>2. End(text, Cardinality(Ends(text))) \in 0 .. Len(text) /\ Len(text) \in Nat
    <3>1. Cardinality(Ends(text)) \in Nat /\ Len(text) \in Nat
      BY <1>2, EndsType
    <3>2. Cardinality(Ends(text)) \in 0 .. Cardinality(Ends(text))
      BY <3>1
    <3> QED BY <1>2, <3>1, <3>2, EndType
  <2>3. Len(rest) = Len(text) - End(text, Cardinality(Ends(text)))
    BY <1>2, <2>1, <2>2, FromType
  <2> QED BY <2>2, <2>3
<1>5. /\ sse /\ sse' = sse /\ received' = received \o chunk
      /\ pending' = IF TooLong(rest) THEN << >> ELSE rest
      /\ errors' = IF TooLong(rest) THEN Append(sum.errors, Dropped) ELSE sum.errors
  BY DEF PushLines, Pushed, fixed
<1>6. Len(received') = Len(received) + Len(chunk)
  BY <1>1, <1>5, JoinType
<1>7. sum.errors \in Seq(Closers \cup {Dropped}) /\ DropsOf(sum.errors) = Drops
  <2>1. Fields \in Summaries /\ Fields.errors = errors
    BY DEF TypeOK, Fields
  <2> QED BY <1>3, <2>1, FoldedDrops DEF Drops, DropsOf, Summaries
<1> HIDE DEF text, rest, sum
<1>8. /\ d \in Nat /\ m \in Nat
      /\ Cardinality(Drops') = IF TooLong(rest) THEN d + 1 ELSE d
  <2>1. /\ IsFiniteSet(Drops) /\ Cardinality(Drops) \in Nat
        /\ DropsOf(Append(sum.errors, Dropped)) = Drops \cup {Len(sum.errors) + 1}
        /\ Len(sum.errors) + 1 \notin Drops
    BY <1>7, DropsAppend
  <2>2. Drops' = IF TooLong(rest) THEN Drops \cup {Len(sum.errors) + 1} ELSE Drops
    <3>1. Drops' = DropsOf(errors')
      BY DEF Drops, DropsOf
    <3> QED BY <1>5, <1>7, <2>1, <3>1
  <2>3. Cardinality(Drops \cup {Len(sum.errors) + 1}) = Cardinality(Drops) + 1
    BY <2>1, FS_AddElement
  <2>4. MaxLine \in Nat
    BY SummarizerAssumption
  <2> QED BY <2>1, <2>2, <2>3, <2>4
<1>9. d * m + Len(pending) <= Len(received)
  BY <1>5 DEF Paid
<1>10. MaxLine \in Nat
  BY SummarizerAssumption
<1> HIDE DEF d
<1>11. CASE TooLong(rest)
  <2>1. Len(pending') = 0 /\ Len(rest) >= m
    BY <1>4, <1>5, <1>10, <1>11, EmptySeq DEF TooLong
  <2>2. (d + 1) * m = d * m + m /\ d * m \in Nat
    BY <1>8, OneMorePaid
  <2>3. Cardinality(Drops') * m = d * m + m
    BY <1>8, <1>11, <2>2
  <2> HIDE DEF m
  <2>4. Cardinality(Drops') * m + Len(pending') <= Len(received')
    BY <1>1, <1>2, <1>4, <1>6, <1>8, <1>9, <2>1, <2>2, <2>3
  <2> QED BY <2>4 DEF Paid, m
<1>12. CASE ~ TooLong(rest)
  <2>1. pending' = rest /\ Cardinality(Drops') = d
    BY <1>5, <1>8, <1>12
  <2>2. d * m \in Nat
    BY <1>8, OneMorePaid
  <2> HIDE DEF m
  <2>3. Cardinality(Drops') * m + Len(pending') <= Len(received')
    BY <1>1, <1>2, <1>4, <1>6, <1>9, <2>1, <2>2
  <2> QED BY <2>3 DEF Paid, m
<1> QED BY <1>11, <1>12

\* What has a cap stays within it, and a line without an end leaves one error
\* for every MAX_LINE bytes and more that were let go (Summarizer::push).
THEOREM CapsKept == Spec => []CapsHold
<1>1. Init => Paid
  <2> SUFFICES ASSUME Init PROVE Paid
    OBVIOUS
  <2>1. errors = << >> /\ pending = << >> /\ received = << >>
    BY DEF Init, Blank
  <2>2. Drops = {} /\ Len(<< >>) = 0 /\ Cardinality({}) = 0
    <3>1. DOMAIN errors = 1 .. 0
      BY <2>1, EmptySeq
    <3> QED BY <3>1, EmptySeq, FS_EmptySet DEF Drops
  <2>3. 0 * (MaxLine + 1) = 0
    <3>1. MaxLine \in Nat
      BY SummarizerAssumption
    <3> QED BY <3>1
  <2> QED BY <2>1, <2>2, <2>3 DEF Paid
<1>2. TypeOK /\ Paid /\ [Next]_vars => Paid'
  <2> SUFFICES ASSUME TypeOK, Paid, [Next]_vars PROVE Paid'
    OBVIOUS
  <2>1. ASSUME NEW chunk \in Chunks, PushLines(chunk) PROVE Paid'
    BY <2>1, PaidPush
  <2>2. ASSUME NEW chunk \in Chunks, PushRaw(chunk) PROVE Paid'
    BY <2>2 DEF PushRaw, Pushed, fixed, Paid
  <2>3. CASE UNCHANGED <<sse, received, pending, errors>>
    BY <2>3 DEF Paid, Drops
  <2>4. Finish \/ UNCHANGED vars => UNCHANGED <<sse, received, pending, errors>>
    BY DEF Finish, vars, fixed, fields
  <2> QED BY <2>1, <2>2, <2>3, <2>4 DEF Next
<1>3. KeptInv /\ Paid => CapsHold
  <2> SUFFICES ASSUME KeptInv, Paid PROVE CapsHold
    OBVIOUS
  <2>1. Len(received) \in Nat /\ cap \in Nat /\ Len(<< >>) = 0
    BY LenProperties, EmptySeq DEF KeptInv, TypeOK
  <2>2. Len(raw) <= cap
    BY <2>1 DEF KeptInv, RawInv, Kept
  <2> QED BY <2>2 DEF KeptInv, CapsHold, InBound, Paid
<1> QED BY KeptStart, KeptStep, TypeCorrect, <1>1, <1>2, <1>3, PTL DEF Spec

-----------------------------------------------------------------------------
(* What a summary says of some lines, part by part, and of one line more.  *)

\* One line more: the frames, and what they stand for.
LEMMA OneMore ==
  ASSUME NEW lines \in Seq(Seq(Bytes)), NEW line, IsText(line)
  PROVE  LET n == Len(lines)
             more == Append(lines, line)
         IN /\ n \in Nat /\ Len(more) = n + 1 /\ more \in Seq(Seq(Bytes))
            /\ Frames(lines) = {i \in 1 .. n : IsJson(lines[i])}
            /\ Frames(more) = Frames(lines) \cup IF IsJson(line) THEN {n + 1} ELSE {}
            /\ n + 1 \notin Frames(lines)
            /\ \A i \in 1 .. n : Closer(more, i) = Closer(lines, i)
            /\ Closer(more, n + 1) = line[Len(line)]
            /\ \A i \in Frames(lines) : Closer(lines, i) \in Closers
            /\ IsJson(line) => line[Len(line)] \in Closers
            /\ \A i \in 0 .. n : ModelsUpTo(more, i) = ModelsUpTo(lines, i)
            /\ ModelsUpTo(more, n + 1) =
                 ModelsUpTo(lines, n)
                   \cup IF IsJson(line) THEN {Model[line[Len(line)]]} \ {""} ELSE {}
<1> DEFINE n == Len(lines)
           more == Append(lines, line)
           c == line[Len(line)]
<1>1. n \in Nat /\ DOMAIN lines = 1 .. n
  BY LenProperties
<1>2. /\ more \in Seq(Seq(Bytes)) /\ Len(more) = n + 1
      /\ \A i \in 1 .. n : more[i] = lines[i]
      /\ more[n + 1] = line
  <2>1. line \in Seq(Bytes)
    BY DEF IsText
  <2> QED BY <2>1, AppendProperties
<1>3. DOMAIN more = 1 .. n + 1
  <2> HIDE DEF more, n
  <2> QED BY <1>2, LenProperties
<1> HIDE DEF more, n
<1>4. Frames(lines) = {i \in 1 .. n : IsJson(lines[i])}
  BY <1>1 DEF Frames
<1>5. Frames(more) = Frames(lines) \cup IF IsJson(line) THEN {n + 1} ELSE {}
  <2>1. \A i : i \in 1 .. n + 1 <=> i \in 1 .. n \/ i = n + 1
    BY <1>1
  <2>2. Frames(more) = {i \in 1 .. n + 1 : IsJson(more[i])}
    BY <1>3 DEF Frames
  <2> QED BY <1>2, <1>4, <2>1, <2>2
<1>6. n + 1 \notin Frames(lines)
  BY <1>1, <1>4
<1>7. \A i \in 1 .. n : Closer(more, i) = Closer(lines, i)
  BY <1>2 DEF Closer
<1>8. Closer(more, n + 1) = c
  BY <1>2 DEF Closer
<1>9. \A i \in Frames(lines) : Closer(lines, i) \in Closers
  BY DEF Frames, Closer, IsJson
<1>10. IsJson(line) => c \in Closers
  BY DEF IsJson
<1>11. ASSUME NEW i \in 0 .. n PROVE ModelsUpTo(more, i) = ModelsUpTo(lines, i)
  <2>1. {j \in Frames(more) : j <= i} = {j \in Frames(lines) : j <= i}
    BY <1>1, <1>4, <1>5
  <2>2. \A j \in {k \in Frames(lines) : k <= i} : Closer(more, j) = Closer(lines, j)
    BY <1>4, <1>7
  <2> QED BY <2>1, <2>2 DEF ModelsUpTo
<1>12. ModelsUpTo(more, n + 1) =
         ModelsUpTo(lines, n) \cup IF IsJson(line) THEN {Model[c]} \ {""} ELSE {}
  <2>1. {j \in Frames(more) : j <= n + 1} = Frames(more)
    BY <1>1, <1>4, <1>5
  <2>2. {j \in Frames(lines) : j <= n} = Frames(lines)
    BY <1>1, <1>4
  <2>3. \A j \in Frames(lines) : Closer(more, j) = Closer(lines, j)
    BY <1>4, <1>7
  <2> HIDE DEF c
  <2> QED BY <1>5, <1>8, <2>1, <2>2, <2>3 DEF ModelsUpTo
<1> QED BY <1>1, <1>2, <1>4, <1>5, <1>6, <1>7, <1>8, <1>9, <1>10, <1>11, <1>12 DEF n, more

SaysEvents(s, lines) ==
  \A t \in DOMAIN s.events :
    s.events[t] = Cardinality({i \in Frames(lines) : Type[Closer(lines, i)] = t})

SaysModels(s, lines) ==
  /\ Range(s.models) = ModelsUpTo(lines, Len(lines))
  /\ Len(s.models) = Cardinality(ModelsUpTo(lines, Len(lines)))
  /\ \A i \in Frames(lines) :
       LET m == Model[Closer(lines, i)] IN
       m # "" /\ m \notin ModelsUpTo(lines, i - 1) =>
         s.models[Cardinality(ModelsUpTo(lines, i))] = m

Using(lines) == {i \in Frames(lines) : Usage[Closer(lines, i)]}

SaysUsage(s, lines) ==
  s.usage = IF Using(lines) = {} THEN None ELSE Closer(lines, Max(Using(lines)))

SaysAnswer(s, lines) ==
  \E k \in 0 .. Len(lines) :
    /\ s.answer = Told(lines)[k]
    /\ k = Len(lines) \/ Told(lines)[k] >= TextCap
    /\ k = 0 \/ Told(lines)[k - 1] < TextCap

LEMMA SaysParts ==
  ASSUME NEW s, NEW lines
  PROVE  Says(s, lines) <=> /\ SaysEvents(s, lines) /\ SaysModels(s, lines)
                            /\ SaysUsage(s, lines) /\ SaysAnswer(s, lines)
BY DEF Says, SaysEvents, SaysModels, SaysUsage, SaysAnswer, Using

LEMMA EventsMore ==
  ASSUME NEW s \in Summaries, NEW lines \in Seq(Seq(Bytes)), NEW line, IsText(line),
         SaysEvents(s, lines)
  PROVE  SaysEvents(Parsed(s, line), Append(lines, line))
<1> DEFINE n == Len(lines)
           more == Append(lines, line)
           c == line[Len(line)]
           p == Parsed(s, line)
           Of(t) == {i \in Frames(lines) : Type[Closer(lines, i)] = t}
           OfMore(t) == {i \in Frames(more) : Type[Closer(more, i)] = t}
<1>1. /\ n \in Nat
      /\ Frames(lines) = {i \in 1 .. n : IsJson(lines[i])}
      /\ Frames(more) = Frames(lines) \cup IF IsJson(line) THEN {n + 1} ELSE {}
      /\ n + 1 \notin Frames(lines)
      /\ \A i \in 1 .. n : Closer(more, i) = Closer(lines, i)
      /\ Closer(more, n + 1) = c
  BY OneMore
<1> HIDE DEF more, n
<1>2. \A t : OfMore(t) = Of(t) \cup IF IsJson(line) /\ t = Type[c] THEN {n + 1} ELSE {}
  <2>1. \A i \in Frames(lines) : Closer(more, i) = Closer(lines, i)
    BY <1>1
  <2> HIDE DEF c
  <2> QED BY <1>1, <2>1
<1>3. \A t : IsFiniteSet(Of(t)) /\ Cardinality(Of(t)) \in Nat /\ n + 1 \notin Of(t)
  <2>1. IsFiniteSet(1 .. n)
    BY <1>1, FS_Interval
  <2>2. IsFiniteSet(Frames(lines))
    BY <1>1, <2>1, FS_Subset
  <2> QED BY <1>1, <2>2, FS_Subset, FS_CardinalityType
<1> HIDE DEF Of, OfMore
<1>4. \A t : Cardinality(OfMore(t)) = Cardinality(Of(t)) + IF IsJson(line) /\ t = Type[c] THEN 1 ELSE 0
  <2> SUFFICES ASSUME NEW t
               PROVE  Cardinality(OfMore(t)) = Cardinality(Of(t)) + IF IsJson(line) /\ t = Type[c] THEN 1 ELSE 0
    OBVIOUS
  <2>0. IsFiniteSet(Of(t)) /\ Cardinality(Of(t)) \in Nat /\ n + 1 \notin Of(t)
    BY <1>3
  <2>1. CASE IsJson(line) /\ t = Type[c]
    <3>1. OfMore(t) = Of(t) \cup {n + 1}
      BY <1>2, <2>1
    <3> QED BY <2>0, <2>1, <3>1, FS_AddElement
  <2>2. CASE ~ (IsJson(line) /\ t = Type[c])
    <3>1. OfMore(t) = Of(t)
      BY <1>2, <2>2
    <3> QED BY <2>0, <2>2, <3>1
  <2> QED BY <2>1, <2>2
<1>5. /\ DOMAIN p.events = DOMAIN s.events
      /\ \A t \in DOMAIN s.events :
           p.events[t] = s.events[t] + IF IsJson(line) /\ t = Type[c] THEN 1 ELSE 0
  <2>1. \A t \in DOMAIN s.events : s.events[t] \in Nat
    BY DEF Summaries
  <2>2. CASE ~ IsJson(line)
    <3>1. p = s
      BY <2>2 DEF Parsed
    <3> HIDE DEF p
    <3> QED BY <2>1, <2>2, <3>1
  <2>3. CASE IsJson(line)
    <3>1. p.events = [t \in DOMAIN s.events |-> s.events[t] + IF t = Type[c] THEN 1 ELSE 0]
      BY <2>3 DEF Parsed
    <3> HIDE DEF p, c
    <3> QED BY <2>3, <3>1
  <2> QED BY <2>2, <2>3
<1>6. \A t \in DOMAIN s.events : s.events[t] = Cardinality(Of(t))
  BY DEF SaysEvents, Of
<1>7. \A t \in DOMAIN p.events : p.events[t] = Cardinality(OfMore(t))
  <2> HIDE DEF p, c
  <2> QED BY <1>4, <1>5, <1>6
<1> QED BY <1>7 DEF SaysEvents, OfMore, more

LEMMA UsageMore ==
  ASSUME NEW s \in Summaries, NEW lines \in Seq(Seq(Bytes)), NEW line, IsText(line),
         SaysUsage(s, lines)
  PROVE  SaysUsage(Parsed(s, line), Append(lines, line))
<1> DEFINE n == Len(lines)
           more == Append(lines, line)
           c == line[Len(line)]
           p == Parsed(s, line)
<1>1. /\ n \in Nat
      /\ Frames(lines) = {i \in 1 .. n : IsJson(lines[i])}
      /\ Frames(more) = Frames(lines) \cup IF IsJson(line) THEN {n + 1} ELSE {}
      /\ \A i \in 1 .. n : Closer(more, i) = Closer(lines, i)
      /\ Closer(more, n + 1) = c
  BY OneMore
<1>2. p.usage = IF IsJson(line) /\ Usage[c] THEN c ELSE s.usage
  BY DEF Parsed
<1> HIDE DEF more, n, c, p
<1>3. Using(more) = Using(lines) \cup IF IsJson(line) /\ Usage[c] THEN {n + 1} ELSE {}
  <2>1. \A i \in Frames(lines) : Closer(more, i) = Closer(lines, i)
    BY <1>1
  <2> QED BY <1>1, <2>1 DEF Using
<1>4. Using(lines) \subseteq 1 .. n
  BY <1>1 DEF Using
<1>5. CASE IsJson(line) /\ Usage[c]
  <2> DEFINE d == Using(more)
  <2>1. d \in SUBSET (1 .. n + 1) /\ n + 1 \in d /\ d # {} /\ n + 1 \in Nat
    BY <1>1, <1>3, <1>4, <1>5
  <2> HIDE DEF d
  <2>2. Max(d) \in d /\ \A y \in d : y <= Max(d)
    BY <2>1, MaxIsThere
  <2>3. Max(d) = n + 1
    <3> DEFINE x == Max(d)
    <3>1. x \in 1 .. n + 1 /\ n + 1 <= x
      BY <2>1, <2>2
    <3> HIDE DEF x
    <3>2. x = n + 1
      BY <1>1, <3>1
    <3> QED BY <3>2 DEF x
  <2> QED BY <1>1, <1>2, <1>5, <2>1, <2>3 DEF SaysUsage, d, p, more
<1>6. CASE ~ (IsJson(line) /\ Usage[c])
  <2>1. Using(more) = Using(lines) /\ p.usage = s.usage
    BY <1>2, <1>3, <1>6
  <2>2. Using(lines) # {} => Closer(more, Max(Using(lines))) = Closer(lines, Max(Using(lines)))
    <3> SUFFICES ASSUME Using(lines) # {}
                 PROVE  Closer(more, Max(Using(lines))) = Closer(lines, Max(Using(lines)))
      OBVIOUS
    <3>1. Max(Using(lines)) \in Using(lines)
      BY <1>1, <1>4, MaxIsThere
    <3> QED BY <1>1, <1>4, <3>1
  <2> QED BY <2>1, <2>2 DEF SaysUsage, p, more
<1> QED BY <1>5, <1>6

LEMMA ModelsFinite ==
  ASSUME NEW lines \in Seq(Seq(Bytes)), NEW k \in Int
  PROVE  IsFiniteSet(ModelsUpTo(lines, k)) /\ Cardinality(ModelsUpTo(lines, k)) \in Nat
<1> DEFINE S == {j \in Frames(lines) : j <= k}
           T == {Model[Closer(lines, j)] : j \in S}
           f == [j \in S |-> Model[Closer(lines, j)]]
<1>1. IsFiniteSet(S)
  <2>1. Len(lines) \in Nat /\ DOMAIN lines = 1 .. Len(lines)
    BY LenProperties
  <2>2. IsFiniteSet(1 .. Len(lines))
    BY <2>1, FS_Interval
  <2>3. S \subseteq 1 .. Len(lines)
    BY <2>1 DEF Frames
  <2> QED BY <2>2, <2>3, FS_Subset
<1>2. f \in Surjection(S, T)
  <2>1. f \in [S -> T] /\ \A t \in T : \E j \in S : f[j] = t
    OBVIOUS
  <2> HIDE DEF S, T, f
  <2> QED BY <2>1 DEF Surjection
<1>3. IsFiniteSet(T)
  <2> HIDE DEF S, T, f
  <2> QED BY <1>1, <1>2, FS_Surjection
<1>4. IsFiniteSet(T \ {""})
  <2> HIDE DEF T
  <2> QED BY <1>3, FS_Subset
<1>5. ModelsUpTo(lines, k) = T \ {""}
  BY DEF ModelsUpTo
<1> QED BY <1>4, <1>5, FS_CardinalityType

LEMMA ModelsMore ==
  ASSUME NEW s \in Summaries, NEW lines \in Seq(Seq(Bytes)), NEW line, IsText(line),
         SaysModels(s, lines)
  PROVE  SaysModels(Parsed(s, line), Append(lines, line))
<1> DEFINE n == Len(lines)
           more == Append(lines, line)
           v == Model[line[Len(line)]]
           p == Parsed(s, line)
           A(i) == ModelsUpTo(lines, i)
           B(i) == ModelsUpTo(more, i)
           M == {Model[x] : x \in Closers}
<1>1. /\ n \in Nat /\ Len(more) = n + 1
      /\ Frames(lines) = {i \in 1 .. n : IsJson(lines[i])}
      /\ Frames(more) = Frames(lines) \cup IF IsJson(line) THEN {n + 1} ELSE {}
      /\ \A i \in 1 .. n : Closer(more, i) = Closer(lines, i)
      /\ Model[Closer(more, n + 1)] = v
      /\ IsJson(line) => v \in M
      /\ \A i \in 0 .. n : B(i) = A(i)
      /\ B(n + 1) = A(n) \cup IF IsJson(line) THEN {v} \ {""} ELSE {}
  BY OneMore
<1>2. p.models = IF IsJson(line) THEN AddOnce(s.models, v) ELSE s.models
  BY DEF Parsed
<1>3. /\ Range(s.models) = A(n) /\ Len(s.models) = Cardinality(A(n))
      /\ \A i \in Frames(lines) :
           Model[Closer(lines, i)] # "" /\ Model[Closer(lines, i)] \notin A(i - 1) =>
             s.models[Cardinality(A(i))] = Model[Closer(lines, i)]
  BY DEF SaysModels
<1>4. s.models \in Seq(M)
  BY DEF Summaries
<1>5. \A i \in Int : IsFiniteSet(A(i)) /\ Cardinality(A(i)) \in Nat
  BY ModelsFinite
<1>6. n \in Nat
  BY <1>1
<1> HIDE DEF n, more, v, p, M
<1>7. /\ \A i \in Frames(lines) : i \in 1 .. n
      /\ \A i \in Frames(more) : i \in Frames(lines) \/ (i = n + 1 /\ IsJson(line))
  <2> HIDE DEF A, B
  <2> QED BY <1>1
<1>8. /\ \A i \in 1 .. n : i \in 0 .. n /\ i - 1 \in 0 .. n /\ i <= n /\ i \in Int
      /\ (n + 1) - 1 = n /\ n \in 0 .. n /\ n \in Int
  BY <1>6
<1>9. ASSUME NEW i \in Frames(lines), Model[Closer(lines, i)] # ""
      PROVE  /\ Cardinality(A(i)) \in 1 .. Cardinality(A(n))
  <2>1. i \in 1 .. n
    BY <1>7
  <2>2. A(i) \subseteq A(n) /\ Model[Closer(lines, i)] \in A(i)
    <3>1. \A j \in Frames(lines) : j <= n
      BY <1>7, <1>8
    <3>2. i <= i
      BY <1>8, <2>1
    <3> QED BY <1>9, <3>1, <3>2 DEF ModelsUpTo
  <2> HIDE DEF A
  <2>3. IsFiniteSet(A(i)) /\ IsFiniteSet(A(n)) /\ Cardinality(A(i)) \in Nat /\ Cardinality(A(n)) \in Nat
    BY <1>5, <1>8, <2>1
  <2>4. Cardinality(A(i)) <= Cardinality(A(n)) /\ Cardinality(A(i)) # 0
    BY <2>2, <2>3, FS_Subset, FS_EmptySet
  <2> QED BY <2>3, <2>4
<1>10. Contains(s.models, v) <=> v \in A(n)
  <2>1. DOMAIN s.models = 1 .. Len(s.models)
    BY <1>4, LenProperties
  <2> HIDE DEF A
  <2> QED BY <1>3, <2>1 DEF Contains, Range
<1> HIDE DEF A, B
<1>11. IsFiniteSet(A(n)) /\ Cardinality(A(n)) \in Nat
  BY <1>5, <1>8
<1>12. (IsJson(line) => v \in M) /\ B(n + 1) = A(n) \cup IF IsJson(line) THEN {v} \ {""} ELSE {}
  BY <1>1
<1>13. \A i \in 1 .. n : Closer(more, i) = Closer(lines, i) /\ B(i) = A(i) /\ B(i - 1) = A(i - 1)
  BY <1>1, <1>8
<1>14. CASE IsJson(line) /\ v # "" /\ v \notin A(n)
  <2>1. p.models = Append(s.models, v) /\ v \in M
    BY <1>2, <1>10, <1>14, <1>12 DEF AddOnce
  <2> DEFINE l == Cardinality(A(n))
  <2>2. /\ p.models \in Seq(M) /\ Len(p.models) = l + 1
        /\ \A i \in 1 .. l : p.models[i] = s.models[i]
        /\ p.models[l + 1] = v
    <3> DEFINE x == s.models
    <3>1. x \in Seq(M) /\ Len(x) = l
      BY <1>3, <1>4
    <3> HIDE DEF x, l
    <3>2. /\ Append(x, v) \in Seq(M) /\ Len(Append(x, v)) = Len(x) + 1
          /\ \A i \in 1 .. Len(x) : Append(x, v)[i] = x[i]
          /\ Append(x, v)[Len(x) + 1] = v
      BY <2>1, <3>1, AppendProperties
    <3> QED BY <2>1, <3>1, <3>2 DEF x
  <2>3. B(n + 1) = A(n) \cup {v}
    BY <1>14, <1>12
  <2>4. Cardinality(B(n + 1)) = l + 1
    BY <1>11, <1>14, <2>3, FS_AddElement
  <2>5. Range(p.models) = B(n + 1)
    <3>1. DOMAIN p.models = 1 .. l + 1 /\ DOMAIN s.models = 1 .. l
      BY <1>3, <1>4, <2>2, LenProperties
    <3>2. l \in Nat
      BY <1>11
    <3> HIDE DEF l
    <3>3. \A i : i \in 1 .. l + 1 <=> i \in 1 .. l \/ i = l + 1
      BY <3>2
    <3> QED BY <1>3, <2>2, <2>3, <3>1, <3>3 DEF Range
  <2>6. ASSUME NEW i \in Frames(more), Model[Closer(more, i)] # "", Model[Closer(more, i)] \notin B(i - 1)
        PROVE  p.models[Cardinality(B(i))] = Model[Closer(more, i)]
    <3>1. CASE i \in Frames(lines)
      <4>2. Closer(more, i) = Closer(lines, i) /\ B(i) = A(i) /\ B(i - 1) = A(i - 1)
        BY <1>7, <1>13, <3>1
      <4>3. s.models[Cardinality(A(i))] = Model[Closer(lines, i)] /\ Cardinality(A(i)) \in 1 .. l
        BY <1>3, <1>9, <2>6, <3>1, <4>2
      <4> HIDE DEF l
      <4> QED BY <2>2, <4>2, <4>3
    <3>2. CASE i \notin Frames(lines)
      <4>1. i = n + 1
        BY <1>7, <3>2
      <4> QED BY <1>1, <2>2, <2>4, <4>1
    <3> QED BY <3>1, <3>2
  <2>7. Len(p.models) = Cardinality(B(n + 1))
    BY <2>2, <2>4
  <2> QED BY <1>1, <2>5, <2>6, <2>7 DEF SaysModels, p, B, more
<1>15. CASE ~ (IsJson(line) /\ v # "" /\ v \notin A(n))
  <2>1. p.models = s.models /\ B(n + 1) = A(n)
    <3>1. p.models = s.models
      BY <1>2, <1>10, <1>15 DEF AddOnce
    <3>2. B(n + 1) = A(n)
      BY <1>15, <1>12
    <3> QED BY <3>1, <3>2
  <2>2. ASSUME NEW i \in Frames(more), Model[Closer(more, i)] # "", Model[Closer(more, i)] \notin B(i - 1)
        PROVE  p.models[Cardinality(B(i))] = Model[Closer(more, i)]
    <3>1. CASE i \in Frames(lines)
      <4>2. Closer(more, i) = Closer(lines, i) /\ B(i) = A(i) /\ B(i - 1) = A(i - 1)
        BY <1>7, <1>13, <3>1
      <4> QED BY <1>3, <2>1, <2>2, <3>1, <4>2
    <3>2. CASE i \notin Frames(lines)
      <4>1. i = n + 1 /\ IsJson(line)
        BY <1>7, <3>2
      <4>2. v # "" /\ v \notin A(n)
        <5>1. B(n) = A(n) /\ Model[Closer(more, n + 1)] = v
          BY <1>1, <1>8
        <5> QED BY <1>8, <2>2, <4>1, <5>1
      <4> QED BY <1>15, <4>1, <4>2
    <3> QED BY <3>1, <3>2
  <2> QED BY <1>1, <1>3, <2>1, <2>2 DEF SaysModels, p, B, more
<1> QED BY <1>14, <1>15

\* The running length of the deltas.
DeltaOf(lines, i) ==
  IF i \in Frames(lines) /\ Type[Closer(lines, i)] = "delta"
    THEN Delta[Closer(lines, i)] ELSE 0
ToldStep(lines, g, k) == IF k = 0 THEN 0 ELSE g[k - 1] + DeltaOf(lines, k)
ToldFits(lines, b, g) == g = [k \in 0 .. b |-> ToldStep(lines, g, k)]

LEMMA ToldExists ==
  ASSUME NEW lines \in Seq(Seq(Bytes))
  PROVE  ToldFits(lines, Len(lines), Told(lines))
<1> DEFINE n == Len(lines)
           S == {b \in 0 .. n : \E g : ToldFits(lines, b, g)}
<1>0. n \in Nat
  BY LenProperties
<1> HIDE DEF n
<1>1. 0 \in S
  <2> DEFINE h == [k \in 0 .. 0 |-> 0]
  <2>1. \A k \in 0 .. 0 : k = 0
    OBVIOUS
  <2>2. h = [k \in 0 .. 0 |-> ToldStep(lines, h, k)]
    BY <2>1 DEF ToldStep
  <2> HIDE DEF h
  <2> QED BY <1>0, <2>2 DEF ToldFits
<1>2. ASSUME NEW b \in 1 .. n, b - 1 \in S PROVE b \in S
  <2>1. PICK g : ToldFits(lines, b - 1, g)
    BY <1>2
  <2>2. g = [k \in 0 .. b - 1 |-> ToldStep(lines, g, k)]
    BY <2>1 DEF ToldFits
  <2> DEFINE h == [k \in 0 .. b |-> ToldStep(lines, g, k)]
  <2>3. ASSUME NEW k \in 0 .. b PROVE ToldStep(lines, g, k) = ToldStep(lines, h, k)
    <3>1. CASE k = 0
      BY <3>1 DEF ToldStep
    <3>2. CASE k # 0
      <4>1. k - 1 \in 0 .. b - 1 /\ k - 1 \in 0 .. b
        BY <1>0, <3>2
      <4>2. g[k - 1] = h[k - 1]
        BY <2>2, <4>1
      <4> HIDE DEF h
      <4> QED BY <3>2, <4>2 DEF ToldStep
    <3> QED BY <3>1, <3>2
  <2> HIDE DEF h
  <2>4. h = [k \in 0 .. b |-> ToldStep(lines, g, k)]
    BY DEF h
  <2>5. ToldFits(lines, b, h)
    BY <2>3, <2>4 DEF ToldFits
  <2> QED BY <1>0, <2>5
<1>3. 0 .. n \subseteq S
  <2> HIDE DEF S
  <2> QED BY <1>0, <1>1, <1>2, InductUpTo
<1>4. \E g : ToldFits(lines, n, g)
  <2>1. n \in S
    <3>1. n \in 0 .. n
      BY <1>0
    <3> HIDE DEF S
    <3> QED BY <1>3, <3>1
  <2> QED BY <2>1
<1>5. Told(lines) = CHOOSE g : g = [k \in 0 .. n |-> ToldStep(lines, g, k)]
  BY DEF Told, ToldStep, DeltaOf, n
<1> QED BY <1>4, <1>5 DEF ToldFits, n

LEMMA ToldIs ==
  ASSUME NEW lines \in Seq(Seq(Bytes))
  PROVE  /\ Told(lines)[0] = 0
         /\ \A k \in 1 .. Len(lines) : Told(lines)[k] = Told(lines)[k - 1] + DeltaOf(lines, k)
         /\ \A k \in 0 .. Len(lines) : Told(lines)[k] \in Nat
<1> DEFINE n == Len(lines)
           g == Told(lines)
           S == {k \in 0 .. n : g[k] \in Nat}
<1>0. n \in Nat /\ DOMAIN lines = 1 .. n
  BY LenProperties
<1>1. g = [k \in 0 .. n |-> ToldStep(lines, g, k)]
  BY ToldExists DEF ToldFits
<1> HIDE DEF g, n
<1>2. g[0] = 0
  BY <1>0, <1>1 DEF ToldStep
<1>3. \A k \in 1 .. n : g[k] = g[k - 1] + DeltaOf(lines, k)
  <2> SUFFICES ASSUME NEW k \in 1 .. n PROVE g[k] = g[k - 1] + DeltaOf(lines, k)
    OBVIOUS
  <2>1. k \in 0 .. n /\ k # 0
    BY <1>0
  <2>2. g[k] = ToldStep(lines, g, k)
    BY <1>1, <2>1
  <2> QED BY <2>1, <2>2 DEF ToldStep
<1>4. \A k \in 1 .. n : DeltaOf(lines, k) \in Nat
  <2>1. \A i \in Frames(lines) : Closer(lines, i) \in Closers
    BY DEF Frames, Closer, IsJson
  <2>2. \A x \in Closers : Delta[x] \in Nat
    BY SummarizerAssumption
  <2> QED BY <2>1, <2>2 DEF DeltaOf
<1>5. 0 .. n \subseteq S
  <2>1. 0 \in S
    BY <1>0, <1>2
  <2>2. ASSUME NEW k \in 1 .. n, k - 1 \in S PROVE k \in S
    <3>1. g[k - 1] \in Nat /\ DeltaOf(lines, k) \in Nat /\ k \in 0 .. n
      BY <1>0, <1>4, <2>2
    <3> QED BY <1>3, <3>1
  <2> HIDE DEF S
  <2> QED BY <1>0, <2>1, <2>2, InductUpTo
<1> QED BY <1>2, <1>3, <1>5 DEF g, n

LEMMA ToldMore ==
  ASSUME NEW lines \in Seq(Seq(Bytes)), NEW line, IsText(line)
  PROVE  LET n == Len(lines)
             more == Append(lines, line)
             c == line[Len(line)]
         IN /\ \A k \in 0 .. n : Told(more)[k] = Told(lines)[k]
            /\ Told(more)[n + 1] =
                 Told(lines)[n] + IF IsJson(line) /\ Type[c] = "delta" THEN Delta[c] ELSE 0
<1> DEFINE n == Len(lines)
           more == Append(lines, line)
           c == line[Len(line)]
           S == {k \in 0 .. n : Told(more)[k] = Told(lines)[k]}
<1>1. /\ n \in Nat /\ Len(more) = n + 1 /\ more \in Seq(Seq(Bytes))
      /\ Frames(lines) = {i \in 1 .. n : IsJson(lines[i])}
      /\ Frames(more) = Frames(lines) \cup IF IsJson(line) THEN {n + 1} ELSE {}
      /\ n + 1 \notin Frames(lines)
      /\ \A i \in 1 .. n : Closer(more, i) = Closer(lines, i)
      /\ Closer(more, n + 1) = c
  BY OneMore
<1> HIDE DEF more, n, c
<1>2. /\ Told(lines)[0] = 0
      /\ \A k \in 1 .. n : Told(lines)[k] = Told(lines)[k - 1] + DeltaOf(lines, k)
  BY ToldIs DEF n
<1>3. /\ Told(more)[0] = 0
      /\ \A k \in 1 .. n + 1 : Told(more)[k] = Told(more)[k - 1] + DeltaOf(more, k)
  <2>1. /\ Told(more)[0] = 0
        /\ \A k \in 1 .. Len(more) : Told(more)[k] = Told(more)[k - 1] + DeltaOf(more, k)
    BY <1>1, ToldIs
  <2> QED BY <1>1, <2>1
<1>4. \A k \in 1 .. n : DeltaOf(more, k) = DeltaOf(lines, k)
  <2>1. \A k \in 1 .. n : k # n + 1
    BY <1>1
  <2> QED BY <1>1, <2>1 DEF DeltaOf
<1>5. 0 .. n \subseteq S
  <2>1. 0 \in S
    BY <1>1, <1>2, <1>3
  <2>2. ASSUME NEW k \in 1 .. n, k - 1 \in S PROVE k \in S
    <3>1. k \in 0 .. n /\ k \in 1 .. n + 1 /\ Told(more)[k - 1] = Told(lines)[k - 1]
      BY <1>1, <2>2
    <3>2. Told(more)[k] = Told(more)[k - 1] + DeltaOf(more, k)
      BY <1>3, <3>1
    <3>3. Told(lines)[k] = Told(lines)[k - 1] + DeltaOf(lines, k)
      BY <1>2
    <3> QED BY <1>4, <3>1, <3>2, <3>3
  <2> HIDE DEF S
  <2> QED BY <1>1, <2>1, <2>2, InductUpTo
<1>6. Told(more)[n + 1] = Told(more)[n] + DeltaOf(more, n + 1)
  <2>1. n + 1 \in 1 .. n + 1 /\ (n + 1) - 1 = n
    BY <1>1
  <2> QED BY <1>3, <2>1
<1>7. DeltaOf(more, n + 1) = IF IsJson(line) /\ Type[c] = "delta" THEN Delta[c] ELSE 0
  BY <1>1 DEF DeltaOf
<1>8. n \in 0 .. n
  BY <1>1
<1> QED BY <1>5, <1>6, <1>7, <1>8 DEF n, more, c

LEMMA AnswerMore ==
  ASSUME NEW s \in Summaries, NEW lines \in Seq(Seq(Bytes)), NEW line, IsText(line),
         SaysAnswer(s, lines)
  PROVE  SaysAnswer(Parsed(s, line), Append(lines, line))
<1> DEFINE n == Len(lines)
           more == Append(lines, line)
           c == line[Len(line)]
           d == IF IsJson(line) /\ Type[c] = "delta" THEN Delta[c] ELSE 0
           p == Parsed(s, line)
           L == Told(lines)
           M == Told(more)
<1>1. n \in Nat /\ Len(more) = n + 1 /\ (IsJson(line) => c \in Closers)
  BY OneMore
<1>2. (\A k \in 0 .. n : M[k] = L[k]) /\ M[n + 1] = L[n] + d
  BY ToldMore
<1>3. \A k \in 0 .. n : L[k] \in Nat
  BY ToldIs
<1>4. TextCap \in Nat /\ TextCap # 0
  BY SummarizerAssumption
<1>5. d \in Nat
  <2>1. \A x \in Closers : Delta[x] \in Nat
    BY SummarizerAssumption
  <2> HIDE DEF c
  <2> QED BY <1>1, <2>1
<1>6. p.answer = IF s.answer < TextCap THEN s.answer + d ELSE s.answer
  <2>1. s.answer \in Nat
    BY DEF Summaries
  <2>2. CASE IsJson(line) /\ Type[c] = "delta"
    BY <2>2 DEF Parsed, Grown
  <2>3. CASE ~ (IsJson(line) /\ Type[c] = "delta")
    <3>1. p.answer = s.answer
      BY <2>3 DEF Parsed
    <3>2. d = 0
      BY <2>3
    <3> HIDE DEF p, d
    <3> QED BY <2>1, <3>1, <3>2
  <2> QED BY <2>2, <2>3
<1>7. PICK k \in 0 .. n : /\ s.answer = L[k]
                          /\ k = n \/ L[k] >= TextCap
                          /\ k = 0 \/ L[k - 1] < TextCap
  BY DEF SaysAnswer
<1> HIDE DEF n, more, c, d, p, L, M
<1>8. \E j \in 0 .. n + 1 : /\ p.answer = M[j]
                            /\ j = n + 1 \/ M[j] >= TextCap
                            /\ j = 0 \/ M[j - 1] < TextCap
  <2>1. CASE L[k] < TextCap
    <3>1. k = n
      BY <1>3, <1>4, <1>7, <2>1
    <3>2. p.answer = M[n + 1] /\ (n + 1) - 1 = n /\ n + 1 \in 0 .. n + 1 /\ M[n] < TextCap
      BY <1>1, <1>2, <1>6, <1>7, <2>1, <3>1
    <3> QED BY <3>2
  <2>2. CASE ~ (L[k] < TextCap)
    <3>1. p.answer = M[k] /\ M[k] >= TextCap /\ k \in 0 .. n + 1
      BY <1>1, <1>2, <1>3, <1>4, <1>6, <1>7, <2>2
    <3>2. k = 0 \/ M[k - 1] < TextCap
      <4>1. k # 0 => k - 1 \in 0 .. n
        BY <1>1
      <4> QED BY <1>2, <1>7, <4>1
    <3> QED BY <3>1, <3>2
  <2> QED BY <2>1, <2>2
<1> QED BY <1>1, <1>8 DEF SaysAnswer, p, M, more

LEMMA ParsedSays ==
  ASSUME NEW s \in Summaries, NEW lines \in Seq(Seq(Bytes)), NEW line, IsText(line),
         Says(s, lines)
  PROVE  Says(Parsed(s, line), Append(lines, line))
BY SaysParts, EventsMore, ModelsMore, UsageMore, AnswerMore

LEMMA SaysBlank == Says(Blank, << >>)
<1>1. << >> \in Seq(Seq(Bytes)) /\ Len(<< >>) = 0 /\ DOMAIN << >> = {}
  BY EmptySeq
<1>2. Frames(<< >>) = {}
  BY <1>1 DEF Frames
<1>3. SaysEvents(Blank, << >>)
  <2>1. \A t : {i \in Frames(<< >>) : Type[Closer(<< >>, i)] = t} = {}
    BY <1>2
  <2>2. \A t \in DOMAIN Blank.events : Blank.events[t] = 0
    BY DEF Blank
  <2> QED BY <2>1, <2>2, FS_EmptySet DEF SaysEvents
<1>4. SaysModels(Blank, << >>)
  <2>1. \A k : ModelsUpTo(<< >>, k) = {}
    BY <1>2 DEF ModelsUpTo
  <2>2. Blank.models = << >>
    BY DEF Blank
  <2>3. Range(<< >>) = {}
    BY <1>1 DEF Range
  <2> QED BY <1>1, <1>2, <2>1, <2>2, <2>3, FS_EmptySet DEF SaysModels
<1>5. SaysUsage(Blank, << >>)
  BY <1>2 DEF SaysUsage, Using, Blank
<1>6. SaysAnswer(Blank, << >>)
  <2>1. Told(<< >>)[0] = 0
    BY <1>1, ToldIs
  <2>2. 0 \in 0 .. Len(<< >>) /\ Blank.answer = 0
    BY <1>1 DEF Blank
  <2> QED BY <1>1, <2>1, <2>2 DEF SaysAnswer
<1> QED BY <1>3, <1>4, <1>5, <1>6, SaysParts

LEMMA FoldedSays ==
  ASSUME NEW s \in Summaries, NEW lines \in Seq(Seq(Bytes)), Says(s, lines),
         NEW more \in Seq(Seq(Bytes))
  PROVE  Says(FoldLeft(Parsed, s, more), lines \o more)
<1> DEFINE n == Len(more)
           l == Len(lines)
           all == lines \o more
           P(k) == SubSeq(all, 0 + 1, l + k)
           J == [k \in 0 .. n |-> {f \in Summaries : Says(f, P(k))}]
<1>1. /\ n \in Nat /\ DOMAIN more = 1 .. n /\ \A k \in 1 .. n : more[k] \in Seq(Bytes)
      /\ l \in Nat
  BY LenProperties, ElementOfSeq
<1>2. /\ all \in Seq(Seq(Bytes)) /\ Len(all) = l + n
      /\ \A i \in 1 .. l + n : all[i] = IF i <= l THEN lines[i] ELSE more[i - l]
  BY ConcatProperties
<1> HIDE DEF n, l, all
<1>3. ASSUME NEW k \in 0 .. n
      PROVE  /\ P(k) \in Seq(Seq(Bytes)) /\ Len(P(k)) = l + k
             /\ \A i \in 1 .. l + k : P(k)[i] = all[i]
  <2>1. l + k \in Nat /\ l + k <= Len(all) /\ (l + k) - 0 = l + k /\ 0 <= l + k
    BY <1>1, <1>2
  <2>2. /\ P(k) \in Seq(Seq(Bytes)) /\ Len(P(k)) = IF 0 <= l + k THEN (l + k) - 0 ELSE 0
        /\ \A i \in 1 .. (l + k) - 0 : P(k)[i] = all[0 + i]
    BY <1>2, <2>1, PartType
  <2>3. \A i \in 1 .. l + k : 0 + i = i
    OBVIOUS
  <2> HIDE DEF P
  <2> QED BY <2>1, <2>2, <2>3
<1> HIDE DEF P
<1>4. P(0) = lines
  <2>1. 0 \in 0 .. n
    BY <1>1
  <2>2. P(0) \in Seq(Seq(Bytes)) /\ Len(P(0)) = l + 0 /\ \A i \in 1 .. l + 0 : P(0)[i] = all[i]
    BY <1>3, <2>1
  <2>3. l + 0 = l /\ \A i \in 1 .. l : i \in 1 .. l + n /\ i <= l
    BY <1>1
  <2>4. \A i \in 1 .. l : P(0)[i] = lines[i]
    BY <1>2, <2>2, <2>3
  <2>5. Len(P(0)) = Len(lines) /\ \A i \in 1 .. Len(P(0)) : P(0)[i] = lines[i]
    BY <2>2, <2>3, <2>4 DEF l
  <2> QED BY <2>2, <2>5, SeqEqual
<1>5. P(n) = all
  <2>1. n \in 0 .. n
    BY <1>1
  <2>2. P(n) \in Seq(Seq(Bytes)) /\ Len(P(n)) = Len(all) /\ \A i \in 1 .. Len(P(n)) : P(n)[i] = all[i]
    BY <1>2, <1>3, <2>1
  <2> QED BY <1>2, <2>2, SeqEqual
<1>6. ASSUME NEW k \in 1 .. n PROVE P(k) = Append(P(k - 1), more[k])
  <2> DEFINE x == P(k - 1)
             y == P(k)
             z == Append(x, more[k])
  <2>1. /\ k - 1 \in 0 .. n /\ k \in 0 .. n /\ l + (k - 1) \in Nat
        /\ (l + (k - 1)) + 1 = l + k /\ (l + k) - l = k
        /\ l + k \in 1 .. l + n /\ ~ (l + k <= l)
    BY <1>1
  <2>2. /\ x \in Seq(Seq(Bytes)) /\ Len(x) = l + (k - 1)
        /\ \A i \in 1 .. l + (k - 1) : x[i] = all[i]
    BY <1>3, <2>1
  <2>3. /\ y \in Seq(Seq(Bytes)) /\ Len(y) = l + k
        /\ \A i \in 1 .. l + k : y[i] = all[i]
    BY <1>3, <2>1
  <2>4. more[k] \in Seq(Bytes)
    BY <1>1
  <2> HIDE DEF x, y
  <2>5. /\ z \in Seq(Seq(Bytes)) /\ Len(z) = Len(x) + 1
        /\ \A i \in 1 .. Len(x) : z[i] = x[i]
        /\ z[Len(x) + 1] = more[k]
    BY <2>2, <2>4, AppendProperties
  <2> HIDE DEF z
  <2>6. ASSUME NEW i \in 1 .. l + k PROVE y[i] = z[i]
    <3>1. CASE i = l + k
      <4>1. y[i] = more[k]
        BY <1>2, <2>1, <2>3, <3>1
      <4> QED BY <2>1, <2>2, <2>5, <3>1, <4>1
    <3>2. CASE i # l + k
      <4>1. i \in 1 .. l + (k - 1)
        BY <1>1, <2>1, <3>2
      <4> QED BY <2>2, <2>3, <2>5, <4>1
    <3> QED BY <3>1, <3>2
  <2>7. Len(y) = Len(z) /\ \A i \in 1 .. Len(y) : y[i] = z[i]
    BY <2>1, <2>2, <2>3, <2>5, <2>6
  <2>8. y = z
    BY <2>3, <2>5, <2>7, SeqEqual
  <2> QED BY <2>8 DEF x, y, z
<1>7. s \in J[0]
  BY <1>1, <1>4
<1>8. \A k \in 1 .. n : \A f \in J[k - 1] : Parsed(f, more[k]) \in J[k]
  <2> SUFFICES ASSUME NEW k \in 1 .. n, NEW f \in J[k - 1] PROVE Parsed(f, more[k]) \in J[k]
    OBVIOUS
  <2>1. k \in 0 .. n /\ k - 1 \in 0 .. n
    BY <1>1
  <2>2. f \in Summaries /\ Says(f, P(k - 1)) /\ J[k] = {g \in Summaries : Says(g, P(k))}
    BY <2>1
  <2>3. IsText(more[k]) /\ P(k - 1) \in Seq(Seq(Bytes))
    BY <1>1, <1>3, <2>1 DEF IsText
  <2>4. Parsed(f, more[k]) \in Summaries /\ Says(Parsed(f, more[k]), Append(P(k - 1), more[k]))
    BY <2>2, <2>3, ParsedType, ParsedSays
  <2> HIDE DEF J
  <2> QED BY <1>6, <2>2, <2>4
<1>9. J[n] = {f \in Summaries : Says(f, all)}
  <2>1. n \in 0 .. n
    BY <1>1
  <2> QED BY <1>5, <2>1
<1> HIDE DEF J
<1>10. FoldLeft(Parsed, s, more) \in J[n]
  BY <1>1, <1>7, <1>8, FoldKeeps
<1> QED BY <1>9, <1>10 DEF all

\* The summary says what it was handed.
SaidInv == StreamInv /\ (sse => Says(Fields, handed))

LEMMA SaidStart == Init => SaidInv
<1> SUFFICES ASSUME Init PROVE SaidInv
  OBVIOUS
<1>1. Fields = Blank /\ handed = << >>
  BY DEF Init, Fields, Blank
<1> QED BY <1>1, StreamStart, SaysBlank DEF SaidInv

LEMMA SaidStep == SaidInv /\ [Next]_vars => SaidInv'
<1> SUFFICES ASSUME SaidInv, [Next]_vars PROVE SaidInv'
  OBVIOUS
<1>0. StreamInv /\ StreamInv' /\ TypeOK
  BY StreamStep DEF SaidInv, StreamInv
<1> DEFINE Said == sse => Says(Fields, handed)
<1>1. ASSUME NEW chunk \in Chunks, PushLines(chunk) PROVE Said'
  <2> DEFINE more == Lines(pending \o chunk)
             sum == FoldLeft(Parsed, Fields, more)
  <2>1. more \in Seq(Seq(Bytes))
    BY <1>0, ChunkType, PushLinesType
  <2>2. Fields \in Summaries /\ handed \in Seq(Seq(Bytes)) /\ Says(Fields, handed)
    BY <1>0, <1>1 DEF PushLines, TypeOK, SaidInv
  <2>3. /\ handed' = handed \o more
        /\ events' = sum.events /\ answer' = sum.answer
        /\ models' = sum.models /\ usage' = sum.usage
    BY <1>1 DEF PushLines
  <2> HIDE DEF more
  <2>4. Says(sum, handed \o more)
    BY <2>1, <2>2, FoldedSays
  <2> HIDE DEF sum
  <2>5. /\ Fields'.events = sum.events /\ Fields'.answer = sum.answer
        /\ Fields'.models = sum.models /\ Fields'.usage = sum.usage
    BY <2>3 DEF Fields
  <2>6. ASSUME NEW f, NEW lines, Says(sum, lines), f.events = sum.events,
               f.answer = sum.answer, f.models = sum.models, f.usage = sum.usage
        PROVE  Says(f, lines)
    BY <2>6, Zenon DEF Says
  <2>7. Says(Fields', handed')
    BY <2>3, <2>4, <2>5, <2>6
  <2>8. (Says(Fields, handed))'
    BY <2>7 DEF Says
  <2> QED BY <2>8
<1>2. ASSUME NEW chunk \in Chunks, PushRaw(chunk) PROVE Said'
  BY <1>2 DEF PushRaw, Pushed, fixed
<1>3. ASSUME UNCHANGED <<sse, handed, fields>> PROVE Said'
  <2>1. Fields' = Fields
    BY <1>3 DEF fields, Fields
  <2>2. sse /\ Says(Fields, handed) => (Says(Fields, handed))'
    BY <1>3, <2>1
  <2> QED BY <1>3, <2>2 DEF SaidInv
<1>4. Finish \/ UNCHANGED vars => UNCHANGED <<sse, handed, fields>>
  BY DEF Finish, vars, fixed
<1>5. Said'
  <2> HIDE DEF Said
  <2> QED BY <1>1, <1>2, <1>3, <1>4 DEF Next
<1> QED BY <1>0, <1>5 DEF SaidInv

LEMMA SaidOfHeard == SaidInv => SaysWhatWasHeard
<1> SUFFICES ASSUME SaidInv, sse, ShortSoFar PROVE Says(Fields, Heard)
  BY DEF SaysWhatWasHeard
<1>1. TypeOK /\ LineInv /\ Says(Fields, handed)
  BY DEF SaidInv, StreamInv
<1>2. /\ Heard \in Seq(Seq(Bytes)) /\ Len(Heard) = Total /\ DOMAIN Heard = 1 .. Total
      /\ handed \in Seq(Seq(Bytes))
  BY <1>1, TextOf, WholeLines DEF Heard, Total, TypeOK
<1>3. Len(handed) = Total /\ \A i \in 1 .. Total : handed[i] = Heard[i]
  BY <1>1, <1>2 DEF LineInv, ShortSoFar
<1>4. handed = Heard
  BY <1>2, <1>3, SeqEqual
<1> QED BY <1>1, <1>4

\* Of a stream without over-long lines, however it was cut into chunks, the
\* summary says what its lines say as a whole.
THEOREM SummaryIsOfTheStream == Spec => []SaysWhatWasHeard
BY SaidStart, SaidStep, SaidOfHeard, PTL DEF Spec
=============================================================================
