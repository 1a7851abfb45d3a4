-------------------------- MODULE RetentionProofs --------------------------
(***************************************************************************)
(* Where a row that is no longer on disk has gone, for any logs, streams   *)
(* and limits, whatever the requests write between two steps of the pruner *)
(* and whichever removal or gzip fails; and what is left after a pass that *)
(* nobody disturbed.                                                       *)
(***************************************************************************)
EXTENDS Retention, FiniteSetTheorems, WellFoundedInduction, TLAPS

-----------------------------------------------------------------------------
(* The sum of the sizes of a listing, which does not depend on the order in *)
(* which the fold picks the files.  A set of numbers that is not empty has  *)
(* a least member; so a set with 0 in it, and with n + 1 when n is, has all *)
(* numbers in it.                                                           *)

LEMMA Least ==
  ASSUME NEW T \in SUBSET Nat, T # {}
  PROVE  \E m \in T : \A n \in T : m <= n
<1>1. IsWellFoundedOn(OpToRel(<,Nat), Nat)
  BY NatLessThanWellFounded
<1>2. PICK m \in T : \A n \in T : <<n, m>> \notin OpToRel(<,Nat)
  BY <1>1, WFMin
<1>3. \A n \in T : ~ (n < m)
  BY <1>2, Zenon DEF OpToRel
<1> QED BY <1>3

LEMMA Induct ==
  ASSUME NEW S, 0 \in S, \A n \in Nat : n \in S => n + 1 \in S
  PROVE  Nat \subseteq S
<1> SUFFICES ASSUME Nat \ S # {} PROVE FALSE
  OBVIOUS
<1>1. PICK m \in Nat \ S : \A n \in Nat \ S : m <= n
  BY Least
<1> QED BY <1>1

SumOf(w, S) == MapThenSumSet(LAMBDA p : w[p].size, S)

\* The function that MapThenSumSet computes the sum with.
Pick(s) == CHOOSE x \in s : TRUE
SumStep(w, g, s) == IF s = {} THEN 0 ELSE w[Pick(s)].size + g[s \ {Pick(s)}]
Fits(w, D, g) == g = [s \in D |-> SumStep(w, g, s)]
SumFcn(w, D) == CHOOSE g : g = [s \in D |-> SumStep(w, g, s)]

LEMMA SumIsFcn == ASSUME NEW w, NEW S PROVE SumOf(w, S) = SumFcn(w, SUBSET S)[S]
BY DEF SumOf, SumFcn, SumStep, MapThenSumSet, MapThenFoldSet, Pick

LEMMA FitsAt ==
  ASSUME NEW w, NEW D, NEW g, Fits(w, D, g), NEW s \in D
  PROVE  g[s] = SumStep(w, g, s)
<1>1. g = [u \in D |-> SumStep(w, g, u)]
  BY DEF Fits
<1> QED BY <1>1

UpTo(S, n) == {s \in SUBSET S : Cardinality(s) <= n}

Layered(S) ==
  /\ UpTo(S, 0) = {{}}
  /\ \A n \in Nat : \A s \in UpTo(S, n + 1) :
       /\ s \in SUBSET S /\ IsFiniteSet(s)
       /\ \A x \in s : s \ {x} \in UpTo(S, n) /\ s \ {x} \in UpTo(S, n + 1)
  /\ Cardinality(S) \in Nat /\ UpTo(S, Cardinality(S)) = SUBSET S

LEMMA FiniteLayers == ASSUME NEW S, IsFiniteSet(S) PROVE Layered(S)
<1>1. \A s \in SUBSET S : /\ IsFiniteSet(s) /\ Cardinality(s) \in Nat
                           /\ (Cardinality(s) = 0 <=> s = {})
                           /\ Cardinality(s) <= Cardinality(S)
  BY FS_Subset, FS_CardinalityType, FS_EmptySet
<1>2. UpTo(S, 0) = {{}}
  <2>1. \A s \in UpTo(S, 0) : s = {}
    BY <1>1 DEF UpTo
  <2>2. {} \in UpTo(S, 0)
    BY <1>1 DEF UpTo
  <2> QED BY <2>1, <2>2
<1>3. ASSUME NEW n \in Nat, NEW s \in UpTo(S, n + 1), NEW x \in s
      PROVE  s \ {x} \in UpTo(S, n) /\ s \ {x} \in UpTo(S, n + 1)
  <2>1. s \in SUBSET S /\ s \ {x} \in SUBSET S /\ Cardinality(s) <= n + 1
    BY DEF UpTo
  <2>2. Cardinality(s \ {x}) = Cardinality(s) - 1
    BY <1>1, <2>1, FS_RemoveElement
  <2> QED BY <1>1, <2>1, <2>2 DEF UpTo
<1>4. \A n \in Nat : \A s \in UpTo(S, n + 1) : s \in SUBSET S /\ IsFiniteSet(s)
  BY <1>1 DEF UpTo
<1>5. Cardinality(S) \in Nat /\ UpTo(S, Cardinality(S)) = SUBSET S
  BY <1>1 DEF UpTo
<1> QED BY <1>2, <1>3, <1>4, <1>5 DEF Layered

LEMMA SumFits ==
  ASSUME NEW w, NEW S, IsFiniteSet(S)
  PROVE  Fits(w, SUBSET S, SumFcn(w, SUBSET S))
<1>0. Layered(S)
  BY FiniteLayers
<1> DEFINE N == {n \in Nat : \E g : Fits(w, UpTo(S, n), g)}
<1>1. 0 \in N
  <2>1. Fits(w, {{}}, [s \in {{}} |-> 0])
    BY DEF Fits, SumStep
  <2>2. UpTo(S, 0) = {{}}
    BY <1>0 DEF Layered
  <2> QED BY <2>1, <2>2
<1>2. ASSUME NEW n \in N PROVE n + 1 \in N
  <2>1. PICK g : Fits(w, UpTo(S, n), g)
    OBVIOUS
  <2> DEFINE h == [s \in UpTo(S, n + 1) |-> SumStep(w, g, s)]
  <2>2. ASSUME NEW s \in UpTo(S, n + 1) PROVE SumStep(w, g, s) = SumStep(w, h, s)
    <3>1. CASE s = {}
      BY <3>1 DEF SumStep
    <3>2. CASE s # {}
      <4> DEFINE t == s \ {Pick(s)}
      <4>1. t \in UpTo(S, n) /\ t \in UpTo(S, n + 1)
        BY <3>2, <1>0 DEF Pick, Layered
      <4> HIDE DEF t
      <4>2. h[t] = SumStep(w, g, t) /\ g[t] = SumStep(w, g, t)
        BY <2>1, <4>1, FitsAt
      <4> QED BY <3>2, <4>2 DEF SumStep, t
    <3> QED BY <3>1, <3>2
  <2> HIDE DEF h
  <2>3. h = [s \in UpTo(S, n + 1) |-> SumStep(w, g, s)]
    BY DEF h
  <2> QED BY <2>2, <2>3 DEF Fits
<1>3. Nat \subseteq N
  <2> HIDE DEF N
  <2> QED BY <1>1, <1>2, Induct
<1>4. \E g : Fits(w, SUBSET S, g)
  <2>1. Cardinality(S) \in Nat /\ UpTo(S, Cardinality(S)) = SUBSET S
    BY <1>0 DEF Layered
  <2> QED BY <1>3, <2>1
<1> QED BY <1>4 DEF SumFcn, Fits

\* The same function sums every subset.
LEMMA SumSame ==
  ASSUME NEW w, NEW S, IsFiniteSet(S), NEW D, SUBSET S \subseteq D,
         NEW g, Fits(w, D, g)
  PROVE  g[S] = SumOf(w, S)
<1>0. Layered(S)
  BY FiniteLayers
<1> DEFINE h == SumFcn(w, SUBSET S)
           N == {n \in Nat : \A s \in UpTo(S, n) : g[s] = h[s]}
<1>1. ASSUME NEW s \in SUBSET S PROVE g[s] = SumStep(w, g, s) /\ h[s] = SumStep(w, h, s)
  BY SumFits, FitsAt
<1> HIDE DEF h
<1>2. 0 \in N
  <2>1. g[{}] = h[{}]
    BY <1>1 DEF SumStep
  <2> QED BY <2>1, <1>0 DEF Layered
<1>3. ASSUME NEW n \in N PROVE n + 1 \in N
  <2>1. ASSUME NEW s \in UpTo(S, n + 1) PROVE g[s] = h[s]
    <3>1. s \in SUBSET S /\ \A x \in s : s \ {x} \in UpTo(S, n)
      BY <1>0 DEF Layered
    <3>2. SumStep(w, g, s) = SumStep(w, h, s)
      <4>1. CASE s = {}
        BY <4>1 DEF SumStep
      <4>2. CASE s # {}
        <5>1. g[s \ {Pick(s)}] = h[s \ {Pick(s)}]
          BY <3>1, <4>2 DEF Pick
        <5> QED BY <4>2, <5>1 DEF SumStep
      <4> QED BY <4>1, <4>2
    <3> QED BY <1>1, <3>1, <3>2
  <2> QED BY <2>1
<1>4. Nat \subseteq N
  <2> HIDE DEF N
  <2> QED BY <1>2, <1>3, Induct
<1> QED BY <1>4, <1>0, SumIsFcn DEF h, Layered

LEMMA SumEmpty == ASSUME NEW w PROVE SumOf(w, {}) = 0
<1>1. Fits(w, SUBSET {}, SumFcn(w, SUBSET {}))
  BY SumFits, FS_EmptySet
<1> QED BY <1>1, FitsAt, SumIsFcn DEF SumStep

LEMMA SumPicks ==
  ASSUME NEW w, NEW S, IsFiniteSet(S), S # {}
  PROVE  Pick(S) \in S /\ SumOf(w, S) = w[Pick(S)].size + SumOf(w, S \ {Pick(S)})
<1> DEFINE g == SumFcn(w, SUBSET S)
<1>1. Pick(S) \in S
  BY DEF Pick
<1>2. Fits(w, SUBSET S, g)
  BY SumFits
<1> HIDE DEF g
<1>3. g[S \ {Pick(S)}] = SumOf(w, S \ {Pick(S)})
  <2>1. IsFiniteSet(S \ {Pick(S)}) /\ SUBSET (S \ {Pick(S)}) \subseteq SUBSET S
    BY FS_Subset
  <2> QED BY <1>2, <2>1, SumSame
<1>4. g[S] = w[Pick(S)].size + g[S \ {Pick(S)}]
  BY <1>2, FitsAt DEF SumStep
<1> QED BY <1>1, <1>3, <1>4, SumIsFcn DEF g

\* The sum of a finite set is that of all but any one, and that one.
LEMMA SumLess ==
  ASSUME NEW S, IsFiniteSet(S), NEW w, \A x \in S : w[x].size \in Int, NEW x \in S
  PROVE  /\ SumOf(w, S) \in Int /\ SumOf(w, S \ {x}) \in Int
         /\ SumOf(w, S) = w[x].size + SumOf(w, S \ {x})
<1>0. Layered(S)
  BY FiniteLayers
<1> DEFINE Good(s) ==
             /\ SumOf(w, s) \in Int
             /\ \A y \in s : SumOf(w, s) = w[y].size + SumOf(w, s \ {y})
           N == {n \in Nat : \A s \in UpTo(S, n) : Good(s)}
<1>1. 0 \in N
  <2>1. UpTo(S, 0) = {{}}
    BY <1>0 DEF Layered
  <2>2. Good({})
    BY SumEmpty
  <2> QED BY <2>1, <2>2
<1>2. ASSUME NEW n \in N, NEW s \in UpTo(S, n + 1), NEW y \in s PROVE Good(s \ {y})
  BY <1>0 DEF Layered
<1>3. ASSUME NEW n \in N, NEW s \in UpTo(S, n + 1) PROVE Good(s)
  <2> HIDE DEF N
  <2>1. s \in SUBSET S /\ IsFiniteSet(s)
    <3>1. n \in Nat
      BY DEF N
    <3> QED BY <3>1, <1>0 DEF Layered
  <2> SUFFICES ASSUME s # {} PROVE Good(s)
    BY SumEmpty
  <2> DEFINE p == Pick(s)
  <2>2. p \in s /\ SumOf(w, s) = w[p].size + SumOf(w, s \ {p})
    BY <2>1, SumPicks
  <2> HIDE DEF p
  <2>3. ASSUME NEW y \in s PROVE SumOf(w, s) = w[y].size + SumOf(w, s \ {y})
    <3>1. CASE y = p
      BY <2>2, <3>1
    <3>2. CASE y # p
      <4> DEFINE u == w[p].size
                 v == w[y].size
                 c == SumOf(w, (s \ {p}) \ {y})
      <4>1. (s \ {p}) \ {y} = (s \ {y}) \ {p}
        OBVIOUS
      <4>2. SumOf(w, s \ {p}) = v + c
        BY <1>2, <2>2, <3>2
      <4>3. SumOf(w, s \ {y}) = u + c
        <5>1. SumOf(w, s \ {y}) = u + SumOf(w, (s \ {y}) \ {p})
          BY <1>2, <2>2, <3>2
        <5> QED BY <4>1, <5>1, Zenon
      <4>4. c \in Int
        <5>1. s \ {p} \in UpTo(S, n + 1)
          <6>1. n \in Nat
            BY DEF N
          <6> QED BY <1>0, <2>2, <6>1 DEF Layered
        <5>2. y \in s \ {p}
          BY <3>2
        <5>3. Good((s \ {p}) \ {y})
          BY <1>2, <5>1, <5>2
        <5> QED BY <5>3
      <4>5. u \in Int /\ v \in Int
        BY <2>1, <2>2
      <4> HIDE DEF u, v, c
      <4>6. SumOf(w, s) = u + (v + c)
        BY <2>2, <4>2, Zenon DEF u
      <4>7. u + (v + c) = v + (u + c)
        BY <4>4, <4>5
      <4> QED BY <4>3, <4>6, <4>7, Zenon DEF v
    <3> QED BY <3>1, <3>2
  <2>4. SumOf(w, s) \in Int
    BY <1>2, <2>1, <2>2
  <2> QED BY <2>3, <2>4
<1>4. Nat \subseteq N
  <2>1. ASSUME NEW n \in N PROVE n + 1 \in N
    BY <1>3
  <2> HIDE DEF N
  <2> QED BY <1>1, <2>1, Induct
<1>5. Good(S) /\ Good(S \ {x})
  BY <1>4, <1>0 DEF Layered
<1> QED BY <1>5

\* A sum depends on the sizes of what is summed only.
LEMMA SumAlike ==
  ASSUME NEW S, IsFiniteSet(S), NEW w, NEW v, \A x \in S : w[x].size = v[x].size
  PROVE  SumOf(w, S) = SumOf(v, S)
<1> DEFINE g == SumFcn(w, SUBSET S)
<1>1. Fits(w, SUBSET S, g)
  BY SumFits
<1> HIDE DEF g
<1>2. \A s \in SUBSET S : SumStep(w, g, s) = SumStep(v, g, s)
  BY DEF SumStep, Pick
<1>3. Fits(v, SUBSET S, g)
  BY <1>1, <1>2 DEF Fits
<1> QED BY <1>1, <1>3, SumSame

-----------------------------------------------------------------------------
USE RetentionAssumption

-----------------------------------------------------------------------------
(* The tree.                                                               *)

LEMMA PathsOf ==
  \A p \in Paths : /\ p[1] \in Files /\ p = <<p[1], p[2]>>
                   /\ p[2] # "gz" => p = Plain(p[1])
                   /\ p[2] = "gz" => p = Gz(p[1])
BY DEF Paths, Plain, Gz

LEMMA PathsDiffer ==
  \A f \in Files : /\ Plain(f) \in Paths /\ Gz(f) \in Paths
                   /\ Plain(f) # Gz(f)
                   /\ Plain(f)[1] = f /\ Gz(f)[1] = f
BY DEF Paths, Plain, Gz

-----------------------------------------------------------------------------
(* The inductive invariant.                                                *)

Configured ==
  /\ retention \in Nat \cup {Off} /\ cap \in Nat \cup {Off}
  /\ gzipAfter \in Nat \cup {Off}

\* The clock does not go back.
Clock == now <= day /\ \A n \in DOMAIN row : row[n].day <= day

\* Rows are those of the file they are in, and no younger than it.
RowsOf(log, rows, f, mtime) ==
  \A n \in rows : n \in DOMAIN log /\ log[n].file = f /\ log[n].day <= mtime
TreeHolds == \A p \in DOMAIN disk : RowsOf(row, disk[p].rows, p[1], disk[p].mtime)

\* A stream has rows only once it is open.
StreamsOpen ==
  \A s \in Streams : fd[s] = "new" => \A n \in DOMAIN row : row[n].file # s

\* While the old files go, no row is younger than the time listed for its file,
\* except those written since.
ListedTimes ==
  pc = "expire" =>
    \A p \in DOMAIN list :
      /\ list[p].mtime \in Nat
      /\ p \in DOMAIN disk => \A n \in disk[p].rows :
                               n \in late \/ row[n].day <= list[p].mtime

\* Only plain files are compressed.
PlainOnly == pc \in {"gzip", "gzipping"} => \A p \in todo : p[2] # "gz"

\* What gzip has read is what is there, except the rows written since.
Zipping ==
  pc = "gzipping" =>
    /\ zip.path \in DOMAIN disk /\ zip.path[2] # "gz" /\ zip.mtime \in 0..MaxDay
    /\ RowsOf(row, zip.rows, zip.path[1], zip.mtime)
    /\ zip.rows \subseteq disk[zip.path].rows
    /\ disk[zip.path].rows \subseteq zip.rows \cup late

Explained(n) ==
  \/ retention # Off /\ day - row[n].day > retention
  \/ cap # Off
  \/ n \in late \/ n \in rezip

Held(n) == \E p \in DOMAIN disk : n \in disk[p].rows

HeldOrExplained == \A n \in DOMAIN row : Held(n) \/ Explained(n)

Inv ==
  /\ TypeOK /\ Configured /\ Clock
  /\ TreeHolds /\ StreamsOpen /\ ListedTimes /\ PlainOnly /\ Zipping
  /\ HeldOrExplained

LEMMA DaysAreNumbers == TypeOK => \A n \in DOMAIN row : row[n].day \in Nat
<1> SUFFICES ASSUME TypeOK PROVE \A n \in DOMAIN row : row[n].day \in Nat
  OBVIOUS
<1> DEFINE Row == [file : Files, day : 0..MaxDay]
<1>1. row \in Seq(Row)
  BY DEF TypeOK
<1>2. \A r \in Row : r.day \in Nat
  OBVIOUS
<1> HIDE DEF Row
<1>3. \A n \in DOMAIN row : row[n] \in Row
  BY <1>1
<1> QED BY <1>2, <1>3

LEMMA InvExplains == Inv => LossExplained
<1> SUFFICES ASSUME Inv, NEW n \in DOMAIN row, Held(n)
             PROVE  n \in OnDisk(row[n].file)
  BY DEF Inv, HeldOrExplained, Explained, LossExplained
<1>1. PICK p \in DOMAIN disk : n \in disk[p].rows
  BY DEF Held
<1>2. p \in Paths /\ row[n].file = p[1]
  BY <1>1 DEF Inv, TypeOK, TreeHolds, RowsOf
<1> QED BY <1>1, <1>2, PathsOf DEF OnDisk, RowsAt

LEMMA InitInv == Init => Inv
<1> SUFFICES ASSUME Init PROVE Inv
  OBVIOUS
<1>1. TypeOK
  BY DEF Init, TypeOK
<1>2. Configured /\ Clock /\ StreamsOpen
  BY DEF Init, Configured, Clock, StreamsOpen
<1>3. TreeHolds /\ ListedTimes /\ PlainOnly /\ Zipping /\ HeldOrExplained
  BY DEF Init, TreeHolds, ListedTimes, PlainOnly, Zipping, HeldOrExplained
<1> QED BY <1>1, <1>2, <1>3 DEF Inv

LEMMA StutterKeeps == Inv /\ UNCHANGED vars => Inv'
BY DEF Inv, vars, config, writers, pruner, history, TypeOK, Configured, Clock, TreeHolds,
       RowsOf, StreamsOpen, ListedTimes, PlainOnly, Zipping, HeldOrExplained, Held,
       Explained

-----------------------------------------------------------------------------
(* The requests.                                                           *)

\* What stays of the invariant when the rows and the clock only grow.
Grows ==
  /\ row' \in Seq([file : Files, day : 0..MaxDay])
  /\ DOMAIN row \subseteq DOMAIN row' /\ \A n \in DOMAIN row : row'[n] = row[n]
  /\ day' \in 0..MaxDay /\ day <= day'
  /\ \A n \in DOMAIN row' \ DOMAIN row : row'[n].day = day'
  /\ late \subseteq late' /\ UNCHANGED <<config, pruner, rezip>>

LEMMA GrowsKeeps ==
  ASSUME Inv, Grows
  PROVE  /\ Configured' /\ Clock' /\ PlainOnly'
         /\ \A rows, g, mtime : RowsOf(row, rows, g, mtime) => RowsOf(row', rows, g, mtime)
         /\ \A n \in DOMAIN row : Explained(n) => Explained(n)'
<1>1. day \in Nat /\ day' \in Nat /\ now' = now /\ now \in Nat
  BY DEF Grows, Inv, TypeOK, pruner
<1>2. \A n \in DOMAIN row : row[n].day \in Nat
  BY DaysAreNumbers DEF Inv
<1>3. Configured' /\ PlainOnly'
  BY DEF Grows, Inv, Configured, PlainOnly, config, pruner
<1>4. Clock'
  <2>1. now' <= day'
    BY <1>1 DEF Grows, Inv, Clock
  <2>2. \A n \in DOMAIN row : row'[n].day <= day'
    BY <1>1, <1>2 DEF Grows, Inv, Clock
  <2>3. \A n \in DOMAIN row' \ DOMAIN row : row'[n].day <= day'
    BY <1>1 DEF Grows
  <2> QED BY <2>1, <2>2, <2>3 DEF Clock
<1>5. \A rows, g, mtime : RowsOf(row, rows, g, mtime) => RowsOf(row', rows, g, mtime)
  BY DEF RowsOf, Grows
<1>6. ASSUME NEW n \in DOMAIN row, Explained(n)
      PROVE  Explained(n)'
  <2>1. row'[n] = row[n] /\ retention' = retention /\ cap' = cap /\ rezip' = rezip
    BY DEF Grows, config
  <2>2. CASE retention # Off /\ day - row[n].day > retention
    <3>1. retention \in Nat
      BY <2>2 DEF Inv, Configured
    <3>2. day' - row[n].day > retention
      BY <1>1, <1>2, <2>2, <3>1 DEF Grows
    <3> QED BY <2>1, <2>2, <3>2 DEF Explained
  <2>3. CASE cap # Off \/ n \in late \/ n \in rezip
    BY <2>1, <2>3 DEF Explained, Grows
  <2> QED BY <1>6, <2>2, <2>3 DEF Explained
<1> QED BY <1>3, <1>4, <1>5, <1>6

\* A row that reaches the plain form of its file.
LEMMA RowKept ==
  ASSUME Inv, NEW f \in Files, f \in Streams => fd[f] # "new", Written(f),
         disk' = With(disk, Plain(f), RowsAt(Plain(f)) \cup {Len(row) + 1}, day),
         UNCHANGED <<config, day, fd, pruner, rezip>>
  PROVE  Inv'
<1> PICK new : new = Len(row) + 1
  OBVIOUS
<1> DEFINE P == Plain(f)
<1>1. /\ row \in Seq([file : Files, day : 0..MaxDay]) /\ day \in 0..MaxDay
      /\ row' = Append(row, [file |-> f, day |-> day])
  BY DEF Inv, TypeOK, Written
<1>2. /\ row' \in Seq([file : Files, day : 0..MaxDay])
      /\ DOMAIN row' = DOMAIN row \cup {new} /\ new \notin DOMAIN row
      /\ \A n \in DOMAIN row : row'[n] = row[n]
      /\ row'[new] = [file |-> f, day |-> day]
  BY <1>1
<1>3. late \subseteq late' /\ (pc # "asleep" => new \in late')
  BY DEF Written
<1>4. Grows
  BY <1>1, <1>2, <1>3 DEF Grows
<1>5. P \in Paths /\ P[1] = f
  BY PathsDiffer
<1>6. /\ DOMAIN disk' = DOMAIN disk \cup {P}
      /\ disk'[P].rows = RowsAt(P) \cup {new} /\ disk'[P].mtime = day
      /\ \A q \in DOMAIN disk : q # P => disk'[q] = disk[q]
  <2> HIDE DEF P
  <2>1. disk' = With(disk, P, RowsAt(P) \cup {new}, day)
    BY DEF P
  <2>2. DOMAIN disk' = DOMAIN disk \cup {P}
    BY <2>1 DEF With
  <2>3. disk'[P].rows = RowsAt(P) \cup {new}
    BY <2>1 DEF With
  <2>4. disk'[P].mtime = day
    BY <2>1 DEF With
  <2>5. \A q \in DOMAIN disk : q # P => disk'[q] = disk[q]
    BY <2>1 DEF With
  <2> QED BY <2>2, <2>3, <2>4, <2>5
<1>7. /\ pc' = pc /\ now' = now /\ list' = list /\ todo' = todo /\ zip' = zip
      /\ fd' = fd /\ rezip' = rezip /\ day' = day
  BY DEF pruner
<1> HIDE DEF P
<1>8. TypeOK'
  <2>1. DOMAIN disk' \subseteq Paths
    BY <1>5, <1>6 DEF Inv, TypeOK
  <2>2. ASSUME NEW p \in DOMAIN disk'
        PROVE  disk'[p].rows \subseteq DOMAIN row' /\ disk'[p].mtime \in 0..MaxDay
    <3>1. CASE p = P
      <4>1. RowsAt(P) \subseteq DOMAIN row
        BY DEF RowsAt, Inv, TypeOK
      <4> QED BY <1>1, <1>2, <1>6, <3>1, <4>1
    <3>2. CASE p # P
      BY <1>2, <1>6, <3>2 DEF Inv, TypeOK
    <3> QED BY <3>1, <3>2
  <2> QED BY <1>2, <1>7, <2>1, <2>2 DEF Inv, TypeOK
<1>9. TreeHolds'
  <2>1. ASSUME NEW p \in DOMAIN disk, p # P
        PROVE  RowsOf(row', disk'[p].rows, p[1], disk'[p].mtime)
    BY <1>4, <1>6, <2>1, GrowsKeeps DEF Inv, TreeHolds
  <2>2. RowsOf(row', disk'[P].rows, f, day)
    <3>1. \A n \in RowsAt(P) : n \in DOMAIN row /\ row[n].file = f /\ row[n].day <= day
      BY <1>5 DEF RowsAt, Inv, TreeHolds, RowsOf, Clock
    <3>2. day <= day
      BY <1>1
    <3> QED BY <1>2, <1>6, <1>7, <3>1, <3>2 DEF RowsOf
  <2> QED BY <1>5, <1>6, <1>7, <2>1, <2>2 DEF TreeHolds
<1>10. StreamsOpen'
  BY <1>2, <1>7 DEF Inv, StreamsOpen
<1>11. ListedTimes'
  <2> SUFFICES ASSUME pc = "expire", NEW p \in DOMAIN list \cap DOMAIN disk',
                      NEW n \in disk'[p].rows, n # new
               PROVE  n \in late' \/ row'[n].day <= list[p].mtime
    BY <1>3, <1>7 DEF Inv, ListedTimes
  <2>1. p \in DOMAIN disk /\ n \in disk[p].rows
    BY <1>6 DEF RowsAt
  <2>2. n \in DOMAIN row
    BY <2>1 DEF Inv, TypeOK
  <2> QED BY <1>2, <1>3, <2>1, <2>2 DEF Inv, ListedTimes
<1>12. Zipping'
  <2> SUFFICES ASSUME pc = "gzipping"
               PROVE  /\ zip.path \in DOMAIN disk' /\ zip.path[2] # "gz"
                      /\ zip.mtime \in 0..MaxDay
                      /\ RowsOf(row', zip.rows, zip.path[1], zip.mtime)
                      /\ zip.rows \subseteq disk'[zip.path].rows
                      /\ disk'[zip.path].rows \subseteq zip.rows \cup late'
    BY <1>7 DEF Zipping, RowsOf
  <2>1. /\ zip.path \in DOMAIN disk /\ zip.path[2] # "gz" /\ zip.mtime \in 0..MaxDay
        /\ RowsOf(row, zip.rows, zip.path[1], zip.mtime)
        /\ zip.rows \subseteq disk[zip.path].rows
        /\ disk[zip.path].rows \subseteq zip.rows \cup late
    BY DEF Inv, Zipping
  <2>2. RowsOf(row', zip.rows, zip.path[1], zip.mtime)
    BY <1>4, <1>7, <2>1, GrowsKeeps
  <2>3. /\ disk[zip.path].rows \subseteq disk'[zip.path].rows
        /\ disk'[zip.path].rows \subseteq disk[zip.path].rows \cup {new}
    BY <1>6, <2>1 DEF RowsAt
  <2> QED BY <1>3, <1>6, <1>7, <2>1, <2>2, <2>3
<1>13. HeldOrExplained'
  <2>1. Held(new)'
    BY <1>6 DEF Held
  <2>2. ASSUME NEW n \in DOMAIN row, Held(n)
        PROVE  Held(n)'
    <3>1. PICK p \in DOMAIN disk : n \in disk[p].rows
      BY <2>2 DEF Held
    <3>2. p \in DOMAIN disk' /\ n \in disk'[p].rows
      BY <1>6, <3>1 DEF RowsAt
    <3> QED BY <3>2 DEF Held
  <2> QED BY <1>2, <1>4, <2>1, <2>2, GrowsKeeps DEF Inv, HeldOrExplained
<1>14. Configured' /\ Clock' /\ PlainOnly'
  BY <1>4, GrowsKeeps
<1> QED BY <1>8, <1>9, <1>10, <1>11, <1>12, <1>13, <1>14 DEF Inv

LEMMA AppendRowKeeps == ASSUME Inv, NEW f \in Logs, AppendRow(f) PROVE Inv'
<1>1. f \in Files /\ f \notin Streams
  BY DEF Files
<1> QED BY <1>1, RowKept DEF AppendRow

\* A row that reaches a file nobody can open any more.
LEMMA RowLost ==
  ASSUME Inv, NEW s \in Streams, fd[s] = "orphan", Written(s),
         UNCHANGED <<config, day, fd, disk, pruner, rezip>>
  PROVE  Inv'
<1> PICK new : new = Len(row) + 1
  OBVIOUS
<1>1. /\ row \in Seq([file : Files, day : 0..MaxDay]) /\ day \in 0..MaxDay
      /\ row' = Append(row, [file |-> s, day |-> day]) /\ s \in Files
  BY DEF Inv, TypeOK, Written, Files
<1>2. /\ row' \in Seq([file : Files, day : 0..MaxDay])
      /\ DOMAIN row' = DOMAIN row \cup {new} /\ new \notin DOMAIN row
      /\ \A n \in DOMAIN row : row'[n] = row[n]
      /\ row'[new] = [file |-> s, day |-> day]
  BY <1>1
<1>3. late \subseteq late' /\ new \in late'
  BY DEF Written
<1>4. Grows
  BY <1>1, <1>2, <1>3 DEF Grows
<1>5. /\ pc' = pc /\ now' = now /\ list' = list /\ todo' = todo /\ zip' = zip
      /\ fd' = fd /\ rezip' = rezip /\ day' = day /\ disk' = disk
  BY DEF pruner
<1>6. TypeOK'
  BY <1>2, <1>5 DEF Inv, TypeOK
<1>7. TreeHolds'
  BY <1>4, <1>5, GrowsKeeps DEF Inv, TreeHolds
<1>8. StreamsOpen' /\ ListedTimes'
  <2>1. StreamsOpen'
    BY <1>2, <1>5 DEF Inv, StreamsOpen
  <2>2. \A p \in DOMAIN disk : disk[p].rows \subseteq DOMAIN row
    BY DEF Inv, TypeOK
  <2> QED BY <1>2, <1>3, <1>5, <2>1, <2>2 DEF Inv, ListedTimes
<1>9. Zipping'
  BY <1>3, <1>4, <1>5, GrowsKeeps DEF Inv, Zipping
<1>10. HeldOrExplained'
  <2>1. Explained(new)'
    BY <1>2, <1>3 DEF Explained
  <2>2. \A n \in DOMAIN row : Held(n) => Held(n)'
    BY <1>5 DEF Held
  <2> QED BY <1>2, <1>4, <2>1, <2>2, GrowsKeeps DEF Inv, HeldOrExplained
<1>11. Configured' /\ Clock' /\ PlainOnly'
  BY <1>4, GrowsKeeps
<1> QED BY <1>6, <1>7, <1>8, <1>9, <1>10, <1>11 DEF Inv

LEMMA WriteOnKeeps == ASSUME Inv, NEW s \in Streams, WriteOn(s) PROVE Inv'
<1>1. CASE fd[s] = "orphan"
  BY <1>1, RowLost DEF WriteOn
<1>2. CASE fd[s] = "open"
  <2>1. s \in Files
    BY DEF Files
  <2> QED BY <1>2, <2>1, RowKept DEF WriteOn
<1> QED BY <1>1, <1>2 DEF WriteOn

\* Without new rows and with the tree as it was, only the writers' side moves.
LEMMA CloseKeeps == ASSUME Inv, NEW s \in Streams, Close(s) PROVE Inv'
<1>1. /\ UNCHANGED <<config, day, row, disk, pruner, history>>
      /\ fd[s] # "new" /\ fd' = [fd EXCEPT ![s] = "closed"]
  BY DEF Close
<1>2. fd' \in [Streams -> {"new", "open", "orphan", "closed"}]
  BY <1>1 DEF Inv, TypeOK
<1>3. TypeOK'
  BY <1>1, <1>2 DEF Inv, TypeOK, pruner
<1>4. StreamsOpen'
  BY <1>1 DEF Inv, TypeOK, StreamsOpen, history
<1>5. Configured' /\ Clock' /\ TreeHolds' /\ ListedTimes' /\ PlainOnly' /\ Zipping'
  BY <1>1 DEF Inv, Configured, Clock, TreeHolds, RowsOf, ListedTimes, PlainOnly, Zipping,
              config, pruner, history
<1>6. HeldOrExplained'
  BY <1>1 DEF Inv, HeldOrExplained, Held, Explained, config, history
<1> QED BY <1>3, <1>4, <1>5, <1>6 DEF Inv

LEMMA TickKeeps == ASSUME Inv, Tick PROVE Inv'
<1>1. /\ day \in 0..MaxDay /\ day' = day + 1 /\ day' \in 0..MaxDay
      /\ UNCHANGED <<config, row, fd, disk, pruner, history>>
  BY DEF Inv, TypeOK, Tick
<1>2. row \in Seq([file : Files, day : 0..MaxDay])
  BY DEF Inv, TypeOK
<1>3. Grows
  BY <1>1, <1>2 DEF Grows, history
<1>4. /\ pc' = pc /\ now' = now /\ list' = list /\ todo' = todo /\ zip' = zip
      /\ fd' = fd /\ rezip' = rezip /\ late' = late /\ disk' = disk /\ row' = row
  BY <1>1 DEF pruner, history
<1>5. TypeOK'
  BY <1>1, <1>4 DEF Inv, TypeOK
<1>6. TreeHolds' /\ StreamsOpen' /\ ListedTimes' /\ Zipping'
  BY <1>4 DEF Inv, TreeHolds, RowsOf, StreamsOpen, ListedTimes, Zipping
<1>7. HeldOrExplained'
  <2>1. \A n \in DOMAIN row : Held(n) => Held(n)'
    BY <1>4 DEF Held
  <2> QED BY <1>3, <1>4, <2>1, GrowsKeeps DEF Inv, HeldOrExplained
<1>8. Configured' /\ Clock' /\ PlainOnly'
  BY <1>3, GrowsKeeps
<1> QED BY <1>5, <1>6, <1>7, <1>8 DEF Inv

\* A new file is empty, and nothing was at its path.
LEMMA CreateKeeps == ASSUME Inv, NEW s \in Streams, Create(s) PROVE Inv'
<1> DEFINE P == Plain(s)
<1>1. P \in Paths /\ P[1] = s
  BY PathsDiffer DEF Files
<1>2. disk' = With(disk, P, {}, day)
  BY DEF Create
<1>3. fd[s] = "new" /\ fd' = [fd EXCEPT ![s] = "open"]
  BY DEF Create
<1>4. late' = late
  BY DEF Create
<1> HIDE DEF P
<1>5. /\ DOMAIN disk' = DOMAIN disk \cup {P}
      /\ disk'[P].rows = {} /\ disk'[P].mtime = day
      /\ \A q \in DOMAIN disk : q # P => disk'[q] = disk[q]
  <2>1. DOMAIN disk' = DOMAIN disk \cup {P}
    BY <1>2 DEF With
  <2>2. disk'[P].rows = {} /\ disk'[P].mtime = day
    BY <1>2 DEF With
  <2>3. \A q \in DOMAIN disk : q # P => disk'[q] = disk[q]
    BY <1>2 DEF With
  <2> QED BY <2>1, <2>2, <2>3
<1>6. /\ pc' = pc /\ now' = now /\ list' = list /\ todo' = todo /\ zip' = zip
      /\ rezip' = rezip /\ day' = day /\ row' = row /\ UNCHANGED config
  BY DEF Create, pruner
<1>7. \A n \in DOMAIN row : row[n].file # s
  BY <1>3 DEF Inv, StreamsOpen
<1>8. P \in DOMAIN disk => disk[P].rows = {}
  BY <1>1, <1>7 DEF Inv, TreeHolds, RowsOf
<1>9. TypeOK'
  <2>1. fd' \in [Streams -> {"new", "open", "orphan", "closed"}]
    BY <1>3 DEF Inv, TypeOK
  <2>2. day \in 0..MaxDay /\ DOMAIN disk' \subseteq Paths
    BY <1>1, <1>5 DEF Inv, TypeOK
  <2>3. \A p \in DOMAIN disk' : disk'[p].rows \subseteq DOMAIN row /\ disk'[p].mtime \in 0..MaxDay
    BY <1>5, <2>2 DEF Inv, TypeOK
  <2> QED BY <1>6, <2>1, <2>2, <2>3 DEF Inv, TypeOK
<1>10. TreeHolds'
  BY <1>5, <1>6 DEF Inv, TreeHolds, RowsOf
<1>11. StreamsOpen'
  BY <1>3, <1>6 DEF Inv, TypeOK, StreamsOpen
<1>12. ListedTimes' /\ Zipping'
  <2>1. ListedTimes'
    BY <1>1, <1>4, <1>5, <1>6 DEF Inv, ListedTimes
  <2>2. P \in DOMAIN disk => disk'[P].rows = disk[P].rows
    BY <1>5, <1>8
  <2>3. \A q \in DOMAIN disk : q \in DOMAIN disk' /\ disk'[q].rows = disk[q].rows
    BY <1>5, <2>2
  <2>4. Zipping'
    BY <1>4, <1>6, <2>3 DEF Inv, Zipping, RowsOf
  <2> QED BY <2>1, <2>4
<1>13. Configured' /\ Clock' /\ PlainOnly'
  BY <1>6 DEF Inv, Configured, Clock, PlainOnly, config
<1>14. HeldOrExplained'
  <2>1. ASSUME NEW n \in DOMAIN row, Held(n) PROVE Held(n)'
    <3>1. PICK p \in DOMAIN disk : n \in disk[p].rows
      BY <2>1 DEF Held
    <3>2. p \in DOMAIN disk' /\ n \in disk'[p].rows
      BY <1>5, <1>8, <3>1
    <3> QED BY <3>2 DEF Held
  <2>2. \A n \in DOMAIN row : Explained(n) => Explained(n)'
    BY <1>4, <1>6 DEF Explained, config
  <2> QED BY <1>6, <2>1, <2>2 DEF Inv, HeldOrExplained
<1> QED BY <1>9, <1>10, <1>11, <1>12, <1>13, <1>14 DEF Inv

-----------------------------------------------------------------------------
(* The pruner.                                                             *)

\* What unlinking leaves of the writers.
LEMMA UnlinkedWriters ==
  ASSUME Inv, NEW p \in Paths, Unlinked(p), UNCHANGED row
  PROVE  fd' \in [Streams -> {"new", "open", "orphan", "closed"}] /\ StreamsOpen'
<1>1. fd' \in [Streams -> {"new", "open", "orphan", "closed"}]
  BY DEF Unlinked, Inv, TypeOK
<1>2. StreamsOpen'
  BY DEF Unlinked, Inv, StreamsOpen
<1> QED BY <1>1, <1>2

\* The clock and the limits during a step of the pruner that keeps its now.
LEMMA SameClock ==
  ASSUME Inv, UNCHANGED <<config, day, row, now>>
  PROVE  Configured' /\ Clock'
BY DEF Inv, Configured, Clock, config

LEMMA StillExplained ==
  ASSUME UNCHANGED <<config, day, row>>, late \subseteq late', rezip \subseteq rezip'
  PROVE  \A n \in DOMAIN row : Explained(n) => Explained(n)'
BY DEF Explained, config

\* A removal that an explanation covers.
LEMMA RemovedKeeps ==
  ASSUME Inv, NEW p \in Paths, Removed(p), pc \in {"expire", "cap"},
         UNCHANGED <<config, day, row, pc, now, list, zip, late, rezip>>,
         todo' = todo \ {p},
         \A n \in disk[p].rows : Explained(n)'
  PROVE  Inv'
<1>1. /\ p \in DOMAIN disk /\ disk' = Only(disk, DOMAIN disk \ {p})
      /\ Unlinked(p)
  BY DEF Removed
<1>2. fd' \in [Streams -> {"new", "open", "orphan", "closed"}] /\ StreamsOpen'
  BY <1>1, UnlinkedWriters
<1>3. /\ DOMAIN disk' = DOMAIN disk \ {p}
      /\ \A q \in DOMAIN disk \ {p} : disk'[q] = disk[q]
  BY <1>1 DEF Only
<1>4. Configured' /\ Clock'
  BY SameClock
<1>5. TypeOK'
  BY <1>2, <1>3 DEF Inv, TypeOK
<1>6. TreeHolds' /\ ListedTimes'
  BY <1>3 DEF Inv, TreeHolds, RowsOf, ListedTimes
<1>7. PlainOnly' /\ Zipping'
  BY DEF PlainOnly, Zipping
<1>8. HeldOrExplained'
  <2> SUFFICES ASSUME NEW n \in DOMAIN row, Held(n), ~Explained(n)'
               PROVE  Held(n)'
    BY StillExplained DEF Inv, HeldOrExplained
  <2>1. PICK q \in DOMAIN disk : n \in disk[q].rows
    BY DEF Held
  <2>2. q # p
    BY <2>1
  <2>3. q \in DOMAIN disk' /\ n \in disk'[q].rows
    BY <1>3, <2>1, <2>2
  <2> QED BY <2>3 DEF Held
<1> QED BY <1>2, <1>4, <1>5, <1>6, <1>7, <1>8 DEF Inv

\* A removal that fails, or any step that changes neither the tree nor the
\* writers and stays in its phase with no more to do.
LEMMA LeftKeeps ==
  ASSUME Inv, UNCHANGED <<config, day, row, disk, fd, late, rezip, pc, now, list, zip>>,
         todo' \subseteq todo
  PROVE  Inv'
<1>1. TypeOK'
  BY DEF Inv, TypeOK
<1>2. Configured' /\ Clock'
  BY SameClock
<1>3. TreeHolds' /\ StreamsOpen' /\ ListedTimes' /\ PlainOnly' /\ Zipping'
  BY DEF Inv, TreeHolds, RowsOf, StreamsOpen, ListedTimes, PlainOnly, Zipping
<1>4. HeldOrExplained'
  BY DEF Inv, HeldOrExplained, Held, Explained, config
<1> QED BY <1>1, <1>2, <1>3, <1>4 DEF Inv

LEMMA WakeKeeps == ASSUME Inv, Wake PROVE Inv'
<1>1. /\ pc' = "expire" /\ now' = day /\ list' = Listing(disk) /\ todo' = DOMAIN disk
      /\ UNCHANGED <<config, day, row, fd, disk, zip, late, rezip>>
  BY DEF Wake, writers
<1>2. /\ DOMAIN list' = DOMAIN disk
      /\ \A p \in DOMAIN disk : list'[p].mtime = disk[p].mtime
  BY <1>1 DEF Listing
<1>3. TypeOK'
  BY <1>1, <1>2 DEF Inv, TypeOK
<1>4. day <= day
  BY DEF Inv, TypeOK
<1>5. Configured' /\ Clock' /\ TreeHolds' /\ StreamsOpen'
  BY <1>1, <1>4 DEF Inv, Configured, Clock, TreeHolds, RowsOf, StreamsOpen, config
<1>6. ListedTimes' /\ PlainOnly' /\ Zipping'
  <2>1. ASSUME NEW p \in DOMAIN disk
        PROVE  disk[p].mtime \in Nat /\ \A n \in disk[p].rows : row[n].day <= disk[p].mtime
    BY DEF Inv, TypeOK, TreeHolds, RowsOf
  <2>2. ListedTimes'
    BY <1>1, <1>2, <2>1 DEF ListedTimes
  <2> QED BY <1>1, <2>2 DEF PlainOnly, Zipping
<1>7. HeldOrExplained'
  BY <1>1 DEF Inv, HeldOrExplained, Held, Explained, config
<1> QED BY <1>3, <1>5, <1>6, <1>7 DEF Inv

\* What is older than retention_days holds only rows older than that, unless it
\* was written since it was listed.
LEMMA ExpireKeeps == ASSUME Inv, NEW p \in Paths, Expire(p) PROVE Inv'
<1>1. /\ pc = "expire" /\ p \in Due(retention) /\ todo' = todo \ {p}
      /\ UNCHANGED <<config, day, row, pc, now, list, zip, late, rezip>>
  BY DEF Expire
<1>2. CASE NotRemoved(p)
  BY <1>1, <1>2, LeftKeeps DEF NotRemoved
<1>3. CASE Removed(p)
  <2>1. p \in DOMAIN disk
    BY <1>3 DEF Removed
  <2>2. /\ retention \in Nat /\ retention # Off /\ p \in DOMAIN list
        /\ now - list[p].mtime > retention
    BY <1>1 DEF Due, Old, Inv, Configured, TypeOK
  <2>3. ASSUME NEW n \in disk[p].rows
        PROVE  Explained(n)'
    <3>1. n \in DOMAIN row /\ (n \in late \/ row[n].day <= list[p].mtime)
      BY <1>1, <2>1, <2>2 DEF Inv, TypeOK, ListedTimes
    <3>2. CASE n \in late
      BY <1>1, <3>2 DEF Explained
    <3>3. CASE row[n].day <= list[p].mtime
      <4>1. now \in Nat /\ day \in Nat /\ now <= day
        BY DEF Inv, TypeOK, Clock
      <4>2. row[n].day \in Nat
        BY <3>1, DaysAreNumbers DEF Inv
      <4>3. list[p].mtime \in Int
        BY <1>1, <2>2 DEF Inv, ListedTimes
      <4>4. day - row[n].day > retention
        BY <2>2, <3>3, <4>1, <4>2, <4>3
      <4> QED BY <1>1, <2>2, <4>4 DEF Explained, config
    <3> QED BY <3>1, <3>2, <3>3
  <2> QED BY <1>1, <1>3, <2>3, RemovedKeeps
<1> QED BY <1>2, <1>3 DEF Expire

LEMMA ExpiredKeeps == ASSUME Inv, Expired PROVE Inv'
<1>1. /\ pc' = "gzip" /\ list' = Retain /\ todo' = Zippable(Retain)
      /\ UNCHANGED <<config, day, row, fd, disk, now, zip, late, rezip>>
  BY DEF Expired, writers, history
<1>2. DOMAIN Retain \subseteq Paths
  BY DEF Retain, Only, Inv, TypeOK
<1>3. todo' \subseteq DOMAIN list' /\ \A p \in todo' : p[2] # "gz"
  BY <1>1 DEF Zippable
<1>4. TypeOK'
  BY <1>1, <1>2, <1>3 DEF Inv, TypeOK
<1>5. Configured' /\ Clock'
  BY <1>1, SameClock
<1>6. TreeHolds' /\ StreamsOpen' /\ ListedTimes' /\ PlainOnly' /\ Zipping'
  BY <1>1, <1>3 DEF Inv, TreeHolds, RowsOf, StreamsOpen, ListedTimes, PlainOnly, Zipping
<1>7. HeldOrExplained'
  BY <1>1 DEF Inv, HeldOrExplained, Held, Explained, config
<1> QED BY <1>4, <1>5, <1>6, <1>7 DEF Inv

LEMMA ZipReadsKeeps == ASSUME Inv, NEW p \in Paths, ZipReads(p) PROVE Inv'
<1>1. /\ pc = "gzip" /\ p \in Due(gzipAfter) /\ p \in DOMAIN disk
      /\ pc' = "gzipping" /\ todo' = todo \ {p}
      /\ zip' = [path |-> p, rows |-> disk[p].rows, mtime |-> disk[p].mtime]
      /\ UNCHANGED <<config, day, row, fd, disk, now, list, late, rezip>>
  BY DEF ZipReads, writers, history
<1>2. zip'.path = p /\ zip'.rows = disk[p].rows /\ zip'.mtime = disk[p].mtime
  BY <1>1
<1>3. p[2] # "gz"
  BY <1>1 DEF Due, Inv, PlainOnly
<1>4. TypeOK'
  BY <1>1 DEF Inv, TypeOK
<1>5. Configured' /\ Clock'
  BY <1>1, SameClock
<1>6. TreeHolds' /\ StreamsOpen' /\ ListedTimes' /\ PlainOnly'
  BY <1>1 DEF Inv, TreeHolds, RowsOf, StreamsOpen, ListedTimes, PlainOnly
<1>7. Zipping'
  <2>1. RowsOf(row', zip'.rows, zip'.path[1], zip'.mtime) /\ zip'.mtime \in 0..MaxDay
    BY <1>1, <1>2 DEF Inv, TypeOK, TreeHolds
  <2> QED BY <1>1, <1>2, <1>3, <2>1 DEF Zipping
<1>8. HeldOrExplained'
  BY <1>1 DEF Inv, HeldOrExplained, Held, Explained, config
<1> QED BY <1>4, <1>5, <1>6, <1>7, <1>8 DEF Inv

\* What is in the tree when it has lost the paths of D and has, at most, gained a
\* compressed form: every row that was held is held still or explained.
LEMMA ZippedTree ==
  ASSUME Inv, pc = "gzipping", pc' = "gzip",
         UNCHANGED <<config, day, row, now, list, late>>, todo' \subseteq todo,
         fd' \in [Streams -> {"new", "open", "orphan", "closed"}], StreamsOpen',
         NEW G, G = Gz(zip.path[1]), OlderGoes(zip.path[1]),
         NEW D, DOMAIN disk' \subseteq DOMAIN disk \cup {G},
         DOMAIN disk \ D \subseteq DOMAIN disk', D \subseteq {zip.path, G},
         \A q \in DOMAIN disk' : q # G => disk'[q] = disk[q],
         G \in DOMAIN disk' => /\ disk'[G].rows = zip.rows
                              /\ disk'[G].mtime = zip.mtime,
         zip.path \in D => G \in DOMAIN disk'
  PROVE  Inv'
<1> DEFINE f == zip.path[1]
<1>1. /\ zip.path \in DOMAIN disk /\ zip.path[2] # "gz" /\ zip.mtime \in 0..MaxDay
      /\ RowsOf(row, zip.rows, f, zip.mtime)
      /\ zip.rows \subseteq disk[zip.path].rows
      /\ disk[zip.path].rows \subseteq zip.rows \cup late
  BY DEF Inv, Zipping
<1>2. f \in Files /\ G \in Paths /\ G # zip.path /\ G[1] = f
  BY <1>1, PathsOf, PathsDiffer DEF Inv, TypeOK
<1>3. rezip' = rezip \cup (RowsAt(G) \ zip.rows)
  BY DEF OlderGoes
<1> HIDE DEF f
<1>4. TypeOK'
  <2>1. DOMAIN disk' \subseteq Paths /\ todo' \subseteq DOMAIN list'
    BY <1>2 DEF Inv, TypeOK
  <2>2. ASSUME NEW q \in DOMAIN disk'
        PROVE  disk'[q].rows \subseteq DOMAIN row /\ disk'[q].mtime \in 0..MaxDay
    <3>1. CASE q = G
      BY <1>1, <3>1 DEF RowsOf
    <3>2. CASE q # G
      BY <3>2 DEF Inv, TypeOK
    <3> QED BY <3>1, <3>2
  <2> QED BY <2>1, <2>2 DEF Inv, TypeOK
<1>5. Configured' /\ Clock'
  BY SameClock
<1>6. TreeHolds'
  <2>1. ASSUME NEW q \in DOMAIN disk'
        PROVE  RowsOf(row, disk'[q].rows, q[1], disk'[q].mtime)
    <3>1. CASE q = G
      BY <1>1, <1>2, <3>1
    <3>2. CASE q # G
      BY <3>2 DEF Inv, TreeHolds
    <3> QED BY <3>1, <3>2
  <2> QED BY <2>1 DEF TreeHolds
<1>7. ListedTimes' /\ PlainOnly' /\ Zipping'
  BY DEF Inv, ListedTimes, PlainOnly, Zipping
<1>8. HeldOrExplained'
  <2>1. late \subseteq late' /\ rezip \subseteq rezip'
    BY <1>3
  <2> SUFFICES ASSUME NEW n \in DOMAIN row, Held(n), ~Explained(n)'
               PROVE  Held(n)'
    BY <2>1, StillExplained DEF Inv, HeldOrExplained
  <2>2. PICK q \in DOMAIN disk : n \in disk[q].rows
    BY DEF Held
  <2>3. n \notin late /\ n \notin RowsAt(G) \ zip.rows
    BY <1>3 DEF Explained
  <2>4. CASE n \in zip.rows /\ G \in DOMAIN disk'
    BY <2>4 DEF Held
  <2>5. CASE n \in zip.rows /\ G \notin DOMAIN disk'
    <3>1. q # G => q \in DOMAIN disk' /\ n \in disk'[q].rows
      BY <2>2, <2>5
    <3>2. q = G => zip.path \in DOMAIN disk' /\ n \in disk'[zip.path].rows
      BY <1>1, <1>2, <2>2, <2>5
    <3> QED BY <3>1, <3>2 DEF Held
  <2>6. CASE n \notin zip.rows
    <3>1. q # G /\ q # zip.path
      BY <1>1, <2>2, <2>3, <2>6 DEF RowsAt
    <3>2. q \in DOMAIN disk' /\ n \in disk'[q].rows
      BY <2>2, <3>1
    <3> QED BY <3>2 DEF Held
  <2> QED BY <2>4, <2>5, <2>6
<1> QED BY <1>4, <1>5, <1>6, <1>7, <1>8 DEF Inv

\* The compressed form has the rows gzip has read: all there are, but for those
\* written since; and it takes the place of an earlier one.
LEMMA ZipWritesKeeps == ASSUME Inv, ZipWrites PROVE Inv'
<1> DEFINE f == zip.path[1]
           P == zip.path
           G == Gz(f)
           rest == Only(disk, DOMAIN disk \ {P})
<1>1. /\ pc = "gzipping" /\ pc' = "gzip" /\ OlderGoes(f)
      /\ UNCHANGED <<config, day, row, now, list, todo, late>>
  BY DEF ZipWrites
<1>2. P \in Paths
  BY <1>1 DEF Inv, TypeOK, Zipping
<1>3. ASSUME NEW tree, disk' = With(tree, G, zip.rows, zip.mtime)
      PROVE  /\ DOMAIN disk' = DOMAIN tree \cup {G}
             /\ \A q \in DOMAIN tree : q # G => disk'[q] = tree[q]
             /\ disk'[G].rows = zip.rows /\ disk'[G].mtime = zip.mtime
  <2> HIDE DEF G
  <2>1. DOMAIN disk' = DOMAIN tree \cup {G}
    BY <1>3 DEF With
  <2>2. \A q \in DOMAIN tree : q # G => disk'[q] = tree[q]
    BY <1>3 DEF With
  <2>3. disk'[G].rows = zip.rows
    BY <1>3 DEF With
  <2>4. disk'[G].mtime = zip.mtime
    BY <1>3 DEF With
  <2> QED BY <2>1, <2>2, <2>3, <2>4
<1>4. CASE disk' = With(rest, G, zip.rows, zip.mtime) /\ Unlinked(P)
  <2>1. fd' \in [Streams -> {"new", "open", "orphan", "closed"}] /\ StreamsOpen'
    BY <1>1, <1>2, <1>4, UnlinkedWriters
  <2> HIDE DEF G, P, f
  <2>2. /\ DOMAIN rest = DOMAIN disk \ {P}
        /\ \A q \in DOMAIN disk \ {P} : rest[q] = disk[q]
    BY DEF Only
  <2> HIDE DEF rest
  <2>3. /\ DOMAIN disk' = (DOMAIN disk \ {P}) \cup {G}
        /\ \A q \in DOMAIN disk' : q # G => disk'[q] = disk[q]
        /\ disk'[G].rows = zip.rows /\ disk'[G].mtime = zip.mtime
    BY <1>3, <1>4, <2>2
  <2>4. PICK D : D = {P}
    OBVIOUS
  <2> QED BY <1>1, <2>1, <2>3, <2>4, ZippedTree DEF G, P, f
<1>5. CASE disk' = With(disk, G, zip.rows, zip.mtime) /\ UNCHANGED fd
  <2>1. fd' \in [Streams -> {"new", "open", "orphan", "closed"}] /\ StreamsOpen'
    BY <1>1, <1>5 DEF Inv, TypeOK, StreamsOpen
  <2> HIDE DEF G, P, f
  <2>2. /\ DOMAIN disk' = DOMAIN disk \cup {G}
        /\ \A q \in DOMAIN disk' : q # G => disk'[q] = disk[q]
        /\ disk'[G].rows = zip.rows /\ disk'[G].mtime = zip.mtime
    BY <1>3, <1>5
  <2>3. PICK D : D = {}
    OBVIOUS
  <2> QED BY <1>1, <2>1, <2>2, <2>3, ZippedTree DEF G, P, f
<1> QED BY <1>4, <1>5 DEF ZipWrites

\* The phases that go on to the next one with the tree as it is.
LEMMA PhaseKeeps ==
  ASSUME Inv, UNCHANGED <<config, writers, disk, rezip>>,
         late' \subseteq late, \A n \in late \ late' : n \in DOMAIN row => Held(n),
         pc' \in {"asleep", "gzip", "cap"},
         now' \in 0..MaxDay, now' <= day,
         DOMAIN list' \subseteq Paths, todo' \subseteq DOMAIN list', PlainOnly'
  PROVE  Inv'
<1>1. TypeOK'
  BY DEF Inv, TypeOK, writers
<1>2. Configured' /\ Clock' /\ TreeHolds' /\ StreamsOpen' /\ ListedTimes' /\ Zipping'
  BY DEF Inv, Configured, Clock, TreeHolds, RowsOf, StreamsOpen, ListedTimes, Zipping,
         config, writers
<1>3. HeldOrExplained'
  BY DEF Inv, HeldOrExplained, Held, Explained, config, writers
<1> QED BY <1>1, <1>2, <1>3 DEF Inv

\* gzip that fails leaves the original, whatever became of an older compressed
\* form.
LEMMA ZipFailsKeeps == ASSUME Inv, ZipFails PROVE Inv'
<1>1. /\ todo' \subseteq todo /\ pc' = "gzip" /\ pc \in {"gzip", "gzipping"}
      /\ UNCHANGED <<config, writers, now, list, late>>
  BY DEF ZipFails
<1>2. PlainOnly'
  BY <1>1 DEF Inv, PlainOnly
<1>3. /\ now' \in 0..MaxDay /\ now' <= day
      /\ DOMAIN list' \subseteq Paths /\ todo' \subseteq DOMAIN list'
  BY <1>1 DEF Inv, TypeOK, Clock
<1>4. CASE UNCHANGED <<disk, rezip>>
  BY <1>1, <1>2, <1>3, <1>4, PhaseKeeps
<1>5. CASE ~ UNCHANGED <<disk, rezip>>
  <2> DEFINE G == Gz(zip.path[1])
  <2>1. /\ pc = "gzipping" /\ OlderGoes(zip.path[1])
        /\ disk' = Only(disk, DOMAIN disk \ {G})
    BY <1>5 DEF ZipFails
  <2>2. fd' \in [Streams -> {"new", "open", "orphan", "closed"}] /\ StreamsOpen'
    BY <1>1 DEF Inv, TypeOK, StreamsOpen, writers
  <2>3. G # zip.path
    BY <2>1, PathsOf, PathsDiffer DEF Inv, TypeOK, Zipping
  <2> HIDE DEF G
  <2>4. /\ DOMAIN disk' = DOMAIN disk \ {G}
        /\ \A q \in DOMAIN disk' : disk'[q] = disk[q]
    BY <2>1 DEF Only
  <2>5. PICK D : D = {G}
    OBVIOUS
  <2>6. UNCHANGED <<config, day, row, now, list, late>>
    BY <1>1 DEF writers
  <2> QED BY <1>1, <2>1, <2>2, <2>3, <2>4, <2>5, <2>6, ZippedTree DEF G
<1> QED BY <1>4, <1>5

LEMMA ZippedKeeps == ASSUME Inv, Zipped PROVE Inv'
<1>1. /\ pc' = "cap" /\ list' = Relist /\ todo' = DOMAIN Relist
      /\ UNCHANGED <<config, writers, disk, now, late, rezip>>
  BY DEF Zipped, history
<1>2. DOMAIN Relist \subseteq Paths
  BY DEF Relist, Listing, Inv, TypeOK
<1>3. PlainOnly'
  BY <1>1 DEF PlainOnly
<1>4. now' \in 0..MaxDay /\ now' <= day
  BY <1>1 DEF Inv, TypeOK, Clock
<1> QED BY <1>1, <1>2, <1>3, <1>4, PhaseKeeps

LEMMA SleepKeeps == ASSUME Inv, Sleep PROVE Inv'
<1>1. /\ pc' = "asleep" /\ list' = << >> /\ todo' = {} /\ now' = 0
      /\ late' = {n \in late : n \notin OnDisk(row[n].file)}
      /\ UNCHANGED <<config, writers, disk, rezip>>
  BY DEF Sleep
<1>2. PlainOnly' /\ DOMAIN list' = {}
  BY <1>1 DEF PlainOnly
<1>3. now' \in 0..MaxDay /\ now' <= day
  BY <1>1 DEF Inv, TypeOK
<1>4. \A n \in late \ late' : Held(n)
  BY <1>1 DEF OnDisk, RowsAt, Held
<1> QED BY <1>1, <1>2, <1>3, <1>4, PhaseKeeps

LEMMA DropKeeps == ASSUME Inv, NEW p \in Paths, Drop(p) PROVE Inv'
<1>1. /\ pc = "cap" /\ cap # Off /\ todo' = todo \ {p}
      /\ UNCHANGED <<config, day, row, pc, now, list, zip, late, rezip>>
  BY DEF Drop, TooMuch
<1>2. CASE NotRemoved(p)
  BY <1>1, <1>2, LeftKeeps DEF NotRemoved
<1>3. CASE Removed(p)
  <2>1. \A n \in disk[p].rows : Explained(n)'
    BY <1>1 DEF Explained, config
  <2> QED BY <1>1, <1>3, <2>1, RemovedKeeps
<1> QED BY <1>2, <1>3 DEF Drop

LEMMA NextKeeps == Inv /\ [Next]_vars => Inv'
<1> SUFFICES ASSUME Inv, [Next]_vars PROVE Inv'
  OBVIOUS
<1>1. CASE UNCHANGED vars
  BY <1>1, StutterKeeps
<1>2. CASE Requests
  BY <1>2, AppendRowKeeps, CreateKeeps, WriteOnKeeps, CloseKeeps DEF Requests
<1>3. CASE Tick
  BY <1>3, TickKeeps
<1>4. CASE Prune
  BY <1>4, WakeKeeps, ExpireKeeps, ExpiredKeeps, ZipReadsKeeps, ZipWritesKeeps,
     ZipFailsKeeps, ZippedKeeps, DropKeeps, SleepKeeps DEF Prune
<1> QED BY <1>1, <1>2, <1>3, <1>4 DEF Next

\* In every state the listing of a pass is explained by the tree and by what has
\* happened since it was taken.
THEOREM Invariance == Spec => []Inv
<1>1. Init => Inv
  BY InitInv
<1>2. Inv /\ [Next]_vars => Inv'
  BY NextKeeps
<1> QED BY <1>1, <1>2, PTL DEF Spec

-----------------------------------------------------------------------------
(* A pass during which nothing is written and every removal succeeds.      *)

Finite == IsFiniteSet(DOMAIN disk)

\* Without the gzip pass there is nothing to do in it.
NoZipping == gzipAfter = Off => pc # "gzipping" /\ (pc = "gzip" => todo = {})

\* Up to the size pass the listing has what is on disk as it is.
ListedAsIs ==
  quiet =>
    /\ pc = "expire" =>
         /\ DOMAIN disk \subseteq DOMAIN list
         /\ \A p \in DOMAIN disk : list[p] = Listing(disk)[p]
         /\ retention = Off => list = Listing(disk)
    /\ pc = "gzip" /\ gzipAfter = Off => list = Listing(disk)

\* In the size pass what is on disk is what is still to be looked at, and
\* total is its size.
TotalOfRest ==
  quiet /\ pc = "cap" =>
    /\ todo = DOMAIN disk
    /\ \A p \in todo : list[p] = Listing(disk)[p]
    /\ total = TotalOf(Listing(disk))

QuietInv == Finite /\ NoZipping /\ ListedAsIs /\ TotalOfRest /\ FitsWhenQuiet

LEMMA SizesAreNumbers ==
  ASSUME Inv, NEW p \in DOMAIN disk
  PROVE  Listing(disk)[p].size \in Nat
<1>1. IsFiniteSet(disk[p].rows)
  <2>1. IsFiniteSet(1..Len(row)) /\ DOMAIN row = 1..Len(row)
    BY FS_Interval DEF Inv, TypeOK
  <2> QED BY <2>1, FS_Subset DEF Inv, TypeOK
<1>2. Cardinality(disk[p].rows) \in Nat
  BY <1>1, FS_CardinalityType
<1> QED BY <1>2 DEF Listing, SizeOf

LEMMA TotalIsSum == ASSUME NEW f PROVE TotalOf(f) = SumOf(f, DOMAIN f)
BY DEF TotalOf, SumOf

LEMMA TotalOfLess ==
  ASSUME Inv, Finite, NEW p \in DOMAIN disk,
         NEW tree, tree = Only(disk, DOMAIN disk \ {p})
  PROVE  /\ TotalOf(Listing(disk)) \in Int
         /\ TotalOf(Listing(tree)) = TotalOf(Listing(disk)) - Listing(disk)[p].size
<1> DEFINE w == Listing(disk)
           v == Listing(tree)
<1>1. /\ DOMAIN w = DOMAIN disk /\ DOMAIN v = DOMAIN disk \ {p}
      /\ \A q \in DOMAIN v : v[q].size = w[q].size
  BY DEF Listing, Only
<1>2. \A q \in DOMAIN disk : w[q].size \in Int
  BY SizesAreNumbers
<1> HIDE DEF w, v
<1>3. /\ SumOf(w, DOMAIN disk) \in Int /\ SumOf(w, DOMAIN disk \ {p}) \in Int
      /\ SumOf(w, DOMAIN disk) = w[p].size + SumOf(w, DOMAIN disk \ {p})
  BY <1>2, SumLess DEF Finite
<1>4. SumOf(v, DOMAIN v) = SumOf(w, DOMAIN v)
  <2>1. IsFiniteSet(DOMAIN v)
    BY <1>1, FS_RemoveElement DEF Finite
  <2> QED BY <1>1, <2>1, SumAlike
<1>5. TotalOf(w) = SumOf(w, DOMAIN disk) /\ TotalOf(v) = SumOf(w, DOMAIN disk \ {p})
  BY <1>1, <1>4, TotalIsSum
<1>6. w[p].size \in Int
  BY <1>2
<1> QED BY <1>3, <1>5, <1>6 DEF w, v

LEMMA InitQuiet == Init => QuietInv
<1> SUFFICES ASSUME Init PROVE QuietInv
  OBVIOUS
<1>1. DOMAIN disk = {}
  BY DEF Init
<1> QED BY <1>1, FS_EmptySet DEF Init, QuietInv, Finite, NoZipping, ListedAsIs,
           TotalOfRest, FitsWhenQuiet

\* The tree stays finite: a step adds one path or removes one.
LEMMA FiniteKeeps == ASSUME QuietInv, [Next]_vars PROVE Finite'
<1>1. IsFiniteSet(DOMAIN disk)
  BY DEF QuietInv, Finite
<1>2. ASSUME NEW tree, NEW p, NEW rows, NEW mtime, IsFiniteSet(DOMAIN tree)
      PROVE  IsFiniteSet(DOMAIN With(tree, p, rows, mtime))
  BY <1>2, FS_AddElement DEF With
<1>3. ASSUME NEW keep PROVE IsFiniteSet(DOMAIN Only(disk, keep))
  BY <1>1, FS_Subset DEF Only
<1>4. CASE Requests
  BY <1>1, <1>2, <1>4 DEF Requests, AppendRow, Create, WriteOn, Close, Finite
<1>5. CASE ZipWrites
  BY <1>1, <1>2, <1>3, <1>5 DEF ZipWrites, Finite
<1>6. CASE \E p \in Paths : Expire(p) \/ Drop(p)
  BY <1>1, <1>3, <1>6 DEF Expire, Drop, Removed, NotRemoved, Finite
<1>7. CASE ZipFails
  BY <1>1, <1>3, <1>7 DEF ZipFails, Finite
<1>8. CASE UNCHANGED disk
  BY <1>1, <1>8 DEF Finite
<1> QED BY <1>4, <1>5, <1>6, <1>7, <1>8 DEF Next, Tick, Prune, Wake, ZipReads, Expired, Zipped,
           Sleep, vars

\* What is written while the pruner sleeps or works ends the quiet.
LEMMA LoudKeeps ==
  ASSUME QuietInv, ~quiet', Finite', NoZipping'
  PROVE  QuietInv'
BY DEF QuietInv, ListedAsIs, TotalOfRest, FitsWhenQuiet

\* Nothing the invariant is about changes.
LEMMA StillKeeps ==
  ASSUME QuietInv, Finite', UNCHANGED <<config, disk, pc, list, todo, total, quiet>>
  PROVE  QuietInv'
BY DEF QuietInv, NoZipping, ListedAsIs, TotalOfRest, FitsWhenQuiet, Finite, config

LEMMA RequestsQuiet ==
  ASSUME QuietInv, Requests \/ Tick \/ UNCHANGED vars, Finite'
  PROVE  QuietInv'
<1>1. CASE \/ \E f \in Logs : AppendRow(f)
           \/ \E s \in Streams : Create(s) \/ WriteOn(s)
  <2>1. ~quiet' /\ UNCHANGED <<config, pruner>>
    BY <1>1 DEF AppendRow, Create, WriteOn, Written
  <2>2. NoZipping'
    BY <2>1 DEF QuietInv, NoZipping, config, pruner
  <2> QED BY <2>1, <2>2, LoudKeeps
<1>2. CASE (\E s \in Streams : Close(s)) \/ Tick \/ UNCHANGED vars
  <2>1. UNCHANGED <<config, disk, pc, list, todo, total, quiet>>
    BY <1>2 DEF Close, Tick, vars, pruner, history
  <2> QED BY <2>1, StillKeeps
<1> QED BY <1>1, <1>2 DEF Requests

LEMMA WakeQuiet == ASSUME QuietInv, Wake, Finite' PROVE QuietInv'
<1>1. /\ pc' = "expire" /\ list' = Listing(disk) /\ disk' = disk
  BY DEF Wake
<1>2. DOMAIN list' = DOMAIN disk
  BY <1>1 DEF Listing
<1>3. NoZipping' /\ TotalOfRest' /\ FitsWhenQuiet'
  BY <1>1 DEF NoZipping, TotalOfRest, FitsWhenQuiet
<1>4. ListedAsIs'
  BY <1>1, <1>2 DEF ListedAsIs
<1> QED BY <1>3, <1>4 DEF QuietInv

LEMMA OnlyListed ==
  ASSUME NEW keep
  PROVE  /\ DOMAIN Only(disk, keep) = DOMAIN disk \cap keep
         /\ DOMAIN Listing(disk) = DOMAIN disk
         /\ \A p \in DOMAIN disk \cap keep :
              Listing(Only(disk, keep))[p] = Listing(disk)[p]
BY DEF Only, Listing

LEMMA ExpireQuiet == ASSUME QuietInv, NEW p \in Paths, Expire(p), Finite' PROVE QuietInv'
<1>1. /\ pc = "expire" /\ pc' = "expire" /\ retention # Off
      /\ UNCHANGED <<config, list>>
  BY DEF Expire, Due
<1>2. NoZipping' /\ TotalOfRest' /\ FitsWhenQuiet'
  BY <1>1 DEF NoZipping, TotalOfRest, FitsWhenQuiet
<1>3. ListedAsIs'
  <2>1. SUFFICES ASSUME quiet'
                 PROVE  /\ DOMAIN disk' \subseteq DOMAIN list
                        /\ \A q \in DOMAIN disk' : list[q] = Listing(disk')[q]
    BY <1>1 DEF ListedAsIs, config
  <2>2. quiet
    BY <2>1 DEF Expire, Removed, NotRemoved
  <2>3. /\ DOMAIN disk \subseteq DOMAIN list
        /\ \A q \in DOMAIN disk : list[q] = Listing(disk)[q]
    BY <1>1, <2>2 DEF QuietInv, ListedAsIs
  <2>4. CASE NotRemoved(p)
    BY <2>3, <2>4 DEF NotRemoved
  <2>5. CASE Removed(p)
    BY <2>3, <2>5, OnlyListed DEF Removed
  <2> QED BY <2>4, <2>5 DEF Expire
<1> QED BY <1>2, <1>3 DEF QuietInv

LEMMA ExpiredQuiet == ASSUME QuietInv, Expired, Finite' PROVE QuietInv'
<1>1. /\ pc = "expire" /\ pc' = "gzip" /\ list' = Retain /\ todo' = Zippable(Retain)
      /\ UNCHANGED <<config, disk, quiet>>
  BY DEF Expired, history
<1>2. NoZipping' /\ TotalOfRest' /\ FitsWhenQuiet'
  BY <1>1 DEF NoZipping, TotalOfRest, FitsWhenQuiet, Zippable, config
<1>3. ListedAsIs'
  <2>1. SUFFICES ASSUME quiet PROVE Retain = Listing(disk)
    BY <1>1 DEF ListedAsIs, config
  <2>2. /\ DOMAIN disk \subseteq DOMAIN list
        /\ \A p \in DOMAIN disk : list[p] = Listing(disk)[p]
        /\ retention = Off => list = Listing(disk)
    BY <1>1, <2>1 DEF QuietInv, ListedAsIs
  <2>3. Only(list, DOMAIN disk) = Listing(disk)
    <3>1. DOMAIN list \cap DOMAIN disk = DOMAIN disk
      BY <2>2
    <3>2. Only(list, DOMAIN disk) = [p \in DOMAIN disk |-> list[p]]
      BY <3>1, Zenon DEF Only
    <3> QED BY <2>2, <3>2 DEF Listing
  <2> QED BY <2>2, <2>3 DEF Retain
<1> QED BY <1>2, <1>3 DEF QuietInv

\* While files are compressed nothing is said of the listing.
LEMMA ZipQuiet ==
  ASSUME QuietInv, (\E p \in Paths : ZipReads(p)) \/ ZipWrites \/ ZipFails, Finite'
  PROVE  QuietInv'
<1>1. gzipAfter # Off /\ pc' \in {"gzip", "gzipping"} /\ UNCHANGED config
  BY DEF ZipReads, ZipWrites, ZipFails, Due, QuietInv, NoZipping
<1> QED BY <1>1 DEF QuietInv, NoZipping, ListedAsIs, TotalOfRest, FitsWhenQuiet, config

LEMMA ZippedQuiet == ASSUME QuietInv, Zipped, Finite' PROVE QuietInv'
<1>1. /\ pc = "gzip" /\ pc' = "cap" /\ list' = Relist /\ todo' = DOMAIN Relist
      /\ total' = TotalOf(Relist) /\ UNCHANGED <<config, disk, quiet>>
  BY DEF Zipped, history
<1>2. NoZipping' /\ ListedAsIs' /\ FitsWhenQuiet'
  BY <1>1 DEF NoZipping, ListedAsIs, FitsWhenQuiet
<1>3. quiet => Relist = Listing(disk)
  BY <1>1 DEF Relist, QuietInv, ListedAsIs
<1>4. TotalOfRest'
  <2>1. DOMAIN Listing(disk) = DOMAIN disk
    BY DEF Listing
  <2> QED BY <1>1, <1>3, <2>1 DEF TotalOfRest
<1> QED BY <1>2, <1>4 DEF QuietInv

LEMMA DropQuiet == ASSUME Inv, QuietInv, NEW p \in Paths, Drop(p), Finite' PROVE QuietInv'
<1>1. /\ pc = "cap" /\ pc' = "cap" /\ p \in todo /\ todo' = todo \ {p}
      /\ UNCHANGED <<config, list>>
  BY DEF Drop, Oldest
<1>2. NoZipping' /\ ListedAsIs' /\ FitsWhenQuiet'
  BY <1>1 DEF NoZipping, ListedAsIs, FitsWhenQuiet
<1>3. TotalOfRest'
  <2>1. SUFFICES ASSUME quiet'
                 PROVE  /\ todo' = DOMAIN disk'
                        /\ \A q \in todo' : list[q] = Listing(disk')[q]
                        /\ total' = TotalOf(Listing(disk'))
    BY <1>1 DEF TotalOfRest
  <2>2. quiet
    BY <2>1 DEF Drop, Removed, NotRemoved
  <2>3. /\ todo = DOMAIN disk /\ \A q \in todo : list[q] = Listing(disk)[q]
        /\ total = TotalOf(Listing(disk))
    BY <1>1, <2>2 DEF QuietInv, TotalOfRest
  <2>4. Removed(p) /\ total' = total - list[p].size
    BY <1>1, <2>1, <2>3 DEF Drop, NotRemoved
  <2>5. /\ DOMAIN disk' = DOMAIN disk \ {p}
        /\ \A q \in DOMAIN disk' : Listing(disk')[q] = Listing(disk)[q]
    BY <2>4, OnlyListed DEF Removed
  <2>6. TotalOf(Listing(disk')) = TotalOf(Listing(disk)) - Listing(disk)[p].size
    BY <2>4, TotalOfLess DEF Removed, QuietInv
  <2> QED BY <1>1, <2>3, <2>4, <2>5, <2>6
<1> QED BY <1>2, <1>3 DEF QuietInv

LEMMA SleepQuiet == ASSUME Inv, QuietInv, Sleep, Finite' PROVE QuietInv'
<1>1. /\ pc = "cap" /\ ~TooMuch /\ pc' = "asleep" /\ UNCHANGED <<config, disk, quiet>>
  BY DEF Sleep, history
<1>2. NoZipping' /\ ListedAsIs' /\ TotalOfRest'
  BY <1>1 DEF NoZipping, ListedAsIs, TotalOfRest
<1>3. FitsWhenQuiet'
  <2>1. SUFFICES ASSUME quiet, cap # Off PROVE TotalOf(Listing(disk)) <= cap
    BY <1>1 DEF FitsWhenQuiet, config
  <2>2. todo = DOMAIN disk /\ total = TotalOf(Listing(disk)) /\ cap \in Nat
    BY <1>1, <2>1 DEF QuietInv, TotalOfRest, Inv, Configured
  <2>3. CASE todo = {}
    <3>1. DOMAIN Listing(disk) = {}
      BY <2>2, <2>3 DEF Listing
    <3>2. TotalOf(Listing(disk)) = 0
      BY <3>1, TotalIsSum, SumEmpty
    <3> QED BY <2>2, <3>2
  <2>4. CASE todo # {}
    <3>1. PICK p : p \in DOMAIN disk
      BY <2>2, <2>4
    <3>2. total \in Int
      BY <2>2, <3>1, TotalOfLess DEF QuietInv
    <3> QED BY <1>1, <2>1, <2>2, <2>4, <3>2 DEF TooMuch
  <2> QED BY <2>3, <2>4
<1> QED BY <1>2, <1>3 DEF QuietInv

LEMMA NextQuiet == Inv /\ QuietInv /\ [Next]_vars => QuietInv'
<1> SUFFICES ASSUME Inv, QuietInv, [Next]_vars PROVE QuietInv'
  OBVIOUS
<1>1. Finite'
  BY FiniteKeeps
<1>2. CASE Requests \/ Tick \/ UNCHANGED vars
  BY <1>1, <1>2, RequestsQuiet
<1>3. CASE Prune
  BY <1>1, <1>3, WakeQuiet, ExpireQuiet, ExpiredQuiet, ZipQuiet, ZippedQuiet, DropQuiet,
     SleepQuiet DEF Prune
<1> QED BY <1>2, <1>3 DEF Next

\* The size pass takes the oldest, and only as long as the tree does not fit.
LEMMA DropsOldest ==
  ASSUME Inv, QuietInv, [Next]_vars, pc = "cap", quiet,
         NEW p \in DOMAIN disk \ DOMAIN disk'
  PROVE  /\ TotalOf(Listing(disk)) > cap
         /\ \A q \in DOMAIN disk' : disk[p].mtime <= disk[q].mtime
<1>1. \A path, rows, mtime : DOMAIN disk \subseteq DOMAIN With(disk, path, rows, mtime)
  BY DEF With
<1>2. PICK r \in Paths : Drop(r)
  <2>1. ~ (Requests \/ Tick \/ UNCHANGED vars)
    BY <1>1 DEF Requests, AppendRow, Create, WriteOn, Close, Tick, vars
  <2> QED BY <2>1 DEF Next, Prune, Wake, Expire, Expired, ZipReads, ZipWrites, ZipFails, Zipped,
             Sleep
<1>3. Removed(r) /\ p = r /\ DOMAIN disk' = DOMAIN disk \ {r}
  BY <1>2, OnlyListed DEF Drop, Removed, NotRemoved
<1>4. /\ todo = DOMAIN disk /\ \A q \in todo : list[q] = Listing(disk)[q]
      /\ total = TotalOf(Listing(disk))
  BY DEF QuietInv, TotalOfRest
<1>5. total > cap /\ \A q \in todo : list[p].mtime <= list[q].mtime
  BY <1>2, <1>3 DEF Drop, TooMuch, Oldest
<1>6. \A q \in DOMAIN disk : list[q].mtime = disk[q].mtime
  BY <1>4 DEF Listing
<1> QED BY <1>3, <1>4, <1>5, <1>6

\* What a pass that nobody has disturbed so far knows is true of the disk:
\* its list is what is there, and its total is the size of what is listed.
THEOREM QuietInvariance == Spec => []QuietInv
<1>1. Init => QuietInv
  BY InitQuiet
<1>2. Inv /\ QuietInv /\ [Next]_vars => QuietInv'
  BY NextQuiet
<1> QED BY <1>1, <1>2, Invariance, PTL DEF Spec

-----------------------------------------------------------------------------
(* What follows from it.                                                   *)

\* The types of the state hold for any files and limits.
THEOREM TypeCorrect == Spec => []TypeOK
<1>1. Inv => TypeOK
  BY DEF Inv
<1> QED BY <1>1, Invariance, PTL

\* A row that is no longer on disk was too old, went with the oldest files, was
\* written while the pass that took it was under way or to a file already
\* unlinked, or was in a compressed form that gzip -f unlinked (Recorder::prune).
THEOREM LossAlwaysExplained == Spec => []LossExplained
<1>1. Inv => LossExplained
  BY InvExplains
<1> QED BY <1>1, Invariance, PTL

\* After a pass without writes and failures what is on disk fits, however many
\* files of whatever sizes there are (Recorder::prune).
THEOREM QuietPassFits == Spec => []FitsWhenQuiet
<1>1. QuietInv => FitsWhenQuiet
  BY DEF QuietInv
<1> QED BY <1>1, QuietInvariance, PTL

\* For the cap such a pass takes a file only while the tree does not fit, the
\* oldest first (Recorder::prune).
THEOREM OldestGoFirst == Spec => OldestAndNoMore
<1>1. Inv /\ QuietInv /\ [Next]_vars
      => [pc = "cap" /\ quiet =>
            \A p \in DOMAIN disk \ DOMAIN disk' :
              /\ TotalOf(Listing(disk)) > cap
              /\ \A q \in DOMAIN disk' : disk[p].mtime <= disk[q].mtime]_vars
  BY DropsOldest
<1> QED BY <1>1, Invariance, QuietInvariance, PTL DEF Spec, OldestAndNoMore
=============================================================================
