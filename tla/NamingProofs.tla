--------------------------- MODULE NamingProofs ---------------------------
(***************************************************************************)
(* Theorems about the tables that give files their names: the recorder's   *)
(* table of sessions (Recorder), for any set of session ids, any capacity  *)
(* of at least two and any clock, and the two tables of the session        *)
(* capture (Sessions), for any number of writers and sessions.             *)
(***************************************************************************)
EXTENDS Recorder, Sessions, FiniteSetTheorems, TLAPS

-----------------------------------------------------------------------------
(* Recorder.                                                                 *)

\* A tracked session knows the last number it gave out in this tenure.
NoTenureAhead == \A i \in 1 .. Len(issued) : issued[i].tenure <= tenure[issued[i].key]
NextAbove(k) == \A i \in 1 .. Len(issued) :
                  issued[i].key = k /\ issued[i].tenure = tenure[k] =>
                    issued[i].seq < tracked[k].next
NextReached(k) == \E i \in 1 .. Len(issued) :
                    /\ issued[i].key = k /\ issued[i].tenure = tenure[k]
                    /\ issued[i].seq = tracked[k].next - 1
Counting == NoTenureAhead /\ \A k \in DOMAIN tracked : NextAbove(k) /\ NextReached(k)

IInv == TypeOK /\ Counting /\ NumberedInOrder

-----------------------------------------------------------------------------
LEMMA KeyInKeys == ASSUME NEW s \in SessionIds PROVE Key(s) \in Keys
  BY DEF Keys

LEMMA DirInDirs == ASSUME NEW s \in SessionIds PROVE DirFor(s) \in Dirs
  BY DEF Dirs

LEMMA SlugInSlugs == ASSUME NEW m PROVE ThreadSlug(ThreadFrom(m)) \in Slugs
  BY DEF ThreadSlug, Slugs

LEMMA SecondNat == ASSUME NEW t \in Nat PROVE Second(t) \in Nat
  BY RecorderAssumption DEF Second

\* What plan does, with the pieces of its LET named.
Planned(s, k, gone, t, p, e) ==
  /\ gone \in Evictions(k)
  /\ k \notin gone
  /\ clock' = t
  /\ tracked' = [j \in (DOMAIN tracked \ gone) \cup {k} |->
                   IF j = k THEN e ELSE tracked[j]]
  /\ e = Touched(k, DirFor(s), clock)
  /\ tenure' = IF k \in DOMAIN tracked THEN tenure ELSE [tenure EXCEPT ![k] = @ + 1]
  /\ tenure' \in [Keys -> Nat]
  /\ p.key = k /\ p.tenure = tenure'[k] /\ p.seq = e.next - 1
  /\ p.at = clock /\ p.stamp = Second(t) /\ t \in Later(clock) /\ p.run = restarts
  /\ issued' = Append(issued, p)
  /\ restarts' = restarts /\ setBack' = setBack

LEMMA PlanStep ==
  ASSUME TypeOK, NEW s \in SessionIds, NEW m \in Metadata, Plan(s, m)
  PROVE  \E k \in Keys, gone \in SUBSET DOMAIN tracked, t \in Nat,
            p \in PlanRec, e \in Entry : Planned(s, k, gone, t, p, e)
  <1> DEFINE k == Key(s)
             e == Touched(k, DirFor(s), clock)
  <1>1. k \in Keys /\ DirFor(s) \in Dirs
    BY KeyInKeys, DirInDirs
  <1> HIDE DEF k
  <1>2. e \in Entry
    BY <1>1 DEF TypeOK, Touched, Entry
  <1>3. PICK gone \in Evictions(k), t \in Later(clock) :
          /\ tracked' = [j \in (DOMAIN tracked \ gone) \cup {k} |->
                           IF j = k THEN e ELSE tracked[j]]
          /\ tenure' = IF k \notin DOMAIN tracked THEN [tenure EXCEPT ![k] = @ + 1] ELSE tenure
          /\ issued' = Append(issued,
                [key |-> k, dir |-> e.dir, stamp |-> Second(t),
                 slug |-> ThreadSlug(ThreadFrom(m)),
                 seq |-> e.next - 1, at |-> clock, tenure |-> tenure'[k],
                 run |-> restarts])
          /\ clock' = t
    BY DEF Plan, k
  <1>4. gone \in SUBSET DOMAIN tracked /\ k \notin gone
    BY DEF Evictions
  <1>5. t \in Nat
    BY DEF Later
  <1>6. tenure' \in [Keys -> Nat]
    BY <1>1, <1>3 DEF TypeOK
  <1>7. e.next - 1 \in Nat
    BY <1>1 DEF Touched, TypeOK, Entry
  <1> DEFINE p == [key |-> k, dir |-> e.dir, stamp |-> Second(t),
                   slug |-> ThreadSlug(ThreadFrom(m)),
                   seq |-> e.next - 1, at |-> clock, tenure |-> tenure'[k],
                   run |-> restarts]
  <1>8. p \in PlanRec
    BY <1>1, <1>2, <1>5, <1>6, <1>7, SecondNat, SlugInSlugs DEF PlanRec, TypeOK, Entry
  <1> HIDE DEF p
  <1>9. /\ p.key = k /\ p.tenure = tenure'[k] /\ p.seq = e.next - 1
        /\ p.at = clock /\ p.stamp = Second(t) /\ p.run = restarts
    BY DEF p
  <1>10. restarts' = restarts /\ setBack' = setBack
    BY DEF Plan
  <1>11. issued' = Append(issued, p)
    BY <1>3 DEF p
  <1>12. Planned(s, k, gone, t, p, e)
    BY <1>1, <1>3, <1>4, <1>6, <1>9, <1>10, <1>11 DEF Planned
  <1> HIDE DEF e
  <1> QED BY <1>1, <1>2, <1>4, <1>5, <1>8, <1>12

LEMMA TypeInit == Init => TypeOK
  <1> SUFFICES ASSUME Init PROVE TypeOK
    OBVIOUS
  <1>1. setBack \in BOOLEAN
    BY Zenon DEF Init
  <1> QED BY <1>1 DEF Init, TypeOK

LEMMA TypeStep == TypeOK /\ [Next]_vars => TypeOK'
  <1> SUFFICES ASSUME TypeOK, [Next]_vars PROVE TypeOK'
    OBVIOUS
  <1>1. ASSUME NEW s \in SessionIds, NEW m \in Metadata, Plan(s, m) PROVE TypeOK'
    <2>1. PICK k \in Keys, gone \in SUBSET DOMAIN tracked, t \in Nat,
               p \in PlanRec, e \in Entry : Planned(s, k, gone, t, p, e)
      BY <1>1, PlanStep
    <2>2. issued' \in Seq(PlanRec)
      BY <2>1 DEF TypeOK, Planned
    <2>3. tracked' \in [DOMAIN tracked' -> Entry] /\ DOMAIN tracked' \subseteq Keys
      BY <2>1 DEF TypeOK, Planned
    <2> QED BY <2>1, <2>2, <2>3 DEF TypeOK, Planned
  <1>2. CASE Tick
    BY <1>2 DEF TypeOK, Tick
  <1>3. CASE ClockStepsBack
    BY <1>3 DEF TypeOK, ClockStepsBack
  <1>4. CASE Restart
    BY <1>4 DEF TypeOK, Restart
  <1>5. CASE UNCHANGED vars
    BY <1>5 DEF TypeOK, vars
  <1> QED BY <1>1, <1>2, <1>3, <1>4, <1>5 DEF Next

\* The state keeps its types.
THEOREM TypeCorrect == Spec => []TypeOK
  BY TypeInit, TypeStep, PTL DEF Spec

-----------------------------------------------------------------------------
(* Numbering.                                                              *)

\* Counting and the numbering survive one plan: the new number is above every
\* number of its tenure and one above the last of them.
LEMMA PlanNumbers ==
  ASSUME IInv, NEW s \in SessionIds, NEW m \in Metadata, Plan(s, m)
  PROVE  Counting' /\ NumberedInOrder'
  <1>1. PICK k \in Keys, gone \in SUBSET DOMAIN tracked, t \in Nat,
             p \in PlanRec, e \in Entry : Planned(s, k, gone, t, p, e)
    BY PlanStep DEF IInv
  <1> DEFINE n == Len(issued)
  <1>2. /\ n \in Nat /\ Len(issued') = n + 1
        /\ \A i \in 1 .. n : issued'[i] = issued[i] /\ issued[i] \in PlanRec
        /\ issued'[n + 1] = p
    BY <1>1 DEF IInv, TypeOK, Planned
  <1>3. /\ DOMAIN tracked' = (DOMAIN tracked \ gone) \cup {k}
        /\ \A j \in DOMAIN tracked' \ {k} : tracked'[j] = tracked[j] /\ j \in DOMAIN tracked
        /\ tracked'[k] = e
    BY <1>1 DEF Planned
  <1>4. \A j \in Keys : /\ tenure[j] \in Nat
                        /\ j # k => tenure'[j] = tenure[j]
                        /\ tenure[j] <= tenure'[j]
    BY <1>1 DEF Planned, IInv, TypeOK
  <1>5. p.key = k /\ p.tenure = tenure'[k] /\ p.seq = e.next - 1
        /\ p.seq \in Nat /\ e.next \in Nat
    BY <1>1 DEF Planned, PlanRec, Entry
  <1> HIDE DEF n
  <1>a. \A i \in 1 .. n + 1 : i \in 1 .. n \/ i = n + 1
    BY <1>2
  <1>b. \A j \in DOMAIN tracked' \ {k} : NextAbove(j)' /\ NextReached(j)'
    <2> SUFFICES ASSUME NEW j \in DOMAIN tracked' \ {k}
                 PROVE  NextAbove(j)' /\ NextReached(j)'
      OBVIOUS
    <2>1. j \in DOMAIN tracked /\ tracked'[j] = tracked[j] /\ j \in Keys
      BY <1>3 DEF IInv, TypeOK
    <2>2. tenure'[j] = tenure[j]
      BY <2>1, <1>4
    <2>3. NextAbove(j) /\ NextReached(j)
      BY <2>1 DEF IInv, Counting
    <2>4. NextAbove(j)'
      BY <2>1, <2>2, <2>3, <1>2, <1>5, <1>a DEF NextAbove, n
    <2>5. NextReached(j)'
      BY <2>1, <2>2, <2>3, <1>2 DEF NextReached, n
    <2> QED BY <2>4, <2>5
  <1>c. NoTenureAhead'
    <2>1. ASSUME NEW i \in 1 .. n
          PROVE  issued'[i].tenure <= tenure'[issued'[i].key]
      <3>1. /\ issued[i].key \in Keys /\ issued[i].tenure \in Nat
            /\ issued[i].tenure <= tenure[issued[i].key]
        BY <1>2 DEF IInv, Counting, NoTenureAhead, PlanRec, n
      <3>2. tenure[issued[i].key] <= tenure'[issued[i].key]
        BY <3>1, <1>4
      <3>3. tenure[issued[i].key] \in Nat /\ tenure'[issued[i].key] \in Nat
        BY <3>1, <1>1 DEF Planned, IInv, TypeOK
      <3> QED BY <3>1, <3>2, <3>3, <1>2
    <2>2. issued'[n + 1].tenure <= tenure'[issued'[n + 1].key]
      <3>1. tenure'[k] \in Nat
        BY <1>1 DEF Planned
      <3> QED BY <3>1, <1>2, <1>5
    <2> QED BY <2>1, <2>2, <1>2, <1>a DEF NoTenureAhead
  <1>6. CASE k \in DOMAIN tracked
    <2>1. /\ tenure' = tenure
          /\ e.next = tracked[k].next + 1
          /\ tracked[k].next \in Nat
      BY <1>1, <1>6 DEF Planned, Touched, IInv, TypeOK, Entry
    <2>2. PICK q \in 1 .. n : /\ issued[q].key = k /\ issued[q].tenure = tenure[k]
                              /\ issued[q].seq = tracked[k].next - 1
      BY <1>6 DEF IInv, Counting, NextReached, n
    <2>3. \A i \in 1 .. n : issued[i].key = k /\ issued[i].tenure = tenure[k] =>
                              issued[i].seq < p.seq
      <3>1. p.seq = tracked[k].next
        BY <1>5, <2>1
      <3>2. NextAbove(k)
        BY <1>6 DEF IInv, Counting
      <3> QED BY <3>1, <3>2 DEF NextAbove, n
    <2>4. Counting'
      <3>1. \A i \in 1 .. n : issued[i].seq \in Nat
        BY <1>2 DEF PlanRec
      <3>2. NextAbove(k)'
        <4>1. ASSUME NEW i \in 1 .. n + 1,
                     issued'[i].key = k, issued'[i].tenure = tenure'[k]
              PROVE  issued'[i].seq < tracked'[k].next
          <5>1. tracked'[k].next = e.next /\ p.seq = e.next - 1
            BY <1>3, <1>5
          <5>2. CASE i = n + 1
            BY <5>1, <5>2, <1>2, <1>5
          <5>3. CASE i \in 1 .. n
            <6>1. issued[i].seq < p.seq /\ issued'[i].seq = issued[i].seq
              BY <4>1, <5>3, <1>2, <2>1, <2>3
            <6> QED BY <5>1, <5>3, <6>1, <3>1, <1>5
          <5> QED BY <5>2, <5>3, <1>a
        <4> QED BY <4>1, <1>2 DEF NextAbove
      <3>3. NextReached(k)'
        BY <1>2, <1>3, <1>5 DEF NextReached
      <3> QED BY <3>2, <3>3, <1>b, <1>c DEF Counting
    <2>5. NumberedInOrder'
      <3>1. ASSUME NEW j \in 1 .. n + 1
            PROVE  /\ \A i \in 1 .. j - 1 :
                        SameTenure(issued'[i], issued'[j]) => issued'[i].seq < issued'[j].seq
                   /\ \/ issued'[j].seq = 1
                      \/ \E i \in 1 .. j - 1 : /\ SameTenure(issued'[i], issued'[j])
                                               /\ issued'[i].seq = issued'[j].seq - 1
        <4>1. CASE j = n + 1
          <5>1. 1 .. j - 1 = 1 .. n
            BY <4>1, <1>2
          <5>2. \A i \in 1 .. n : SameTenure(issued'[i], issued'[j]) <=>
                  issued[i].key = k /\ issued[i].tenure = tenure[k]
            BY <4>1, <1>2, <1>5, <2>1 DEF SameTenure
          <5>3. issued'[j].seq = p.seq /\ p.seq = tracked[k].next
            BY <4>1, <1>2, <1>5, <2>1
          <5>4. \A i \in 1 .. n : issued'[i].seq = issued[i].seq
            BY <1>2
          <5> QED BY <5>1, <5>2, <5>3, <5>4, <2>2, <2>3
        <4>2. CASE j # n + 1
          <5>1. j \in 1 .. n /\ \A i \in 1 .. j - 1 : i \in 1 .. n
            BY <4>2, <1>2
          <5> QED BY <5>1, <1>2 DEF IInv, NumberedInOrder, n
        <4> QED BY <4>1, <4>2
      <3> QED BY <3>1, <1>2 DEF NumberedInOrder
    <2> QED BY <2>4, <2>5
  <1>7. CASE k \notin DOMAIN tracked
    <2>1. /\ tenure'[k] = tenure[k] + 1
          /\ e.next = 2 /\ p.seq = 1
      BY <1>1, <1>5, <1>7 DEF Planned, Touched, IInv, TypeOK
    <2>2. \A i \in 1 .. n : ~(issued[i].key = k /\ issued[i].tenure = tenure'[k])
      BY <1>2, <1>4, <2>1 DEF IInv, Counting, NoTenureAhead, PlanRec, n
    <2>3. Counting'
      <3>1. NextAbove(k)'
        BY <1>2, <1>3, <1>5, <1>a, <2>1, <2>2 DEF NextAbove
      <3>2. NextReached(k)'
        BY <1>2, <1>3, <1>5, <2>1 DEF NextReached
      <3> QED BY <3>1, <3>2, <1>b, <1>c DEF Counting
    <2>4. NumberedInOrder'
      <3>1. ASSUME NEW j \in 1 .. n + 1
            PROVE  /\ \A i \in 1 .. j - 1 :
                        SameTenure(issued'[i], issued'[j]) => issued'[i].seq < issued'[j].seq
                   /\ \/ issued'[j].seq = 1
                      \/ \E i \in 1 .. j - 1 : /\ SameTenure(issued'[i], issued'[j])
                                               /\ issued'[i].seq = issued'[j].seq - 1
        <4>1. CASE j = n + 1
          BY <4>1, <1>2, <1>5, <2>1, <2>2 DEF SameTenure
        <4>2. CASE j # n + 1
          <5>1. j \in 1 .. n /\ \A i \in 1 .. j - 1 : i \in 1 .. n
            BY <4>2, <1>2
          <5> QED BY <5>1, <1>2 DEF IInv, NumberedInOrder, n
        <4> QED BY <4>1, <4>2
      <3> QED BY <3>1, <1>2 DEF NumberedInOrder
    <2> QED BY <2>3, <2>4
  <1> QED BY <1>6, <1>7

LEMMA IInvStep == IInv /\ [Next]_vars => IInv'
  <1> SUFFICES ASSUME IInv, [Next]_vars PROVE Counting' /\ NumberedInOrder'
    BY TypeStep DEF IInv
  <1>1. ASSUME NEW s \in SessionIds, NEW m \in Metadata, Plan(s, m)
        PROVE  Counting' /\ NumberedInOrder'
    BY <1>1, PlanNumbers
  <1>2. CASE Tick
    BY <1>2 DEF IInv, Counting, NoTenureAhead, NextAbove, NextReached, NumberedInOrder, Tick
  <1>3. CASE ClockStepsBack
    BY <1>3 DEF IInv, Counting, NoTenureAhead, NextAbove, NextReached, NumberedInOrder, ClockStepsBack
  <1>4. CASE Restart
    BY <1>4 DEF IInv, Counting, NoTenureAhead, NextAbove, NextReached, NumberedInOrder, Restart
  <1>5. CASE UNCHANGED vars
    BY <1>5 DEF IInv, Counting, NoTenureAhead, NextAbove, NextReached, NumberedInOrder, vars
  <1> QED BY <1>1, <1>2, <1>3, <1>4, <1>5 DEF Next

LEMMA IInvInit == Init => IInv
  BY TypeInit DEF Init, IInv, Counting, NoTenureAhead, NumberedInOrder

\* While a session is remembered its requests are numbered 1, 2, 3, ... .
THEOREM NumberingCorrect == Spec => []NumberedInOrder
  <1>1. IInv => NumberedInOrder
    BY DEF IInv
  <1> QED BY IInvInit, IInvStep, <1>1, PTL DEF Spec

-----------------------------------------------------------------------------
(* The capacity.                                                           *)

BInv == TypeOK /\ IsFiniteSet(DOMAIN tracked) /\ Bounded

LEMMA EmptyFits == IsFiniteSet({}) /\ Cardinality({}) <= MaxTracked
  <1>1. IsFiniteSet({}) /\ Cardinality({}) = 0
    BY FS_EmptySet
  <1> QED BY <1>1, RecorderAssumption

\* An eviction makes room for the session it is made for; no other plan adds
\* an entry to a full table.
LEMMA PlanFits ==
  ASSUME BInv, NEW s \in SessionIds, NEW m \in Metadata, Plan(s, m)
  PROVE  BInv'
  <1>1. PICK k \in Keys, gone \in SUBSET DOMAIN tracked, t \in Nat,
             p \in PlanRec, e \in Entry : Planned(s, k, gone, t, p, e)
    BY PlanStep DEF BInv
  <1> DEFINE D == DOMAIN tracked
             K == D \ gone
  <1>2. DOMAIN tracked' = K \cup {k}
    BY <1>1 DEF Planned
  <1>3. TypeOK'
    BY TypeStep DEF BInv, Next
  <1>4. IsFiniteSet(D) /\ Cardinality(D) \in Nat /\ Cardinality(D) <= MaxTracked
    BY FS_CardinalityType, RecorderAssumption DEF BInv, Bounded
  <1>5. IsFiniteSet(K) /\ Cardinality(K) \in Nat /\ Cardinality(K) <= Cardinality(D)
    BY <1>4, FS_Subset, FS_CardinalityType
  <1> HIDE DEF K, D
  <1>6. /\ IsFiniteSet(K \cup {k})
        /\ Cardinality(K \cup {k}) <= Cardinality(K) + 1
        /\ Cardinality(K \cup {k}) \in Nat
        /\ k \in K => Cardinality(K \cup {k}) = Cardinality(K)
    <2>1. /\ IsFiniteSet(K \cup {k})
          /\ Cardinality(K \cup {k}) = IF k \in K THEN Cardinality(K) ELSE Cardinality(K) + 1
      BY <1>5, FS_AddElement
    <2> QED BY <2>1, <1>5
  <1>7. Cardinality(K \cup {k}) <= MaxTracked
    <2>1. CASE k \in D
      <3>1. k \in K
        BY <1>1, <2>1 DEF Planned, K, D
      <3> QED BY <3>1, <1>4, <1>5, <1>6, RecorderAssumption
    <2>2. CASE k \notin D /\ Cardinality(D) < MaxTracked
      BY <2>2, <1>4, <1>5, <1>6, RecorderAssumption
    <2>3. CASE k \notin D /\ Cardinality(D) >= MaxTracked
      <3>1. Cardinality(gone) = MaxTracked \div 2
        BY <1>1, <2>3 DEF Planned, Evictions, D
      <3>2. D \cap gone = gone
        BY DEF D
      <3>3. Cardinality(K) = Cardinality(D) - Cardinality(gone)
        BY <3>2, <1>4, FS_Difference DEF K
      <3>4. MaxTracked \div 2 \in Nat /\ MaxTracked \div 2 >= 1
        BY RecorderAssumption
      <3> QED BY <3>1, <3>3, <3>4, <1>4, <1>5, <1>6, RecorderAssumption
    <2> QED BY <1>4, <2>1, <2>2, <2>3, RecorderAssumption
  <1> QED BY <1>2, <1>3, <1>6, <1>7 DEF BInv, Bounded

LEMMA BInvStep == BInv /\ [Next]_vars => BInv'
  <1> SUFFICES ASSUME BInv, [Next]_vars PROVE BInv'
    OBVIOUS
  <1>1. ASSUME NEW s \in SessionIds, NEW m \in Metadata, Plan(s, m) PROVE BInv'
    BY <1>1, PlanFits
  <1>2. TypeOK'
    BY TypeStep DEF BInv
  <1>3. CASE Tick
    BY <1>2, <1>3 DEF BInv, Bounded, Tick
  <1>4. CASE ClockStepsBack
    BY <1>2, <1>4 DEF BInv, Bounded, ClockStepsBack
  <1>5. CASE Restart
    <2>1. DOMAIN tracked' = {}
      BY <1>5 DEF Restart
    <2> QED BY <1>2, <2>1, EmptyFits DEF BInv, Bounded
  <1>6. CASE UNCHANGED vars
    BY <1>2, <1>6 DEF BInv, Bounded, vars
  <1> QED BY <1>1, <1>3, <1>4, <1>5, <1>6 DEF Next

\* The table of sessions never outgrows its capacity, however many distinct
\* session ids arrive.
THEOREM CapacityRespected == Spec => []Bounded
  <1>1. Init => BInv
    <2>1. Init => DOMAIN tracked = {}
      BY DEF Init
    <2> QED BY <2>1, TypeInit, EmptyFits DEF BInv, Bounded
  <1>2. BInv => Bounded
    BY DEF BInv
  <1> QED BY <1>1, <1>2, BInvStep, PTL DEF Spec

-----------------------------------------------------------------------------
(* Sorting.                                                                *)

LEMMA SecondMonotone ==
  ASSUME NEW t \in Nat, NEW u \in Nat, t <= u
  PROVE  Second(t) <= Second(u)
  BY RecorderAssumption DEF Second

\* Nothing has been stamped later than the clock now shows.
NoFutureStamp == ~setBack => \A i \in 1 .. Len(issued) : issued[i].stamp <= Second(clock)

StampsAscend == ~setBack =>
  \A j \in 1 .. Len(issued) : \A i \in 1 .. j - 1 : issued[i].stamp <= issued[j].stamp

SInv == TypeOK /\ NoFutureStamp /\ StampsAscend

LEMMA PlanStamps ==
  ASSUME SInv, ~setBack, NEW s \in SessionIds, NEW m \in Metadata, Plan(s, m)
  PROVE  NoFutureStamp' /\ StampsAscend'
  <1>1. PICK k \in Keys, gone \in SUBSET DOMAIN tracked, t \in Nat,
             p \in PlanRec, e \in Entry : Planned(s, k, gone, t, p, e)
    BY PlanStep DEF SInv
  <1> DEFINE n == Len(issued)
  <1>2. /\ n \in Nat /\ Len(issued') = n + 1
        /\ \A i \in 1 .. n : issued'[i] = issued[i] /\ issued[i] \in PlanRec
        /\ issued'[n + 1] = p
    BY <1>1 DEF SInv, TypeOK, Planned
  <1>3. clock' = t /\ clock \in Nat /\ clock <= t /\ p.stamp = Second(t)
    BY <1>1 DEF SInv, TypeOK, Planned, Later
  <1>4. Second(clock) <= Second(t) /\ Second(clock) \in Nat /\ Second(t) \in Nat
    BY <1>3, SecondMonotone, SecondNat
  <1>5. \A i \in 1 .. n : issued[i].stamp \in Nat /\ issued[i].stamp <= Second(t)
    BY <1>2, <1>4 DEF SInv, NoFutureStamp, PlanRec, n
  <1> HIDE DEF n
  <1>6. \A i \in 1 .. n + 1 : i \in 1 .. n \/ i = n + 1
    BY <1>2
  <1>7. NoFutureStamp'
    BY <1>2, <1>3, <1>4, <1>5, <1>6 DEF NoFutureStamp
  <1>8. StampsAscend'
    <2>1. ASSUME NEW j \in 1 .. n + 1, NEW i \in 1 .. j - 1
          PROVE  issued'[i].stamp <= issued'[j].stamp
      <3>1. CASE j = n + 1
        <4>1. i \in 1 .. n
          BY <3>1, <1>2
        <4> QED BY <3>1, <4>1, <1>2, <1>3, <1>5
      <3>2. CASE j \in 1 .. n
        <4>1. i \in 1 .. n
          BY <3>2, <1>2
        <4> QED BY <3>2, <4>1, <1>2 DEF SInv, StampsAscend, n
      <3> QED BY <3>1, <3>2, <1>6
    <2> QED BY <2>1, <1>2 DEF StampsAscend
  <1> QED BY <1>7, <1>8

LEMMA SInvStep == SInv /\ [Next]_vars => SInv'
  <1> SUFFICES ASSUME SInv, [Next]_vars, ~setBack'
               PROVE  NoFutureStamp' /\ StampsAscend'
    BY TypeStep DEF SInv, NoFutureStamp, StampsAscend
  <1>0. ~setBack
    <2>1. ASSUME NEW s \in SessionIds, NEW m \in Metadata, Plan(s, m) PROVE ~setBack
      BY <2>1 DEF Plan
    <2> QED BY <2>1 DEF Next, Tick, ClockStepsBack, Restart, vars
  <1>1. ASSUME NEW s \in SessionIds, NEW m \in Metadata, Plan(s, m)
        PROVE  NoFutureStamp' /\ StampsAscend'
    BY <1>0, <1>1, PlanStamps
  <1>2. CASE Tick
    <2>1. clock \in Nat /\ clock' = clock + 1 /\ issued' = issued
      BY <1>2 DEF SInv, TypeOK, Tick
    <2>2. Second(clock) <= Second(clock') /\ Second(clock) \in Nat /\ Second(clock') \in Nat
      BY <2>1, SecondMonotone, SecondNat
    <2>3. Len(issued) \in Nat /\ \A i \in 1 .. Len(issued) : issued[i].stamp \in Nat
      <3>1. Len(issued) \in Nat /\ \A i \in 1 .. Len(issued) : issued[i] \in PlanRec
        BY DEF SInv, TypeOK
      <3> QED BY <3>1 DEF PlanRec
    <2>4. \A i \in 1 .. Len(issued) : issued[i].stamp <= Second(clock)
      BY <1>0 DEF SInv, NoFutureStamp
    <2>5. NoFutureStamp'
      BY <2>1, <2>2, <2>3, <2>4 DEF NoFutureStamp
    <2> QED BY <1>0, <2>1, <2>5 DEF SInv, StampsAscend
  <1>3. CASE ClockStepsBack
    BY <1>3 DEF ClockStepsBack
  <1>4. CASE Restart
    BY <1>0, <1>4 DEF SInv, NoFutureStamp, StampsAscend, Restart
  <1>5. CASE UNCHANGED vars
    BY <1>0, <1>5 DEF SInv, NoFutureStamp, StampsAscend, vars
  <1> QED BY <1>1, <1>2, <1>3, <1>4, <1>5 DEF Next

\* With a clock that is not set back, a session's names sort in the order of
\* its requests.
THEOREM SortingCorrect == Spec => []SortsByAge
  <1>1. Init => SInv
    BY TypeInit DEF Init, SInv, NoFutureStamp, StampsAscend
  <1>2. SInv /\ NumberedInOrder => SortsByAge
    <2> SUFFICES ASSUME SInv, NumberedInOrder, ~setBack,
                        NEW i \in 1 .. Len(issued), NEW j \in 1 .. Len(issued),
                        i < j, SameTenure(issued[i], issued[j])
                 PROVE  \/ issued[i].stamp < issued[j].stamp
                        \/ issued[i].stamp = issued[j].stamp /\ issued[i].seq < issued[j].seq
      BY DEF SortsByAge
    <2>1. Len(issued) \in Nat /\ issued[i] \in PlanRec /\ issued[j] \in PlanRec
      BY DEF SInv, TypeOK
    <2>2. i \in 1 .. j - 1
      BY <2>1
    <2>3. issued[i].stamp <= issued[j].stamp
      BY <2>2 DEF SInv, StampsAscend
    <2>4. issued[i].seq < issued[j].seq
      BY <2>2 DEF NumberedInOrder
    <2> QED BY <2>1, <2>3, <2>4 DEF PlanRec
  <1> QED BY <1>1, <1>2, SInvStep, NumberingCorrect, PTL DEF Spec

-----------------------------------------------------------------------------
(* Forgetting.                                                             *)

\* The entry of a tracked session carries the time of its last plan.
LastOf(k, i) == /\ i \in 1 .. Len(issued) /\ issued[i].key = k
                /\ \A j \in 1 .. Len(issued) : issued[j].key = k => j <= i
SeenIsLast == \A k \in DOMAIN tracked :
                \E i \in 1 .. Len(issued) : LastOf(k, i) /\ issued[i].at = tracked[k].seen

LInv == BInv /\ SeenIsLast

LEMMA LastPlannedIs ==
  ASSUME issued \in Seq(PlanRec), NEW k, NEW i \in 1 .. Len(issued), LastOf(k, i)
  PROVE  LastPlanned(k) = issued[i].at
  <1> DEFINE ours == {j \in 1 .. Len(issued) : issued[j].key = k}
             last == CHOOSE j \in ours : \A q \in ours : q <= j
  <1>1. i \in ours /\ \A q \in ours : q <= i
    BY DEF LastOf
  <1>2. last \in ours /\ \A q \in ours : q <= last
    BY <1>1
  <1>3. Len(issued) \in Nat
    OBVIOUS
  <1>4. last = i
    BY <1>1, <1>2, <1>3
  <1> QED BY <1>4 DEF LastPlanned

LEMMA PlanLast ==
  ASSUME LInv, NEW s \in SessionIds, NEW m \in Metadata, Plan(s, m)
  PROVE  SeenIsLast'
  <1>1. PICK k \in Keys, gone \in SUBSET DOMAIN tracked, t \in Nat,
             p \in PlanRec, e \in Entry : Planned(s, k, gone, t, p, e)
    BY PlanStep DEF LInv, BInv
  <1>2. PICK n \in Nat :
        /\ n = Len(issued) /\ Len(issued') = n + 1
        /\ \A i \in 1 .. n : issued'[i] = issued[i]
        /\ issued'[n + 1] = p
    <2>1. issued \in Seq(PlanRec) /\ issued' = Append(issued, p)
      BY <1>1 DEF LInv, BInv, TypeOK, Planned
    <2>2. Len(issued) \in Nat
      BY <2>1
    <2> WITNESS Len(issued) \in Nat
    <2> QED BY <2>1
  <1>3. /\ \A j \in DOMAIN tracked' \ {k} : tracked'[j] = tracked[j] /\ j \in DOMAIN tracked
        /\ tracked'[k] = e
    BY <1>1 DEF Planned
  <1>4. p.key = k /\ p.at = clock /\ e.seen = clock
    BY <1>1 DEF Planned, Touched
  <1>5. \A i \in 1 .. n + 1 : i \in 1 .. n \/ i = n + 1
    BY <1>2
  <1>6. ASSUME NEW j \in DOMAIN tracked', j # k
        PROVE  \E i \in 1 .. n + 1 : LastOf(j, i)' /\ issued'[i].at = tracked'[j].seen
    <2>1. j \in DOMAIN tracked /\ tracked'[j] = tracked[j]
      BY <1>6, <1>3
    <2>2. PICK i \in 1 .. n : LastOf(j, i) /\ issued[i].at = tracked[j].seen
      BY <1>2, <2>1 DEF LInv, SeenIsLast
    <2>3. LastOf(j, i)'
      <3>1. i \in 1 .. n + 1 /\ issued'[i].key = j
        BY <2>2, <1>2 DEF LastOf
      <3>2. ASSUME NEW q \in 1 .. n + 1, issued'[q].key = j PROVE q <= i
        <4>1. q # n + 1
          BY <3>2, <1>2, <1>4, <1>6
        <4>2. q \in 1 .. n /\ issued[q].key = j
          BY <3>2, <4>1, <1>2, <1>5
        <4> QED BY <4>2, <2>2, <1>2 DEF LastOf
      <3> QED BY <3>1, <3>2, <1>2 DEF LastOf
    <2> QED BY <2>1, <2>2, <2>3, <1>2
  <1>7. LastOf(k, n + 1)' /\ issued'[n + 1].at = tracked'[k].seen
    <2>1. issued'[n + 1].key = k /\ issued'[n + 1].at = tracked'[k].seen
      BY <1>2, <1>3, <1>4
    <2>2. n + 1 \in 1 .. n + 1 /\ \A j \in 1 .. n + 1 : j <= n + 1
      BY <1>2
    <2> QED BY <2>1, <2>2, <1>2 DEF LastOf
  <1> SUFFICES ASSUME NEW j \in DOMAIN tracked'
               PROVE  \E i \in 1 .. n + 1 : LastOf(j, i)' /\ issued'[i].at = tracked'[j].seen
    BY <1>2 DEF SeenIsLast
  <1>8. CASE j = k
    <2>1. n + 1 \in 1 .. n + 1
      BY <1>2
    <2> QED BY <1>7, <1>8, <2>1
  <1>9. CASE j # k
    BY <1>6, <1>9
  <1> QED BY <1>8, <1>9

LEMMA LInvStep == LInv /\ [Next]_vars => LInv'
  <1> SUFFICES ASSUME LInv, [Next]_vars PROVE SeenIsLast'
    BY BInvStep DEF LInv
  <1>1. ASSUME NEW s \in SessionIds, NEW m \in Metadata, Plan(s, m) PROVE SeenIsLast'
    BY <1>1, PlanLast
  <1>2. CASE Tick
    BY <1>2 DEF LInv, SeenIsLast, LastOf, Tick
  <1>3. CASE ClockStepsBack
    BY <1>3 DEF LInv, SeenIsLast, LastOf, ClockStepsBack
  <1>4. CASE Restart
    BY <1>4 DEF SeenIsLast, Restart
  <1>5. CASE UNCHANGED vars
    BY <1>5 DEF LInv, SeenIsLast, LastOf, vars
  <1> QED BY <1>1, <1>2, <1>3, <1>4, <1>5 DEF Next

ForgetStep ==
  restarts' = restarts =>
    \A k \in DOMAIN tracked \ DOMAIN tracked' :
      Cardinality({j \in DOMAIN tracked \cap DOMAIN tracked' :
                     LastPlanned(k) <= LastPlanned(j)}) >= MaxTracked \div 2

LEMMA EvictionIsFair == LInv /\ [Next]_vars => [ForgetStep]_vars
  <1> SUFFICES ASSUME LInv, [Next]_vars, restarts' = restarts,
                      NEW k \in DOMAIN tracked \ DOMAIN tracked'
               PROVE  Cardinality({j \in DOMAIN tracked \cap DOMAIN tracked' :
                        LastPlanned(k) <= LastPlanned(j)}) >= MaxTracked \div 2
    BY DEF ForgetStep
  <1> DEFINE D == DOMAIN tracked
  <1>1. PICK s \in SessionIds, m \in Metadata : Plan(s, m)
    <2>1. ~Tick /\ ~ClockStepsBack /\ ~(UNCHANGED vars)
      BY DEF Tick, ClockStepsBack, vars
    <2>2. ~Restart
      BY DEF Restart, LInv, BInv, TypeOK
    <2> QED BY <2>1, <2>2 DEF Next
  <1>2. PICK key \in Keys, gone \in SUBSET D, t \in Nat,
             p \in PlanRec, e \in Entry : Planned(s, key, gone, t, p, e)
    BY <1>1, PlanStep DEF LInv, BInv
  <1>3. k \in gone /\ DOMAIN tracked' = (D \ gone) \cup {key}
    BY <1>2 DEF Planned
  <1>4. /\ Cardinality(D) >= MaxTracked /\ key \notin D
        /\ Cardinality(gone) = MaxTracked \div 2
        /\ \A g \in gone, j \in D \ gone : tracked[g].seen <= tracked[j].seen
    BY <1>2, <1>3 DEF Planned, Evictions
  <1>5. \A j \in D : LastPlanned(j) = tracked[j].seen
    <2>1. issued \in Seq(PlanRec)
      BY DEF LInv, BInv, TypeOK
    <2> QED BY <2>1, LastPlannedIs DEF LInv, SeenIsLast
  <1>6. {j \in D \cap DOMAIN tracked' : LastPlanned(k) <= LastPlanned(j)} = D \ gone
    BY <1>3, <1>4, <1>5
  <1>7. IsFiniteSet(D) /\ Cardinality(D) \in Nat
    BY FS_CardinalityType DEF LInv, BInv
  <1>8. Cardinality(D \ gone) = Cardinality(D) - Cardinality(gone)
    <2>1. D \cap gone = gone
      OBVIOUS
    <2> QED BY <2>1, <1>7, FS_Difference
  <1> HIDE DEF D
  <1>9. Cardinality(D \ gone) >= MaxTracked \div 2
    BY <1>4, <1>7, <1>8, RecorderAssumption
  <1> QED BY <1>6, <1>9 DEF D

\* A session is forgotten only when half of the capacity was used as recently.
THEOREM ForgettingCorrect == Spec => ForgetsLeastRecent
  <1>1. Init => LInv
    <2>1. Init => DOMAIN tracked = {}
      BY DEF Init
    <2> QED BY <2>1, TypeInit, EmptyFits DEF LInv, BInv, Bounded, SeenIsLast
  <1>2. [ForgetStep]_vars => [restarts' = restarts =>
          \A k \in DOMAIN tracked \ DOMAIN tracked' :
            Cardinality({j \in DOMAIN tracked \cap DOMAIN tracked' :
                           LastPlanned(k) <= LastPlanned(j)}) >= MaxTracked \div 2]_vars
    BY DEF ForgetStep
  <1> QED BY <1>1, <1>2, LInvStep, EvictionIsFair, PTL DEF Spec, ForgetsLeastRecent

-----------------------------------------------------------------------------
(* Repeated names.                                                         *)

\* A plan of the running process: its session is still remembered as it was
\* then, or has seen a flood of others go by since.
OthersNow(i) ==
  {issued[m].key : m \in {n \in 1 .. Len(issued) : issued[i].at <= issued[n].at}}
    \ {issued[i].key}
Remembered(i) == issued[i].key \in DOMAIN tracked /\ issued[i].tenure = tenure[issued[i].key]
Flooded(i)    == Cardinality(OthersNow(i)) > MaxTracked - MaxTracked \div 2
SeenLate(i)   == /\ issued[i].at <= clock
                 /\ issued[i].key \in DOMAIN tracked =>
                      issued[i].at <= tracked[issued[i].key].seen
Kept(i) == /\ SeenLate(i)
           /\ issued[i].run = restarts => Remembered(i) \/ Flooded(i)

RInv == /\ LInv /\ IInv
        /\ \A i \in 1 .. Len(issued) : issued[i].run <= restarts
        /\ ~setBack => \A i \in 1 .. Len(issued) : Kept(i)

LEMMA OthersFinite ==
  ASSUME NEW q \in Seq(PlanRec), NEW a, NEW k
  PROVE  LET others == {q[m].key : m \in {n \in 1 .. Len(q) : a <= q[n].at}} \ {k}
         IN  IsFiniteSet(others) /\ Cardinality(others) \in Nat
  <1> DEFINE late == {n \in 1 .. Len(q) : a <= q[n].at}
             keys == {q[m].key : m \in late}
             name == [m \in late |-> q[m].key]
  <1>1. IsFiniteSet(late)
    <2>1. IsFiniteSet(1 .. Len(q))
      BY FS_Interval
    <2> QED BY <2>1, FS_Subset
  <1> HIDE DEF late
  <1>2. name \in Surjection(late, keys)
    BY DEF Surjection
  <1>3. IsFiniteSet(keys)
    BY <1>1, <1>2, FS_Surjection
  <1>4. IsFiniteSet(keys \ {k})
    BY <1>3, FS_Subset
  <1> QED BY <1>4, FS_CardinalityType DEF late

\* A plan adds to what has gone by, and forgets a session only in a flood.
LEMMA PlanKeeps ==
  ASSUME RInv, ~setBack, NEW s \in SessionIds, NEW m \in Metadata, Plan(s, m),
         issued' \in Seq(PlanRec)
  PROVE  \A i \in 1 .. Len(issued') : Kept(i)'
  <1>1. PICK k \in Keys, gone \in SUBSET DOMAIN tracked, t \in Nat,
             p \in PlanRec, e \in Entry : Planned(s, k, gone, t, p, e)
    BY PlanStep DEF RInv, IInv
  <1>2. PICK n \in Nat :
        /\ n = Len(issued) /\ Len(issued') = n + 1
        /\ \A i \in 1 .. n : issued'[i] = issued[i] /\ issued[i] \in PlanRec
        /\ issued'[n + 1] = p
    <2>1. issued \in Seq(PlanRec) /\ issued' = Append(issued, p)
      BY <1>1 DEF RInv, IInv, TypeOK, Planned
    <2>2. Len(issued) \in Nat
      BY <2>1
    <2> WITNESS Len(issued) \in Nat
    <2> QED BY <2>1
  <1>3. /\ DOMAIN tracked' = (DOMAIN tracked \ gone) \cup {k}
        /\ \A j \in DOMAIN tracked' \ {k} : tracked'[j] = tracked[j] /\ j \in DOMAIN tracked
        /\ tracked'[k].seen = clock /\ clock \in Nat /\ clock' \in Nat /\ clock <= clock'
        /\ restarts' = restarts
    BY <1>1 DEF Planned, Touched, RInv, IInv, TypeOK, Later
  <1>4. p.key = k /\ p.at = clock /\ p.tenure = tenure'[k]
    BY <1>1 DEF Planned
  <1> SUFFICES ASSUME NEW i \in 1 .. n + 1 PROVE Kept(i)'
    BY <1>2
  <1>5. CASE i = n + 1
    <2>1. issued'[i].key = k /\ issued'[i].at = clock /\ issued'[i].tenure = tenure'[k]
      BY <1>2, <1>4, <1>5
    <2> QED BY <2>1, <1>3 DEF Kept, SeenLate, Remembered
  <1>6. CASE i \in 1 .. n
    <2> DEFINE q == issued[i].key
               a == issued[i].at
    <2>1. issued'[i] = issued[i] /\ a \in Nat /\ q \in Keys /\ Kept(i)
      BY <1>2, <1>6 DEF RInv, PlanRec
    <2>2. SeenLate(i)'
      <3>1. a <= clock'
        BY <2>1, <1>3 DEF Kept, SeenLate
      <3>2. q \in DOMAIN tracked' => a <= tracked'[q].seen
        BY <2>1, <1>3 DEF Kept, SeenLate
      <3> QED BY <3>1, <3>2, <2>1 DEF SeenLate
    <2>3. OthersNow(i) \subseteq OthersNow(i)'
      <3> SUFFICES ASSUME NEW x \in 1 .. n, a <= issued[x].at, issued[x].key # q
                   PROVE  issued[x].key \in OthersNow(i)'
        BY <1>2 DEF OthersNow
      <3>1. x \in 1 .. Len(issued') /\ issued'[x] = issued[x]
        BY <1>2
      <3> QED BY <3>1, <2>1 DEF OthersNow
    <2>4. /\ IsFiniteSet(OthersNow(i)) /\ Cardinality(OthersNow(i)) \in Nat
      BY OthersFinite DEF OthersNow, RInv, IInv, TypeOK
    <2>5. IsFiniteSet(OthersNow(i)') /\ Cardinality(OthersNow(i)') \in Nat
      BY OthersFinite DEF OthersNow
    <2>6. Flooded(i) => Flooded(i)'
      <3>1. Cardinality(OthersNow(i)) <= Cardinality(OthersNow(i)')
        BY <2>3, <2>5, FS_Subset
      <3> QED BY <3>1, <2>4, <2>5, RecorderAssumption DEF Flooded
    <2>7. ASSUME Remembered(i), ~Remembered(i)' PROVE Flooded(i)'
      <3>1. q \in DOMAIN tracked /\ q # k
        <4>1. q \in DOMAIN tracked /\ issued[i].tenure = tenure[q]
          BY <2>7 DEF Remembered
        <4>2. q # k
          <5> SUFFICES ASSUME q = k PROVE Remembered(i)'
            BY <2>7
          <5>1. tenure' = tenure
            BY <4>1, <1>1 DEF Planned
          <5> QED BY <5>1, <4>1, <2>1, <1>3 DEF Remembered
        <4> QED BY <4>1, <4>2
      <3>2. tenure'[q] = tenure[q]
        BY <3>1, <2>1, <1>1 DEF Planned, RInv, IInv, TypeOK
      <3>3. q \in gone
        BY <2>7, <3>1, <3>2, <2>1, <1>3 DEF Remembered
      <3> DEFINE D == DOMAIN tracked
                 stay == D \ gone
      <3>4. /\ Cardinality(D) >= MaxTracked /\ k \notin D
            /\ Cardinality(gone) = MaxTracked \div 2
            /\ \A j \in stay : tracked[q].seen <= tracked[j].seen
        BY <1>1, <3>3 DEF Planned, Evictions
      <3>5. IsFiniteSet(D) /\ Cardinality(D) \in Nat
        BY FS_CardinalityType DEF RInv, LInv, BInv
      <3>6. Cardinality(stay) = Cardinality(D) - Cardinality(gone)
        <4>1. D \cap gone = gone
          OBVIOUS
        <4> QED BY <4>1, <3>5, FS_Difference
      <3>7. IsFiniteSet(stay \cup {k}) /\ Cardinality(stay \cup {k}) = Cardinality(stay) + 1
        <4>1. IsFiniteSet(stay) /\ k \notin stay
          BY <3>4, <3>5, FS_Subset
        <4> QED BY <4>1, FS_AddElement
      <3>8. stay \cup {k} \subseteq OthersNow(i)'
        <4>1. n + 1 \in 1 .. Len(issued') /\ issued'[n + 1].key = k /\ a <= issued'[n + 1].at
          BY <1>2, <1>4, <2>1 DEF Kept, SeenLate
        <4>2. k \in OthersNow(i)'
          BY <4>1, <3>1, <2>1 DEF OthersNow
        <4>3. ASSUME NEW j \in stay PROVE j \in OthersNow(i)'
          <5>1. PICK x \in 1 .. n : LastOf(j, x) /\ issued[x].at = tracked[j].seen
            BY <1>2, <4>3 DEF RInv, LInv, SeenIsLast
          <5>2. a <= tracked[q].seen
            BY <2>1, <3>1 DEF Kept, SeenLate
          <5>3. a <= issued[x].at
            <6>1. tracked[q].seen \in Nat /\ tracked[j].seen \in Nat
              BY <3>1, <4>3 DEF RInv, IInv, TypeOK, Entry
            <6> QED BY <5>1, <5>2, <6>1, <3>4, <4>3, <2>1
          <5>4. x \in 1 .. Len(issued') /\ issued'[x] = issued[x] /\ issued[x].key = j
            BY <5>1, <1>2 DEF LastOf
          <5>5. j # q
            BY <3>3, <4>3
          <5> QED BY <5>3, <5>4, <5>5, <2>1 DEF OthersNow
        <4> QED BY <4>2, <4>3
      <3>9. Cardinality(stay \cup {k}) <= Cardinality(OthersNow(i)')
        BY <3>8, <2>5, FS_Subset
      <3> HIDE DEF stay, D
      <3>10. Cardinality(stay) \in Nat /\ Cardinality(stay) >= MaxTracked - MaxTracked \div 2
        BY <3>4, <3>5, <3>6, RecorderAssumption
      <3> QED BY <3>7, <3>9, <3>10, <2>5, RecorderAssumption DEF Flooded
    <2>8. issued'[i].run = restarts' => Remembered(i)' \/ Flooded(i)'
      BY <2>1, <2>6, <2>7, <1>3 DEF Kept
    <2> QED BY <2>2, <2>8 DEF Kept
  <1> QED BY <1>2, <1>5, <1>6

LEMMA RInvStep == RInv /\ [Next]_vars => RInv'
  <1> SUFFICES ASSUME RInv, [Next]_vars
               PROVE  /\ \A i \in 1 .. Len(issued') : issued'[i].run <= restarts'
                      /\ ~setBack' => \A i \in 1 .. Len(issued') : Kept(i)'
    BY LInvStep, IInvStep DEF RInv
  <1> USE DEF RInv
  <1>0. restarts \in Nat /\ clock \in Nat /\ issued' \in Seq(PlanRec)
        /\ \A i \in 1 .. Len(issued) : issued[i] \in PlanRec
    <2>1. TypeOK'
      BY TypeStep DEF IInv
    <2> QED BY <2>1 DEF IInv, TypeOK
  <1>1. ASSUME NEW s \in SessionIds, NEW m \in Metadata, Plan(s, m)
        PROVE  /\ \A i \in 1 .. Len(issued') : issued'[i].run <= restarts'
               /\ ~setBack' => \A i \in 1 .. Len(issued') : Kept(i)'
    <2>1. setBack' = setBack
      BY <1>1 DEF Plan
    <2>2. ~setBack => \A i \in 1 .. Len(issued') : Kept(i)'
      BY <1>0, <1>1, PlanKeeps
    <2>3. PICK k \in Keys, gone \in SUBSET DOMAIN tracked, t \in Nat,
               p \in PlanRec, e \in Entry : Planned(s, k, gone, t, p, e)
      BY <1>1, PlanStep DEF IInv
    <2>4. issued \in Seq(PlanRec) /\ issued' = Append(issued, p) /\ p.run = restarts
          /\ restarts' = restarts
      BY <2>3 DEF IInv, TypeOK, Planned
    <2>5. \A i \in 1 .. Len(issued') : \/ i \in 1 .. Len(issued) /\ issued'[i] = issued[i]
                                       \/ issued'[i] = p
      BY <2>4
    <2> QED BY <1>0, <2>1, <2>2, <2>4, <2>5
  <1>2. CASE Tick
    <2> SUFFICES ASSUME ~setBack, NEW i \in 1 .. Len(issued), Kept(i) PROVE Kept(i)'
      BY <1>2 DEF Tick
    <2>1. issued[i].at \in Nat
      BY <1>0 DEF PlanRec
    <2> QED BY <1>0, <1>2, <2>1 DEF Tick, Kept, SeenLate, Remembered, Flooded, OthersNow
  <1>3. CASE ClockStepsBack
    BY <1>3 DEF ClockStepsBack
  <1>4. CASE Restart
    <2> SUFFICES ASSUME NEW i \in 1 .. Len(issued)
                 PROVE  issued[i].run <= restarts' /\ (~setBack => Kept(i)')
      BY <1>4 DEF Restart
    <2>1. issued[i].run \in Nat /\ issued[i].run < restarts'
      <3>1. issued[i].run \in Nat
        BY <1>0 DEF PlanRec
      <3>2. issued[i].run <= restarts /\ restarts' = restarts + 1
        BY <1>4 DEF Restart
      <3> QED BY <1>0, <3>1, <3>2
    <2>2. ~setBack => SeenLate(i)'
      BY <1>4 DEF Restart, Kept, SeenLate
    <2> QED BY <1>0, <1>4, <2>1, <2>2 DEF Restart, Kept
  <1>5. CASE UNCHANGED vars
    BY <1>5 DEF vars, Kept, SeenLate, Remembered, Flooded, OthersNow
  <1> QED BY <1>1, <1>2, <1>3, <1>4, <1>5 DEF Next

\* What has gone by before a repeated name was given is still there after it.
LEMMA RepeatStep ==
  ASSUME RInv, RepeatNeedsFlood, [Next]_vars
  PROVE  RepeatNeedsFlood'
  <1>1. ASSUME NEW s \in SessionIds, NEW m \in Metadata, Plan(s, m), ~setBack
        PROVE  RepeatNeedsFlood'
    <2>1. PICK k \in Keys, gone \in SUBSET DOMAIN tracked, t \in Nat,
               p \in PlanRec, e \in Entry : Planned(s, k, gone, t, p, e)
      BY <1>1, PlanStep DEF RInv, IInv
    <2>2. PICK n \in Nat :
          /\ n = Len(issued) /\ Len(issued') = n + 1
          /\ \A i \in 1 .. n : issued'[i] = issued[i] /\ issued[i] \in PlanRec
          /\ issued'[n + 1] = p
      <3>1. issued \in Seq(PlanRec) /\ issued' = Append(issued, p)
        BY <2>1 DEF RInv, IInv, TypeOK, Planned
      <3>2. Len(issued) \in Nat
        BY <3>1
      <3> WITNESS Len(issued) \in Nat
      <3> QED BY <3>1
    <2> SUFFICES ASSUME NEW j \in 1 .. n + 1, NEW i \in 1 .. j - 1,
                        issued'[i].key = issued'[j].key, issued'[i].run = issued'[j].run,
                        issued'[i].seq = issued'[j].seq, SameFiles(issued'[i], issued'[j])
                 PROVE  Cardinality(OthersSince(i, j)') > MaxTracked - MaxTracked \div 2
      BY <2>2 DEF RepeatNeedsFlood, SameFiles
    <2>3. i \in 1 .. n /\ \A q \in 1 .. j - 1 : q \in 1 .. n /\ issued'[q] = issued[q]
      BY <2>2
    <2>4. issued'[i] = issued[i] /\ issued[i].tenure \in Nat /\ issued[i].seq \in Nat
      BY <2>2, <2>3 DEF PlanRec
    <2>5. CASE j = n + 1
      <3>1. issued[i].key = k /\ issued[i].run = restarts
        BY <2>1, <2>2, <2>4, <2>5 DEF Planned
      <3>2. Remembered(i) \/ Flooded(i)
        BY <1>1, <2>2, <2>3, <3>1 DEF RInv, Kept
      <3>3. ~Remembered(i)
        <4> SUFFICES ASSUME Remembered(i) PROVE FALSE
          OBVIOUS
        <4>1. p.tenure = issued[i].tenure
          BY <2>1, <3>1 DEF Remembered, Planned
        <4>2. SameTenure(issued'[i], issued'[j])
          BY <4>1, <2>1, <2>2, <2>4, <2>5, <3>1 DEF SameTenure, Planned
        <4>3. NumberedInOrder'
          BY IInvStep DEF RInv, IInv
        <4>4. issued'[i].seq < issued'[j].seq
          BY <4>2, <4>3, <2>2, <2>5 DEF NumberedInOrder
        <4> QED BY <4>4, <2>4
      <3>4. OthersSince(i, j)' = OthersNow(i)
        BY <2>2, <2>3, <2>4, <2>5, <3>1 DEF OthersSince, OthersNow
      <3> QED BY <3>2, <3>3, <3>4 DEF Flooded
    <2>6. CASE j \in 1 .. n
      <3>1. issued'[j] = issued[j]
        BY <2>2, <2>6
      <3>2. OthersSince(i, j)' = OthersSince(i, j)
        BY <2>3, <2>4, <3>1 DEF OthersSince
      <3> QED BY <1>1, <2>2, <2>4, <2>6, <3>1, <3>2 DEF RepeatNeedsFlood
    <2> QED BY <2>2, <2>5, <2>6
  <1>2. CASE UNCHANGED issued /\ (setBack' = setBack \/ setBack')
    BY <1>2 DEF RepeatNeedsFlood, OthersSince
  <1>3. ASSUME NEW s \in SessionIds, NEW m \in Metadata, Plan(s, m), setBack
        PROVE  RepeatNeedsFlood'
    BY <1>3 DEF Plan, RepeatNeedsFlood
  <1>4. Tick \/ ClockStepsBack \/ Restart \/ UNCHANGED vars =>
          UNCHANGED issued /\ (setBack' = setBack \/ setBack')
    BY DEF Tick, ClockStepsBack, Restart, vars
  <1> QED BY <1>1, <1>2, <1>3, <1>4 DEF Next

\* One process repeats a name only after a flood of other sessions.
THEOREM RepeatsExplained == Spec => []RepeatNeedsFlood
  <1>1. Init => RInv
    <2>1. Init => DOMAIN tracked = {} /\ issued = << >>
      BY DEF Init
    <2>2. Init => LInv
      BY <2>1, TypeInit, EmptyFits DEF LInv, BInv, Bounded, SeenIsLast
    <2> QED BY <2>1, <2>2, IInvInit DEF RInv
  <1>2. Init => RepeatNeedsFlood
    BY DEF Init, RepeatNeedsFlood
  <1>3. RInv /\ RepeatNeedsFlood /\ [Next]_vars => RepeatNeedsFlood'
    BY RepeatStep
  <1> QED BY <1>1, <1>2, <1>3, RInvStep, PTL DEF Spec

-----------------------------------------------------------------------------
(* Sessions.                                                                 *)
(* A table that is inserted into.                                            *)

LEMMA OrInsertType ==
  ASSUME NEW V, NEW K, NEW table, DOMAIN table \subseteq K, table \in [DOMAIN table -> V],
         NEW s \in K, NEW v \in V, NEW gone
  PROVE  LET t == OrInsert(table, gone, s, v)
         IN  /\ DOMAIN t \subseteq K
             /\ t \in [DOMAIN t -> V]
  BY DEF OrInsert

\* A drop makes room for the key it is made for; no other insertion adds a
\* key to a full table.
LEMMA OrInsertFits ==
  ASSUME NEW table, NEW s, NEW v, NEW gone \in Drops(table, s),
         IsFiniteSet(DOMAIN table), Cardinality(DOMAIN table) <= MaxTitles
  PROVE  LET t == OrInsert(table, gone, s, v)
         IN  IsFiniteSet(DOMAIN t) /\ Cardinality(DOMAIN t) <= MaxTitles
  <1> DEFINE D == DOMAIN table
             K == D \ gone
  <1>1. DOMAIN OrInsert(table, gone, s, v) = K \cup {s}
    BY DEF OrInsert
  <1>2. Cardinality(D) \in Nat
    BY FS_CardinalityType
  <1>3. IsFiniteSet(K) /\ Cardinality(K) \in Nat /\ Cardinality(K) <= Cardinality(D)
    BY FS_Subset, FS_CardinalityType
  <1>4. gone \subseteq D /\ s \notin gone
    BY DEF Drops
  <1>5. /\ IsFiniteSet(K \cup {s})
        /\ Cardinality(K \cup {s}) = IF s \in K THEN Cardinality(K) ELSE Cardinality(K) + 1
    BY <1>3, FS_AddElement
  <1>6. Cardinality(K \cup {s}) <= MaxTitles
    <2>1. CASE s \in D
      <3>1. s \in K
        BY <2>1, <1>4
      <3> QED BY <3>1, <1>2, <1>3, <1>5, SessionsAssumption
    <2>2. CASE s \notin D /\ Cardinality(D) < MaxTitles
      BY <2>2, <1>2, <1>3, <1>5, SessionsAssumption
    <2>3. CASE s \notin D /\ Cardinality(D) >= MaxTitles
      <3>1. Cardinality(gone) = MaxTitles \div 2
        BY <2>3 DEF Drops
      <3>2. D \cap gone = gone
        BY <1>4
      <3>3. Cardinality(K) = Cardinality(D) - Cardinality(gone)
        BY <3>2, FS_Difference
      <3>4. MaxTitles \div 2 \in Nat /\ MaxTitles \div 2 >= 1
        BY SessionsAssumption
      <3> QED BY <3>1, <3>3, <3>4, <1>2, <1>3, <1>5, SessionsAssumption
    <2> QED BY <1>2, <2>1, <2>2, <2>3, SessionsAssumption
  <1> QED BY <1>1, <1>5, <1>6

-----------------------------------------------------------------------------
(* Types.                                                                    *)

LEMMA SessionsTypeInit == SessionsInit => SessionsTypeOK
  <1> SUFFICES ASSUME SessionsInit PROVE SessionsTypeOK
    OBVIOUS
  <1>1. target \in [Writers -> Files]
    BY DEF SessionsInit, Files, File
  <1> QED BY <1>1 DEF SessionsInit, SessionsTypeOK, Places

LEMMA SessionsTypeStep == SessionsTypeOK /\ [SessionsNext]_sessionVars => SessionsTypeOK'
  <1> SUFFICES ASSUME SessionsTypeOK, [SessionsNext]_sessionVars PROVE SessionsTypeOK'
    OBVIOUS
  <1> USE DEF SessionsTypeOK
  <1>1. ASSUME NEW s \in Ids, NEW title \in Titles, NoteTitle(s, title) PROVE SessionsTypeOK'
    <2>1. PICK gone \in Drops(titles, s) : titles' = OrInsert(titles, gone, s, title)
      BY <1>1 DEF NoteTitle
    <2>2. DOMAIN titles' \subseteq Ids /\ titles' \in [DOMAIN titles' -> Titles]
      BY <2>1, OrInsertType
    <2> QED BY <1>1, <2>2 DEF NoteTitle
  <1>2. ASSUME NEW w \in Writers, NEW s \in Ids, Lookup(w, s) PROVE SessionsTypeOK'
    <2>1. at' \in [Writers -> Places] /\ mine' \in [Writers -> Ids] /\ hit' \in [Writers -> BOOLEAN]
      BY <1>2 DEF Lookup, Places
    <2>2. target' \in [Writers -> Files]
      BY <1>2 DEF Lookup
    <2>3. met' \subseteq Ids
      BY <1>2 DEF Lookup
    <2> QED BY <1>2, <2>1, <2>2, <2>3 DEF Lookup
  <1>3. ASSUME NEW w \in Writers, ReadTitle(w) PROVE SessionsTypeOK'
    <2>1. TitleOf(mine[w]) \in Titles \cup {Untitled}
      BY DEF TitleOf
    <2>2. File(mine[w], TitleOf(mine[w]), day) \in Files
      BY <2>1 DEF File, Files
    <2> QED BY <1>3, <2>2 DEF ReadTitle, Places
  <1>4. ASSUME NEW w \in Writers, Insert(w) PROVE SessionsTypeOK'
    <2>1. PICK gone \in Drops(paths, mine[w]) :
            paths' = OrInsert(paths, gone, mine[w], target[w])
      BY <1>4 DEF Insert
    <2>2. DOMAIN paths' \subseteq Ids /\ paths' \in [DOMAIN paths' -> Files]
      <3>1. mine[w] \in Ids /\ target[w] \in Files
        OBVIOUS
      <3>2. DOMAIN paths \subseteq Ids /\ paths \in [DOMAIN paths -> Files]
        OBVIOUS
      <3> HIDE DEF SessionsTypeOK
      <3> QED BY <2>1, <3>1, <3>2 DEF OrInsert
    <2>3. dropped' \subseteq Ids
      BY <1>4 DEF Insert, Drops
    <2> QED BY <1>4, <2>2, <2>3 DEF Insert, Places
  <1>5. ASSUME NEW w \in Writers, Write(w) PROVE SessionsTypeOK'
    <2>1. target' \in [Writers -> Files]
      BY <1>5 DEF Write, Files, File
    <2>2. wrote' \subseteq [session : Ids, file : Files, hit : BOOLEAN]
      BY <1>5 DEF Write
    <2>3. at' \in [Writers -> Places] /\ hit' \in [Writers -> BOOLEAN]
      BY <1>5 DEF Write, Places
    <2> QED BY <1>5, <2>1, <2>2, <2>3 DEF Write
  <1>6. CASE Midnight
    BY <1>6 DEF Midnight
  <1>7. CASE UNCHANGED sessionVars
    BY <1>7 DEF sessionVars
  <1> QED BY <1>1, <1>2, <1>3, <1>4, <1>5, <1>6, <1>7 DEF SessionsNext

\* The state of Sessions has the types it should.
THEOREM SessionsTypeCorrect == SessionsSpec => []SessionsTypeOK
  BY SessionsTypeInit, SessionsTypeStep, PTL DEF SessionsSpec

-----------------------------------------------------------------------------
(* The capacity.                                                             *)

FitsTables ==
  /\ IsFiniteSet(DOMAIN titles) /\ IsFiniteSet(DOMAIN paths)
  /\ Capped

LEMMA FitsStep == FitsTables /\ [SessionsNext]_sessionVars => FitsTables'
  <1> SUFFICES ASSUME FitsTables, [SessionsNext]_sessionVars PROVE FitsTables'
    OBVIOUS
  <1> USE DEF FitsTables, Capped
  <1>1. ASSUME NEW s \in Ids, NEW title \in Titles, NoteTitle(s, title)
        PROVE  FitsTables'
    <2>1. PICK gone \in Drops(titles, s) : titles' = OrInsert(titles, gone, s, title)
      BY <1>1 DEF NoteTitle
    <2>2. IsFiniteSet(DOMAIN titles') /\ Cardinality(DOMAIN titles') <= MaxTitles
      BY <2>1, OrInsertFits
    <2> QED BY <1>1, <2>2 DEF NoteTitle
  <1>2. ASSUME NEW w \in Writers, Insert(w) PROVE FitsTables'
    <2>1. PICK gone \in Drops(paths, mine[w]) :
            paths' = OrInsert(paths, gone, mine[w], target[w])
      BY <1>2 DEF Insert
    <2>2. IsFiniteSet(DOMAIN paths') /\ Cardinality(DOMAIN paths') <= MaxTitles
      BY <2>1, OrInsertFits
    <2> QED BY <1>2, <2>2 DEF Insert
  <1>3. ASSUME NEW w \in Writers, NEW s \in Ids, Lookup(w, s) \/ ReadTitle(w) \/ Write(w)
        PROVE  FitsTables'
    BY <1>3 DEF Lookup, ReadTitle, Write
  <1>4. ASSUME NEW w \in Writers, ReadTitle(w) \/ Write(w) PROVE FitsTables'
    BY <1>4 DEF ReadTitle, Write
  <1>5. CASE Midnight
    BY <1>5 DEF Midnight
  <1>6. CASE UNCHANGED sessionVars
    BY <1>6 DEF sessionVars
  <1> QED BY <1>1, <1>2, <1>3, <1>4, <1>5, <1>6 DEF SessionsNext

\* Neither table outgrows MAX_TITLES, whichever writers race to insert.
THEOREM TablesCapped == SessionsSpec => []Capped
  <1>1. SessionsInit => FitsTables
    <2>1. IsFiniteSet({}) /\ Cardinality({}) = 0
      BY FS_EmptySet
    <2> QED BY <2>1, SessionsAssumption DEF SessionsInit, FitsTables, Capped
  <1>2. FitsTables => Capped
    BY DEF FitsTables
  <1> QED BY <1>1, <1>2, FitsStep, PTL DEF SessionsSpec

-----------------------------------------------------------------------------
(* Until a session is dropped, the name it was pinned to stays, and whoever  *)
(* finds it writes there.                                                    *)

\* What an insertion for s leaves of the decided names: all but the dropped.
Pinned(s, f) ==
  /\ dropped \subseteq dropped'
  /\ DOMAIN paths' \subseteq DOMAIN paths \cup {s}
  /\ \A k \in DOMAIN paths \ dropped' : k \in DOMAIN paths' /\ paths'[k] = paths[k]
  /\ s \in DOMAIN paths'
  /\ s \notin DOMAIN paths => paths'[s] = f

LEMMA InsertPins ==
  ASSUME NEW w \in Writers, Insert(w)
  PROVE  Pinned(mine[w], target[w])
  <1>1. PICK gone \in Drops(paths, mine[w]) :
          /\ paths' = OrInsert(paths, gone, mine[w], target[w])
          /\ dropped' = dropped \cup gone
    BY DEF Insert
  <1>2. gone \subseteq DOMAIN paths /\ mine[w] \notin gone
    BY <1>1 DEF Drops
  <1> QED BY <1>1, <1>2 DEF OrInsert, Pinned

\* A writer on its way to a decided name, and an event that went to one.
HitWriter(w) == at[w] = "write" /\ hit[w] /\ mine[w] \notin dropped =>
                  mine[w] \in DOMAIN paths /\ target[w] = paths[mine[w]]
HitEvent(e)  == e.hit /\ e.session \notin dropped =>
                  e.session \in DOMAIN paths /\ e.file = paths[e.session]

FInv == /\ \A w \in Writers : HitWriter(w)
        /\ \A w \in Writers : hit[w] => at[w] = "write"
        /\ \A e \in wrote : HitEvent(e)

LEMMA FInvStep ==
  ASSUME SessionsTypeOK, FInv, [SessionsNext]_sessionVars
  PROVE  FInv'
  <1> USE DEF FInv, HitWriter, HitEvent
  <1>1. ASSUME NEW s \in Ids, NEW title \in Titles, NoteTitle(s, title) PROVE FInv'
    BY <1>1 DEF NoteTitle
  <1>2. ASSUME NEW w \in Writers, NEW s \in Ids, Lookup(w, s) PROVE FInv'
    BY <1>2 DEF Lookup, SessionsTypeOK
  <1>3. ASSUME NEW w \in Writers, ReadTitle(w) PROVE FInv'
    BY <1>3 DEF ReadTitle, SessionsTypeOK
  <1>4. ASSUME NEW w \in Writers, Insert(w) PROVE FInv'
    <2>1. Pinned(mine[w], target[w])
      BY <1>4, InsertPins
    <2>2. ~hit[w]
      BY <1>4 DEF Insert
    <2> QED BY <1>4, <2>1, <2>2 DEF Insert, SessionsTypeOK, Pinned
  <1>5. ASSUME NEW w \in Writers, Write(w) PROVE FInv'
    BY <1>5 DEF Write, SessionsTypeOK
  <1>6. CASE Midnight
    BY <1>6 DEF Midnight
  <1>7. CASE UNCHANGED sessionVars
    BY <1>7 DEF sessionVars
  <1> QED BY <1>1, <1>2, <1>3, <1>4, <1>5, <1>6, <1>7 DEF SessionsNext

\* Until a session's name is dropped, all appends that found it decided went
\* to one file, whichever appends raced to decide it.
THEOREM FoundAgreeCorrect == SessionsSpec => []FoundAgree
  <1>1. SessionsInit => FInv
    BY DEF SessionsInit, FInv, HitWriter, HitEvent
  <1>2. FInv => FoundAgree
    BY DEF FInv, HitEvent, FoundAgree
  <1>3. SessionsTypeOK /\ FInv /\ [SessionsNext]_sessionVars => FInv'
    BY FInvStep
  <1> QED BY <1>1, <1>2, <1>3, SessionsTypeCorrect, PTL DEF SessionsSpec

-----------------------------------------------------------------------------
(* A session whose appends never overlapped has nobody who races.            *)

Settled(s) == s \notin met /\ s \notin dropped

Alone == \A v, w \in Writers :
           v # w /\ at[v] # "idle" /\ at[w] # "idle" /\ mine[v] = mine[w] =>
             mine[v] \in met
Writer(w) == Settled(mine[w]) =>
  /\ at[w] = "write" => mine[w] \in DOMAIN paths /\ target[w] = paths[mine[w]]
  /\ at[w] \in {"title", "insert"} => mine[w] \notin DOMAIN paths
Event(e)  == Settled(e.session) =>
  e.session \in DOMAIN paths /\ e.file = paths[e.session]

TablesInv ==
  /\ Alone
  /\ \A w \in Writers : Writer(w)
  /\ \A e \in wrote : Event(e)

LEMMA TablesStep ==
  ASSUME SessionsTypeOK, TablesInv, [SessionsNext]_sessionVars
  PROVE  TablesInv'
  <1> USE DEF TablesInv, Alone, Writer, Event, Settled
  <1>1. ASSUME NEW s \in Ids, NEW title \in Titles, NoteTitle(s, title) PROVE TablesInv'
    BY <1>1 DEF NoteTitle
  <1>2. ASSUME NEW w \in Writers, NEW s \in Ids, Lookup(w, s) PROVE TablesInv'
    <2>1. met \subseteq met' /\ dropped' = dropped
      BY <1>2 DEF Lookup
    <2>2. Alone'
      <3> SUFFICES ASSUME NEW u \in Writers, NEW v \in Writers, u # v,
                          at'[u] # "idle", at'[v] # "idle", mine'[u] = mine'[v]
                   PROVE  mine'[u] \in met'
        OBVIOUS
      <3>1. CASE u # w /\ v # w
        BY <3>1, <1>2, <2>1 DEF Lookup, SessionsTypeOK
      <3>2. CASE u = w
        <4>1. mine'[u] = s /\ mine[v] = s /\ at[v] # "idle" /\ v \in Writers \ {w}
          BY <3>2, <1>2 DEF Lookup, SessionsTypeOK
        <4> QED BY <4>1, <1>2 DEF Lookup, Meets
      <3>3. CASE v = w
        <4>1. mine'[u] = s /\ mine[u] = s /\ at[u] # "idle" /\ u \in Writers \ {w}
          BY <3>3, <1>2 DEF Lookup, SessionsTypeOK
        <4> QED BY <4>1, <1>2 DEF Lookup, Meets
      <3> QED BY <3>1, <3>2, <3>3
    <2>3. \A v \in Writers : Writer(v)'
      BY <1>2, <2>1 DEF Lookup, SessionsTypeOK
    <2> QED BY <1>2, <2>1, <2>2, <2>3 DEF Lookup
  <1>3. ASSUME NEW w \in Writers, ReadTitle(w) PROVE TablesInv'
    <2>1. Alone'
      BY <1>3 DEF ReadTitle, SessionsTypeOK
    <2>2. \A v \in Writers : Writer(v)'
      BY <1>3 DEF ReadTitle, SessionsTypeOK
    <2> QED BY <1>3, <2>1, <2>2 DEF ReadTitle
  <1>4. ASSUME NEW w \in Writers, Insert(w) PROVE TablesInv'
    <2>1. Pinned(mine[w], target[w]) /\ met' = met
      BY <1>4, InsertPins DEF Insert
    <2>2. Alone'
      BY <1>4 DEF Insert, SessionsTypeOK
    <2>3. \A v \in Writers : Writer(v)'
      <3> SUFFICES ASSUME NEW v \in Writers, Settled(mine[v])' PROVE Writer(v)'
        OBVIOUS
      <3>0. Settled(mine[v]) /\ mine' = mine /\ target' = target
        BY <1>4, <2>1 DEF Insert, Pinned
      <3>1. CASE v = w
        BY <3>0, <3>1, <1>4, <2>1 DEF Insert, SessionsTypeOK, Pinned
      <3>2. CASE v # w
        <4>1. at'[v] = at[v]
          BY <3>2, <1>4 DEF Insert, SessionsTypeOK
        <4>2. at[v] # "idle" => mine[v] # mine[w]
          BY <3>0, <3>2, <1>4 DEF Insert
        <4> QED BY <3>0, <4>1, <4>2, <2>1 DEF Pinned
      <3> QED BY <3>1, <3>2
    <2>4. \A e \in wrote' : Event(e)'
      BY <1>4, <2>1 DEF Insert, Pinned
    <2> QED BY <2>2, <2>3, <2>4
  <1>5. ASSUME NEW w \in Writers, Write(w) PROVE TablesInv'
    <2>1. Alone'
      BY <1>5 DEF Write, SessionsTypeOK
    <2>2. \A v \in Writers : Writer(v)'
      BY <1>5 DEF Write, SessionsTypeOK
    <2> QED BY <1>5, <2>1, <2>2 DEF Write
  <1>6. CASE Midnight
    BY <1>6 DEF Midnight
  <1>7. CASE UNCHANGED sessionVars
    BY <1>7 DEF sessionVars
  <1> QED BY <1>1, <1>2, <1>3, <1>4, <1>5, <1>6, <1>7 DEF SessionsNext

\* Unless appends of one session overlap or its name is dropped, a title
\* learned late or a midnight never scatters it across two files.
THEOREM OneFileCorrect == SessionsSpec => []OneFileUnlessMet
  <1>1. SessionsInit => TablesInv
    BY DEF SessionsInit, TablesInv, Alone, Writer, Event
  <1>2. TablesInv => OneFileUnlessMet
    BY DEF TablesInv, Event, Settled, OneFileUnlessMet
  <1>3. SessionsTypeOK /\ TablesInv /\ [SessionsNext]_sessionVars => TablesInv'
    BY TablesStep
  <1> QED BY <1>1, <1>2, <1>3, SessionsTypeCorrect, PTL DEF SessionsSpec

=============================================================================
