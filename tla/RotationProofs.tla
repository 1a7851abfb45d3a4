--------------------------- MODULE RotationProofs ---------------------------
(***************************************************************************)
(* What holds of the rotation for any number of rotators, any ages, any    *)
(* budget and any cap of the scan.                                         *)
(***************************************************************************)
EXTENDS Rotation, FiniteSetTheorems, WellFoundedInduction, TLAPS

USE RotationAssumption

-----------------------------------------------------------------------------
(* Tokens and their ages.                                                  *)

LEMMA MinOfTwo ==
  ASSUME NEW a \in Nat, NEW b \in Nat
  PROVE  /\ Min({a, b}) \in {a, b}
         /\ Min({a, b}) <= a /\ Min({a, b}) <= b
<1>1. \E x \in {a, b} : \A y \in {a, b} : x =< y
  <2>1. CASE a =< b
    BY <2>1
  <2>2. CASE b =< a
    BY <2>2
  <2> QED BY <2>1, <2>2
<1> QED BY <1>1 DEF Min

\* A set of numbers has a least one: that of the smallest initial segment.
LEMMA LeastNatural ==
  ASSUME NEW S \in SUBSET Nat, S # {}
  PROVE  \E x \in S : \A y \in S : x <= y
<1> DEFINE segments == {0..x : x \in S}
           order == StrictSubsetOrdering(Nat)
<1>1. segments \subseteq FiniteSubsetsOf(Nat) /\ segments # {}
  <2>1. ASSUME NEW x \in S
        PROVE  0..x \in FiniteSubsetsOf(Nat)
    <3>1. 0..x \in SUBSET Nat /\ x \in Int /\ 0 \in Int
      OBVIOUS
    <3>2. IsFiniteSet(0..x)
      BY <3>1, FS_Interval
    <3> QED BY <3>1, <3>2 DEF FiniteSubsetsOf
  <2>2. segments # {}
    OBVIOUS
  <2> QED BY <2>1, <2>2
<1>2. IsWellFoundedOn(order, FiniteSubsetsOf(Nat))
  BY FS_StrictSubsetOrderingWellFounded
<1>3. \E t \in segments : \A u \in segments : ~ (<<u, t>> \in order)
  <2> HIDE DEF segments, order
  <2> QED BY <1>1, <1>2, WFMin
<1>4. PICK x \in S : \A y \in S : ~ (<<0..y, 0..x>> \in order)
  BY <1>3
<1>5. ASSUME NEW y \in S, y < x
      PROVE  FALSE
  <2>1. /\ 0..y \in SUBSET Nat /\ 0..x \in SUBSET Nat
        /\ 0..y \subseteq 0..x /\ x \in 0..x /\ x \notin 0..y
    BY <1>5
  <2> QED BY <1>4, <2>1 DEF StrictSubsetOrdering
<1> QED BY <1>5

LEMMA OlderToken ==
  ASSUME NEW t \in Tokens
  PROVE  /\ Older(t) \in Tokens
         /\ Older(t).wanted = t.wanted /\ Older(t).date = t.date
         /\ t.age >= RefreshAfter => Older(t).age >= RefreshAfter
<1>1. CASE t.date = "junk"
  BY <1>1 DEF Older
<1>2. CASE t.date # "junk"
  <2> DEFINE m == Min({MaxAge, t.age + 1})
  <2>1. t # NoToken /\ t.age \in 0..MaxAge /\ t.age + 1 \in Nat /\ MaxAge \in Nat
    BY <1>2, TokenAssumption DEF Tokens
  <2>2. m \in {MaxAge, t.age + 1} /\ m <= MaxAge /\ m <= t.age + 1
    BY <2>1, MinOfTwo
  <2> HIDE DEF m
  <2>3. m \in 0..MaxAge /\ t.age <= m
    BY <2>1, <2>2
  <2>4. Older(t) = [t EXCEPT !.age = m]
    BY <1>2, <2>1 DEF Older, m
  <2>5. /\ Older(t) \in Tokens
        /\ Older(t).wanted = t.wanted /\ Older(t).date = t.date
        /\ Older(t).age = m
    BY <1>2, <2>3, <2>4 DEF Tokens
  <2> QED BY <2>1, <2>3, <2>5
<1> QED BY <1>1, <1>2

LEMMA AgedToken ==
  ASSUME NEW t \in TokenOrNone
  PROVE  /\ Older(t) \in TokenOrNone /\ Aged(t) \in TokenOrNone
         /\ t # NoToken => Aged(t) # NoToken /\ Older(t) # NoToken
         /\ t = NoToken => Aged(t) = NoToken /\ Older(t) = NoToken
<1>1. CASE t = NoToken
  BY <1>1 DEF TokenOrNone, Older, Aged
<1>2. CASE t \in Tokens
  BY <1>2, OlderToken, TokenAssumption DEF TokenOrNone, Aged
<1> QED BY <1>1, <1>2 DEF TokenOrNone

\* Every age is a number, and one of a real date is not negative.
LEMMA AgeOfToken ==
  ASSUME NEW t \in Tokens
  PROVE  t.age \in Int /\ (t.date = "real" => t.age \in Nat)
<1>1. MaxAge \in Nat /\ Junk \subseteq Int
  OBVIOUS
<1>2. CASE t \in [wanted : BOOLEAN, date : {"real", "none"}, age : 0..MaxAge]
  BY <1>1, <1>2
<1>3. CASE t \in [wanted : BOOLEAN, date : {"junk"}, age : Junk]
  BY <1>1, <1>3
<1> QED BY <1>2, <1>3 DEF Tokens

LEMMA PlacedToken ==
  ASSUME NEW t \in Tokens
  PROVE  Placed(t) \in Tokens /\ Placed(t).wanted = t.wanted
BY TokenAssumption DEF Placed, Tokens

-----------------------------------------------------------------------------
(* The scan.                                                               *)

LEMMA HitsAreTokens ==
  ASSUME TypeOK
  PROVE  \A t \in Hits : t \in Tokens /\ Usable(t) /\ t # Skip
<1>1. \A i \in DOMAIN dumps : dumps[i] \in Tokens
  BY DEF TypeOK
<1> QED BY <1>1 DEF Hits, Read

\* The first of the hits, sorted, is one of them, and none is fresher.
LEMMA BestIsFreshest ==
  ASSUME TypeOK
  PROVE  /\ Hits # {} => Best \in Hits /\ \A u \in Hits : Best.age <= u.age
         /\ Best # NoToken <=> Hits # {}
<1>1. NoToken \notin Hits
  BY HitsAreTokens, TokenAssumption
<1>2. ASSUME Hits # {}
      PROVE  \E t \in Hits : \A u \in Hits : t.age <= u.age
  <2> DEFINE Ages == {t.age : t \in Hits}
  <2>1. Ages \subseteq Nat /\ Ages # {}
    BY <1>2, HitsAreTokens, AgeOfToken DEF Usable
  <2>2. \E x \in Ages : \A y \in Ages : x <= y
    BY <2>1, LeastNatural
  <2> QED BY <2>2
<1>3. Hits # {} => Best \in Hits /\ \A u \in Hits : Best.age <= u.age
  BY <1>2 DEF Best
<1>4. Hits = {} => Best = NoToken
  BY DEF Best
<1> QED BY <1>1, <1>3, <1>4

\* A freshest usable token loses to the cap only (tsscan.rs:14-15).
LEMMA FreshestInState == TypeOK => FreshestUnlessCapped
<1> SUFFICES ASSUME TypeOK, NEW i \in DOMAIN dumps,
                    Usable(dumps[i]), dumps[i] # Skip,
                    Best = NoToken \/ Best.age > dumps[i].age
             PROVE  /\ ScanMax > 0
                    /\ Cardinality({j \in (i + 1)..Len(dumps) : Usable(dumps[j])})
                         >= ScanMax
  BY DEF FreshestUnlessCapped
<1> DEFINE after == {j \in (i + 1)..Len(dumps) : Usable(dumps[j])}
<1>1. dumps[i] \in Tokens
  BY DEF TypeOK
<1>2. i \notin Read
  <2> SUFFICES ASSUME i \in Read PROVE FALSE
    OBVIOUS
  <2>1. dumps[i] \in Hits
    BY DEF Hits
  <2>2. Best \in Tokens /\ Best # NoToken /\ Best.age <= dumps[i].age
    BY <2>1, BestIsFreshest, HitsAreTokens
  <2>3. Best.age \in Int /\ dumps[i].age \in Int
    BY <1>1, <2>2, AgeOfToken
  <2> QED BY <2>2, <2>3
<1>3. Cardinality(after) \in Nat
  <2>1. i \in Nat /\ Len(dumps) \in Nat
    BY DEF TypeOK
  <2>2. IsFiniteSet((i + 1)..Len(dumps))
    BY <2>1, FS_Interval
  <2>3. IsFiniteSet(after)
    BY <2>2, FS_Subset
  <2> QED BY <2>3, FS_CardinalityType
<1>4. ScanMax # 0 /\ ~(Cardinality(after) < ScanMax)
  BY <1>2 DEF Read, Enough
<1> HIDE DEF after
<1>5. ScanMax > 0 /\ Cardinality(after) >= ScanMax
  BY <1>3, <1>4
<1> QED BY <1>5 DEF after

-----------------------------------------------------------------------------
(* The inductive invariant.                                                *)

\* A rotator that probes has probes left.
ProbesLeft == \A p \in Rotators : pc[p] = "probe" => left[p] > 0

\* What is about to be installed, and why the hunt settled on it.
Chosen(p) ==
  /\ tok[p] \in Tokens /\ tok[p].wanted
  /\ via[p] = "scan" => Usable(tok[p]) /\ ~NotNewer(tok[p], seen[p])
  /\ via[p] = "reuse" => Usable(tok[p])
  /\ via[p] = "probe" /\ tok[p].date = "real" => tok[p].age = 0
ChosenWell == \A p \in Rotators : pc[p] = "install" => Chosen(p)

\* A service that is about to hunt has found the slot empty or stale, unless it
\* has been filled since.
FoundStale == pc[Loop] = "due" /\ ~filled => Stale

\* And so began its hunt on an empty slot or a stale token, unless it was filled
\* between the two looks.
BeganStale ==
  pc[Loop] \in {"scan", "probe", "install"} /\ ~filled /\ seen[Loop] # NoToken
    => seen[Loop].age >= RefreshAfter

Inv ==
  /\ TypeOK
  /\ ProbesLeft /\ ChosenWell /\ FoundStale /\ BeganStale
  /\ SlotIsWanted

LEMMA InitInv == Init => Inv
<1> SUFFICES ASSUME Init PROVE Inv
  OBVIOUS
<1>1. TypeOK
  <2>1. dumps \in Seq(Tokens) /\ Len(dumps) <= MaxDumps
    BY DEF Init
  <2>2. skips \in BOOLEAN /\ slot \in TokenOrNone /\ filled \in BOOLEAN
    BY Zenon DEF Init, TokenOrNone
  <2>3. /\ pc \in [Rotators -> {"idle", "due", "scan", "probe", "install"}]
        /\ seen \in [Rotators -> TokenOrNone] /\ tok \in [Rotators -> TokenOrNone]
        /\ via \in [Rotators -> {"scan", "reuse", "probe"}]
        /\ left \in [Rotators -> 0..Budget]
    BY DEF Init, TokenOrNone
  <2> QED BY <2>1, <2>2, <2>3 DEF TypeOK
<1>2. ProbesLeft /\ ChosenWell /\ FoundStale /\ BeganStale /\ SlotIsWanted
  BY DEF Init, ProbesLeft, ChosenWell, FoundStale, BeganStale, SlotIsWanted, Rotators
<1> QED BY <1>1, <1>2 DEF Inv

LEMMA StutterKeeps == Inv /\ UNCHANGED vars => Inv'
<1> SUFFICES ASSUME Inv, UNCHANGED vars PROVE Inv'
  OBVIOUS
<1> USE DEF vars, rotators
<1>1. TypeOK'
  BY DEF Inv, TypeOK
<1>2. ProbesLeft' /\ ChosenWell' /\ FoundStale' /\ BeganStale' /\ SlotIsWanted'
  BY DEF Inv, ProbesLeft, ChosenWell, Chosen, FoundStale, Stale, BeganStale,
         SlotIsWanted, Usable, NotNewer
<1> QED BY <1>1, <1>2 DEF Inv

LEMMA TickKeeps == ASSUME Inv, Tick PROVE Inv'
<1>1. /\ skips' = skips /\ filled' = filled /\ pc' = pc /\ tok' = tok
      /\ via' = via /\ left' = left
      /\ \A p \in Rotators : pc[p] # "install"
  BY DEF Tick
<1>2. slot' = Older(slot) /\ slot \in TokenOrNone
  BY DEF Tick, Inv, TypeOK
<1>3. seen \in [Rotators -> TokenOrNone] /\ seen' = [p \in Rotators |-> Aged(seen[p])]
  BY DEF Tick, Inv, TypeOK
<1>4. TypeOK'
  <2>1. dumps' \in Seq(Tokens) /\ Len(dumps') <= MaxDumps
    <3>1. dumps \in Seq(Tokens) /\ Len(dumps) <= MaxDumps
      BY DEF Inv, TypeOK
    <3>2. \A i \in DOMAIN dumps : Aged(dumps[i]) \in Tokens
      BY <3>1, OlderToken DEF Aged
    <3>3. dumps' = [i \in 1..Len(dumps) |-> Aged(dumps[i])]
      BY <3>1 DEF Tick
    <3> QED BY <3>1, <3>2, <3>3
  <2>2. slot' \in TokenOrNone
    BY <1>2, AgedToken
  <2>3. seen' \in [Rotators -> TokenOrNone]
    BY <1>3, AgedToken
  <2> QED BY <1>1, <2>1, <2>2, <2>3 DEF Inv, TypeOK
<1>5. ProbesLeft' /\ ChosenWell'
  BY <1>1 DEF Inv, ProbesLeft, ChosenWell
<1>6. BeganStale'
  <2> SUFFICES ASSUME pc[Loop] \in {"scan", "probe"}, ~filled, seen'[Loop] # NoToken
               PROVE  seen'[Loop].age >= RefreshAfter
    BY <1>1 DEF BeganStale, Rotators
  <2>1. Loop \in Rotators /\ seen'[Loop] = Aged(seen[Loop])
    BY <1>3 DEF Rotators
  <2>2. seen[Loop] # NoToken /\ seen[Loop] \in Tokens
    BY <1>3, <2>1, AgedToken DEF TokenOrNone
  <2>3. seen[Loop].age >= RefreshAfter
    BY <2>2 DEF Inv, BeganStale
  <2> QED BY <2>1, <2>2, <2>3, OlderToken DEF Aged
<1>7. SlotIsWanted'
  <2>1. CASE slot = NoToken
    BY <1>2, <2>1, AgedToken DEF SlotIsWanted
  <2>2. CASE slot # NoToken
    <3>1. slot \in Tokens
      BY <1>2, <2>2 DEF TokenOrNone
    <3> QED BY <1>2, <2>2, <3>1, OlderToken DEF Inv, SlotIsWanted
  <2> QED BY <2>1, <2>2
<1>8. FoundStale'
  <2> SUFFICES ASSUME pc[Loop] = "due", ~filled, slot' # NoToken
               PROVE  slot'.age >= RefreshAfter
    BY <1>1 DEF FoundStale, Stale
  <2>1. slot # NoToken /\ slot \in Tokens
    BY <1>2, AgedToken DEF TokenOrNone
  <2>2. slot.age >= RefreshAfter
    BY <2>1 DEF Inv, FoundStale, Stale
  <2> QED BY <1>2, <2>1, <2>2, OlderToken
<1> QED BY <1>4, <1>5, <1>6, <1>7, <1>8 DEF Inv

\* Whatever is dumped or pruned: the rotators only read the dumps.
LEMMA DumpsKeep ==
  ASSUME Inv, UNCHANGED <<skips, slot, filled, rotators>>,
         dumps' \in Seq(Tokens), Len(dumps') <= MaxDumps
  PROVE  Inv'
<1>1. TypeOK'
  BY DEF Inv, TypeOK, rotators
<1>2. ProbesLeft' /\ ChosenWell' /\ FoundStale' /\ BeganStale' /\ SlotIsWanted'
  BY DEF Inv, ProbesLeft, ChosenWell, Chosen, FoundStale, Stale, BeganStale,
         SlotIsWanted, Usable, NotNewer, rotators
<1> QED BY <1>1, <1>2 DEF Inv

\* A step of p disturbs nothing but p's own conjuncts.
Others(p) ==
  \A q \in Rotators \ {p} :
    /\ pc'[q] = pc[q] /\ left'[q] = left[q]
    /\ seen'[q] = seen[q] /\ tok'[q] = tok[q] /\ via'[q] = via[q]

LEMMA OwnStepKeeps ==
  ASSUME Inv, NEW p \in Rotators, UNCHANGED <<skips, dumps, slot>>,
         p # Loop => filled' = filled,
         Others(p), TypeOK',
         pc'[p] = "probe" => left'[p] > 0,
         pc'[p] = "install" => Chosen(p)',
         p = Loop => FoundStale' /\ BeganStale'
  PROVE  Inv'
<1>1. ProbesLeft'
  BY DEF Inv, ProbesLeft, Others
<1>2. ChosenWell'
  <2> SUFFICES ASSUME NEW q \in Rotators \ {p}, pc[q] = "install"
               PROVE  Chosen(q)'
    BY DEF ChosenWell, Others
  <2>1. Chosen(q)
    BY DEF Inv, ChosenWell
  <2>2. tok'[q] = tok[q] /\ via'[q] = via[q] /\ seen'[q] = seen[q]
    BY DEF Others
  <2> QED BY <2>1, <2>2 DEF Chosen, Usable, NotNewer
<1>3. FoundStale' /\ BeganStale'
  BY DEF Inv, FoundStale, Stale, BeganStale, Others, Rotators
<1>4. SlotIsWanted'
  BY DEF Inv, SlotIsWanted
<1> QED BY <1>1, <1>2, <1>3, <1>4 DEF Inv

\* The service's look finds the slot stale.
LEMMA LookKeeps == ASSUME Inv, Look PROVE Inv'
<1>1. /\ Loop \in Rotators /\ pc'[Loop] = "due" /\ Others(Loop) /\ filled' = FALSE
      /\ Stale /\ UNCHANGED <<skips, dumps, slot>>
  BY DEF Look, Due, To, Inv, TypeOK, Others, Rotators
<1>2. TypeOK'
  BY DEF Look, To, Inv, TypeOK
<1>3. FoundStale' /\ BeganStale'
  BY <1>1 DEF FoundStale, Stale, BeganStale
<1> QED BY <1>1, <1>2, <1>3, OwnStepKeeps

\* It hunts on what it found, unless another rotator has filled the slot.
LEMMA HuntKeeps == ASSUME Inv, NEW p \in Rotators, Hunt(p) PROVE Inv'
<1>1. /\ pc'[p] = "scan" /\ seen'[p] = slot /\ Others(p)
      /\ UNCHANGED <<skips, dumps, slot, filled>>
  BY DEF Hunt, To, Inv, TypeOK, Others
<1>2. TypeOK'
  BY DEF Hunt, To, Inv, TypeOK
<1>3. p = Loop => FoundStale' /\ BeganStale'
  <2> SUFFICES ASSUME p = Loop, ~filled, slot # NoToken PROVE slot.age >= RefreshAfter
    BY <1>1 DEF FoundStale, BeganStale
  <2> QED BY DEF Hunt, Inv, FoundStale, Stale
<1> QED BY <1>1, <1>2, <1>3, OwnStepKeeps

LEMMA ScanKeeps == ASSUME Inv, NEW p \in Rotators, Scan(p) PROVE Inv'
<1>1. CASE Best = NoToken \/ NotNewer(Best, seen[p])
  <2>1. /\ pc[p] = "scan" /\ pc'[p] = "probe" /\ left'[p] > 0 /\ Others(p)
        /\ UNCHANGED <<skips, dumps, slot, filled, seen>>
    BY <1>1 DEF Scan, To, Inv, TypeOK, Others
  <2>2. TypeOK'
    <3>1. left' \in [Rotators -> 0..Budget]
      BY <1>1 DEF Scan, Inv, TypeOK
    <3>2. pc' \in [Rotators -> {"idle", "due", "scan", "probe", "install"}]
      BY <1>1 DEF Scan, To, Inv, TypeOK
    <3>3. UNCHANGED <<skips, dumps, slot, filled, seen, tok, via>>
      BY <1>1 DEF Scan
    <3> QED BY <3>1, <3>2, <3>3 DEF Inv, TypeOK
  <2>3. p = Loop => FoundStale' /\ BeganStale'
    BY <2>1 DEF Inv, FoundStale, BeganStale
  <2> QED BY <2>1, <2>2, <2>3, OwnStepKeeps
<1>2. CASE ~(Best = NoToken \/ NotNewer(Best, seen[p]))
  <2>1. Best \in Tokens /\ Usable(Best)
    BY <1>2, BestIsFreshest, HitsAreTokens DEF Inv
  <2>2. /\ pc[p] = "scan" /\ pc'[p] = "install" /\ Others(p)
        /\ tok'[p] = Best /\ via'[p] = "scan"
        /\ UNCHANGED <<skips, dumps, slot, filled, seen>>
    BY <1>2 DEF Scan, To, Holds, Inv, TypeOK, Others
  <2>3. TypeOK'
    BY <1>2, <2>1 DEF Scan, To, Holds, Inv, TypeOK, TokenOrNone
  <2>4. Chosen(p)'
    BY <1>2, <2>1, <2>2 DEF Chosen, Usable, NotNewer
  <2>5. p = Loop => FoundStale' /\ BeganStale'
    BY <2>2 DEF Inv, FoundStale, BeganStale
  <2> QED BY <2>2, <2>3, <2>4, <2>5, OwnStepKeeps
<1> QED BY <1>1, <1>2

LEMMA ReuseKeeps == ASSUME Inv, NEW p \in Rotators, Reuse(p) PROVE Inv'
<1>1. Best \in Tokens /\ Usable(Best)
  BY BestIsFreshest, HitsAreTokens DEF Inv, Reuse
<1>2. /\ pc[p] = "probe" /\ pc'[p] = "install" /\ Others(p)
      /\ tok'[p] = Best /\ via'[p] = "reuse"
      /\ UNCHANGED <<skips, dumps, slot, filled, seen>>
  BY DEF Reuse, To, Holds, Inv, TypeOK, Others
<1>3. TypeOK'
  BY <1>1 DEF Reuse, To, Holds, Inv, TypeOK, TokenOrNone
<1>4. Chosen(p)'
  BY <1>1, <1>2 DEF Chosen, Usable
<1>5. p = Loop => FoundStale' /\ BeganStale'
  BY <1>2 DEF Inv, FoundStale, BeganStale
<1> QED BY <1>2, <1>3, <1>4, <1>5, OwnStepKeeps

LEMMA AttemptKeeps ==
  ASSUME Inv, NEW p \in Rotators, NEW t \in Issued, Attempt(p, t) PROVE Inv'
<1>1. t \in Tokens /\ (t.date = "real" => t.age = 0) /\ t.wanted
  BY DEF Issued, Attempt
<1>2. /\ pc[p] = "probe" /\ pc'[p] = "install" /\ Others(p)
      /\ tok'[p] = t /\ via'[p] = "probe"
      /\ UNCHANGED <<skips, dumps, slot, filled, seen>>
  BY DEF Attempt, To, Holds, Inv, TypeOK, Others
<1>3. TypeOK'
  BY <1>1 DEF Attempt, To, Holds, Inv, TypeOK, TokenOrNone
<1>4. Chosen(p)'
  BY <1>1, <1>2 DEF Chosen
<1>5. p = Loop => FoundStale' /\ BeganStale'
  BY <1>2 DEF Inv, FoundStale, BeganStale
<1> QED BY <1>2, <1>3, <1>4, <1>5, OwnStepKeeps

\* What ends a hunt for p: it is idle, and holds nothing.
LEMMA DoneStep ==
  ASSUME Inv, NEW p \in Rotators, Done(p)
  PROVE  /\ pc'[p] = "idle" /\ Others(p)
         /\ pc' \in [Rotators -> {"idle", "due", "scan", "probe", "install"}]
         /\ seen' \in [Rotators -> TokenOrNone] /\ tok' \in [Rotators -> TokenOrNone]
         /\ via' \in [Rotators -> {"scan", "reuse", "probe"}]
         /\ left' \in [Rotators -> 0..Budget]
<1>1. /\ pc'[p] = "idle" /\ Others(p)
  BY DEF Done, To, Holds, Inv, TypeOK, Others
<1>2. /\ pc' \in [Rotators -> {"idle", "due", "scan", "probe", "install"}]
      /\ via' \in [Rotators -> {"scan", "reuse", "probe"}]
  BY DEF Done, To, Holds, Inv, TypeOK
<1>3. seen' \in [Rotators -> TokenOrNone] /\ tok' \in [Rotators -> TokenOrNone]
  BY DEF Done, Holds, Inv, TypeOK, TokenOrNone
<1>4. left' \in [Rotators -> 0..Budget]
  BY DEF Done, Inv, TypeOK
<1> QED BY <1>1, <1>2, <1>3, <1>4

\* A hunt that ends without an install leaves the rest as it was.
LEMMA DoneKeeps ==
  ASSUME Inv, NEW p \in Rotators, Done(p), UNCHANGED <<skips, dumps, slot, filled>>
  PROVE  Inv'
<1>1. pc'[p] = "idle" /\ Others(p)
  BY DoneStep
<1>2. TypeOK'
  BY DoneStep DEF Inv, TypeOK
<1>3. p = Loop => FoundStale' /\ BeganStale'
  BY <1>1 DEF FoundStale, BeganStale
<1> QED BY <1>1, <1>2, <1>3, OwnStepKeeps

LEMMA MissKeeps == ASSUME Inv, NEW p \in Rotators, Miss(p) PROVE Inv'
<1>1. CASE left[p] = 1
  BY <1>1, DoneKeeps DEF Miss
<1>2. CASE left[p] # 1
  <2>1. left[p] \in 1..Budget
    BY DEF Inv, TypeOK, ProbesLeft, Miss
  <2>2. /\ left' = [left EXCEPT ![p] = left[p] - 1]
        /\ UNCHANGED <<skips, dumps, slot, filled, pc, seen, tok, via>>
    BY <1>2 DEF Miss
  <2>3. left' \in [Rotators -> 0..Budget] /\ left'[p] > 0
    BY <1>2, <2>1, <2>2 DEF Inv, TypeOK
  <2>4. TypeOK' /\ Others(p)
    BY <2>2, <2>3 DEF Inv, TypeOK, Others
  <2>5. p = Loop => FoundStale' /\ BeganStale'
    BY <2>2 DEF Inv, FoundStale, Stale, BeganStale
  <2>6. pc'[p] # "install"
    BY <2>2 DEF Miss
  <2> QED BY <2>2, <2>3, <2>4, <2>5, <2>6, OwnStepKeeps
<1> QED BY <1>1, <1>2

\* An install sets the slot; a service that has looked at it will know.
LEMMA InstallKeeps == ASSUME Inv, NEW p \in Rotators, Install(p) PROVE Inv'
<1>1. tok[p] \in Tokens /\ tok[p].wanted
  BY DEF Inv, ChosenWell, Chosen, Install
<1>2. /\ slot' = Placed(tok[p]) /\ UNCHANGED <<skips, dumps>>
      /\ filled' = (p # Loop /\ (filled \/ pc[Loop] = "due"))
      /\ pc'[p] = "idle" /\ Others(p)
  BY DoneStep DEF Install
<1>3. slot' \in Tokens /\ slot'.wanted
  BY <1>1, <1>2, PlacedToken
<1>4. TypeOK'
  <2>1. filled' \in BOOLEAN
    BY Zenon, <1>2
  <2> QED BY <1>2, <1>3, <2>1, DoneStep DEF Install, Inv, TypeOK, TokenOrNone
<1>5. ProbesLeft' /\ SlotIsWanted'
  BY <1>2, <1>3 DEF Inv, ProbesLeft, SlotIsWanted, Others
<1>6. ChosenWell'
  <2> SUFFICES ASSUME NEW q \in Rotators \ {p}, pc[q] = "install"
               PROVE  Chosen(q)'
    BY <1>2 DEF ChosenWell, Others
  <2>1. Chosen(q) /\ tok'[q] = tok[q] /\ via'[q] = via[q] /\ seen'[q] = seen[q]
    BY <1>2 DEF Inv, ChosenWell, Others
  <2> QED BY <2>1 DEF Chosen, Usable, NotNewer
<1>7. FoundStale' /\ BeganStale'
  BY <1>2 DEF Inv, FoundStale, BeganStale, Others, Rotators
<1> QED BY <1>4, <1>5, <1>6, <1>7 DEF Inv

LEMMA AbortKeeps == ASSUME Inv, NEW p \in Rotators, Abort(p) PROVE Inv'
BY DoneKeeps DEF Abort

LEMMA LineOfTokens == \A t \in TokenOrNone : Line(t) \in Seq(Tokens)
BY TokenAssumption DEF Line, TokenOrNone

LEMMA DumpKeeps ==
  ASSUME Inv, NEW ts \in Seq(Tokens), Dump(ts)
  PROVE  Inv'
<1>1. dumps' \in Seq(Tokens) /\ Len(dumps') <= MaxDumps
  BY DEF Dump, Inv, TypeOK
<1> QED BY <1>1, DumpsKeep DEF Dump

LEMMA ProxyKeeps == ASSUME Inv, Proxy PROVE Inv'
<1>1. ASSUME NEW t \in Given, Request(t)
      PROVE  Inv'
  <2>1. t \in TokenOrNone
    BY DEF Given, Inv, TypeOK, TokenOrNone
  <2>2. (IF slot = NoToken THEN t ELSE Placed(slot)) \in TokenOrNone
    BY <2>1, PlacedToken DEF Inv, TypeOK, TokenOrNone
  <2> DEFINE u == IF slot = NoToken THEN t ELSE Placed(slot)
  <2>3. Line(t) \in Seq(Tokens) /\ Line(u) \in Seq(Tokens)
    BY <2>1, <2>2, LineOfTokens
  <2>4. Dump(Line(t) \o Line(u))
    BY <1>1 DEF Request
  <2> HIDE DEF u
  <2>5. Line(t) \o Line(u) \in Seq(Tokens)
    BY <2>3
  <2> QED BY <2>4, <2>5, DumpKeeps
<1>2. ASSUME NEW t \in Issued \cup {NoToken}, Respond(t)
      PROVE  Inv'
  <2>1. Line(t) \in Seq(Tokens)
    BY LineOfTokens DEF Issued, TokenOrNone
  <2> QED BY <1>2, <2>1, DumpKeeps DEF Respond
<1>3. ASSUME Forget
      PROVE  Inv'
  <2>1. dumps' \in Seq(Tokens) /\ Len(dumps') <= MaxDumps
    BY <1>3 DEF Forget, Inv, TypeOK
  <2> QED BY <1>3, <2>1, DumpsKeep DEF Forget
<1> QED BY <1>1, <1>2, <1>3 DEF Proxy

LEMMA NextKeeps == Inv /\ [Next]_vars => Inv'
<1> SUFFICES ASSUME Inv, [Next]_vars PROVE Inv'
  OBVIOUS
<1>1. CASE UNCHANGED vars
  BY <1>1, StutterKeeps
<1>2. CASE Tick
  BY <1>2, TickKeeps
<1>3. CASE Proxy
  BY <1>3, ProxyKeeps
<1>4. ASSUME NEW p \in Rotators, Rotator(p)
      PROVE  Inv'
  BY <1>4, HuntKeeps, ScanKeeps, ReuseKeeps, AttemptKeeps, MissKeeps, InstallKeeps,
     AbortKeeps DEF Rotator
<1> QED BY <1>1, <1>2, <1>3, <1>4, LookKeeps DEF Next

\* In every state the slot and what each rotator holds are related as the steps of a hunt leave them.
THEOREM Invariance == Spec => []Inv
<1>1. Init => Inv
  BY InitInv
<1>2. Inv /\ [Next]_vars => Inv'
  BY NextKeeps
<1> QED BY <1>1, <1>2, PTL DEF Spec

-----------------------------------------------------------------------------
(* What follows from it.                                                   *)

\* The types of the state hold for any rotators, ages and budget.
THEOREM TypeCorrect == Spec => []TypeOK
<1>1. Inv => TypeOK
  BY DEF Inv
<1> QED BY <1>1, Invariance, PTL

\* What the proxy sends in the slot's place is of the wanted length.
THEOREM SlotWanted == Spec => []SlotIsWanted
<1>1. Inv => SlotIsWanted
  BY DEF Inv
<1> QED BY <1>1, Invariance, PTL

\* The freshest usable token is the one a scan gives, unless the cap of the
\* scan hides it (scan of tsscan.rs).
THEOREM FreshestFound == Spec => []FreshestUnlessCapped
<1>1. Inv => FreshestUnlessCapped
  BY FreshestInState DEF Inv
<1> QED BY <1>1, Invariance, PTL

\* No install puts an older or the same token back, unless another rotator has
\* filled the slot since or the probe's own scan found it (hunt of tsroll.py).
THEOREM NeverGoesBack == Spec => NeverBack
<1> DEFINE A == \A p \in Rotators :
                  Install(p) /\ via[p] # "reuse" /\ slot = seen[p]
                    => NewerThan(tok[p], slot) \/ tok[p].age = 0
<1>1. Inv /\ [Next]_vars => [A]_vars
  <2> SUFFICES ASSUME Inv, NEW p \in Rotators, Install(p), via[p] # "reuse",
                      slot = seen[p]
               PROVE  NewerThan(tok[p], slot) \/ tok[p].age = 0
    OBVIOUS
  <2>1. Chosen(p) /\ via[p] \in {"scan", "probe"}
    BY DEF Install, Inv, ChosenWell, TypeOK
  <2>2. CASE via[p] = "probe"
    BY <2>1, <2>2 DEF Chosen, NewerThan
  <2>3. CASE via[p] = "scan"
    <3>1. ~NotNewer(tok[p], slot) /\ tok[p] \in Tokens
      BY <2>1, <2>3 DEF Chosen
    <3>2. slot # NoToken => slot.age \in Int
      BY AgeOfToken DEF Inv, TypeOK, TokenOrNone
    <3>3. tok[p].age \in Int
      BY <3>1, AgeOfToken
    <3> QED BY <3>1, <3>2, <3>3 DEF NotNewer, NewerThan
  <2> QED BY <2>1, <2>2, <2>3
<1>2. Spec => [][A]_vars
  <2> HIDE DEF A
  <2> QED BY <1>1, Invariance, PTL DEF Spec
<1> QED BY <1>2 DEF NeverBack

\* The service does not even put one back when its probe reuses one: it began on
\* a token staler than any a scan takes, unless another rotator filled the slot
\* between its two looks (run_loop and hunt of tsroll.py).
THEOREM ServiceNeverGoesBack == Spec => ServiceNeverBack
<1> DEFINE A == Install(Loop) /\ slot = seen[Loop] /\ ~filled => NewerThan(tok[Loop], slot)
<1>1. Inv /\ [Next]_vars => [A]_vars
  <2> SUFFICES ASSUME Inv, Install(Loop), slot = seen[Loop], ~filled, slot # NoToken,
                      tok[Loop].date = "real"
               PROVE  tok[Loop].age < slot.age
    BY DEF NewerThan
  <2>1. Loop \in Rotators /\ pc[Loop] = "install"
    BY DEF Install, Rotators
  <2>2. Chosen(Loop) /\ via[Loop] \in {"scan", "reuse", "probe"} /\ slot \in Tokens
    BY <2>1 DEF Inv, ChosenWell, TypeOK, TokenOrNone
  <2>3. slot.age >= RefreshAfter
    BY <2>1 DEF Inv, BeganStale
  <2>4. tok[Loop].age <= Fresh
    BY <2>2 DEF Chosen, Usable
  <2>5. tok[Loop].age \in Nat /\ slot.age \in Int
    BY <2>2, AgeOfToken DEF Chosen
  <2> QED BY <2>3, <2>4, <2>5
<1>2. Spec => [][A]_vars
  <2> HIDE DEF A
  <2> QED BY <1>1, Invariance, PTL DEF Spec
<1> QED BY <1>2 DEF ServiceNeverBack
=============================================================================
