------------------------------ MODULE TeeProofs ------------------------------
(* Theorems about Tee, for any buffer and any response.                       *)
EXTENDS Tee, SequenceTheorems, TLAPS

-----------------------------------------------------------------------------
(* Runs of positions, and sequences cut in two.                               *)

LEMMA PositionsType ==
  ASSUME NEW a \in Nat, NEW b \in Nat, a <= b
  PROVE  /\ Positions(a, b) \in Seq(Nat)
         /\ Len(Positions(a, b)) = b - a
         /\ \A i \in 1 .. b - a : Positions(a, b)[i] = a + i
  <1>1. b - a \in Nat
    OBVIOUS
  <1>2. \A i \in 1 .. b - a : a + i \in Nat
    OBVIOUS
  <1>3. Positions(a, b) \in Seq(Nat)
    BY <1>1, <1>2, IsASeq DEF Positions
  <1> QED BY <1>1, <1>3, LenProperties DEF Positions

LEMMA PositionsJoin ==
  ASSUME NEW b \in Nat, NEW c \in Nat, b <= c
  PROVE  Positions(0, b) \o Positions(b, c) = Positions(0, c)
  <1> DEFINE s == Positions(0, b) \o Positions(b, c)
             t == Positions(0, c)
  <1>1. /\ s \in Seq(Nat) /\ Len(s) = c
        /\ \A i \in 1 .. c : s[i] = i
    <2>1. /\ Positions(0, b) \in Seq(Nat) /\ Len(Positions(0, b)) = b
          /\ \A i \in 1 .. b : Positions(0, b)[i] = i
      BY PositionsType
    <2>2. /\ Positions(b, c) \in Seq(Nat) /\ Len(Positions(b, c)) = c - b
          /\ \A i \in 1 .. c - b : Positions(b, c)[i] = b + i
      BY PositionsType
    <2>3. /\ s \in Seq(Nat) /\ Len(s) = b + (c - b)
          /\ \A i \in 1 .. b + (c - b) :
               s[i] = IF i <= b THEN Positions(0, b)[i] ELSE Positions(b, c)[i - b]
      BY <2>1, <2>2, ConcatProperties
    <2>4. ASSUME NEW i \in 1 .. c PROVE s[i] = i
      <3> HIDE DEF s
      <3>1. CASE i <= b
        BY <3>1, <2>1, <2>3
      <3>2. CASE i > b
        <4>1. i - b \in 1 .. c - b
          BY <3>2
        <4>2. s[i] = Positions(b, c)[i - b]
          BY <3>2, <2>3
        <4>3. Positions(b, c)[i - b] = b + (i - b)
          BY <4>1, <2>2
        <4> QED BY <4>2, <4>3
      <3> QED BY <3>1, <3>2
    <2> QED BY <2>3, <2>4
  <1>2. /\ t \in Seq(Nat) /\ Len(t) = c
        /\ \A i \in 1 .. c : t[i] = i
    BY PositionsType
  <1> HIDE DEF s, t
  <1>3. s = t
    BY <1>1, <1>2, SeqEqual
  <1> QED BY <1>3 DEF s, t

LEMMA NoPositions == Positions(0, 0) = << >>
  <1>1. Positions(0, 0) \in Seq(Nat) /\ Len(Positions(0, 0)) = 0
    BY PositionsType
  <1> QED BY <1>1, EmptySeq

LEMMA Cut ==
  ASSUME NEW S, NEW s \in Seq(S), NEW n \in 0 .. Len(s)
  PROVE  /\ Prefix(s, n) \in Seq(S) /\ Rest(s, n) \in Seq(S)
         /\ Len(Prefix(s, n)) = n
         /\ Prefix(s, n) \o Rest(s, n) = s
         /\ n = Len(s) => Prefix(s, n) = s /\ Rest(s, n) = << >>
  <1>1. \A i \in 1 .. Len(s) : s[i] \in S
    BY ElementOfSeq
  <1>2. Len(s) \in Nat
    BY LenProperties
  <1>3. Prefix(s, n) \in Seq(S) /\ Len(Prefix(s, n)) = n
    <2>1. \A i \in 1 .. n : s[i] \in S
      BY <1>1, <1>2
    <2> QED BY <1>2, <2>1, SubSeqProperties DEF Prefix
  <1>4. Rest(s, n) \in Seq(S)
    <2>1. \A i \in n + 1 .. Len(s) : s[i] \in S
      BY <1>1, <1>2
    <2> QED BY <1>2, <2>1, SubSeqProperties DEF Rest
  <1>5. Prefix(s, n) \o Rest(s, n) = s
    <2>1. SubSeq(s, 1, n) \o SubSeq(s, n + 1, Len(s)) = SubSeq(s, 1, Len(s))
      <3>1. 1 \in 1 .. Len(s) + 1 /\ n \in 1 - 1 .. Len(s) /\ Len(s) \in n .. Len(s)
        BY <1>2
      <3> QED BY <3>1, ConcatAdjacentSubSeq
    <2> QED BY <2>1, SubSeqFull DEF Prefix, Rest
  <1>6. n = Len(s) => Prefix(s, n) = s /\ Rest(s, n) = << >>
    BY <1>2, SubSeqFull, SubSeqEmpty DEF Prefix, Rest
  <1> QED BY <1>3, <1>4, <1>5, <1>6

-----------------------------------------------------------------------------
(* What each write to the recording does to the bytes kept, on disk or in the *)
(* buffer: some prefix of the chunk is added, or some of the end is lost.     *)

All == file \o buffer

\* A chunk c reaches the recording as far as its first m bytes.
Adds(c, m) == /\ All' = All \o Prefix(c, m)
              /\ opened /\ ~failed' => m = Len(c)
Extends(c) == \E m \in 0 .. Len(c) : Adds(c, m)

ByteTypes == file \in Seq(Nat) /\ buffer \in Seq(Nat)

\* Three sequences joined, from either side.
JoinLeft(s, t, u)  == (s \o t) \o u
JoinRight(s, t, u) == s \o (t \o u)

LEMMA Regroup ==
  \A S : \A s, t, u \in Seq(S) : JoinLeft(s, t, u) = JoinRight(s, t, u)
  <1>1. ASSUME NEW S, NEW s \in Seq(S), NEW t \in Seq(S), NEW u \in Seq(S)
        PROVE  JoinLeft(s, t, u) = JoinRight(s, t, u)
    BY ConcatAssociative DEF JoinLeft, JoinRight
  <1> QED BY <1>1, Zenon

LEMMA CutAll ==
  ASSUME ByteTypes, NEW n \in 0 .. Len(buffer)
  PROVE  (file \o Prefix(buffer, n)) \o Rest(buffer, n) = All
  <1> DEFINE p == Prefix(buffer, n)
             r == Rest(buffer, n)
  <1>1. p \in Seq(Nat) /\ r \in Seq(Nat) /\ file \in Seq(Nat)
    BY Cut DEF ByteTypes
  <1>2. p \o r = buffer
    BY Cut DEF ByteTypes
  <1> HIDE DEF p, r
  <1>3. JoinLeft(file, p, r) = JoinRight(file, p, r)
    BY <1>1, Regroup, Zenon
  <1>4. JoinRight(file, p, r) = All
    BY <1>2 DEF JoinRight, All
  <1>5. JoinLeft(file, p, r) = All
    BY <1>3, <1>4
  <1> QED BY <1>5 DEF JoinLeft, p, r

LEMMA FlushKeepsAll ==
  ASSUME ByteTypes, NEW n \in 0 .. Len(buffer), FlushBuffer(n)
  PROVE  ByteTypes' /\ All' = All
  <1>1. Prefix(buffer, n) \in Seq(Nat) /\ Rest(buffer, n) \in Seq(Nat)
    BY Cut DEF ByteTypes
  <1>2. ByteTypes'
    BY <1>1, ConcatProperties DEF ByteTypes, FlushBuffer
  <1>3. All' = (file \o Prefix(buffer, n)) \o Rest(buffer, n)
    BY DEF All, FlushBuffer
  <1> QED BY <1>2, <1>3, CutAll

\* A failure is never forgotten.
LEMMA FailedStays ==
  ASSUME failed \in BOOLEAN,
         \/ \E c \in Seq(Nat) : WriteChunk(c)
         \/ \E n \in Nat : FlushBuffer(n)
         \/ DropWriter
  PROVE  failed' \in BOOLEAN /\ (failed => failed')
  <1>1. \/ failed' = failed
        \/ \E k, n : failed' = (failed \/ Short(n, k))
    BY Zenon DEF WriteChunk, KeepInBuffer, FlushThenKeep, FlushThenWrite, FlushBuffer, DropWriter
  <1> QED BY <1>1, Zenon DEF Short

\* A write that is not known to have failed wrote everything.
LEMMA NoShort ==
  ASSUME NEW k \in Nat, NEW n \in 0 .. k, failed' = (failed \/ Short(n, k))
  PROVE  ~failed' => ~failed /\ n = k
  <1>1. Short(n, k) \/ n = k
    BY DEF Short
  <1>2. ~failed' => ~failed /\ ~Short(n, k)
    BY Zenon
  <1> QED BY <1>1, <1>2, Zenon

LEMMA NoChunkCut == ASSUME NEW S, NEW s \in Seq(S), NEW c PROVE s \o Prefix(c, 0) = s
  <1>1. Prefix(c, 0) = << >>
    BY SubSeqEmpty DEF Prefix
  <1> QED BY <1>1, ConcatEmptySeq

LEMMA WriteExtends ==
  ASSUME ByteTypes, NEW c \in Seq(Nat), WriteChunk(c)
  PROVE  ByteTypes' /\ Extends(c)
  <1>1. Len(c) \in Nat /\ Len(buffer) \in Nat /\ All \in Seq(Nat)
    BY LenProperties, ConcatProperties DEF ByteTypes, All
  <1>2. Prefix(c, Len(c)) = c
    BY <1>1, Cut
  <1>3. CASE ~opened
    <2>1. All' = All /\ ByteTypes'
      BY <1>3 DEF WriteChunk, All, ByteTypes
    <2>2. All \o Prefix(c, 0) = All
      BY <1>1, NoChunkCut
    <2>3. Adds(c, 0)
      BY <1>3, <2>1, <2>2 DEF Adds
    <2> QED BY <1>1, <2>1, <2>3 DEF Extends
  <1>4. CASE opened /\ KeepInBuffer(c)
    <2>1. buffer' = buffer \o c /\ file' = file
      BY <1>4 DEF KeepInBuffer
    <2>2. ByteTypes'
      BY <2>1, ConcatProperties DEF ByteTypes
    <2>3. file \o (buffer \o c) = (file \o buffer) \o c
      <3>1. JoinLeft(file, buffer, c) = JoinRight(file, buffer, c)
        BY Regroup, Zenon DEF ByteTypes
      <3> QED BY <3>1 DEF JoinLeft, JoinRight
    <2>4. All' = file \o (buffer \o c)
      BY <2>1 DEF All
    <2>5. All' = All \o Prefix(c, Len(c))
      BY <1>2, <2>3, <2>4 DEF All
    <2>6. Adds(c, Len(c))
      BY <2>5 DEF Adds
    <2> QED BY <1>1, <2>2, <2>6 DEF Extends
  <1>5. CASE opened /\ FlushThenKeep(c)
    <2>1. PICK n \in 0 .. Len(buffer) :
            /\ file' = file \o Prefix(buffer, n)
            /\ buffer' = Rest(buffer, n) \o (IF n = Len(buffer) THEN c ELSE << >>)
            /\ failed' = (failed \/ Short(n, Len(buffer)))
      BY <1>5 DEF FlushThenKeep
    <2>2. n \in 0 .. Len(buffer) /\ (~failed' => n = Len(buffer))
      BY <1>1, <2>1, NoShort
    <2> DEFINE p == Prefix(buffer, n)
               r == Rest(buffer, n)
    <2>3. /\ p \in Seq(Nat) /\ r \in Seq(Nat) /\ p \o r = buffer
          /\ n = Len(buffer) => p = buffer /\ r = << >>
      BY <2>2, Cut DEF ByteTypes
    <2>4. << >> \in Seq(Nat)
      BY EmptySeq
    <2> HIDE DEF p, r
    <2>5. CASE n = Len(buffer)
      <3>1. file' = file \o buffer /\ buffer' = << >> \o c
        BY <2>1, <2>3, <2>5 DEF p, r
      <3>2. << >> \o c = c
        BY ConcatEmptySeq
      <3>3. ByteTypes'
        BY <3>1, <3>2, ConcatProperties DEF ByteTypes
      <3>4. All' = (file \o buffer) \o c
        BY <3>1, <3>2 DEF All
      <3>5. All' = All \o Prefix(c, Len(c))
        BY <1>2, <3>4 DEF All
      <3>6. Adds(c, Len(c))
        BY <3>5 DEF Adds
      <3> QED BY <1>1, <3>3, <3>6 DEF Extends
    <2>6. CASE n # Len(buffer)
      <3>1. file' = file \o p /\ buffer' = r \o << >>
        BY <2>1, <2>6 DEF p, r
      <3>2. r \o << >> = r
        BY <2>3, ConcatEmptySeq
      <3>3. ByteTypes'
        BY <2>3, <3>1, <3>2, ConcatProperties DEF ByteTypes
      <3>4. (file \o p) \o r = All
        BY <2>2, CutAll DEF p, r
      <3>5. All' = (file \o p) \o r
        BY <3>1, <3>2 DEF All
      <3>6. All' = All
        BY <3>4, <3>5
      <3>7. All \o Prefix(c, 0) = All
        BY <1>1, NoChunkCut
      <3>8. failed'
        BY <2>2, <2>6
      <3>9. Adds(c, 0)
        BY <3>6, <3>7, <3>8, Zenon DEF Adds
      <3> QED BY <1>1, <3>3, <3>9 DEF Extends
    <2> QED BY <2>5, <2>6
  <1>6. CASE opened /\ FlushThenWrite(c)
    <2>1. PICK n \in 0 .. Len(buffer) :
            \E m \in IF n = Len(buffer) THEN 0 .. Len(c) ELSE {0} :
              /\ file' = file \o Prefix(buffer, n) \o Prefix(c, m)
              /\ buffer' = Rest(buffer, n)
              /\ failed' = (failed \/ Short(m, Len(c)))
      BY <1>6 DEF FlushThenWrite
    <2>2. PICK m \in IF n = Len(buffer) THEN 0 .. Len(c) ELSE {0} :
            /\ file' = file \o Prefix(buffer, n) \o Prefix(c, m)
            /\ buffer' = Rest(buffer, n)
            /\ failed' = (failed \/ Short(m, Len(c)))
      BY <2>1
    <2>3. n \in 0 .. Len(buffer)
      OBVIOUS
    <2>4. m \in 0 .. Len(c) /\ (~failed' => m = Len(c))
      <3>1. m \in 0 .. Len(c)
        BY <1>1, <2>2
      <3> QED BY <1>1, <2>2, <3>1, NoShort
    <2> DEFINE p == Prefix(buffer, n)
               r == Rest(buffer, n)
               q == Prefix(c, m)
    <2>5. /\ p \in Seq(Nat) /\ r \in Seq(Nat) /\ p \o r = buffer
          /\ n = Len(buffer) => p = buffer /\ r = << >>
      BY <2>3, Cut DEF ByteTypes
    <2>6. q \in Seq(Nat)
      BY <2>4, Cut
    <2>7. file' = (file \o p) \o q /\ buffer' = r
      BY <2>2
    <2> HIDE DEF p, r, q
    <2>8. file \o p \in Seq(Nat) /\ (file \o p) \o q \in Seq(Nat)
      BY <2>5, <2>6, ConcatProperties DEF ByteTypes
    <2>9. ByteTypes'
      BY <2>5, <2>7, <2>8 DEF ByteTypes
    <2>10. CASE n = Len(buffer)
      <3>1. file' = All \o q /\ buffer' = << >>
        BY <2>5, <2>7, <2>10 DEF All
      <3>2. All \o q \in Seq(Nat)
        BY <1>1, <2>6, ConcatProperties
      <3>3. (All \o q) \o << >> = All \o q
        BY <3>2, ConcatEmptySeq
      <3>4. All' = (All \o q) \o << >>
        BY <3>1 DEF All
      <3>5. All' = All \o Prefix(c, m)
        BY <3>3, <3>4 DEF q
      <3>6. Adds(c, m)
        BY <2>4, <2>10, <3>5 DEF Adds
      <3> QED BY <1>1, <2>4, <2>9, <3>6 DEF Extends
    <2>11. CASE n # Len(buffer)
      <3>1. m = 0
        BY <2>2, <2>11
      <3>2. (file \o p) \o q = file \o p
        BY <2>8, <3>1, NoChunkCut DEF q
      <3>3. (file \o p) \o r = All
        BY <2>3, CutAll DEF p, r
      <3>4. All' = (file \o p) \o r
        BY <2>7, <3>2 DEF All
      <3>5. All' = All
        BY <3>3, <3>4
      <3>6. All \o Prefix(c, 0) = All
        BY <1>1, NoChunkCut
      <3>7. ~failed' => 0 = Len(c)
        BY <2>4, <3>1
      <3>8. Adds(c, 0)
        BY <3>5, <3>6, <3>7, Zenon DEF Adds
      <3> QED BY <1>1, <2>9, <3>8 DEF Extends
    <2> QED BY <2>10, <2>11
  <1> QED BY <1>3, <1>4, <1>5, <1>6 DEF WriteChunk

-----------------------------------------------------------------------------
(* Types.                                                                     *)

LEMMA ChunkType ==
  ASSUME got \in Nat, NEW upto \in got + 1 .. MaxBytes
  PROVE  /\ upto \in Nat /\ got <= upto
         /\ Positions(got, upto) \in Seq(Nat)
         /\ Len(Positions(got, upto)) = upto - got
  <1>1. upto \in Nat /\ got <= upto
    BY TeeAssumption
  <1> QED BY <1>1, PositionsType

LEMMA TypeStep == TypeOK /\ [Next]_vars => TypeOK'
  <1> SUFFICES ASSUME TypeOK, [Next]_vars PROVE TypeOK'
    OBVIOUS
  <1> USE DEF TypeOK, Steps
  <1>0. ByteTypes
    BY DEF ByteTypes
  <1>1. CASE Chunk
    <2>1. PICK upto \in got + 1 .. MaxBytes :
            WriteChunk(Positions(got, upto)) /\ got' = upto
      BY <1>1 DEF Chunk
    <2>2. ByteTypes' /\ upto \in Nat
      BY <1>0, <2>1, ChunkType, WriteExtends
    <2>3. failed' \in BOOLEAN
      BY <2>1, ChunkType, FailedStays
    <2> QED BY <1>1, <2>1, <2>2, <2>3 DEF Chunk, ByteTypes
  <1>2. CASE Over("ended") \/ Over("failed")
    BY <1>2 DEF Over, StartFinish
  <1>3. CASE Release
    BY <1>3 DEF Release, StartFinish
  <1>4. CASE Flush
    <2>1. PICK n \in 0 .. Len(buffer) : FlushBuffer(n)
      BY <1>4 DEF Flush
    <2>2. ByteTypes'
      BY <1>0, <2>1, FlushKeepsAll
    <2>3. failed' \in BOOLEAN
      BY <2>1, FailedStays, LenProperties
    <2> QED BY <1>4, <2>2, <2>3 DEF Flush, FinishStep, ByteTypes
  <1>5. CASE Index
    <2>1. rows' \in Seq(Nat)
      <3>1. Append(rows, got) \in Seq(Nat)
        BY AppendProperties
      <3> QED BY <1>5, <3>1 DEF Index
    <2>2. missed' \subseteq Reports \cup {"spill"}
      BY <1>5 DEF Index, Passed, Reports
    <2> QED BY <1>5, <2>1, <2>2 DEF Index, FinishStep
  <1>6. CASE Summary \/ SessionEvent \/ Unspill
    <2>1. CASE Summary
      BY <2>1 DEF Summary, FinishStep, Passed, Reports
    <2>2. CASE SessionEvent
      <3>1. missed' \subseteq Reports \cup {"spill"}
        BY <2>2 DEF SessionEvent, Passed, Reports
      <3>2. events' \in Nat
        BY <2>2 DEF SessionEvent
      <3> QED BY <2>2, <3>1, <3>2 DEF SessionEvent, FinishStep
    <2>3. CASE Unspill
      BY <2>3 DEF Unspill, FinishStep
    <2> QED BY <1>6, <2>1, <2>2, <2>3
  <1>7. CASE DropWriter
    <2>1. PICK n \in 0 .. Len(buffer) :
            file' = file \o Prefix(buffer, n) /\ buffer' = << >>
      BY <1>7 DEF DropWriter
    <2>2. Prefix(buffer, n) \in Seq(Nat)
      BY <2>1, Cut
    <2>3. file' \in Seq(Nat) /\ buffer' \in Seq(Nat)
      BY <2>1, <2>2, ConcatProperties, EmptySeq
    <2>4. failed' \in BOOLEAN
      BY <1>7, FailedStays
    <2> QED BY <1>7, <2>3, <2>4 DEF DropWriter
  <1>8. CASE Die
    BY <1>8 DEF Die
  <1>9. CASE UNCHANGED vars
    BY <1>9 DEF vars
  <1> QED BY <1>1, <1>2, <1>3, <1>4, <1>5, <1>6, <1>7, <1>8, <1>9 DEF Next, Finish

\* The state of a tee has the types it should.
THEOREM TypeCorrect == Spec => []TypeOK
  <1>1. Init => TypeOK
    <2> SUFFICES ASSUME Init PROVE TypeOK
      OBVIOUS
    <2>1. opened \in BOOLEAN /\ failed \in BOOLEAN /\ spill \in BOOLEAN
      BY Zenon DEF Init
    <2>2. << >> \in Seq(Nat)
      BY EmptySeq
    <2> QED BY <2>1, <2>2 DEF Init, TypeOK, Steps
  <1> QED BY <1>1, TypeStep, PTL DEF Spec

-----------------------------------------------------------------------------
(* Every byte is in its place, and the index row comes after the bytes.       *)

\* Once finish is past its flush the buffer is empty; the row is only there
\* then.
Flushed == step \in {"index", "summary", "session", "unspill"} \/ rows # << >>

RInv == /\ ~failed => /\ opened
                      /\ All = Positions(0, got)
                      /\ Flushed => buffer = << >>
        /\ Flushed => finished
        /\ step # "none" => finished
        /\ finished => stream # "open"

LEMMA RInvStep ==
  ASSUME TypeOK, RInv, [Next]_vars
  PROVE  RInv'
  <1> USE DEF RInv
  <1>0. ByteTypes /\ got \in Nat /\ Len(buffer) \in Nat /\ failed \in BOOLEAN
    BY LenProperties DEF ByteTypes, TypeOK
  <1>1. CASE Chunk
    <2>1. PICK upto \in got + 1 .. MaxBytes :
            WriteChunk(Positions(got, upto)) /\ got' = upto
      BY <1>1 DEF Chunk
    <2> DEFINE c == Positions(got, upto)
    <2>2. upto \in Nat /\ got <= upto /\ c \in Seq(Nat) /\ Len(c) \in Nat
      BY <1>0, ChunkType
    <2>3. Extends(c) /\ (failed => failed')
      BY <1>0, <2>1, <2>2, WriteExtends, FailedStays
    <2>4. opened' = opened /\ step' = step /\ finished' = finished /\ stream' = stream
      BY <1>1 DEF Chunk
    <2>5. ASSUME ~failed' PROVE opened' /\ All' = Positions(0, got')
      <3>1. ~failed /\ opened
        BY <2>3, <2>5
      <3>2. All' = All \o Prefix(c, Len(c))
        <4> HIDE DEF c
        <4>1. PICK m \in 0 .. Len(c) : Adds(c, m)
          BY <2>3 DEF Extends
        <4> QED BY <2>5, <3>1, <4>1 DEF Adds
      <3>3. Prefix(c, Len(c)) = c
        <4> HIDE DEF c
        <4> QED BY <2>2, Cut
      <3>4. All' = Positions(0, got')
        BY <1>0, <2>1, <2>2, <3>1, <3>2, <3>3, PositionsJoin
      <3> QED BY <2>4, <3>1, <3>4
    <2>6. ~Flushed'
      BY <1>1 DEF Chunk, Idle, Flushed
    <2> QED BY <2>4, <2>5, <2>6
  <1>2. CASE Over("ended") \/ Over("failed")
    BY <1>2 DEF Over, StartFinish, Idle, Flushed, All
  <1>3. CASE Release
    BY <1>3 DEF Release, StartFinish, Flushed, All
  <1>4. CASE Flush
    <2>1. PICK n \in 0 .. Len(buffer) : FlushBuffer(n)
      BY <1>4 DEF Flush
    <2>2. All' = All /\ (failed => failed')
      BY <1>0, <2>1, FlushKeepsAll, FailedStays
    <2>3. ~failed' => buffer' = << >>
      <3>1. ~failed' => n = Len(buffer)
        BY <1>0, <2>1, NoShort DEF FlushBuffer
      <3>2. n = Len(buffer) => Rest(buffer, n) = << >>
        BY <1>0, Cut DEF ByteTypes
      <3> QED BY <2>1, <3>1, <3>2 DEF FlushBuffer
    <2>4. opened' = opened /\ got' = got /\ finished' = finished /\ stream' = stream
          /\ step = "flush" /\ step' = "index" /\ rows' = rows
      BY <1>4 DEF Flush, FinishStep
    <2> QED BY <2>2, <2>3, <2>4
  <1>5. CASE Index
    BY <1>5 DEF Index, FinishStep, Flushed, All
  <1>6. CASE Summary \/ SessionEvent \/ Unspill
    BY <1>6 DEF Summary, SessionEvent, Unspill, FinishStep, Flushed, All
  <1>7. CASE DropWriter
    <2>1. PICK n \in 0 .. Len(buffer) :
            /\ file' = file \o Prefix(buffer, n) /\ buffer' = << >>
            /\ failed' = (failed \/ Short(n, Len(buffer)))
      BY <1>7 DEF DropWriter
    <2>2. ~failed' => ~failed /\ n = Len(buffer)
      BY <1>0, <2>1, NoShort
    <2>3. n = Len(buffer) => Prefix(buffer, n) = buffer
      BY <1>0, Cut DEF ByteTypes
    <2>4. ~failed' => file' = All
      BY <2>1, <2>2, <2>3 DEF All
    <2>5. All \o << >> = All
      BY <1>0, ConcatProperties, ConcatEmptySeq DEF ByteTypes, All
    <2>6. ~failed' => All' = All
      BY <2>1, <2>4, <2>5 DEF All
    <2>7. opened' = opened /\ got' = got /\ finished' = finished /\ stream' = stream
          /\ step' = step /\ rows' = rows
      BY <1>7 DEF DropWriter
    <2> QED BY <2>1, <2>2, <2>6, <2>7 DEF Flushed
  <1>8. CASE Die
    BY <1>8 DEF Die, Flushed, All
  <1>9. CASE UNCHANGED vars
    BY <1>9 DEF vars, Flushed, All
  <1> QED BY <1>1, <1>2, <1>3, <1>4, <1>5, <1>6, <1>7, <1>8, <1>9 DEF Next, Finish

LEMMA RInvInit == Init => RInv
  <1>1. << >> \o << >> = << >>
    BY EmptySeq, ConcatEmptySeq
  <1> QED BY <1>1, NoPositions DEF Init, RInv, All, Flushed

\* While no write has failed, every byte handed to the client is in the
\* recording or in its buffer, in its place.
THEOREM RecordedCorrect == Spec => []Recorded
  <1>1. RInv => Recorded
    BY DEF RInv, Recorded, All
  <1>2. TypeOK /\ RInv /\ [Next]_vars => RInv'
    BY RInvStep
  <1> QED BY <1>1, <1>2, RInvInit, TypeCorrect, PTL DEF Spec

\* An index row is never ahead of the recording it names, also when the
\* process dies between any two steps.
THEOREM RowAfterFileCorrect == Spec => []RowAfterFile
  <1>1. TypeOK /\ RInv => RowAfterFile
    <2>1. file \in Seq(Nat) /\ buffer = << >> => file \o buffer = file
      BY ConcatEmptySeq
    <2> QED BY <2>1 DEF TypeOK, RInv, RowAfterFile, All, Flushed
  <1>2. TypeOK /\ RInv /\ [Next]_vars => RInv'
    BY RInvStep
  <1> QED BY <1>1, <1>2, RInvInit, TypeCorrect, PTL DEF Spec

-----------------------------------------------------------------------------
(* Also when writes fail, what is kept is kept in order.                      *)

Ascending(s)  == \A i, j \in 1 .. Len(s) : i < j => s[i] < s[j]
UpTo(s, n)    == \A i \in 1 .. Len(s) : s[i] \in 1 .. n
Sorted(s, n)  == s \in Seq(Nat) /\ Ascending(s) /\ UpTo(s, n)

OInv == Sorted(All, got)

LEMMA PrefixSorted ==
  ASSUME NEW s \in Seq(Nat), NEW t \in Seq(Nat), NEW n \in Nat, Sorted(s \o t, n)
  PROVE  Sorted(s, n)
  <1>1. /\ Len(s) \in Nat /\ Len(t) \in Nat
        /\ Len(s \o t) = Len(s) + Len(t)
        /\ \A i \in 1 .. Len(s) : i \in 1 .. Len(s) + Len(t) /\ (s \o t)[i] = s[i]
    BY LenProperties, ConcatProperties
  <1> QED BY <1>1 DEF Sorted, Ascending, UpTo

\* Later positions may be added to earlier ones.
LEMMA AddSorted ==
  ASSUME NEW n \in Nat, NEW upto \in Nat, n <= upto, NEW s, Sorted(s, n),
         NEW m \in 0 .. upto - n
  PROVE  Sorted(s \o Prefix(Positions(n, upto), m), upto)
  <1> DEFINE c == Positions(n, upto)
             p == Prefix(c, m)
             u == s \o p
  <1>1. /\ c \in Seq(Nat) /\ Len(c) = upto - n
        /\ \A i \in 1 .. upto - n : c[i] = n + i
    BY PositionsType
  <1>2. p \in Seq(Nat) /\ Len(p) = m /\ \A i \in 1 .. m : p[i] = n + i
    <2> HIDE DEF c
    <2>1. /\ SubSeq(c, 1, m) \in Seq(Nat)
          /\ Len(SubSeq(c, 1, m)) = IF 1 <= m THEN m - 1 + 1 ELSE 0
          /\ \A i \in 1 .. m - 1 + 1 : SubSeq(c, 1, m)[i] = c[1 + i - 1]
      <3>1. \A i \in 1 .. m : c[i] \in Nat
        BY <1>1
      <3> QED BY <3>1, SubSeqProperties
    <2>2. \A i \in 1 .. m : SubSeq(c, 1, m)[i] = c[i] /\ i \in 1 .. upto - n
      BY <2>1
    <2>3. Len(SubSeq(c, 1, m)) = m
      BY <2>1
    <2> QED BY <1>1, <2>1, <2>2, <2>3 DEF Prefix
  <1> HIDE DEF c, p
  <1>3. s \in Seq(Nat) /\ Len(s) \in Nat
    BY LenProperties DEF Sorted
  <1>4. /\ u \in Seq(Nat) /\ Len(u) = Len(s) + m
        /\ \A i \in 1 .. Len(s) + m : u[i] = IF i <= Len(s) THEN s[i] ELSE p[i - Len(s)]
    BY <1>2, <1>3, ConcatProperties
  <1> HIDE DEF u
  <1>5. \A i \in 1 .. Len(s) + m :
          IF i <= Len(s) THEN i \in 1 .. Len(s) /\ u[i] = s[i]
                         ELSE u[i] = n + (i - Len(s))
    <2>1. \A i \in 1 .. Len(s) + m : i > Len(s) => i - Len(s) \in 1 .. m
      BY <1>3
    <2> QED BY <1>2, <1>3, <1>4, <2>1
  <1>6. UpTo(u, upto)
    <2> SUFFICES ASSUME NEW i \in 1 .. Len(u) PROVE u[i] \in 1 .. upto
      BY DEF UpTo
    <2>1. CASE i <= Len(s)
      <3>1. u[i] \in 1 .. n
        BY <1>3, <1>4, <1>5, <2>1 DEF Sorted, UpTo
      <3> QED BY <3>1
    <2>2. CASE i > Len(s)
      BY <1>3, <1>4, <1>5, <2>2
    <2> QED BY <1>3, <1>4, <2>1, <2>2
  <1>7. Ascending(u)
    <2> SUFFICES ASSUME NEW i \in 1 .. Len(u), NEW j \in 1 .. Len(u), i < j
                 PROVE  u[i] < u[j]
      BY DEF Ascending
    <2>1. CASE j <= Len(s)
      <3>1. /\ i \in 1 .. Len(s) + m /\ j \in 1 .. Len(s) + m
            /\ i \in 1 .. Len(s) /\ j \in 1 .. Len(s) /\ i <= Len(s)
        BY <1>3, <1>4, <2>1
      <3>2. u[i] = s[i] /\ u[j] = s[j]
        BY <1>5, <2>1, <3>1
      <3>3. s[i] < s[j]
        BY <3>1 DEF Sorted, Ascending
      <3> QED BY <3>2, <3>3
    <2>2. CASE i <= Len(s) /\ j > Len(s)
      <3>1. u[i] \in 1 .. n
        BY <1>3, <1>4, <1>5, <2>2 DEF Sorted, UpTo
      <3>2. u[j] = n + (j - Len(s))
        BY <1>3, <1>4, <1>5, <2>2
      <3> QED BY <1>3, <2>2, <3>1, <3>2
    <2>3. CASE i > Len(s)
      BY <1>3, <1>4, <1>5, <2>3
    <2> QED BY <1>3, <1>4, <2>1, <2>2, <2>3
  <1> QED BY <1>4, <1>6, <1>7 DEF Sorted, u, p, c

LEMMA OInvStep ==
  ASSUME TypeOK, OInv, [Next]_vars
  PROVE  OInv'
  <1>0. ByteTypes /\ got \in Nat /\ Len(buffer) \in Nat
    BY LenProperties DEF ByteTypes, TypeOK
  <1>1. CASE Chunk
    <2>1. PICK upto \in got + 1 .. MaxBytes :
            WriteChunk(Positions(got, upto)) /\ got' = upto
      BY <1>1 DEF Chunk
    <2>2. upto \in Nat /\ got <= upto
          /\ Positions(got, upto) \in Seq(Nat) /\ Len(Positions(got, upto)) = upto - got
      BY <1>0, ChunkType
    <2>3. PICK m \in 0 .. upto - got : All' = All \o Prefix(Positions(got, upto), m)
      BY <1>0, <2>1, <2>2, WriteExtends DEF Extends, Adds
    <2> QED BY <1>0, <2>1, <2>2, <2>3, AddSorted DEF OInv
  <1>2. CASE Flush
    <2>1. PICK n \in 0 .. Len(buffer) : FlushBuffer(n)
      BY <1>2 DEF Flush
    <2>2. All' = All /\ got' = got
      BY <1>0, <1>2, <2>1, FlushKeepsAll DEF Flush
    <2> QED BY <2>2 DEF OInv
  <1>3. CASE DropWriter
    <2>1. PICK n \in 0 .. Len(buffer) :
            file' = file \o Prefix(buffer, n) /\ buffer' = << >> /\ got' = got
      BY <1>3 DEF DropWriter
    <2> DEFINE p == Prefix(buffer, n)
               r == Rest(buffer, n)
    <2>2. p \in Seq(Nat) /\ r \in Seq(Nat) /\ (file \o p) \o r = All
      BY <1>0, Cut, CutAll DEF ByteTypes
    <2> HIDE DEF p, r
    <2>3. file \o p \in Seq(Nat)
      BY <1>0, <2>2, ConcatProperties DEF ByteTypes
    <2>4. Sorted(file \o p, got)
      BY <1>0, <2>2, <2>3, PrefixSorted DEF OInv
    <2>5. All' = file \o p
      BY <2>1, <2>3, ConcatEmptySeq DEF All, p
    <2> QED BY <2>1, <2>4, <2>5 DEF OInv
  <1>4. CASE \/ Over("ended") \/ Over("failed") \/ Release \/ Die
             \/ Index \/ Summary \/ SessionEvent \/ Unspill \/ UNCHANGED vars
    <2>1. UNCHANGED <<file, buffer, got>>
      BY <1>4 DEF Over, Release, Die, Index, Summary, SessionEvent, Unspill, vars
    <2> QED BY <2>1 DEF OInv, All
  <1> QED BY <1>1, <1>2, <1>3, <1>4 DEF Next, Finish

\* Whatever fails, and whenever the process dies, a recording holds no byte
\* twice and none before an earlier one (Sink::write_chunk and the drops).
THEOREM OrderKept == Spec => []InOrder
  <1>1. Init => OInv
    <2> SUFFICES ASSUME Init PROVE OInv
      OBVIOUS
    <2>1. All = << >>
      BY EmptySeq, ConcatEmptySeq DEF Init, All
    <2>2. << >> \in Seq(Nat) /\ 1 .. Len(<< >>) = {}
      BY EmptySeq
    <2>3. Sorted(<< >>, got)
      BY <2>2 DEF Sorted, Ascending, UpTo
    <2> QED BY <2>1, <2>3 DEF OInv
  <1>2. TypeOK /\ OInv => InOrder
    <2> SUFFICES ASSUME TypeOK, OInv PROVE InOrder
      OBVIOUS
    <2>1. Sorted(file, got)
      BY PrefixSorted DEF TypeOK, OInv, All
    <2> QED BY <2>1 DEF Sorted, Ascending, InOrder
  <1>3. TypeOK /\ OInv /\ [Next]_vars => OInv'
    BY OInvStep
  <1> QED BY <1>1, <1>2, <1>3, TypeCorrect, PTL DEF Spec

-----------------------------------------------------------------------------
(* One row.                                                                   *)

PInv == /\ step \in {"flush", "index"} => rows = << >>
        /\ ~finished => rows = << >> /\ step = "none"
        /\ finished => stream # "open"

LEMMA PInvStep == TypeOK /\ PInv /\ [Next]_vars => PInv'
  <1> SUFFICES ASSUME TypeOK, PInv, [Next]_vars PROVE PInv'
    OBVIOUS
  <1> USE DEF PInv, TypeOK, Steps
  <1>1. CASE Chunk
    BY <1>1 DEF Chunk, Idle
  <1>2. CASE Over("ended") \/ Over("failed")
    BY <1>2 DEF Over, StartFinish, Idle
  <1>3. CASE Release
    BY <1>3 DEF Release, StartFinish
  <1>4. CASE Flush \/ Index \/ Summary \/ SessionEvent \/ Unspill
    BY <1>4 DEF Flush, Index, Summary, SessionEvent, Unspill, FinishStep
  <1>5. CASE DropWriter \/ Die
    BY <1>5 DEF DropWriter, Die
  <1>6. CASE UNCHANGED vars
    BY <1>6 DEF vars
  <1> QED BY <1>1, <1>2, <1>3, <1>4, <1>5, <1>6 DEF Next, Finish

LEMMA PromiseStep ==
  ASSUME TypeOK, PInv, [Next]_vars
  PROVE  [Promise!Next]_(Promise!vars)
  <1> USE DEF Promise!vars
  <1>1. ASSUME Chunk PROVE Promise!Hand
    BY <1>1 DEF Chunk, Idle, Promise!Hand
  <1>2. ASSUME Over("ended") \/ Over("failed") PROVE Promise!End
    BY <1>2 DEF Over, Idle, Promise!End
  <1>3. ASSUME Release, stream = "open" PROVE Promise!End
    BY <1>3 DEF Release, Promise!End
  <1>4. ASSUME Release, stream # "open" PROVE UNCHANGED Promise!vars
    BY <1>4 DEF Release
  <1>5. ASSUME Index PROVE Promise!Report \/ UNCHANGED Promise!vars
    <2>1. rows = << >> /\ finished /\ stream # "open"
      BY <1>5 DEF Index, FinishStep, PInv, TypeOK
    <2>2. rows' = <<got>> \/ rows' = rows
      BY <1>5, <2>1 DEF Index, TypeOK
    <2> QED BY <1>5, <2>1, <2>2 DEF Index, Promise!Report
  <1>6. ASSUME Flush \/ Summary \/ SessionEvent \/ Unspill \/ DropWriter \/ Die
        PROVE  UNCHANGED Promise!vars
    BY <1>6 DEF Flush, Summary, SessionEvent, Unspill, DropWriter, Die
  <1>7. ASSUME UNCHANGED vars PROVE UNCHANGED Promise!vars
    BY <1>7 DEF vars
  <1> QED BY <1>1, <1>2, <1>3, <1>4, <1>5, <1>6, <1>7 DEF Next, Finish, Promise!Next

\* Whoever ends a response, and whether or not the disk fails or the process
\* dies: the exchange has at most one index row, written when the stream is
\* over, and it counts every byte the client was handed.
THEOREM PromiseKept == Spec => KeepsPromise
  <1>1. Init => Promise!Init /\ PInv
    BY DEF Init, Promise!Init, PInv
  <1>2. TypeOK /\ PInv /\ [Next]_vars => [Promise!Next]_(Promise!vars)
    BY PromiseStep
  <1> QED BY <1>1, <1>2, PInvStep, TypeCorrect, PTL
          DEF Spec, KeepsPromise, Promise!Spec

-----------------------------------------------------------------------------
(* The spilled body goes last.                                                *)

\* What is told and what is not when finish is at each of its steps.
Told(r)   == r \in due => Times(r) = IF r \in missed THEN 0 ELSE 1
Untold(r) == Times(r) = 0 /\ r \notin missed

SInv == /\ ~finished => step = "none"
        /\ ~finished \/ step \in {"flush", "index"} =>
             Untold("index") /\ Untold("summary") /\ Untold("session")
        /\ step = "summary" => Told("index") /\ Untold("summary") /\ Untold("session")
        /\ step = "session" => Told("index") /\ Told("summary") /\ Untold("session")
        /\ step = "unspill" => Told("index") /\ Told("summary") /\ Told("session")

LEMMA SInvStep == TypeOK /\ SInv /\ [Next]_vars => SInv'
  <1> SUFFICES ASSUME TypeOK, SInv, [Next]_vars PROVE SInv'
    OBVIOUS
  <1> USE DEF SInv, Told, Untold, Times
  <1>1. CASE Chunk
    BY <1>1 DEF Chunk
  <1>2. CASE Over("ended") \/ Over("failed")
    BY <1>2 DEF Over, StartFinish
  <1>3. CASE Release
    BY <1>3 DEF Release, StartFinish
  <1>4. CASE Flush
    BY <1>4 DEF Flush, FinishStep
  <1>5. CASE Index
    <2>1. /\ step = "index" /\ step' = "summary" /\ finished' = finished
          /\ summary' = summary /\ events' = events /\ due' = due
          /\ \/ rows' = Append(rows, got) /\ missed' = missed
             \/ /\ rows' = rows
                /\ missed' = IF "index" \in due THEN missed \cup {"index"} ELSE missed
      BY <1>5 DEF Index, FinishStep, Passed
    <2>2. Len(rows) = 0 /\ (rows' = Append(rows, got) => Len(rows') = 1)
      <3>1. rows \in Seq(Nat) /\ got \in Nat
        BY DEF TypeOK
      <3>2. rows' = Append(rows, got) => Len(rows') = Len(rows) + 1
        BY <3>1, AppendProperties
      <3> QED BY <2>1, <3>2
    <2> QED BY <2>1, <2>2
  <1>6. CASE Summary
    BY <1>6 DEF Summary, FinishStep, Passed
  <1>7. CASE SessionEvent
    BY <1>7 DEF SessionEvent, FinishStep, Passed
  <1>8. CASE Unspill
    BY <1>8 DEF Unspill, FinishStep
  <1>9. CASE DropWriter \/ Die \/ UNCHANGED vars
    BY <1>9 DEF DropWriter, Die, vars
  <1> QED BY <1>1, <1>2, <1>3, <1>4, <1>5, <1>6, <1>7, <1>8, <1>9 DEF Next, Finish

\* The spilled body is removed only after the row, the summary and the event of
\* its exchange were written, each once, or failed (Sink::finish).
THEOREM SpillLast == Spec => SpillGoesLast
  <1>1. Init => SInv
    <2> SUFFICES ASSUME Init PROVE SInv
      OBVIOUS
    <2>1. rows = << >> /\ ~summary /\ events = 0 /\ missed = {} /\ step = "none"
      BY DEF Init
    <2> QED BY <2>1 DEF SInv, Untold, Times
  <1> DEFINE A == spill' # spill => AllTold
  <1>2. TypeOK /\ SInv /\ [Next]_vars => [A]_vars
    <2> SUFFICES ASSUME TypeOK, SInv, Next, spill' # spill
                 PROVE  AllTold
      OBVIOUS
    <2>1. Unspill
      BY DEF Next, Finish, Chunk, Over, Release, Flush, Index, Summary, SessionEvent,
             DropWriter, Die
    <2>2. \A r \in Reports : Told(r)
      BY <2>1 DEF Unspill, FinishStep, SInv, Reports
    <2> QED BY <2>2 DEF AllTold, Told, TypeOK
  <1>3. Spec => [][A]_vars
    <2> HIDE DEF A
    <2> QED BY <1>1, <1>2, SInvStep, TypeCorrect, PTL DEF Spec
  <1> QED BY <1>3 DEF SpillGoesLast

=============================================================================
