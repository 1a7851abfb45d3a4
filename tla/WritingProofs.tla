--------------------------- MODULE WritingProofs ---------------------------
(***************************************************************************)
(* Theorems about what reaches a file while it is written: the spilled     *)
(* body of a request (BodyRead), for any frames, any limit and any policy, *)
(* and the rows of a JSON-lines file (JsonLines), for any number of        *)
(* writers, rows and pieces.                                               *)
(***************************************************************************)
EXTENDS BodyRead, JsonLines, SequenceTheorems, TLAPS

-----------------------------------------------------------------------------
(* BodyRead: types.                                                          *)

LEMMA TakeType ==
  ASSUME NEW S, NEW s \in Seq(S), NEW n \in 0 .. Len(s)
  PROVE  SubSeq(s, 1, n) \in Seq(S) /\ Len(SubSeq(s, 1, n)) = n
  <1>1. \A i \in 1 .. n : s[i] \in S
    BY ElementOfSeq
  <1> QED BY <1>1, SubSeqProperties

LEMMA FrameType == ASSUME NEW c \in Chunks PROVE c \in Seq(Bytes)
  BY BodyAssumption

LEMMA TypeStep == TypeOK /\ [Next]_vars => TypeOK'
  <1> SUFFICES ASSUME TypeOK, [Next]_vars PROVE TypeOK'
    OBVIOUS
  <1> USE DEF TypeOK, Phases
  <1>1. ASSUME NEW c \in Chunks, Buffer(c) PROVE TypeOK'
    BY <1>1, FrameType, ConcatProperties DEF Buffer, Arrives
  <1>2. ASSUME NEW c \in Chunks, Reject(c) PROVE TypeOK'
    BY <1>2, FrameType, ConcatProperties DEF Reject, Arrives
  <1>3. ASSUME NEW c \in Chunks, StartSpill(c) PROVE TypeOK'
    BY <1>3, FrameType, ConcatProperties, EmptySeq DEF StartSpill, Arrives
  <1>4. ASSUME NEW c \in Chunks, CreateFails(c) PROVE TypeOK'
    BY <1>4, FrameType, ConcatProperties DEF CreateFails, Arrives
  <1>5. ASSUME NEW c \in Chunks, SpillMore(c) PROVE TypeOK'
    BY <1>5, FrameType, ConcatProperties DEF SpillMore, Arrives
  <1>6. ASSUME NEW c \in Chunks, SpillFails(c) PROVE TypeOK'
    BY <1>6, FrameType, ConcatProperties DEF SpillFails, Arrives
  <1>7. CASE OpenSpill
    <2>1. buf' \in Seq(Bytes)
      <3>1. Len(buf) > HeadKeep => SubSeq(buf, 1, HeadKeep) \in Seq(Bytes)
        BY TakeType, BodyAssumption, LenProperties
      <3> QED BY <1>7, <3>1 DEF OpenSpill
    <2> QED BY <1>7, <2>1, EmptySeq DEF OpenSpill
  <1>8. CASE OpenFails
    BY <1>8 DEF OpenFails
  <1>9. CASE DiskWrites
    BY <1>9, ConcatProperties, EmptySeq DEF DiskWrites
  <1>10. CASE DiskFails
    <2>1. PICK n \in 0 .. Len(inflight) - 1 : disk' = disk \o SubSeq(inflight, 1, n)
      BY <1>10 DEF DiskFails
    <2>2. SubSeq(inflight, 1, n) \in Seq(Bytes)
      BY <2>1, TakeType, LenProperties
    <2>3. disk' \in Seq(Bytes)
      BY <2>1, <2>2, ConcatProperties
    <2> QED BY <1>10, <2>3, EmptySeq DEF DiskFails
  <1>11. CASE EndInMemory \/ EndSpilling \/ Flush
    BY <1>11 DEF EndInMemory, EndSpilling, Flush
  <1>12. CASE ReadFails \/ DropFuture
    BY <1>12 DEF ReadFails, DropFuture
  <1>13. CASE UNCHANGED vars
    BY <1>13 DEF vars
  <1> QED BY <1>1, <1>2, <1>3, <1>4, <1>5, <1>6, <1>7, <1>8, <1>9, <1>10,
             <1>11, <1>12, <1>13 DEF Next

\* The state of a read has the types it should, for every body and limit.
THEOREM TypeCorrect == Spec => []TypeOK
  <1>1. Init => TypeOK
    BY EmptySeq, BodyAssumption DEF Init, TypeOK, Phases
  <1> QED BY <1>1, TypeStep, PTL DEF Spec

-----------------------------------------------------------------------------
(* Memory: what is kept of a body, and that it is the body's start.          *)

\* The limit holds before every frame, so it is the frame that crosses that
\* is not buffered; from then on only the truncated head is kept.
LEMMA MemoryStep == TypeOK /\ MemoryBounded /\ [Next]_vars => MemoryBounded'
  <1> SUFFICES ASSUME TypeOK, MemoryBounded, [Next]_vars PROVE MemoryBounded'
    OBVIOUS
  <1> USE DEF MemoryBounded
  <1>0. Len(buf) \in Nat /\ Limit \in Nat /\ HeadKeep \in Nat
    BY LenProperties, BodyAssumption DEF TypeOK
  <1>1. ASSUME NEW c \in Chunks, Buffer(c) PROVE MemoryBounded'
    <2>1. Len(buf \o c) = Len(buf) + Len(c)
      BY FrameType, ConcatProperties DEF TypeOK
    <2>2. Len(c) \in Nat
      BY FrameType, LenProperties
    <2> QED BY <1>0, <1>1, <2>1, <2>2 DEF Buffer, Crosses
  <1>2. CASE OpenSpill
    <2>1. Len(buf) > HeadKeep => Len(SubSeq(buf, 1, HeadKeep)) = HeadKeep
      BY <1>0, TakeType DEF TypeOK
    <2> QED BY <1>0, <1>2, <2>1 DEF OpenSpill
  <1>3. ASSUME NEW c \in Chunks,
               Reject(c) \/ StartSpill(c) \/ CreateFails(c) \/ SpillMore(c) \/ SpillFails(c)
        PROVE  MemoryBounded'
    BY <1>3 DEF Reject, StartSpill, CreateFails, SpillMore, SpillFails
  <1>4. CASE OpenFails \/ DiskWrites \/ DiskFails
    BY <1>4 DEF OpenFails, DiskWrites, DiskFails
  <1>5. CASE EndInMemory \/ EndSpilling \/ Flush \/ ReadFails \/ DropFuture
    BY <1>5 DEF EndInMemory, EndSpilling, Flush, ReadFails, DropFuture
  <1>6. CASE UNCHANGED vars
    BY <1>6 DEF vars
  <1> QED BY <1>1, <1>2, <1>3, <1>4, <1>5, <1>6 DEF Next

\* No body, however long, costs more memory than the limit, nor more than
\* HEAD_KEEP once its file is open.
THEOREM MemoryCorrect == Spec => []MemoryBounded
  <1>1. Init => MemoryBounded
    BY BodyAssumption, EmptySeq DEF Init, MemoryBounded
  <1> QED BY <1>1, MemoryStep, TypeCorrect, PTL DEF Spec

\* A prefix stays a prefix when the sequence grows.
LEMMA PrefixOfLonger ==
  ASSUME NEW S, NEW s \in Seq(S), NEW t \in Seq(S), NEW n \in 0 .. Len(s)
  PROVE  SubSeq(s \o t, 1, n) = SubSeq(s, 1, n)
  <1>1. CASE n = 0
    BY <1>1, SubSeqEmpty
  <1>2. CASE n > 0
    <2>1. 1 \in 1 .. Len(s) /\ n \in 1 .. Len(s)
      BY <1>2, LenProperties
    <2> QED BY <2>1, SubSeqOfConcat1
  <1> QED BY <1>1, <1>2

\* A prefix of a prefix is a prefix.
LEMMA PrefixOfPrefix ==
  ASSUME NEW S, NEW s \in Seq(S), NEW m \in 0 .. Len(s), NEW n \in 0 .. m
  PROVE  SubSeq(SubSeq(s, 1, m), 1, n) = SubSeq(s, 1, n)
  <1>1. CASE n = 0
    BY <1>1, SubSeqEmpty
  <1>2. CASE n > 0
    <2>1. 1 \in 1 .. Len(s) /\ m \in 1 .. Len(s)
      BY <1>2, LenProperties
    <2>2. 1 \in 1 .. m - 1 + 1 /\ n \in 1 .. m - 1 + 1
      BY <1>2
    <2>3. SubSeq(SubSeq(s, 1, m), 1, n) = SubSeq(s, 1 + 1 - 1, 1 + n - 1)
      BY <2>1, <2>2, SubSeqOfSubSeq
    <2> QED BY <2>3
  <1> QED BY <1>1, <1>2

\* While reading, the buffer is everything received; HeadIsPrefix alone is
\* not inductive, for Buffer appends a frame to it.
BufferWhole == phase = "reading" => buf = received

LEMMA BufferWholeStep == TypeOK /\ BufferWhole /\ [Next]_vars => BufferWhole'
  <1> SUFFICES ASSUME TypeOK, BufferWhole, [Next]_vars PROVE BufferWhole'
    OBVIOUS
  <1> USE DEF BufferWhole
  <1>1. ASSUME NEW c \in Chunks,
               \/ Buffer(c) \/ Reject(c) \/ StartSpill(c) \/ CreateFails(c)
               \/ SpillMore(c) \/ SpillFails(c)
        PROVE  BufferWhole'
    BY <1>1 DEF Buffer, Reject, StartSpill, CreateFails, SpillMore, SpillFails, Arrives
  <1>2. CASE OpenSpill \/ OpenFails \/ DiskWrites \/ DiskFails
    BY <1>2 DEF OpenSpill, OpenFails, DiskWrites, DiskFails
  <1>3. CASE EndInMemory \/ EndSpilling \/ Flush \/ ReadFails \/ DropFuture
    BY <1>3 DEF EndInMemory, EndSpilling, Flush, ReadFails, DropFuture
  <1>4. CASE UNCHANGED vars
    BY <1>4 DEF vars
  <1> QED BY <1>1, <1>2, <1>3, <1>4 DEF Next

LEMMA HeadStep ==
  TypeOK /\ BufferWhole /\ HeadIsPrefix /\ [Next]_vars => HeadIsPrefix'
  <1> SUFFICES ASSUME TypeOK, BufferWhole, HeadIsPrefix, [Next]_vars
               PROVE  HeadIsPrefix'
    OBVIOUS
  <1> USE DEF HeadIsPrefix
  <1>0. Len(buf) \in Nat /\ Len(received) \in Nat /\ HeadKeep \in Nat
    BY LenProperties, BodyAssumption DEF TypeOK
  <1>1. ASSUME NEW c \in Chunks, Buffer(c) PROVE HeadIsPrefix'
    <2>1. buf' = received' /\ received' \in Seq(Bytes)
      BY <1>1, FrameType, ConcatProperties DEF Buffer, Arrives, BufferWhole, TypeOK
    <2>2. SubSeq(received', 1, Len(received')) = received' /\ Len(received') \in Nat
      BY <2>1, SubSeqFull, LenProperties
    <2> QED BY <2>1, <2>2
  <1>2. ASSUME NEW c \in Chunks, received' = received \o c, buf' = buf
        PROVE  HeadIsPrefix'
    <2>1. Len(received') = Len(received) + Len(c) /\ Len(c) \in Nat
      BY <1>2, FrameType, ConcatProperties, LenProperties DEF TypeOK
    <2>2. SubSeq(received', 1, Len(buf)) = SubSeq(received, 1, Len(buf))
      BY <1>0, <1>2, FrameType, PrefixOfLonger DEF TypeOK
    <2> QED BY <1>0, <1>2, <2>1, <2>2
  <1>3. ASSUME NEW c \in Chunks,
               Reject(c) \/ StartSpill(c) \/ CreateFails(c) \/ SpillMore(c) \/ SpillFails(c)
        PROVE  HeadIsPrefix'
    <2>1. received' = received \o c /\ buf' = buf
      BY <1>3 DEF Reject, StartSpill, CreateFails, SpillMore, SpillFails, Arrives
    <2> QED BY <1>2, <2>1
  <1>4. CASE OpenSpill /\ Len(buf) > HeadKeep
    <2>1. buf' = SubSeq(buf, 1, HeadKeep) /\ received' = received
      BY <1>4 DEF OpenSpill
    <2>2. Len(buf') = HeadKeep
      BY <1>0, <1>4, <2>1, TakeType DEF TypeOK
    <2>3. buf' = SubSeq(received, 1, HeadKeep)
      BY <1>0, <1>4, <2>1, PrefixOfPrefix DEF TypeOK
    <2> QED BY <1>0, <1>4, <2>1, <2>2, <2>3
  <1>5. CASE OpenSpill /\ ~(Len(buf) > HeadKeep)
    BY <1>5 DEF OpenSpill
  <1>6. CASE OpenFails \/ DiskWrites \/ DiskFails
    BY <1>6 DEF OpenFails, DiskWrites, DiskFails
  <1>7. CASE EndInMemory \/ EndSpilling \/ Flush \/ ReadFails \/ DropFuture
    BY <1>7 DEF EndInMemory, EndSpilling, Flush, ReadFails, DropFuture
  <1>8. CASE UNCHANGED vars
    BY <1>8 DEF vars
  <1> QED BY <1>1, <1>3, <1>4, <1>5, <1>6, <1>7, <1>8 DEF Next

\* What read keeps in memory is always the start of what the client sent.
THEOREM HeadCorrect == Spec => []HeadIsPrefix
  <1>1. Init => BufferWhole /\ HeadIsPrefix
    <2>1. SubSeq(<< >>, 1, 0) = << >>
      BY SubSeqEmpty
    <2> QED BY <2>1, EmptySeq DEF Init, BufferWhole, HeadIsPrefix
  <1>2. BufferWhole /\ HeadIsPrefix /\ TypeOK /\ [Next]_vars
          => (BufferWhole /\ HeadIsPrefix)'
    BY BufferWholeStep, HeadStep
  <1> QED BY <1>1, <1>2, TypeCorrect, PTL DEF Spec

-----------------------------------------------------------------------------
(* The bytes of a spilled body: on disk, under way, or still to be written.  *)

Content ==
  /\ phase \in {"reading", "in_memory"} =>
       buf = received /\ inflight = << >> /\ diskErr = FALSE
  /\ phase = "opening" /\ ~diskErr => (disk \o inflight) \o todo = received
  /\ phase \in {"spilling", "flushing"} /\ ~diskErr => disk \o inflight = received
  /\ phase = "spilled" => inflight = << >> /\ (~diskErr => disk = received)

LEMMA ContentInit == Init => Content
  BY DEF Init, Content

\* Three sequences joined, from either side.
JoinLeft(s, t, u)  == (s \o t) \o u
JoinRight(s, t, u) == s \o (t \o u)

LEMMA Regroup ==
  \A S : \A s, t, u \in Seq(S) : JoinLeft(s, t, u) = JoinRight(s, t, u)
  <1>1. ASSUME NEW S, NEW s \in Seq(S), NEW t \in Seq(S), NEW u \in Seq(S)
        PROVE  JoinLeft(s, t, u) = JoinRight(s, t, u)
    BY ConcatAssociative DEF JoinLeft, JoinRight
  <1> QED BY <1>1, Zenon

LEMMA ContentStep ==
  ASSUME TypeOK, Content, [Next]_vars
  PROVE  Content'
  <1> USE DEF Content
  <1>1. ASSUME NEW c \in Chunks, Buffer(c) PROVE Content'
    BY <1>1 DEF Buffer, Arrives
  <1>2. ASSUME NEW c \in Chunks, Reject(c) PROVE Content'
    BY <1>2 DEF Reject
  <1>3. ASSUME NEW c \in Chunks, StartSpill(c) PROVE Content'
    <2>1. << >> \o buf = buf
      BY ConcatEmptySeq DEF TypeOK
    <2> QED BY <1>3, <2>1 DEF StartSpill, Arrives
  <1>4. ASSUME NEW c \in Chunks, CreateFails(c) PROVE Content'
    BY <1>4 DEF CreateFails
  <1>5. ASSUME NEW c \in Chunks, SpillMore(c) PROVE Content'
    <2>1. disk \o (inflight \o c) = (disk \o inflight) \o c
      <3>1. disk \in Seq(Bytes) /\ inflight \in Seq(Bytes) /\ c \in Seq(Bytes)
        BY FrameType DEF TypeOK
      <3>2. JoinLeft(disk, inflight, c) = JoinRight(disk, inflight, c)
        BY <3>1, Regroup, Zenon
      <3> QED BY <3>2 DEF JoinLeft, JoinRight
    <2> QED BY <1>5, <2>1 DEF SpillMore, Arrives
  <1>6. ASSUME NEW c \in Chunks, SpillFails(c) PROVE Content'
    BY <1>6 DEF SpillFails
  <1>7. CASE OpenSpill
    <2>1. disk \o << >> = disk
      BY ConcatEmptySeq DEF TypeOK
    <2> QED BY <1>7, <2>1 DEF OpenSpill
  <1>8. CASE OpenFails
    BY <1>8 DEF OpenFails
  <1>9. CASE DiskWrites
    <2>1. disk \o inflight \in Seq(Bytes)
      BY ConcatProperties DEF TypeOK
    <2>2. (disk \o inflight) \o << >> = disk \o inflight
      BY <2>1, ConcatEmptySeq
    <2> QED BY <1>9, <2>2 DEF DiskWrites
  <1>10. CASE DiskFails
    BY <1>10 DEF DiskFails
  <1>11. CASE EndInMemory \/ EndSpilling
    BY <1>11 DEF EndInMemory, EndSpilling
  <1>12. CASE Flush
    <2>1. disk \o << >> = disk
      BY ConcatEmptySeq DEF TypeOK
    <2> QED BY <1>12, <2>1 DEF Flush
  <1>13. CASE ReadFails \/ DropFuture
    BY <1>13 DEF ReadFails, DropFuture
  <1>14. CASE UNCHANGED vars
    BY <1>14 DEF vars
  <1> QED BY <1>1, <1>2, <1>3, <1>4, <1>5, <1>6, <1>7, <1>8, <1>9, <1>10,
             <1>11, <1>12, <1>13, <1>14 DEF Next

\* Every step of read is a step of its promise, or one its caller cannot see.
LEMMA PromiseStep ==
  ASSUME TypeOK, Content, [Next]_vars
  PROVE  [Promise!Next]_(Promise!vars)
  <1> USE DEF Outcome, Told, Body, Running, Promise!Pending, Promise!Whole, Promise!Damaged,
              Promise!Refused, Promise!Broken, Promise!Dropped, Promise!vars
  <1>1. ASSUME NEW c \in Chunks, Buffer(c) \/ StartSpill(c) \/ SpillMore(c)
        PROVE  Promise!Take(c)
    BY <1>1 DEF Buffer, StartSpill, SpillMore, Arrives, Promise!Take
  <1>2. ASSUME NEW c \in Chunks, CreateFails(c) \/ SpillFails(c)
        PROVE  Promise!GiveUp
    BY <1>2 DEF CreateFails, SpillFails, Arrives, Promise!GiveUp
  <1>3. ASSUME NEW c \in Chunks, Reject(c) PROVE Promise!Refuse(c)
    <2>1. Len(received \o c) > Limit
      <3>1. buf = received /\ Len(received \o c) = Len(received) + Len(c)
        BY <1>3, FrameType, ConcatProperties DEF Reject, Content, TypeOK
      <3> QED BY <1>3, <3>1 DEF Reject, Crosses
    <2> QED BY <1>3, <2>1 DEF Reject, Arrives, Promise!Refuse
  <1>4. CASE OpenSpill \/ EndSpilling
    BY <1>4 DEF OpenSpill, EndSpilling
  <1>5. CASE DiskWrites
    <2>1. phase' = phase /\ buf' = buf /\ diskErr' = diskErr /\ phase # "spilled"
          /\ policy' = policy /\ received' = received
      BY <1>5 DEF DiskWrites, Content
    <2> QED BY <2>1
  <1>6. ASSUME DiskFails PROVE Promise!Lose
    <2>1. phase' = phase /\ buf' = buf /\ diskErr' = TRUE /\ phase # "spilled"
          /\ policy' = policy /\ received' = received
      BY <1>6 DEF DiskFails, Content
    <2> QED BY <2>1 DEF Promise!Lose
  <1>7. ASSUME EndInMemory PROVE Promise!Deliver
    BY <1>7 DEF EndInMemory, Content, Promise!Deliver
  <1>8. ASSUME Flush PROVE Promise!Deliver \/ Promise!DeliverDamaged
    <2>1. ~diskErr => disk = received
      <3>1. disk \o << >> = disk
        BY ConcatEmptySeq DEF TypeOK
      <3> QED BY <1>8, <3>1 DEF Flush, Content
    <2> QED BY <1>8, <2>1 DEF Flush, Promise!Deliver, Promise!DeliverDamaged
  <1>9. ASSUME OpenFails \/ ReadFails \/ DropFuture PROVE Promise!GiveUp
    BY <1>9 DEF OpenFails, ReadFails, DropFuture, Promise!GiveUp
  <1>10. CASE UNCHANGED vars
    BY <1>10 DEF vars
  <1> QED BY <1>1, <1>2, <1>3, <1>4, <1>5, <1>6, <1>7, <1>8, <1>9, <1>10
          DEF Next, Promise!Next

\* read gives its caller the whole body the client sent, in order, from memory
\* or from the file, or says there is none; only after a failed write nobody
\* asked about does it hand over a file that lacks bytes.
THEOREM PromiseKept == Spec => KeepsPromise
  <1>1. Init => Promise!Init
    BY DEF Init, Promise!Init, Promise!Pending, Outcome, Told, Body, Running
  <1>2. TypeOK /\ Content /\ [Next]_vars => Content'
    BY ContentStep
  <1>3. TypeOK /\ Content /\ [Next]_vars => [Promise!Next]_(Promise!vars)
    BY PromiseStep
  <1> QED BY <1>1, <1>2, <1>3, ContentInit, TypeCorrect, PTL
          DEF Spec, KeepsPromise, Promise!Spec

-----------------------------------------------------------------------------
(* JsonLines: types.                                                          *)

LEMMA LinesTypeInit == LinesInit => LinesTypeOK
  BY JsonLinesAssumption, EmptySeq DEF LinesInit, LinesTypeOK

\* What a write adds to the file, with its place named.
LEMMA PieceWritten ==
  ASSUME LinesTypeOK, NEW w \in Writers, WritePiece(w)
  PROVE  LET p == [row |-> row[w], part |-> done[w] + 1]
         IN  /\ p \in Piece
             /\ file' = Append(file, p)
             /\ file' \in Seq(Piece)
             /\ Len(file') = Len(file) + 1
             /\ Len(file) \in Nat
             /\ \A i \in 1 .. Len(file) : file'[i] = file[i]
             /\ file'[Len(file) + 1] = p
  <1> DEFINE p == [row |-> row[w], part |-> done[w] + 1]
  <1>1. p \in Piece
    BY JsonLinesAssumption DEF WritePiece, LinesTypeOK, Piece
  <1>2. file' = Append(file, p)
    BY DEF WritePiece
  <1>3. file \in Seq(Piece)
    BY DEF LinesTypeOK
  <1> HIDE DEF p
  <1>4. /\ Append(file, p) \in Seq(Piece)
        /\ Len(Append(file, p)) = Len(file) + 1
        /\ \A i \in 1 .. Len(file) : Append(file, p)[i] = file[i]
        /\ Append(file, p)[Len(file) + 1] = p
    BY <1>1, <1>3, AppendProperties
  <1>5. Len(file) \in Nat
    BY <1>3, LenProperties
  <1>6. /\ p \in Piece /\ file' = Append(file, p) /\ file' \in Seq(Piece)
        /\ Len(file') = Len(file) + 1 /\ Len(file) \in Nat
        /\ \A i \in 1 .. Len(file) : file'[i] = file[i]
        /\ file'[Len(file) + 1] = p
    BY <1>1, <1>2, <1>4, <1>5
  <1> QED BY <1>6 DEF p

LEMMA LinesTypeStep == LinesTypeOK /\ [LinesNext]_lineVars => LinesTypeOK'
  <1> SUFFICES ASSUME LinesTypeOK, [LinesNext]_lineVars PROVE LinesTypeOK'
    OBVIOUS
  <1>1. ASSUME NEW w \in Writers, Open(w) PROVE LinesTypeOK'
    <2>1. crossed' \subseteq Nat
      <3>1. begun + 1 \in Nat /\ \A v \in Others(w) : row[v] \in Nat
        BY DEF Others, LinesTypeOK
      <3>2. CASE Others(w) = {}
        BY <1>1, <3>2 DEF Open, LinesTypeOK
      <3>3. CASE Others(w) # {}
        <4>1. crossed' = crossed \cup {begun + 1} \cup {row[v] : v \in Others(w)}
          BY <1>1, <3>3 DEF Open
        <4> QED BY <3>1, <4>1 DEF LinesTypeOK
      <3> QED BY <3>2, <3>3
    <2>2. row' \in [Writers -> Nat] /\ begun' \in Nat /\ done' \in [Writers -> 0 .. Parts]
      BY <1>1, JsonLinesAssumption DEF Open, LinesTypeOK
    <2> QED BY <1>1, <2>1, <2>2 DEF Open, LinesTypeOK
  <1>2. ASSUME NEW w \in Writers, WritePiece(w) PROVE LinesTypeOK'
    <2>1. file' \in Seq(Piece)
      BY <1>2, PieceWritten
    <2>2. done' \in [Writers -> 0 .. Parts]
      BY <1>2, JsonLinesAssumption DEF WritePiece, LinesTypeOK
    <2> QED BY <1>2, <2>1, <2>2 DEF WritePiece, LinesTypeOK
  <1>3. ASSUME NEW w \in Writers, Close(w) PROVE LinesTypeOK'
    BY <1>3 DEF Close, LinesTypeOK
  <1>4. ASSUME NEW w \in Writers, WriteFails(w) PROVE LinesTypeOK'
    BY <1>4 DEF WriteFails, LinesTypeOK
  <1>5. CASE Killed
    BY <1>5 DEF Killed, LinesTypeOK
  <1>6. CASE UNCHANGED lineVars
    BY <1>6 DEF lineVars, LinesTypeOK
  <1> QED BY <1>1, <1>2, <1>3, <1>4, <1>5, <1>6 DEF LinesNext

\* The state of a file of rows has the types it should.
THEOREM LinesTypeCorrect == LinesSpec => []LinesTypeOK
  BY LinesTypeInit, LinesTypeStep, PTL DEF LinesSpec

-----------------------------------------------------------------------------
(* The end of the file.                                                       *)

\* A file that does not end in a newline ends in a piece of a torn row, or in
\* the piece that a writer in the middle of its row wrote last.  QuietEndsLine
\* alone says nothing of whose row the end belongs to, and Close needs it.
Owns(w) == /\ row[w] # 0
           /\ row[w] = file[Len(file)].row
           /\ done[w] = file[Len(file)].part

EndOwned ==
  file # << >> /\ file[Len(file)].part # Parts =>
    \/ file[Len(file)].row \in torn
    \/ \E w \in Writers : Owns(w)

LEMMA EndOwnedStep ==
  ASSUME LinesTypeOK, EndOwned, [LinesNext]_lineVars
  PROVE  EndOwned'
  <1>1. ASSUME NEW v \in Writers, WritePiece(v) PROVE EndOwned'
    <2> DEFINE p == [row |-> row[v], part |-> done[v] + 1]
    <2>1. Len(file') = Len(file) + 1 /\ file'[Len(file) + 1] = p
      BY <1>1, PieceWritten
    <2>2. file'[Len(file')] = p
      BY <2>1
    <2>3. row'[v] # 0 /\ row'[v] = p.row /\ done'[v] = p.part
      BY <1>1 DEF WritePiece, LinesTypeOK
    <2> HIDE DEF p
    <2> QED BY <2>2, <2>3 DEF EndOwned, Owns
  <1>2. ASSUME file' = file, file # << >> => file[Len(file)] \in Piece, torn \subseteq torn',
               \A w \in Writers : Owns(w) /\ done[w] # Parts => Owns(w)' \/ row[w] \in torn'
        PROVE  EndOwned'
    <2> SUFFICES ASSUME file # << >>, file[Len(file)].part # Parts
                 PROVE  file[Len(file)].row \in torn' \/ \E w \in Writers : Owns(w)'
      BY <1>2 DEF EndOwned
    <2>1. CASE file[Len(file)].row \in torn
      BY <1>2, <2>1
    <2>2. ASSUME NEW w \in Writers, Owns(w)
          PROVE  file[Len(file)].row \in torn' \/ \E u \in Writers : Owns(u)'
      BY <1>2, <2>2 DEF Owns
    <2> QED BY <2>1, <2>2 DEF EndOwned
  <1>3. file # << >> => file[Len(file)] \in Piece
    <2>1. file # << >> => Len(file) \in 1 .. Len(file)
      BY EmptySeq, LenProperties DEF LinesTypeOK
    <2> QED BY <2>1, ElementOfSeq DEF LinesTypeOK
  <1>4. ASSUME NEW v \in Writers, Open(v) PROVE EndOwned'
    BY <1>2, <1>3, <1>4 DEF Open, LinesTypeOK, Owns
  <1>5. ASSUME NEW v \in Writers, Close(v) PROVE EndOwned'
    BY <1>2, <1>3, <1>5 DEF Close, LinesTypeOK, Owns
  <1>6. ASSUME NEW v \in Writers, WriteFails(v) PROVE EndOwned'
    BY <1>2, <1>3, <1>6 DEF WriteFails, LinesTypeOK, Owns
  <1>7. CASE Killed
    <2>1. file' = file /\ torn \subseteq torn'
      BY <1>7 DEF Killed
    <2>2. ASSUME NEW w \in Writers, Owns(w), done[w] # Parts PROVE row[w] \in torn'
      <3>1. done[w] < Parts /\ row[w] # 0
        BY <2>2, JsonLinesAssumption DEF Owns, LinesTypeOK
      <3> QED BY <1>7, <3>1 DEF Killed
    <2> QED BY <1>2, <1>3, <2>1, <2>2
  <1>8. CASE UNCHANGED lineVars
    BY <1>8 DEF lineVars, EndOwned, Owns
  <1> QED BY <1>1, <1>4, <1>5, <1>6, <1>7, <1>8 DEF LinesNext

LEMMA EndOwnedInit == LinesInit => EndOwned
  BY DEF LinesInit, EndOwned

\* A file nobody is writing to ends in a newline, or where a row was torn.
THEOREM QuietCorrect == LinesSpec => []QuietEndsLine
  <1>1. LinesTypeOK /\ EndOwned => QuietEndsLine
    BY DEF EndOwned, QuietEndsLine, Owns
  <1>2. LinesTypeOK /\ EndOwned /\ [LinesNext]_lineVars => EndOwned'
    BY EndOwnedStep
  <1> QED BY <1>1, <1>2, EndOwnedInit, LinesTypeCorrect, PTL DEF LinesSpec

-----------------------------------------------------------------------------
(* Rows that no other one crosses.                                            *)

\* Two writers in the middle of their rows have crossed.
Apart == \A v, w \in Writers :
           v # w /\ row[v] # 0 /\ row[w] # 0 => row[v] \in crossed /\ row[w] \in crossed

\* A writer whose row is not crossed is where the file ends.
AtEnd(w) == row[w] # 0 /\ row[w] \notin crossed /\ done[w] > 0 => file # << >> /\ Owns(w)

\* How one piece is placed, given what stands before it.
Placed(f, c, t, i) ==
  f[i].row \notin c =>
    IF f[i].part = 1
      THEN i = 1 \/ f[i - 1].part = Parts \/ f[i - 1].row \in t
      ELSE i > 1 /\ f[i - 1].row = f[i].row /\ f[i - 1].part + 1 = f[i].part

LInv == /\ EndOwned
        /\ Apart
        /\ \A w \in Writers : AtEnd(w)
        /\ \A i \in 1 .. Len(file) : Placed(file, crossed, torn, i)

\* A step that writes nothing keeps what holds of a row that stays open.
LEMMA StillPlaced ==
  ASSUME LInv, file' = file, crossed \subseteq crossed', torn \subseteq torn'
  PROVE  \A i \in 1 .. Len(file') : Placed(file', crossed', torn', i)
  BY DEF LInv, Placed

LEMMA PiecePlaced ==
  ASSUME LinesTypeOK, LInv, NEW w \in Writers, WritePiece(w)
  PROVE  /\ Apart'
         /\ \A v \in Writers : AtEnd(v)'
         /\ \A i \in 1 .. Len(file') : Placed(file', crossed', torn', i)
  <1> DEFINE p == [row |-> row[w], part |-> done[w] + 1]
             n == Len(file)
  <1>1. /\ n \in Nat /\ Len(file') = n + 1 /\ file'[n + 1] = p
        /\ \A i \in 1 .. n : file'[i] = file[i]
        /\ file' \in Seq(Piece)
    BY PieceWritten
  <1>2. /\ p.row = row[w] /\ p.part = done[w] + 1 /\ row[w] # 0
        /\ done[w] \in 0 .. Parts /\ done[w] < Parts
        /\ row' = row /\ done'[w] = done[w] + 1
        /\ crossed' = crossed /\ torn' = torn
    BY DEF WritePiece, LinesTypeOK
  <1>3. Apart'
    BY <1>2 DEF LInv, Apart
  <1>4. ASSUME NEW v \in Writers PROVE AtEnd(v)'
    <2>1. CASE v = w
      <3>1. file' # << >> /\ file'[Len(file')] = p
        BY <1>1, EmptySeq
      <3> HIDE DEF p
      <3> QED BY <1>2, <2>1, <3>1 DEF AtEnd, Owns
    <2>2. CASE v # w
      BY <1>2, <2>2 DEF LInv, Apart, AtEnd
    <2> QED BY <2>1, <2>2
  <1>5. n > 0 <=> file # << >>
    BY EmptySeq DEF LinesTypeOK
  <1>6. Placed(file', crossed', torn', n + 1)
    <2> SUFFICES ASSUME row[w] \notin crossed
                 PROVE  IF p.part = 1
                          THEN n = 0 \/ file[n].part = Parts \/ file[n].row \in torn
                          ELSE n > 0 /\ file[n].row = p.row /\ file[n].part + 1 = p.part
      <3> HIDE DEF p, n
      <3>1. n > 0 => file'[n + 1 - 1] = file[n]
        BY <1>1
      <3>2. (n = 0 <=> n + 1 = 1) /\ (n > 0 <=> n + 1 > 1) /\ (n = 0 \/ n > 0)
        BY <1>1
      <3> QED BY <1>1, <1>2, <3>1, <3>2 DEF Placed
    <2>1. CASE done[w] = 0
      <3>1. p.part = 1
        BY <2>1
      <3>2. ASSUME NEW v \in Writers, Owns(v), n > 0 PROVE FALSE
        <4>1. v = w
          BY <1>2, <3>2 DEF LInv, Apart, Owns
        <4>2. file[n] \in Piece
          <5>1. n \in 1 .. n /\ file \in Seq(Piece)
            BY <1>1, <3>2 DEF LinesTypeOK
          <5> QED BY <5>1, ElementOfSeq
        <4>3. done[w] = file[n].part /\ file[n].part \in 1 .. Parts
          BY <3>2, <4>1, <4>2 DEF Owns, Piece
        <4> QED BY <2>1, <4>3
      <3>3. CASE n = 0
        BY <3>1, <3>3
      <3>4. CASE n > 0
        <4>1. file[n].part = Parts \/ file[n].row \in torn
          BY <1>5, <3>2, <3>4 DEF LInv, EndOwned
        <4> QED BY <3>1, <4>1
      <3> QED BY <1>1, <3>3, <3>4
    <2>2. CASE done[w] > 0
      <3>1. file # << >> /\ row[w] = file[n].row /\ done[w] = file[n].part
        BY <1>2, <2>2 DEF LInv, AtEnd, Owns
      <3> QED BY <1>2, <1>5, <2>2, <3>1
    <2> QED BY <1>2, <2>1, <2>2
  <1>7. ASSUME NEW i \in 1 .. n PROVE Placed(file', crossed', torn', i)
    <2>1. Placed(file, crossed, torn, i)
      BY DEF LInv
    <2> HIDE DEF p, n
    <2>2. file'[i] = file[i] /\ (i > 1 => file'[i - 1] = file[i - 1]) /\ (i = 1 \/ i > 1)
      BY <1>1
    <2> QED BY <1>2, <2>1, <2>2 DEF Placed
  <1>8. \A i \in 1 .. n + 1 : i \in 1 .. n \/ i = n + 1
    BY <1>1
  <1> HIDE DEF n
  <1> QED BY <1>1, <1>3, <1>4, <1>6, <1>7, <1>8

LEMMA LInvStep ==
  ASSUME LinesTypeOK, LInv, [LinesNext]_lineVars
  PROVE  LInv'
  <1>0. EndOwned'
    BY EndOwnedStep DEF LInv
  <1>1. ASSUME NEW w \in Writers, WritePiece(w) PROVE LInv'
    BY <1>0, <1>1, PiecePlaced DEF LInv
  <1>2. ASSUME NEW w \in Writers, Open(w) PROVE LInv'
    <2>1. file' = file /\ torn' = torn /\ crossed \subseteq crossed'
      BY <1>2 DEF Open
    <2>2. Apart'
      <3> SUFFICES ASSUME NEW u \in Writers, NEW v \in Writers, u # v,
                          row'[u] # 0, row'[v] # 0
                   PROVE  row'[u] \in crossed' /\ row'[v] \in crossed'
        BY DEF Apart
      <3>1. CASE u # w /\ v # w
        BY <3>1, <1>2, <2>1 DEF Open, LinesTypeOK, LInv, Apart
      <3>2. CASE u = w
        <4>1. v \in Others(w) /\ row'[v] = row[v] /\ row'[u] = begun + 1
          BY <3>2, <1>2 DEF Open, LinesTypeOK, Others
        <4> QED BY <4>1, <1>2 DEF Open
      <3>3. CASE v = w
        <4>1. u \in Others(w) /\ row'[u] = row[u] /\ row'[v] = begun + 1
          BY <3>3, <1>2 DEF Open, LinesTypeOK, Others
        <4> QED BY <4>1, <1>2 DEF Open
      <3> QED BY <3>1, <3>2, <3>3
    <2>3. \A v \in Writers : AtEnd(v)'
      <3> SUFFICES ASSUME NEW v \in Writers PROVE AtEnd(v)'
        OBVIOUS
      <3>1. CASE v = w
        BY <1>2, <3>1 DEF Open, LinesTypeOK, AtEnd
      <3>2. CASE v # w
        <4>1. row'[v] = row[v] /\ done'[v] = done[v]
          BY <1>2, <3>2 DEF Open, LinesTypeOK
        <4> QED BY <2>1, <4>1 DEF LInv, AtEnd, Owns
      <3> QED BY <3>1, <3>2
    <2> QED BY <1>0, <2>1, <2>2, <2>3, StillPlaced DEF LInv
  <1>3. ASSUME NEW w \in Writers, Close(w) \/ WriteFails(w) PROVE LInv'
    <2>1. file' = file /\ torn \subseteq torn' /\ crossed' = crossed
      BY <1>3 DEF Close, WriteFails
    <2>2. done' = done /\ \A v \in Writers : row'[v] # 0 => row'[v] = row[v]
      BY <1>3 DEF Close, WriteFails, LinesTypeOK
    <2>3. Apart' /\ \A v \in Writers : AtEnd(v)'
      BY <2>1, <2>2 DEF LInv, Apart, AtEnd, Owns
    <2> QED BY <1>0, <2>1, <2>3, StillPlaced DEF LInv
  <1>4. CASE Killed
    <2>1. file' = file /\ torn \subseteq torn' /\ crossed' = crossed
      BY <1>4 DEF Killed
    <2>2. Apart' /\ \A v \in Writers : AtEnd(v)'
      BY <1>4 DEF Killed, Apart, AtEnd
    <2> QED BY <1>0, <2>1, <2>2, StillPlaced DEF LInv
  <1>5. CASE UNCHANGED lineVars
    BY <1>5 DEF lineVars, LInv, EndOwned, Apart, AtEnd, Owns, Placed
  <1> QED BY <1>1, <1>2, <1>3, <1>4, <1>5 DEF LinesNext

\* A row that no other one crosses stands in one piece, on a line of its own
\* unless the row before it was torn.
THEOREM LinesCorrect == LinesSpec => []LinesUnlessCrossed
  <1>1. LinesInit => LInv
    <2>1. LinesInit => Len(file) = 0
      BY EmptySeq DEF LinesInit
    <2> QED BY <2>1, EndOwnedInit DEF LinesInit, LInv, Apart, AtEnd
  <1>2. LInv => LinesUnlessCrossed
    BY DEF LInv, Placed, LinesUnlessCrossed, Continues
  <1>3. LinesTypeOK /\ LInv /\ [LinesNext]_lineVars => LInv'
    BY LInvStep
  <1> QED BY <1>1, <1>2, <1>3, LinesTypeCorrect, PTL DEF LinesSpec

=============================================================================
