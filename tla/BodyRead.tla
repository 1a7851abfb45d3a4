------------------------------ MODULE BodyRead ------------------------------
(***************************************************************************)
(* body::read of src/src/body.rs: one request body read into memory up to  *)
(* a limit and spilled to a file beyond it.                                *)
(*                                                                         *)
(* The spill file is a tokio::fs::File: write_all hands its bytes to a     *)
(* background operation and returns; the next write_all, or flush, waits   *)
(* for that operation and reports its error.  inflight is that operation.  *)
(* Between two awaits the handler's future can be dropped with the         *)
(* client's connection.                                                    *)
(***************************************************************************)
EXTENDS Integers, Sequences

CONSTANTS
  Bytes,       \* the values of a byte
  Chunks,      \* the data frames a client may send
  Limit,       \* limits.request_body_bytes
  HeadKeep,    \* HEAD_KEEP
  Policies,    \* the settings of limits.request_body_over_limit to look at
  MaxReceived  \* bound: bytes one client sends

ASSUME BodyAssumption ==
  /\ Chunks \subseteq Seq(Bytes)
  /\ Limit \in Nat /\ HeadKeep \in Nat /\ MaxReceived \in Nat
  /\ Policies \subseteq {"spill", "reject", "stream"}

VARIABLES
  policy,   \* the policy read was called with
  phase,    \* where read is: see Phases
  received, \* every byte the stream has yielded (total counts them)
  buf,      \* buf: the body, or its head once spilled
  disk,     \* the bytes in the file at spill_path
  inflight, \* the bytes of the background write under way
  todo,     \* the frame still to be written while the file is opened
  diskErr   \* the last background write failed and nobody has asked yet

vars == <<policy, phase, received, buf, disk, inflight, todo, diskErr>>

\* reading: file is None.  opening: File::create and the write of buf and of
\* the frame that crossed the limit.  spilling: file is Some.  flushing: the
\* stream has ended.  The others are the outcomes.
Phases == {"reading", "opening", "spilling", "flushing",
           "in_memory", "spilled", "too_large", "failed", "dropped"}

Running == phase \in {"reading", "opening", "spilling", "flushing"}

-----------------------------------------------------------------------------
Init ==
  /\ policy \in Policies
  /\ phase = "reading"
  /\ received = << >> /\ buf = << >>
  /\ disk = << >> /\ inflight = << >> /\ todo = << >>
  /\ diskErr = FALSE

\* stream.next() yields a frame; total grows by its length.
Arrives(c) ==
  /\ Len(received) + Len(c) <= MaxReceived
  /\ received' = received \o c

Crosses(c) == Len(buf) + Len(c) > Limit

Buffer(c) ==
  /\ phase = "reading" /\ Arrives(c) /\ ~Crosses(c)
  /\ buf' = buf \o c
  /\ UNCHANGED <<policy, phase, disk, inflight, todo, diskErr>>

Reject(c) ==
  /\ phase = "reading" /\ Arrives(c) /\ Crosses(c)
  /\ policy = "reject"
  /\ phase' = "too_large"
  /\ UNCHANGED <<policy, buf, disk, inflight, todo, diskErr>>

\* File::create empties whatever is at spill_path, then buf is written.
StartSpill(c) ==
  /\ phase = "reading" /\ Arrives(c) /\ Crosses(c)
  /\ policy \in {"spill", "stream"}
  /\ phase' = "opening"
  /\ disk' = << >>
  /\ inflight' = buf
  /\ todo' = c
  /\ UNCHANGED <<policy, buf, diskErr>>

\* The directory or the file cannot be created: BodyError::Io.
CreateFails(c) ==
  /\ phase = "reading" /\ Arrives(c) /\ Crosses(c)
  /\ policy \in {"spill", "stream"}
  /\ phase' = "failed"
  /\ UNCHANGED <<policy, buf, disk, inflight, todo, diskErr>>

\* Mutants of OpenSpill: the frame that crossed the limit is not written; the
\* buffer is not cut down to its head.
OpenSpillLosesFrame ==
  /\ phase = "opening" /\ inflight = << >> /\ ~diskErr
  /\ phase' = "spilling"
  /\ todo' = << >>
  /\ buf' = IF Len(buf) > HeadKeep THEN SubSeq(buf, 1, HeadKeep) ELSE buf
  /\ UNCHANGED <<policy, received, disk, inflight, diskErr>>

OpenSpillKeepsAll ==
  /\ phase = "opening" /\ inflight = << >> /\ ~diskErr
  /\ phase' = "spilling"
  /\ inflight' = todo
  /\ todo' = << >>
  /\ UNCHANGED <<policy, received, buf, disk, diskErr>>

\* write_all(&chunk) waits for the write of buf; buf keeps only its head.
OpenSpill ==
  /\ phase = "opening" /\ inflight = << >> /\ ~diskErr
  /\ phase' = "spilling"
  /\ inflight' = todo
  /\ todo' = << >>
  /\ buf' = IF Len(buf) > HeadKeep THEN SubSeq(buf, 1, HeadKeep) ELSE buf
  /\ UNCHANGED <<policy, received, disk, diskErr>>

\* A write_all of no bytes returns at once; any other waits.
SpillMore(c) ==
  /\ phase = "spilling" /\ Arrives(c)
  /\ c # << >> => inflight = << >> /\ ~diskErr
  /\ inflight' = inflight \o c
  /\ UNCHANGED <<policy, phase, buf, disk, todo, diskErr>>

\* A write_all that waits finds that the one before it failed: BodyError::Io.
\* While spilling, the frame it was called for has already been taken.
OpenFails ==
  /\ phase = "opening" /\ diskErr
  /\ phase' = "failed" /\ diskErr' = FALSE
  /\ UNCHANGED <<policy, received, buf, disk, inflight, todo>>

SpillFails(c) ==
  /\ phase = "spilling" /\ Arrives(c) /\ c # << >> /\ diskErr
  /\ phase' = "failed" /\ diskErr' = FALSE
  /\ UNCHANGED <<policy, buf, disk, inflight, todo>>

\* The background operation: all of it reaches the file, or (disk full) a
\* proper part of it does and the error is kept for the next caller.
DiskWrites ==
  /\ inflight # << >>
  /\ disk' = disk \o inflight
  /\ inflight' = << >>
  /\ UNCHANGED <<policy, phase, received, buf, todo, diskErr>>

DiskFails ==
  /\ inflight # << >>
  /\ \E n \in 0 .. Len(inflight) - 1 : disk' = disk \o SubSeq(inflight, 1, n)
  /\ inflight' = << >>
  /\ diskErr' = TRUE
  /\ UNCHANGED <<policy, phase, received, buf, todo>>

\* The stream ends: in memory, or on to flush.
EndInMemory ==
  /\ phase = "reading"
  /\ phase' = "in_memory"
  /\ UNCHANGED <<policy, received, buf, disk, inflight, todo, diskErr>>

EndSpilling ==
  /\ phase = "spilling"
  /\ phase' = "flushing"
  /\ UNCHANGED <<policy, received, buf, disk, inflight, todo, diskErr>>

\* Mutant of Flush: it waits for a write that nobody starts any more.
FlushInverted ==
  /\ phase = "flushing" /\ inflight # << >>
  /\ phase' = "spilled"
  /\ UNCHANGED <<policy, received, buf, disk, inflight, todo, diskErr>>

\* flush waits for the background write and its error is dropped
\* (let _ = f.flush().await): the caller is told the file holds the body, and
\* nobody will ever ask for the error again.
Flush ==
  /\ phase = "flushing" /\ inflight = << >>
  /\ phase' = "spilled"
  /\ UNCHANGED <<policy, received, buf, disk, inflight, todo, diskErr>>

\* The client's stream yields an error: BodyError::Read, at a next().await.
ReadFails ==
  /\ phase \in {"reading", "spilling"}
  /\ phase' = "failed"
  /\ UNCHANGED <<policy, received, buf, disk, inflight, todo, diskErr>>

\* The connection is gone and the handler's future is dropped at an await.
\* The file, and a background write under way, stay behind.
DropFuture ==
  /\ Running
  /\ phase' = "dropped"
  /\ UNCHANGED <<policy, received, buf, disk, inflight, todo, diskErr>>

Next ==
  \/ \E c \in Chunks : \/ Buffer(c) \/ Reject(c) \/ StartSpill(c) \/ CreateFails(c)
                       \/ SpillMore(c) \/ SpillFails(c)
  \/ OpenSpill \/ OpenFails
  \/ DiskWrites \/ DiskFails
  \/ EndInMemory \/ EndSpilling \/ Flush
  \/ ReadFails \/ DropFuture

Spec == Init /\ [][Next]_vars

\* The runtime polls a live future and its background writes to the end; the
\* client's next frame, its end and its disconnection are the client's.
Fairness ==
  /\ WF_vars(OpenSpill \/ OpenFails) /\ WF_vars(Flush)
  /\ WF_vars(DiskWrites \/ DiskFails)

FairSpec == Spec /\ Fairness

-----------------------------------------------------------------------------
(* Properties.                                                             *)

\* The types of the state.
TypeOK ==
  /\ policy \in {"spill", "reject", "stream"} /\ phase \in Phases
  /\ received \in Seq(Bytes) /\ buf \in Seq(Bytes) /\ disk \in Seq(Bytes)
  /\ inflight \in Seq(Bytes) /\ todo \in Seq(Bytes)
  /\ diskErr \in BOOLEAN

\* The caller's view: Buffered, a BodyError, or nothing yet.  The "damaged" of
\* BodySpec is a Buffered the caller cannot tell from a whole one.
Told == IF Running THEN "pending"
        ELSE IF phase = "in_memory" THEN "whole"
        ELSE IF phase = "spilled" THEN (IF diskErr THEN "damaged" ELSE "whole")
        ELSE phase

Body == IF phase = "in_memory" THEN buf
        ELSE IF phase = "spilled" /\ ~diskErr THEN disk ELSE << >>

Outcome == [kind |-> Told, body |-> Body]

Promise == INSTANCE BodySpec WITH result <- Outcome, lost <- diskErr

\* read keeps the promise of its module comment - every byte, in order, from
\* memory or from the file, or an error - except after a write that fails with
\* nobody left to ask: the only case in which the file is not the body.
KeepsPromise == Promise!Spec

\* The memory a body takes: never more than the cap, and at most HEAD_KEEP of
\* it once the spill file is open.
MemoryBounded ==
  /\ Len(buf) <= Limit
  /\ phase \in {"spilling", "flushing", "spilled"} => Len(buf) <= HeadKeep

\* What is kept in memory of a spilled body is the start of that body, so a
\* caller that parses it never sees bytes out of place.
HeadIsPrefix ==
  /\ Len(buf) <= Len(received)
  /\ buf = SubSeq(received, 1, Len(buf))

\* A read whose stream has ended, and whose handler is not dropped, answers:
\* no wait of the spill path is for something that never comes.
FlushAnswers == phase = "flushing" ~> phase \in {"spilled", "dropped"}

=============================================================================
