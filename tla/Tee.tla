-------------------------------- MODULE Tee --------------------------------
(***************************************************************************)
(* The response half of an exchange (TeeStream and Sink of                 *)
(* src/src/main.rs): every chunk the upstream sends is counted, written to *)
(* the recording through a BufWriter and handed to the client; when the    *)
(* stream is over - at its end, at an upstream error, or because the       *)
(* client went away and hyper dropped the stream - finish flushes the      *)
(* recording and writes the index row, the summary and the session event,  *)
(* as far as the configuration asks for them, and removes the spilled      *)
(* request body.  A write that fails is passed over without a word.        *)
(*                                                                         *)
(* A poll and a drop run to their end without giving up the thread, so     *)
(* only the death of the process falls between the steps of finish.  The   *)
(* bytes of the response are named by their positions 1, 2, 3, ...         *)
(***************************************************************************)
EXTENDS Integers, Sequences

CONSTANTS
  Cap,     \* the BufWriter's capacity: write_buffer_bytes, 8 KiB when that is 0
  MaxBytes \* bound: bytes of one response

ASSUME TeeAssumption ==
  /\ Cap \in Nat \ {0}
  /\ MaxBytes \in Nat

VARIABLES
  got,      \* Sink::resp_bytes
  opened,   \* Sink::file is Some
  buffer,   \* what the BufWriter holds
  file,     \* what the recording holds on disk
  failed,   \* creating the recording, or a write to it, has failed
  stream,   \* "open", or how the stream was over: "ended", "failed", "dropped"
  released, \* the TeeStream, and with it the Sink, has been dropped
  finished, \* Sink::finished
  step,     \* where finish is, "none" when it is not running
  rows,     \* response_bytes of each index row of this exchange
  summary,  \* resp.summary.json is written
  events,   \* response events in the session file
  spill,    \* the spilled request body is still there
  due,      \* the reports asked for: record.index, response_summary, sessions
  missed,   \* what finish tried and failed to do
  dead      \* the process has been killed

vars == <<got, opened, buffer, file, failed, stream, released, finished, step, rows,
          summary, events, spill, due, missed, dead>>

Reports == {"index", "summary", "session"}
Steps == {"none", "flush", "index", "summary", "session", "unspill"}

Positions(a, b) == [i \in 1 .. b - a |-> a + i]

Prefix(s, n) == SubSeq(s, 1, n)
Rest(s, n)   == SubSeq(s, n + 1, Len(s))

-----------------------------------------------------------------------------
Init ==
  /\ got = 0
  /\ opened \in BOOLEAN /\ failed = ~opened
  /\ buffer = << >> /\ file = << >>
  /\ stream = "open" /\ released = FALSE
  /\ finished = FALSE /\ step = "none"
  /\ rows = << >> /\ summary = FALSE /\ events = 0
  /\ spill \in BOOLEAN
  /\ due \in SUBSET Reports /\ missed = {}
  /\ dead = FALSE

\* A write of `of` bytes has failed when the disk took only n of them.
Short(n, of) == n < of

\* Mutant of FlushBuffer: what was written stays in the buffer.
FlushBufferKeeping(n) ==
  /\ file' = file \o Prefix(buffer, n)
  /\ failed' = (failed \/ Short(n, Len(buffer)))
  /\ UNCHANGED buffer

\* BufWriter::flush_buf: what was written leaves the buffer, the rest stays.
FlushBuffer(n) ==
  /\ file' = file \o Prefix(buffer, n)
  /\ buffer' = Rest(buffer, n)
  /\ failed' = (failed \/ Short(n, Len(buffer)))

\* BufWriter::write_all of chunk c, whose error write_chunk drops.
Fits(c)   == Len(buffer) + Len(c) <= Cap
Direct(c) == Len(c) >= Cap

KeepInBuffer(c) ==
  /\ Fits(c) /\ ~Direct(c)
  /\ buffer' = buffer \o c
  /\ UNCHANGED <<file, failed>>

\* The buffer is written out first; when that fails, the chunk is lost.
FlushThenKeep(c) ==
  /\ ~Fits(c) /\ ~Direct(c)
  /\ \E n \in 0 .. Len(buffer) :
       /\ file' = file \o Prefix(buffer, n)
       /\ buffer' = Rest(buffer, n) \o (IF n = Len(buffer) THEN c ELSE << >>)
       /\ failed' = (failed \/ Short(n, Len(buffer)))

\* A chunk as large as the buffer goes straight to the file after it.
FlushThenWrite(c) ==
  /\ Direct(c)
  /\ \E n \in 0 .. Len(buffer) : \E m \in IF n = Len(buffer) THEN 0 .. Len(c) ELSE {0} :
       /\ file' = file \o Prefix(buffer, n) \o Prefix(c, m)
       /\ buffer' = Rest(buffer, n)
       /\ failed' = (failed \/ Short(m, Len(c)))

WriteChunk(c) ==
  IF opened THEN KeepInBuffer(c) \/ FlushThenKeep(c) \/ FlushThenWrite(c)
            ELSE UNCHANGED <<buffer, file, failed>>

Idle == ~dead /\ stream = "open" /\ ~finished

\* poll_next: a chunk is counted, recorded and handed on.
Chunk ==
  /\ Idle
  /\ \E upto \in got + 1 .. MaxBytes :
       /\ WriteChunk(Positions(got, upto))
       /\ got' = upto
  /\ UNCHANGED <<opened, stream, released, finished, step, rows, summary, events, spill,
                 due, missed, dead>>

\* Mutant of StartFinish: finished is not looked at.
StartFinishAgain == finished' = TRUE /\ step' = "flush"

\* finish does nothing the second time.
StartFinish ==
  IF finished THEN UNCHANGED <<finished, step>>
              ELSE finished' = TRUE /\ step' = "flush"

\* poll_next: the upstream's body ends, or fails.  Either way the client is
\* told that the body is complete.
Over(how) ==
  /\ Idle
  /\ stream' = how
  /\ StartFinish
  /\ UNCHANGED <<got, opened, buffer, file, failed, released, rows, summary, events,
                 spill, due, missed, dead>>

\* Mutant of Release: a Sink without a Drop.
ReleaseSilently ==
  /\ ~dead /\ ~released /\ step = "none"
  /\ released' = TRUE
  /\ stream' = IF stream = "open" THEN "dropped" ELSE stream
  /\ UNCHANGED <<got, opened, buffer, file, failed, finished, step, rows, summary,
                 events, spill, due, missed, dead>>

\* hyper drops the stream: after its end, or early when the client has gone.
Release ==
  /\ ~dead /\ ~released /\ step = "none"
  /\ released' = TRUE
  /\ stream' = IF stream = "open" THEN "dropped" ELSE stream
  /\ StartFinish
  /\ UNCHANGED <<got, opened, buffer, file, failed, rows, summary, events, spill, due,
                 missed, dead>>

FinishStep(from, to) == ~dead /\ step = from /\ step' = to

\* Mutant of Flush: the BufWriter is left to its drop.
FlushLeft ==
  /\ FinishStep("flush", "index")
  /\ UNCHANGED <<got, opened, buffer, file, failed, stream, released, finished, rows,
                 summary, events, spill, due, missed, dead>>

\* f.flush(), whose error is dropped.
Flush ==
  /\ FinishStep("flush", "index")
  /\ \E n \in 0 .. Len(buffer) : FlushBuffer(n)
  /\ UNCHANGED <<got, opened, stream, released, finished, rows, summary, events, spill,
                 due, missed, dead>>

\* finish goes on after a report that nobody asked for, and after one whose
\* write failed: append_line, write_if_any and Sessions::append tell nobody.
Passed(r) == missed' = IF r \in due THEN missed \cup {r} ELSE missed

Index ==
  /\ FinishStep("index", "summary")
  /\ \/ "index" \in due /\ rows' = Append(rows, got) /\ UNCHANGED missed
     \/ Passed("index") /\ UNCHANGED rows
  /\ UNCHANGED <<got, opened, buffer, file, failed, stream, released, finished, summary,
                 events, spill, due, dead>>

\* Mutant of Summary: the spilled body is removed here already.
SummaryUnspills ==
  /\ FinishStep("summary", "session")
  /\ \/ "summary" \in due /\ summary' = TRUE /\ UNCHANGED missed
     \/ Passed("summary") /\ UNCHANGED summary
  /\ spill' = FALSE
  /\ UNCHANGED <<got, opened, buffer, file, failed, stream, released, finished, rows,
                 events, due, dead>>

Summary ==
  /\ FinishStep("summary", "session")
  /\ \/ "summary" \in due /\ summary' = TRUE /\ UNCHANGED missed
     \/ Passed("summary") /\ UNCHANGED summary
  /\ UNCHANGED <<got, opened, buffer, file, failed, stream, released, finished, rows,
                 events, spill, due, dead>>

SessionEvent ==
  /\ FinishStep("session", "unspill")
  /\ \/ "session" \in due /\ events' = events + 1 /\ UNCHANGED missed
     \/ Passed("session") /\ UNCHANGED events
  /\ UNCHANGED <<got, opened, buffer, file, failed, stream, released, finished, rows,
                 summary, spill, due, dead>>

\* remove_file, whose error is dropped.
Unspill ==
  /\ FinishStep("unspill", "none")
  /\ \/ spill' = FALSE /\ UNCHANGED missed
     \/ spill /\ missed' = missed \cup {"spill"} /\ UNCHANGED spill
  /\ UNCHANGED <<got, opened, buffer, file, failed, stream, released, finished, rows,
                 summary, events, due, dead>>

\* The Sink's fields are dropped after its drop: BufWriter writes out what an
\* earlier failure has left in it.
DropWriter ==
  /\ ~dead /\ released /\ finished /\ step = "none" /\ buffer # << >>
  /\ \E n \in 0 .. Len(buffer) :
       /\ file' = file \o Prefix(buffer, n)
       /\ buffer' = << >>
       /\ failed' = (failed \/ Short(n, Len(buffer)))
  /\ UNCHANGED <<got, opened, stream, released, finished, step, rows, summary, events,
                 spill, due, missed, dead>>

\* What is in memory is gone; what is on disk stays.
Die ==
  /\ ~dead
  /\ dead' = TRUE
  /\ UNCHANGED <<got, opened, buffer, file, failed, stream, released, finished, step,
                 rows, summary, events, spill, due, missed>>

Finish == Flush \/ Index \/ Summary \/ SessionEvent \/ Unspill

Next ==
  \/ Chunk \/ Over("ended") \/ Over("failed") \/ Release
  \/ Finish \/ DropWriter
  \/ Die

Spec == Init /\ [][Next]_vars

\* finish is plain code: once started it runs on.  hyper drops a body it is
\* done with; when the upstream sends and when a client leaves is theirs.
Fairness == WF_vars(Finish) /\ WF_vars(Release /\ stream # "open")

FairSpec == Spec /\ Fairness

-----------------------------------------------------------------------------
(* Properties.                                                             *)

\* The types of the state.
TypeOK ==
  /\ got \in Nat
  /\ opened \in BOOLEAN /\ failed \in BOOLEAN
  /\ buffer \in Seq(Nat) /\ file \in Seq(Nat) /\ rows \in Seq(Nat)
  /\ stream \in {"open", "ended", "failed", "dropped"}
  /\ released \in BOOLEAN /\ finished \in BOOLEAN
  /\ step \in Steps
  /\ summary \in BOOLEAN /\ events \in Nat
  /\ spill \in BOOLEAN /\ dead \in BOOLEAN
  /\ due \subseteq Reports /\ missed \subseteq Reports \cup {"spill"}

\* "records every request/response byte" (README.md:4): while no write has
\* failed, every byte handed to the client is in the recording or on its way
\* there, in its place.
Recorded == ~failed => file \o buffer = Positions(0, got)

\* An index row never speaks of bytes that a crash can still take away: when
\* it is written, the recording it names is complete on disk.
RowAfterFile ==
  ~failed /\ rows # << >> => file = Positions(0, got)

\* A disk that fails leaves gaps in a recording; it never puts bytes out of
\* their order or twice.
InOrder == \A i, j \in 1 .. Len(file) : i < j => file[i] < file[j]

\* What there is of report r: once is right.
Times(r) == CASE r = "index"   -> Len(rows)
              [] r = "summary" -> IF summary THEN 1 ELSE 0
              [] r = "session" -> events

\* Every report that is due has been written, once, or its write has failed.
AllTold == \A r \in due : Times(r) = (IF r \in missed THEN 0 ELSE 1)

\* The spilled request body is what a crash would leave as the only copy: it
\* goes last, after every report that is due was written or failed.
SpillGoesLast == [][spill' # spill => AllTold]_vars

Promise == INSTANCE TeeSpec WITH over <- stream # "open"

\* At most one row per exchange, counting every byte handed over, whoever
\* ended it.
KeepsPromise == Promise!Spec

\* "A client that disconnects mid-stream still gets a summary + index row"
\* (main.rs:273), and so does every other exchange, as far as they are asked
\* for and the disk takes them; the spilled body goes unless its removal fails.
GetsReported ==
  stream # "open" ~> (AllTold /\ (spill => "spill" \in missed)) \/ dead

=============================================================================
