----------------------------- MODULE JsonLines -----------------------------
(***************************************************************************)
(* How rows reach a file of JSON lines: index.jsonl (append_line of        *)
(* src/src/main.rs) and the session files (append of src/src/session.rs).  *)
(* Each row goes out through its own descriptor opened for appending, with *)
(* no lock and no buffer, so every piece of it is a write of its own:      *)
(* append_line makes two (the row, the newline), writeln!(file, "{event}") *)
(* one for each fragment the JSON formatter emits.  The requests run on    *)
(* several threads.                                                        *)
(***************************************************************************)
EXTENDS Integers, Sequences

CONSTANTS
  Writers,  \* the threads that append
  Parts,    \* pieces per row; the last one is the newline
  MaxRows   \* bound: rows begun

ASSUME JsonLinesAssumption ==
  /\ Parts \in Nat /\ Parts >= 2
  /\ MaxRows \in Nat

VARIABLES
  file,  \* the pieces in the file, in the order they were appended
  row,   \* the number of the row each writer is on, 0 when on none
  done,  \* how many pieces of that row it has written
  begun, \* rows begun, which numbers them
  torn,  \* rows given up before their newline
  crossed \* rows that were under way while another one was

lineVars == <<file, row, done, begun, torn, crossed>>

Piece == [row : Nat \ {0}, part : 1 .. Parts]

-----------------------------------------------------------------------------
LinesInit ==
  /\ file = << >>
  /\ row = [w \in Writers |-> 0]
  /\ done = [w \in Writers |-> 0]
  /\ begun = 0
  /\ torn = {} /\ crossed = {}

\* The other writers in the middle of a row.
Others(w) == {v \in Writers \ {w} : row[v] # 0}

\* The file is opened (created when missing) in append mode.
Open(w) ==
  /\ row[w] = 0
  /\ begun < MaxRows
  /\ begun' = begun + 1
  /\ row' = [row EXCEPT ![w] = begun + 1]
  /\ done' = [done EXCEPT ![w] = 0]
  /\ crossed' = IF Others(w) = {} THEN crossed
                ELSE crossed \cup {begun + 1} \cup {row[v] : v \in Others(w)}
  /\ UNCHANGED <<file, torn>>

\* Mutant of WritePiece: the newline is written first.
WriteNewlineFirst(w) ==
  /\ row[w] # 0
  /\ done[w] < Parts
  /\ file' = Append(file, [row |-> row[w], part |-> Parts - done[w]])
  /\ done' = [done EXCEPT ![w] = @ + 1]
  /\ UNCHANGED <<row, begun, torn, crossed>>

\* One write(2): the piece goes to wherever the file ends at that moment.
WritePiece(w) ==
  /\ row[w] # 0
  /\ done[w] < Parts
  /\ file' = Append(file, [row |-> row[w], part |-> done[w] + 1])
  /\ done' = [done EXCEPT ![w] = @ + 1]
  /\ UNCHANGED <<row, begun, torn, crossed>>

\* Mutant of Close: the newline may be forgotten.
CloseEarly(w) ==
  /\ row[w] # 0
  /\ done[w] >= Parts - 1
  /\ row' = [row EXCEPT ![w] = 0]
  /\ UNCHANGED <<file, done, begun, torn, crossed>>

Close(w) ==
  /\ row[w] # 0
  /\ done[w] = Parts
  /\ row' = [row EXCEPT ![w] = 0]
  /\ UNCHANGED <<file, done, begun, torn, crossed>>

\* A write fails: write_all returns the error, which both callers drop, and
\* the rest of the row is never written (what arrives of a piece cut short
\* counts as not written: it is not a newline, and a torn row's in any case).
WriteFails(w) ==
  /\ row[w] # 0 /\ done[w] < Parts
  /\ torn' = torn \cup {row[w]}
  /\ row' = [row EXCEPT ![w] = 0]
  /\ UNCHANGED <<file, done, begun, crossed>>

\* The process is killed and started again on the same file.
Killed ==
  /\ \E w \in Writers : row[w] # 0
  /\ torn' = torn \cup {row[w] : w \in {v \in Writers : row[v] # 0 /\ done[v] < Parts}}
  /\ row' = [w \in Writers |-> 0]
  /\ UNCHANGED <<file, done, begun, crossed>>

LinesNext ==
  \/ \E w \in Writers : Open(w) \/ WritePiece(w) \/ Close(w) \/ WriteFails(w)
  \/ Killed

LinesSpec == LinesInit /\ [][LinesNext]_lineVars

-----------------------------------------------------------------------------
(* Properties.                                                             *)

\* The types of the state.
LinesTypeOK ==
  /\ file \in Seq(Piece)
  /\ row \in [Writers -> Nat]
  /\ done \in [Writers -> 0 .. Parts]
  /\ begun \in Nat
  /\ torn \subseteq Nat /\ crossed \subseteq Nat

\* The piece at i continues the row begun before it.
Continues(i) == i > 1 /\ file[i - 1].row = file[i].row
                      /\ file[i - 1].part + 1 = file[i].part

\* The row has ended, so its newline is in the file.
Ended(r) == r \in 1 .. begun /\ r \notin torn /\ \A w \in Writers : row[w] # r

\* When nobody is in the middle of a row the file is empty or ends in a
\* newline, or its end is that of a torn row: only a torn row can spoil the
\* line of the next one, also after a restart.
QuietEndsLine ==
  (\A w \in Writers : row[w] = 0) /\ file # << >> =>
    file[Len(file)].part = Parts \/ file[Len(file)].row \in torn

\* A row that no other one crossed is in one piece: it starts the file, or
\* comes after a newline or after a torn row, and nothing comes in between.
LinesUnlessCrossed ==
  \A i \in 1 .. Len(file) :
    file[i].row \notin crossed =>
      IF file[i].part = 1
        THEN i = 1 \/ file[i - 1].part = Parts \/ file[i - 1].row \in torn
        ELSE Continues(i)

=============================================================================
