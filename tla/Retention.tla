----------------------------- MODULE Retention -----------------------------
(***************************************************************************)
(* The hourly pruner (Recorder::prune and collect in src/src/record.rs,    *)
(* started by main) beside the requests that write the tree it prunes.     *)
(* It works on a listing made before: what a file was when listed need not *)
(* be what it is when the pruner comes to it.                              *)
(*                                                                         *)
(* A file holds rows; a row is a number, and row[n] says of which file it  *)
(* is and on which day it was written.  A path is a file and its form,     *)
(* "plain" or, once compressed, "gz".                                      *)
(***************************************************************************)
EXTENDS Integers, FiniteSets, FiniteSetsExt, Sequences

CONSTANTS
  Logs,       \* files opened for each row: index.jsonl
  Streams,    \* files held open while a response goes on
  Off,        \* None: a limit that is not configured
  Retentions, \* values of record.retention_days
  GzipAfters, \* values of record.gzip_after_days
  Caps,       \* values of record.max_total_bytes
  MaxDay,     \* bound: the last day
  MaxRows     \* bound: rows written

ASSUME RetentionAssumption ==
  /\ Off \notin Nat
  /\ (Retentions \cup GzipAfters \cup Caps) \subseteq Nat \cup {Off}
  /\ Logs \cap Streams = {}
  /\ MaxDay \in Nat /\ MaxRows \in Nat

VARIABLES
  retention, gzipAfter, cap, \* the configuration
  day,   \* the clock, in days
  row,   \* every row written
  disk,  \* the tree: the rows and the modification time of each path
  fd,    \* what the writer of a stream holds
  pc,    \* the pass of prune that is under way
  now,   \* prune's now
  list,  \* prune's files: the listed size and modification time of a path
  todo,  \* the paths the pass has not come to
  total, \* prune's total
  zip,   \* the path gzip is compressing and what it has read
  late,  \* rows written since the pass began, or to an unlinked file
  rezip, \* rows of a compressed form that gzip -f has unlinked
  quiet  \* since the last wake-up: nothing written, no removal failed

config == <<retention, gzipAfter, cap>>
writers == <<day, row, fd>>
pruner == <<pc, now, list, todo, total, zip>>
history == <<late, rezip, quiet>>
vars == <<config, writers, disk, pruner, history>>

Files == Logs \cup Streams
Plain(f) == <<f, "plain">>
Gz(f) == <<f, "gz">>
Paths == Files \X {"plain", "gz"}
NoZip == [path |-> Off, rows |-> {}, mtime |-> 0]

\* A compressed file is small, whatever it holds.
SizeOf(p, rows) == IF p[2] = "gz" THEN 1 ELSE Cardinality(rows)

\* collect.
Listing(tree) ==
  [p \in DOMAIN tree |->
     [size |-> SizeOf(p, tree[p].rows), mtime |-> tree[p].mtime]]

TotalOf(files) == MapThenSumSet(LAMBDA p : files[p].size, DOMAIN files)

Only(f, keep) == [p \in DOMAIN f \cap keep |-> f[p]]
With(tree, p, rows, mtime) ==
  [q \in DOMAIN tree \cup {p} |->
     IF q = p THEN [rows |-> rows, mtime |-> mtime] ELSE tree[q]]

-----------------------------------------------------------------------------
Init ==
  /\ retention \in Retentions /\ gzipAfter \in GzipAfters /\ cap \in Caps
  /\ day = 0 /\ row = << >> /\ disk = << >>
  /\ fd = [s \in Streams |-> "new"]
  /\ pc = "asleep" /\ now = 0 /\ list = << >> /\ todo = {} /\ total = 0
  /\ zip = NoZip
  /\ late = {} /\ rezip = {} /\ quiet = FALSE

-----------------------------------------------------------------------------
(* The requests.                                                           *)

\* A row of f is written, now.
Written(f) ==
  /\ row' = Append(row, [file |-> f, day |-> day])
  /\ quiet' = FALSE
  /\ late' = IF pc = "asleep" /\ (f \in Streams => fd[f] # "orphan")
               THEN late ELSE late \cup {Len(row) + 1}

RowsAt(p) == IF p \in DOMAIN disk THEN disk[p].rows ELSE {}
OnDisk(f) == RowsAt(Plain(f)) \cup RowsAt(Gz(f))

\* append_line opens the file, creating it if need be, and writes a row.
AppendRow(f) ==
  /\ Len(row) < MaxRows
  /\ Written(f)
  /\ disk' = With(disk, Plain(f), RowsAt(Plain(f)) \cup {Len(row) + 1}, day)
  /\ UNCHANGED <<config, day, fd, pruner, rezip>>

\* The sink creates the recording of a response; its name is new.
Create(s) ==
  /\ fd[s] = "new"
  /\ fd' = [fd EXCEPT ![s] = "open"]
  /\ disk' = With(disk, Plain(s), {}, day)
  /\ quiet' = FALSE
  /\ UNCHANGED <<config, day, row, pruner, late, rezip>>

\* A chunk goes to the file that is held open, linked or not.
WriteOn(s) ==
  /\ fd[s] \in {"open", "orphan"} /\ Len(row) < MaxRows
  /\ Written(s)
  /\ disk' = IF fd[s] = "orphan" THEN disk
             ELSE With(disk, Plain(s), RowsAt(Plain(s)) \cup {Len(row) + 1}, day)
  /\ UNCHANGED <<config, day, fd, pruner, rezip>>

Close(s) ==
  /\ fd[s] \in {"open", "orphan"}
  /\ fd' = [fd EXCEPT ![s] = "closed"]
  /\ UNCHANGED <<config, day, row, disk, pruner, history>>

Tick ==
  /\ day < MaxDay
  /\ day' = day + 1
  /\ UNCHANGED <<config, row, fd, disk, pruner, history>>

-----------------------------------------------------------------------------
(* The pruner.                                                             *)

\* Mutant of Old: a file as old as the limit is past it.
OldAlready(p, days) == now - list[p].mtime >= days

\* now.duration_since(mtime) > cutoff; a time ahead of now is no age.
Old(p, days) == now - list[p].mtime > days

\* The paths a pass over the list removes or compresses.
Due(days) ==
  IF days = Off THEN {} ELSE {p \in todo : Old(p, days)}

\* What unlinking p does to a writer that holds it open.
Unlinked(p) ==
  fd' = [s \in Streams |->
           IF p = Plain(s) /\ fd[s] = "open" THEN "orphan" ELSE fd[s]]

\* remove_file, which fails when the file is gone and may when it is there.
Removed(p) ==
  /\ p \in DOMAIN disk
  /\ disk' = Only(disk, DOMAIN disk \ {p})
  /\ Unlinked(p)
  /\ UNCHANGED quiet

NotRemoved(p) ==
  /\ quiet' = (quiet /\ p \notin DOMAIN disk)
  /\ UNCHANGED <<disk, fd>>

\* prune reads the clock and lists the tree.
Wake ==
  /\ pc = "asleep"
  /\ pc' = "expire"
  /\ now' = day
  /\ list' = Listing(disk)
  /\ todo' = DOMAIN disk
  /\ quiet' = TRUE
  /\ UNCHANGED <<config, writers, disk, total, zip, late, rezip>>

Expire(p) ==
  /\ pc = "expire" /\ p \in Due(retention)
  /\ todo' = todo \ {p}
  /\ Removed(p) \/ NotRemoved(p)
  /\ UNCHANGED <<config, day, row, pc, now, list, total, zip, late, rezip>>

\* Mutant of Retain: the listing keeps what has been removed.
RetainAll == list

\* files.retain(|p| p.exists()), in the block of retention_days.
Retain == IF retention = Off THEN list ELSE Only(list, DOMAIN disk)

\* The paths the gzip pass looks at, if there is one.
Zippable(files) ==
  IF gzipAfter = Off THEN {} ELSE {p \in DOMAIN files : p[2] # "gz"}

Expired ==
  /\ pc = "expire" /\ Due(retention) = {}
  /\ pc' = "gzip"
  /\ list' = Retain
  /\ todo' = Zippable(Retain)
  /\ UNCHANGED <<config, writers, disk, now, total, zip, history>>

\* gzip -f opens the file and reads it to its end.
ZipReads(p) ==
  /\ pc = "gzip" /\ p \in Due(gzipAfter) /\ p \in DOMAIN disk
  /\ pc' = "gzipping"
  /\ zip' = [path |-> p, rows |-> disk[p].rows, mtime |-> disk[p].mtime]
  /\ todo' = todo \ {p}
  /\ UNCHANGED <<config, writers, disk, now, list, total, history>>

\* The older compressed form of f, if there is one, goes with its rows.
OlderGoes(f) == rezip' = rezip \cup (RowsAt(Gz(f)) \ zip.rows)

\* It writes the compressed file, in place of one that is there, with the time
\* of the original, and unlinks the original, which may fail.
ZipWrites ==
  LET f == zip.path[1] IN
  /\ pc = "gzipping"
  /\ pc' = "gzip"
  /\ OlderGoes(f)
  /\ \/ /\ disk' = With(Only(disk, DOMAIN disk \ {zip.path}), Gz(f), zip.rows, zip.mtime)
        /\ Unlinked(zip.path)
     \/ /\ disk' = With(disk, Gz(f), zip.rows, zip.mtime)
        /\ UNCHANGED fd
  /\ zip' = NoZip
  /\ UNCHANGED <<config, day, row, now, list, todo, total, late, quiet>>

\* gzip is not installed or the file is gone: the tree stays as it was.  Or the
\* disk is full: gzip -f has unlinked an older compressed form before it wrote
\* and unlinks what it has written.
ZipFails ==
  /\ \/ /\ pc = "gzipping"
        /\ pc' = "gzip" /\ zip' = NoZip
        /\ \/ UNCHANGED <<disk, rezip>>
           \/ /\ disk' = Only(disk, DOMAIN disk \ {Gz(zip.path[1])})
              /\ OlderGoes(zip.path[1])
        /\ UNCHANGED todo
     \/ /\ pc = "gzip"
        /\ \E p \in Due(gzipAfter) : p \notin DOMAIN disk /\ todo' = todo \ {p}
        /\ UNCHANGED <<pc, zip, disk, rezip>>
  /\ UNCHANGED <<config, writers, now, list, total, late, quiet>>

\* Mutant of Relist: the tree is not listed again after compressing.
RelistNever == list

\* The listing the size pass works on: a new one after the gzip pass.
Relist == IF gzipAfter = Off THEN list ELSE Listing(disk)

Zipped ==
  /\ pc = "gzip" /\ Due(gzipAfter) = {}
  /\ pc' = "cap"
  /\ list' = Relist
  /\ todo' = DOMAIN Relist
  /\ total' = TotalOf(Relist)
  /\ UNCHANGED <<config, writers, disk, now, zip, history>>

TooMuch == cap # Off /\ total > cap /\ todo # {}

\* files.sort_by_key(mtime): those of the same time in the order listed.
Oldest == {p \in todo : \A q \in todo : list[p].mtime <= list[q].mtime}

Drop(p) ==
  /\ pc = "cap" /\ TooMuch /\ p \in Oldest
  /\ todo' = todo \ {p}
  /\ \/ Removed(p) /\ total' = total - list[p].size
     \/ NotRemoved(p) /\ UNCHANGED total
  /\ UNCHANGED <<config, day, row, pc, now, list, zip, late, rezip>>

\* The next pass makes a listing of its own: a row that is on disk by then is
\* late no more.
Sleep ==
  /\ pc = "cap" /\ ~TooMuch
  /\ pc' = "asleep"
  /\ list' = << >> /\ todo' = {} /\ total' = 0 /\ now' = 0
  /\ late' = {n \in late : n \notin OnDisk(row[n].file)}
  /\ UNCHANGED <<config, writers, disk, zip, rezip, quiet>>

-----------------------------------------------------------------------------
Requests ==
  \/ \E f \in Logs : AppendRow(f)
  \/ \E s \in Streams : Create(s) \/ WriteOn(s) \/ Close(s)

Prune ==
  \/ Wake
  \/ \E p \in Paths : Expire(p) \/ ZipReads(p) \/ Drop(p)
  \/ Expired \/ ZipWrites \/ ZipFails \/ Zipped \/ Sleep

Next == Requests \/ Tick \/ Prune

Spec == Init /\ [][Next]_vars

-----------------------------------------------------------------------------
\* The types of the state.
TypeOK ==
  /\ day \in 0..MaxDay /\ now \in 0..MaxDay
  /\ row \in Seq([file : Files, day : 0..MaxDay])
  /\ DOMAIN disk \subseteq Paths
  /\ \A p \in DOMAIN disk : /\ disk[p].rows \subseteq DOMAIN row
                            /\ disk[p].mtime \in 0..MaxDay
  /\ fd \in [Streams -> {"new", "open", "orphan", "closed"}]
  /\ pc \in {"asleep", "expire", "gzip", "gzipping", "cap"}
  /\ DOMAIN list \subseteq Paths /\ todo \subseteq DOMAIN list

\* A row of a recording that is no longer on disk was past retention_days, or
\* went with the oldest files while max_total_bytes is set.  Other than that only
\* three kinds of rows go, whatever the file they are in has been through: one
\* that was written while the pass that took it was under way, one written to a
\* file already unlinked, and one of a compressed form that gzip -f unlinked to
\* compress the file again.
LossExplained ==
  \A n \in DOMAIN row :
    \/ n \in OnDisk(row[n].file)
    \/ retention # Off /\ day - row[n].day > retention
    \/ cap # Off
    \/ n \in late \/ n \in rezip

\* After a pass during which nothing was written and no removal failed, what
\* is on disk fits into max_total_bytes.
FitsWhenQuiet ==
  pc = "asleep" /\ quiet /\ cap # Off => TotalOf(Listing(disk)) <= cap

\* In such a pass the size limit takes a file only while the tree does not fit,
\* although the total it goes by is that of a listing, and it leaves no file
\* that is older than one it takes.
OldestAndNoMore ==
  [][pc = "cap" /\ quiet =>
       \A p \in DOMAIN disk \ DOMAIN disk' :
         /\ TotalOf(Listing(disk)) > cap
         /\ \A q \in DOMAIN disk' : disk[p].mtime <= disk[q].mtime]_vars

=============================================================================
