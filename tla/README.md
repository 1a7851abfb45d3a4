# codex-rec in TLA+

codex-rec is a recording and forwarding HTTP/1.1 reverse proxy (axum on a
multi-threaded tokio runtime) with a token-rotation loop beside it.  This
directory models its core in TLA+: TLC checks small instances, TLAPS proves the
theorems at the end of this file for every value of the constants.

## The system

A client's request passes through these parts, in this order:

1. `handle` (`src/src/main.rs:322-928`) picks the session and thread from the
   headers and asks the **recorder** (`record.rs`) for a *plan*: a directory and
   a file-name stem.
2. It assembles the outgoing headers (**persona**, header rules, header files,
   `config.rs`, `persona.rs`).
3. It reads the body (**body reader**, `body.rs`): in memory up to a limit, into
   a spill file in the temporary directory beyond it; perhaps rewrites it
   (`envrewrite.rs`, `tz.rs`).
4. It writes the request's artifacts, appends a request event to the **session
   file** (`session.rs`), and sends the request.
5. The response is streamed to the client through a `TeeStream`, whose **Sink**
   records, summarizes (`summary.rs`) and, at the end, writes the index row, the
   summary and the session event, and removes the spill file.

Beside the requests run the hourly **pruner** (`record.rs:156`), and, in other
processes, the **token rotation** (`ops/tsroll.py`, with `tsgrab` and its scan)
and the handshake probe.

| part | state it keeps | operations | what makes it correct |
| --- | --- | --- | --- |
| recorder naming | table of sessions (directory, next number, last seen) under a mutex, capped | `plan` | numbers without gaps or repeats, names that sort by age, a bounded table that forgets the right half, one file set per request unless a flood of other sessions makes it forget one |
| body reader | buffer, spill file, the background write of the file | `read`, `file_body` | every byte once and in order or an error; bounded memory; an answer |
| session capture | two capped tables (titles, paths) under a mutex each | `note_title`, `path`, `append` | one file per session, bounded tables |
| JSON-lines files | `index.jsonl`, one file per session; appended by all requests, no lock | `append_line`, `append` | a line is a row; rows complete; a restart starts on a new line |
| response tee | recording (buffered), counters, index row, finished flag | `poll_next`, `write_chunk`, `finish`, `drop` | all bytes recorded in order; one row, after the recording; every report tried once, spill removed last |
| handler | the request's body, spill and artifact files; one handler per request, shared directories | reading, moving, writing, sending, every early return | what the upstream gets is the client's body; no leftover files; every request indexed |
| pruner | a file listing, stale while it is worked on | `prune` | removes the oldest only, keeps the cap, spares what is being written |
| summaries | line buffer, capped copies | `push`, `finish` | the same summary however the response is cut into chunks; caps on what is copied |
| headers, routes, persona | none | per request | precedence of the rules, secrets redacted in the record |
| environment rewrite, calendar | none; reads the clock for each block | `apply_env`, `resolve_date` | the date shown is that of the zone shown, while the request was handled |
| token rotation | token slot, probe budget, clock | `scan_fresh`, `probe`, `install`, `hunt`, `run_loop` | an install does not put an older token over one its hunt saw; a hunt ends; a stale slot is refreshed |
| probe, TLS set-up, scripts, build | none | | |

The hard behaviours are: requests interleaving on shared tables, files and
directories (nothing but three mutexes orders them); a handler's future dropped
at any await when its client goes away; background writes whose errors come late
or are dropped; kills and restarts between two file operations; tables at their
caps; bodies and chunks that end exactly at a boundary.  `PROJECT.json` lists
them under `hazards`, each at its line with the properties that would catch it.

## The modules

| module | models | state ↔ code |
| --- | --- | --- |
| `Recorder` | `Recorder::plan` and what it calls | `tracked` is `Recorder::state`, `issued` the plans handed out; `Plan` is the whole of `plan`, which holds the mutex throughout; `Restart` is a new process |
| `BodySpec` | what the module comment of `body.rs` promises | `received`, and what the caller is told |
| `BodyRead` | `body::read` | `phase` is the place in the loop, `buf` and `disk` the buffer and the file, `inflight`/`diskErr` tokio's background write and its pending error; one action per branch and await. Implements `BodySpec` with `result <- Outcome` |
| `Sessions` | `Sessions::{note_title, path, append}` | `titles`, `paths`; `append` is four actions, cut where `path` gives a lock up |
| `JsonLines` | `append_line` and `writeln!` in `append` | `file` is a sequence of pieces, one per `write(2)` |
| `TeeSpec` | one index row per exchange that counts every byte | |
| `Tee` | `TeeStream`, `Sink`, their drops | `buffer` is the `BufWriter`'s, `file` the disk, `step` the place inside `finish`, `due` what `finish` is asked to report. The recording, each report and the removal of the spill file may fail. Polls and drops are atomic but for a kill. Implements `TeeSpec` with `over <- stream # "open"` |
| `Exchange` | the request half of `handle` with `file_body`, for several requests | `names`/`data` are the files as names and inodes, `in`/`out` open descriptors, `stem` and `dir` the plan, `unlink` is `spilled.is_some()`, `up` the upload, which runs beside the handler; one action per block read or written and per early return; the last background write, the rename, the copy and the raw artifact may fail |
| `Retention` | `Recorder::prune`, `collect` and the hourly loop, beside the requests that write | `disk` is the tree (rows and modification time of each path), `list`/`todo`/`total` what `prune` knows of it; one action per file removed, read or written by the pruner, so a write may come between any two |
| `Summarizer` | `Summarizer::{push, parse_line, finish}`, the catalog description | `pending`, `raw`, `truncated` and the fields of the struct; `PushLines` (SSE) and `PushRaw` (other bodies) take one chunk, the loop over lines being a function of the text |
| `Rotation` | `hunt`, `install`, `run_loop` of `ops/tsroll.py`, the scan of `tsscan.rs`, what an attempt of `tsgrab.rs` accepts, the proxy that sends the slot and dumps what it sends and gets | `slot` is the slot file, `dumps` the header dumps; for each rotator its place and hunt's locals `seen` (`cur_issued`), `tok`, `left`. `Look` is `token_age()` in `run_loop`, `Hunt` the reading of the slot in `hunt`; an install of another rotator may come between |
| `Calendar` | `timeutil.rs`, `tz.rs` | no state: `civil_from_days`, `Zone::parse`, the tzdata reader and the conversions as functions |
| `Environment` | `envrewrite.rs` | no state: `ApplyEnv` maps the pieces of a body and the time `resolve_date` reads for each to pieces |
| `Headers` | `handle`'s path, header assembly, header dump and response headers; `config.rs`, `persona.rs` | `out` the outgoing headers, `todo` the header files not yet read, `dump` the lines of `<stem>.req.out.hdr`, none if it is not written; files may be replaced between two reads, and the clock goes on while the request is handled (`Tick`) and between two blocks of its body (`Rewriting`) |
| `Grab` | a probe of `tsgrab.rs`: template, credentials, ids, body | `base` is `headers`, `tries` what the attempts sent. Extends `Headers`, so that the template is the dump the proxy wrote, or `<stem>.req.hdr` where there is none. A body's ids are under their keys |
| `MC*` | the small instances | |
| `*Proofs` | theorems | |

Three compositions join the parts.  `Exchange` composes what `BodyRead` and `Tee`
have in detail: it keeps their phases and drops what they settle (frames,
buffers, the steps of `finish`), so that two requests and the file system between
them stay small.  `Grab` runs on top of `Headers`, `Environment` and `Calendar`:
configuration, request, forwarded headers and body, dump, and the probe that
reads the dump back, on one clock.  `Rotation` has the proxy, the recorder's dumps,
the scan, the backend and two rotators over one slot.  `Sessions` and `JsonLines`
are two halves of `append`: which file, and how.

What is out of the program's hands is a choice of the model, not a constant: a
write fails or does not, a clock is set back or not, appends overlap or not, a
hunt is cut off or not.  The properties say what they depend on through *history
variables*, which no action reads:

| module | history | remembers |
| --- | --- | --- |
| `Recorder` | `tenure`, `setBack` | how often a session was entered into the table; whether the clock has been set back |
| `BodyRead` | `diskErr` | a background write failed and nobody has been told (`lost` in `BodySpec`); it is also the pending error that the next write reports |
| `Sessions` | `met`, `dropped` | sessions whose appends have overlapped; sessions a full table has dropped |
| `JsonLines` | `crossed`, `torn` | rows that were under way beside another; rows given up before their newline |
| `Tee` | `failed`, `missed` | creating or writing the recording has failed; what `finish` tried to do in vain |
| `Exchange` | `cut`, `unkept` | the last background write of a spill file, the write of a raw artifact, has failed |
| `Retention` | `late`, `rezip`, `quiet` | rows written during the pass or to a file that was unlinked while held open; rows of a compressed form that `gzip -f` unlinked; a pass during which nothing was written and no removal failed |
| `Summarizer` | `received`, `handed` | the whole response; every line that was parsed |
| `Rotation` | `via`, `filled` | where a rotator's token comes from; another rotator filled the slot between the service's two looks at it |
| `Headers` | `held`, `times` | what the header files have held, and the moments of the clock, while the request was handled |

So a property such as `OneFileUnlessMet` or `LossExplained` is checked in one run
with every failure, and proved without a condition on the environment.

Mutants (`TouchedStuck`, `RetainAll`, ...) stand before the definitions they
spoil; no specification uses them.  For each property of a passing run there is
one that TLC finds to violate it.

### What the models leave out

- Data that no property tells apart: bytes are model values or positions, titles
  are slugs already, header values are short tuples of tokens, JSON is opaque
  (in `Summarizer`: an opening brace, filler and a closer).
- `slugify`, stamps and file names are modelled by what they keep apart.
- Failures of `create_dir_all` and a poisoned mutex.  A failed `remove_file` is
  in `Tee` only, a kill in `Recorder`, `JsonLines` and `Tee` only.
- Directories and the report of a prune; the sizes of compressed files (1);
  what is appended after gzip has read a file and before it sees its end.
- `record.index = false` in `JsonLines` and `Retention`; `Tee` has each of the
  reports on or off.
- Above 9999 requests `-r%04` no longer sorts as text; the sequence number is
  compared as a number.
- What `Summarizer` keeps without a cap (errors, models, event types, ids, tiers,
  metadata frames; `summary.rs:295-362`) grows with the stream in the model, too.
- `Rotation` keeps a token's age instead of the time, up to a bound beyond which
  no comparison of the code tells ages apart; the scan does not read the slot
  file itself, which lies outside the default scan directories.  Bytes that
  `tsroll.py` takes for a time and nobody else does (`tsroll.py:76-82` does not
  look at the version byte) are a time to come or one long ago.
- What `install` writes after the slot (`state/current.json`, the event, the log,
  the copy at the admin API) no program reads.
- A header dump that is cut short by a failed write: it is there or it is not.
  Of a header that came more than once `<stem>.req.hdr` has each line; one is kept.

## The runs

One run per component checks all its properties together (`MCRecorder.cfg`,
`MCBodyRead.cfg`, ...).  The two with a suffix, `exchange_lost` and
`rotation_again`, check one property each and expect a violation, see
"Disagreements" below.

| run | bounds | why they are enough | shows |
| --- | --- | --- | --- |
| `recorder` | 3 session ids (one absent, two that sanitize alike), 2 thread metadata, table of 2, 4 plans, 1 restart, clock 0-2 with 2 ticks a second | four plans over a table of two force evictions and re-entries, two of them within a second, before and after the restart; a flood of half a table fits into a second | numbering, a name repeats after a flood only, sorting, the choice of the half that goes |
| `body` | frames of 0-2 bytes of an alphabet of two, limit 3, head 2, 6 bytes, the three policies | bodies below, at and two frames beyond the limit, with a head shorter than what was buffered | refinement of `BodySpec`, an answer, bounded memory |
| `sessions` | 2 writers, 3 sessions, tables of 2, 1 title, 1 midnight, 4 different appends | both tables overflow, and a race for a name is followed by two appends that find it | agreement of the finders, one file unless overlapped or dropped |
| `jsonl` | 2 writers, rows of 3 pieces, 4 rows | a row can be crossed at each end, torn, and followed by two more | a quiet file ends a line, uncrossed rows are in one piece |
| `tee` | buffer 3, 7 bytes in chunks of any size | chunks that fit, overflow and bypass the buffer, each after a failed or a short write; any of the reports asked for or not, each may fail | row after file, bytes in order, refinement of `TeeSpec`, spill last, reported |
| `exchange` | 2 requests, one compressed, stems and directories the same or not, bodies of 1-3 blocks around a limit of 2, head 1, raw artifacts below 2 | one body may stay in memory while the other spills, or both spill in any interleaving; a body in memory may have an artifact or reach `RawCap`; the sharing of a stem or an artifact needs two | own body without gaps, raw bodies recorded, which exits leave spill files |
| `retention` | one log, one held stream, each of the three limits on or off, 3 days, 3 rows | a file can be past a limit, at it and below it; a row can be written between any two steps of a pass, and a third row before a second compression, which may fail with or without the older form unlinked | every loss explained; a quiet pass fits and takes the oldest, no more than needed |
| `summary` | lines up to 3 bytes, answer of 1, prefix 0 or 3, texts up to 6 bytes in chunks up to 3, two kinds of frame | lines at, below and beyond the cap, complete or cut anywhere, two of them in a text | each line once, the caps, the summary does not depend on the cut, an honest catalog |
| `rotation` | the service and one `--once`, a budget of 1, ages 0-2 (fresh to 1, refreshed at 2), a scan cap of 1, 2 dumps | both rotators may be at any two places, and one may install between the other's looks at the slot; tokens of the wrong length, without a date or with one that only `tsroll.py` takes for one; one dump can hide another behind the cap | the freshest found, no going back, refreshed in the end; no deadlock. 416 000 states, 3 minutes |
| `grab` | 8 configurations and 8 requests, each configuration with each header set and each environment section with each body, 4 auths, header files that change or go away, clocks over a leap day, 1969/1970, 1999/2000 and 2099/2100 that go on by 18 hours at a time while the request is handled or between any two of its blocks, one configuration with a pinned time | two steps of the clock cross one midnight or two; every rule meets every header it names, set by the client, by another rule, or by none; both century rules | dates, header precedence, the persona, the environment, dump and template, ids and credentials |
| `exchange_lost` | one compressed request | | the body replaced by its head |
| `rotation_again` | as `rotation` | | a rejected token installed after all |

Symmetry is used where values are only compared (`Sessions`, `JsonLines`, the
stems and directories of `Exchange`), in runs of invariants.  Deadlock is checked where a program never stops
(`Sessions`, `Rotation`); elsewhere a model ends when its request, its rows or its
bounds do.

### Fairness

`body`, `tee` and `rotation` check liveness.  `BodyRead!FairSpec` is weakly fair
to the reader's own steps once it spills and to the background writes: tokio polls
a live task and its blocking pool.  `Tee!FairSpec` is weakly fair to the steps of
`finish`, which is plain code that goes on after a failed write, and to the
release of a stream that is over, which hyper drops.  `Rotation!Spec` is weakly
fair to the service's look at the slot and to its install, which are steps of a
loop that goes on, and strongly fair to what the service tries again in every
turn and what is cut off or comes to nothing in some: its hunt, its scan, a probe
that is given a token not older than `RefreshAfter`, and the install of such a
token.  So it assumes that the hunts are not all cut off by an exception, that the
slot can be written some time, and that the backend does not refuse for ever;
without the last, nothing could refresh the slot.  Nothing is assumed of clients,
upstreams, the proxy, the pruner or the rotator run by hand.

### Disagreements between code and documentation

Two runs expect a violation, with the trace as evidence:

- `exchange_lost`: the spilled body of a compressed request is moved to
  `<stem>.req.body` and then overwritten by its own head, because only
  `spilled` is looked at (`main.rs:624-627`).
- `rotation_again`: a hunt rejects what its scan found because it is no newer than the
  slot (`tsroll.py:275-276`), but the tsgrab it then starts as a probe scans the
  same dumps again and prints that token, or an older one, which is installed
  (`tsroll.py:289`).  `ServiceNeverBack` says why this does not set the service
  back: it hunts only when the slot is older than anything a scan takes, unless
  another rotator fills the slot between its look at it (`tsroll.py:309-310`) and
  the hunt's own (`271-273`), when a probe may put an older one back: `filled`.

Writing the models brought up the following, without a run of their own.  Of
recordings and their files:

- The error of the last background write of a spilled body is dropped
  (`body.rs:130`): `lost` in `BodySpec`, `cut` in `OwnBodySent`.  What is forwarded is
  then short of that block.
- What cannot be written of a row, a summary, an event or an artifact is passed
  over (`main.rs:137-150`, `240`, `244`, `251-264`, `626`), and the spill file is
  removed all the same (`266`): `missed`, `unkept`.
- The temporary file of a spilled body has no session in its name, so two
  requests may share it (`main.rs:490-493`): `OwnBodySent` is of a request
  with a stem of its own.
- A row is several writes (`session.rs:66`, `main.rs:132-133`): `crossed` in
  `LinesUnlessCrossed`.  A row after a torn row shares its line: `torn`.
- `path` returns its own name though another append has entered one
  (`session.rs:94`): `met` in `OneFileUnlessMet`.  A session dropped from a full table
  gets a second file (`session.rs:89`; "kept for the lifetime of the process",
  `session.rs:70-71`): `dropped`.
- An early return writes no index row (`main.rs:806`, `838`; `docs/config.md:171`).
- Names are given out twice after a restart within a second (`record.rs:87`),
  to two ids that sanitize alike (`record.rs:243`), and to a session that was
  forgotten and came again within the second, where `record.rs:3` has "one file set
  per request".  `RepeatNeedsFlood` is of one process and one id: the table
  forgets a session only after more than half a table of others.
- The head is empty when the first frame alone crosses the limit (`body.rs:105`;
  "always kept", `body.rs:12`): `Buffered` of `Exchange`.
- The policy `stream` buffers and spills like `spill` (`body.rs:90`; "without
  buffering it", `body.rs:10`): `StartSpill` of `BodyRead`.
- A compressed body of exactly 4 MiB, the default limit, is neither spilled nor
  recorded (`main.rs:624`; `docs/config.md:196`): the bounds in `RawRecorded`.
- `write_buffer_bytes = 0` still buffers 8 KiB (`main.rs:896`; "write straight
  through", `docs/config.md:239`): `Cap` of `Tee` is never 0.
- `gzip -f` over a compressed log loses its older rows (`record.rs:186`), also when
  it fails after it has unlinked them: `rezip` in `LossExplained`.  A row is also
  lost that is appended between gzip's read and its unlink, or to a recording
  unlinked while it is held open: `late`.

Of summaries: what is told of errors, models and ids is not capped
(`summary.rs:295-362`), so the memory of a summary is not bounded by its caps,
which is all that `CapsHold` is about; a last line without a newline is never parsed; the rest of a
dropped over-long line counts as a line; an over-long line that is completed
within one chunk is parsed all the same (`summary.rs:14-15`).  `EachLineOnce` and
`SaysWhatWasHeard` are stated of the lines the code takes.

Of the rotation:

- "Freshest wins" (`tsscan.rs:14-15`) holds up to the cap: a newer file with an
  older token hides a fresher one, and the token that is passed over counts
  (`tsscan.rs:136-140`): `FreshestUnlessCapped`.
- `token_from_hdr_file` gives up at the first line that is no header, and the
  recorder's dumps begin with one (`tsgrab.rs:362-374`).
- A last miss without a header writes no `--out` in quiet mode, where line 1104
  has "a miss is still a measurement".
- After an install from a scan, `state/current.json` keeps the metadata of the
  probe before, and of two installs that cross it may describe the other one.
- `token_issued` takes any bytes for a time (`tsroll.py:76-82`), where `tsscan.rs:65`
  and `tsgrab.rs:345` look for the version byte.  With a time to come in it a
  token is never stale.
- The token passed over is that of the first `set_from_file` entry of the fixed
  configuration paths, not of `--config`'s.
- An `--auth` file without a token or an account leaves the recorded one
  (`tsgrab.rs:769-781`): `CredentialsExplicit` says so.  A dump has its
  authorization redacted; the account id is as it was sent.
- "Fresh identity on every attempt" (`tsgrab.rs:517-519`) holds for the keys
  `build_body` names.  `x-codex-window-id` and `x-codex-installation-id` of a
  `client_metadata`, both in real bodies (`docs/fingerprint.md:83`), go out as
  recorded, while the header `x-codex-window-id` is refreshed: `Replayed` in
  `NoReplay`.

Of headers and bodies:

- The order is `set`, `set_from_env`, `set_from_file`; the comment at
  `main.rs:441-442` has the last two the other way round.
- A flag `--set-req-header` loses to `set_from_env` of the file.
- An empty header file means "do not send this header" (`config.rs:191-192`), but the
  client's value or one of `set` still goes out; an empty file for a response
  header sets an empty one.
- Drop patterns from TOML are not lower-cased, though names are said to be
  case-insensitive.
- A header value that is not UTF-8 is forwarded as `<non-utf8>`; of repeated
  headers the last one is.
- A user agent without a terminal but with a suffix keeps the suffix's version
  (`persona.rs:38-42`).
- The zone of one environment block is used for the blocks after it
  (`envrewrite.rs:8-9`); a configured zone that cannot be read is reported as
  ignored but written into the block; a dropped tag is put in again by
  `fill_missing`; replaced values are not escaped, inserted ones are.
- Each block's date is of a time of its own: over midnight two blocks of one body
  may have two dates (`envrewrite.rs:363-367`).  `LocalDates` says that each is of a
  moment while the request was handled.
- A rewrite is not settled after one pass when it takes its own zone away: a
  section without a zone of its own, which drops `timezone` or writes one that
  cannot be read, shifts a date in the zone the block came with, and finds none
  when the block comes by again (`envrewrite.rs:206-215`).  `LosesZone` is this
  exception of `Settles`; the proof of `EnvironmentIsAsSet` brought it up.
- A time before a zone's first transition has the type of that transition, and
  the rule at the end of a tzdata file is not used.

## The proofs

All theorems are of the form `Spec => []Inv` or `Spec => Property`, for all
constants that satisfy the modules' `ASSUME`s, or state a fact about operators.
Every safety property that a passing run checks is proved.

The assumptions ask no more than the code gives: a cap of at least two, chunks
that are sequences, an error for a dropped line that is not one of a frame; and
`GrabAssumption` lists the keys under which a body has ids.  Two are about shapes: in `HeadersAssumption` headers, lines, bodies and sections are
sequences, sets and records of the shape the parsers give them, and a step of
the clock is at most a day; in `ZonesAssumption` a zone is at most a day off
UTC and a transition names a type that exists.

Two theorems about dates have a hypothesis of their own, `OnCalendar`: the clock
starts on the date of its time, and what is pinned is one.  It is stated by the *calendar*, a function
from day numbers to dates (`IsCalendar`: 1970-01-01 is day 0, and each next
day is the next date).  `CalendarExists` proves that there is such a function;
the clocks of `MCGrab` start on it, or TLC would not find `CivilDates` to hold
in the first state.

**Induction.**  The provers cannot instantiate an induction theorem that takes
an operator.  The proofs that need induction over data use well-founded orders
instead: the set of counterexamples, if it is not empty, has a least element
(`Least`, from `WFMin` of the library).  That a recursive function or a fold of the
community modules is what its equation says is proved first, by the same means:
both are defined by a `CHOOSE` of a function, which must be shown to exist.

### Naming (`NamingProofs`: `Recorder`, `Sessions`)

- `TypeCorrect`.  `NumberingCorrect` needs to know that the table entry of a
  session is ahead of every number given out in this tenure, and that the one before
  it was given out (`Counting`); `NumberedInOrder` alone is not inductive.  `CapacityRespected` adds that the
  table is finite.  `SortingCorrect` needs that no stamp is ahead of the clock.
  `ForgettingCorrect`, an action property, needs that `seen` is when the session
  was last planned for (`SeenIsLast`); so does `RepeatsExplained`, which counts
  those planned for since in the half of the table that stays (`Kept`).
- `SessionsTypeCorrect`, `TablesCapped`; `FoundAgreeCorrect`
  (who found the path has what the table has, and the table does not change an
  entry before it drops it) and `OneFileCorrect` (in a session whose appends
  have not overlapped, a writer about to insert is alone with its session).

### Writing (`WritingProofs`: `BodyRead`, `JsonLines`)

- `TypeCorrect`, `MemoryCorrect`, `HeadCorrect`, and
  `PromiseKept`: every step of `BodyRead` is a step of `BodySpec` or a stutter.
  The invariant behind it: unless a write has failed unnoticed, disk, in-flight
  write and frame still to be written make up what was received.
- `LinesTypeCorrect`; `QuietCorrect` (the last piece is a
  newline, or that of a row still being written or torn); `LinesCorrect` (while
  a row no other one has crossed is being written, the file ends in its piece).

### The response (`TeeProofs`, `SummarizerProofs`)

- `Tee`: `TypeCorrect`; `RecordedCorrect` and `RowAfterFileCorrect`
  (unless a write has failed, file and buffer together are all positions so far,
  and the buffer is empty once `finish` is past its flush); `PromiseKept`, the
  refinement of `TeeSpec`, which needs that there is no row before `finish` is
  past its index step; `OrderKept` (the file followed by the buffer is in order,
  and no position in it is ahead of the stream: a short write leaves a prefix of
  the buffer, which may be lost as a whole); `SpillLast` (at each step of `finish` the
  reports before it were written or failed, and those after it are `Untold`).
- `Summarizer`: `TypeCorrect`, `CapsKept` (the line under way, the prefix and the
  answer stay within their caps, and each error for a dropped line has cost the
  stream more than `MAX_LINE` bytes, `Paid`), `NeverCalledWhole` (`KeptInv`: the prefix is the first bytes received,
  and `truncated` says that there were more).
- `LinesOnce`: however the response is cut, the lines handed to the parser are its
  lines, each once, and whole but for those too long.  The invariant (`LineInv`) adds
  that `pending` is the end of what was received, from the last newline on or
  from where an over-long line was last dropped, and that there is an error for each
  line of which a part was dropped, the one under way too.  It rests on lemmas that
  count the newlines of a text and find the position of each, for a text
  and for two texts one after the other.
- `SummaryIsOfTheStream`: the fields are what the definition over the whole
  stream says (`Says`): the counts, the first and the last of what is told once, and
  the answer cut at the first line that reaches the cap.  `SaidInv` is shown for
  one more line, part by part, and carried over the lines of a chunk by induction
  along the fold.

### The request (`ExchangeProofs`)

- `TypeCorrect`, `BodySentIsOwn`, `RawIsRecorded`,
  `LeftSpillsAreExplained`, for any number of requests.  The invariant says of each request alone
  what its place says about its files: what the spill file holds while
  it is read, moved and sent, less the block whose write failed (`Contents`,
  `Rest`), which names are left (`Spills`), what the raw artifact of a request with a
  directory or a stem of its own holds (`Raws`); and of them together that inodes are
  numbered without gaps, no inode has two names, and no other request has an
  inode of one whose stem is its own (`Apart`).  A step of one request that
  changes nothing of another keeps that one's part (`FrameKeeps`); what is left
  to show is each step's effect on its own request, for the steps that write no
  file (`ClosingKeeps`) and those that do (`WritingKeeps`).

### Retention and rotation (`RetentionProofs`, `RotationProofs`)

- `Retention`: `TypeCorrect` and `LossAlwaysExplained`.  The invariant
  relates the tree and the stale listing: a listed modification time is
  the file's unless it was written during the pass (`ListedTimes`), a row of the
  file that gzip has not read is a late one (`Zipping`), a stream has rows only
  once it is open (`StreamsOpen`), so that opening one loses nothing, and a row
  that no path holds is explained (`HeldOrExplained`).
- `QuietPassFits` and `OldestGoFirst`: in a pass beside which nothing was written
  and no removal failed, the tree is what was listed less what was removed
  (`ListedAsIs`), and `total` is the sum of what is left (`TotalOfRest`).  So
  the loop stops when the tree fits, and not earlier or later.  That a sum over a
  set gains or loses what an element adds is proved by induction on its size.
- `Rotation`: `TypeCorrect`; `SlotWanted`; `FreshestFound`;
  `NeverGoesBack` and `ServiceNeverGoesBack`, action properties that rest on how a
  token about to be installed was chosen (`ChosenWell`) and on what the service
  knows of the slot: unless another rotator has filled it since, it is still stale
  after the first look (`FoundStale`), and so is what the hunt then sees in it
  (`BeganStale`).

### Headers, bodies and dates (`GrabProofs`: `Calendar`, `Environment`, `Headers`, `Grab`)

- The forwarded request (`ProxyInv`): a value of a file went out as it was
  while the request was handled (`HeldInv`; theorem `OnlyFresh`); the other
  outgoing headers are as the rules, in their order, make them (`OutInv`, and for
  the time between two file reads `ReadInv`; `NothingElse`, `OnePersona`).
- `DumpIsTheRequest`: what `tsgrab` reads from the dump, if there is one, is what
  was sent.
  The dump is what `out` renders to (`DumpInv`); a rendered value is read back
  by cutting it at its mark (`Joined`, `Cut`).  Of a value that comes with a
  mark of its own the property says nothing.
- The probe (`ProbeInv`): an attempt's ids are its own, but for the keys of
  `Replayed` (`FreshIds`), and its credentials are those of a `--header` or of `--auth`, or, where an `--auth` has none,
  perhaps of the template (`GivenCredentials`).
- `EnvironmentIsSet`: the body is as the section sets it, nothing else of it
  is touched, and a second pass at the same times changes nothing but for what `Settles`
  excepts, whatever time each block is rewritten at.
  The zone a block is rewritten with is that of the section or of the first block
  that tells one (`ZoneAfter` = `KnownZone`, by induction along the body); a
  rewritten block is described tag by tag (`Gets`, `ValueOf`).
- `CivilIsCalendar`: `civil_from_days`, with its eras and its years that begin
  in March, is the calendar, for every day before and after the epoch.  A day is
  taken apart into era, century, four years, year and month; that the next
  day has the next date is shown case by case where those end (`NextDay`), and
  backwards from it (`PrevDay`).
- `DatesOfTheCalendar` and `DatesAreOfTheZone`: so the model's clock shows the
  date of the code, and a date that is set to the zone's today is the
  calendar's date at the zone's time, at a moment between the coming and the
  going out of the request (`times`; `EnvInv` says that the body is a rewrite
  whose times are among them, `DayInv` that their dates are the calendar's).

Only model-checked: the liveness properties `FlushAnswers`, `GetsReported` and
`Refreshed`.  Their proofs would reason about fairness and `ENABLED`, which the
installed provers do not.  The two expected violations have traces, not proofs.

## Not modelled

- `probe.rs` and `build_client`: the bytes of a ClientHello and the set-up of an
  OpenSSL connector, without state or order.
- `ops/tsgen.py`, `ops/fpstatus.sh`, the build and service files.
- Loading of TOML and the command line, the validation of limits; the tables of
  Windows' time zone ids and the host's own zone.
- `--vary` of a field or patch and the report of `--scan-only` (`tsgrab`);
  `push_override` of `tsroll.py`, a best-effort copy that nothing reads back.
- `body_drop` and `body_set`, the decoded artifacts, the text of a rewritten
  catalog and the path that streams a body nobody looks at (no file, no state).
- The zstd codec, but for what can and cannot be decoded; `summarize_request`.

What could be added: `Exchange` with the body rewrite and the decoded artifacts
and with stems from `Recorder`; `Retention` beside `Rotation`, whose `Forget` is the
pruner as one step; and a scan that reads a dump while it is written.
