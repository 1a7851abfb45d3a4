------------------------------ MODULE Sessions ------------------------------
(***************************************************************************)
(* Which file the events of a session go to (src/src/session.rs).  Many    *)
(* requests share one Sessions: each may note a title for its session and  *)
(* append events.  path() takes the lock of `paths`, gives it up, takes    *)
(* the lock of `titles`, gives it up, and takes `paths` again: the steps   *)
(* of concurrent calls interleave between the locks.                       *)
(*                                                                         *)
(* How the bytes of one event reach the file is JsonLines' subject.        *)
(***************************************************************************)
EXTENDS Integers, FiniteSets

CONSTANTS
  Writers,   \* the threads serving requests
  Ids,       \* session ids, as sanitize leaves them
  Titles,    \* slugs of first messages
  Untitled,  \* "untitled"
  MaxTitles, \* MAX_TITLES, the capacity of both tables
  MaxDay,    \* bound: midnights that pass
  MaxWrote   \* bound: different appends after which none starts

ASSUME SessionsAssumption ==
  /\ MaxTitles \in Nat /\ MaxTitles >= 2
  /\ Untitled \notin Titles
  /\ MaxDay \in Nat /\ MaxWrote \in Nat

VARIABLES
  day,    \* today()
  titles, \* Sessions::titles
  paths,  \* Sessions::paths
  at,     \* where each writer is in append: see Places
  mine,   \* the session each writer appends to
  target, \* the path each writer has built or been given
  hit,    \* the writer found its session's path already decided
  wrote,  \* every append so far: whose event, in which file, and hit
  met,    \* the sessions of which two appends have overlapped
  dropped \* the sessions that have been dropped from paths

sessionVars == <<day, titles, paths, at, mine, target, hit, wrote, met, dropped>>

Places == {"idle", "title", "insert", "write"}

File(s, title, d) == [day |-> d, session |-> s, title |-> title]

-----------------------------------------------------------------------------
SessionsInit ==
  /\ day = 0
  /\ titles = << >> /\ paths = << >>
  /\ at = [w \in Writers |-> "idle"]
  /\ mine \in [Writers -> Ids]
  /\ target = [w \in Writers |-> File(mine[w], Untitled, 0)]
  /\ hit = [w \in Writers |-> FALSE]
  /\ wrote = {} /\ met = {} /\ dropped = {}

\* What a full table drops to make room for s: half of the capacity, in the
\* order the hash map lists its keys, which is any.
Drops(table, s) ==
  IF Cardinality(DOMAIN table) >= MaxTitles /\ s \notin DOMAIN table
    THEN {gone \in SUBSET DOMAIN table : Cardinality(gone) = MaxTitles \div 2}
    ELSE {{}}

\* Mutant of OrInsert: insert for entry().or_insert().
InsertOver(table, gone, s, v) ==
  [k \in (DOMAIN table \ gone) \cup {s} |-> IF k = s THEN v ELSE table[k]]

\* The table without gone, in which s keeps what it has or gets v.
OrInsert(table, gone, s, v) ==
  [k \in (DOMAIN table \ gone) \cup {s} |->
     IF k \in DOMAIN table THEN table[k] ELSE v]

\* note_title of a slug that is not empty (an empty one changes nothing).
NoteTitle(s, title) ==
  /\ \E gone \in Drops(titles, s) : titles' = OrInsert(titles, gone, s, title)
  /\ UNCHANGED <<day, paths, at, mine, target, hit, wrote, met, dropped>>

\* Another writer is appending to session s.
Meets(w, s) == \E v \in Writers \ {w} : at[v] # "idle" /\ mine[v] = s

\* append calls path, which first looks for a path already decided.
Lookup(w, s) ==
  /\ at[w] = "idle" /\ Cardinality(wrote) < MaxWrote
  /\ mine' = [mine EXCEPT ![w] = s]
  /\ hit' = [hit EXCEPT ![w] = s \in DOMAIN paths]
  /\ IF s \in DOMAIN paths
       THEN /\ at' = [at EXCEPT ![w] = "write"]
            /\ target' = [target EXCEPT ![w] = paths[s]]
       ELSE /\ at' = [at EXCEPT ![w] = "title"]
            /\ UNCHANGED target
  /\ met' = IF Meets(w, s) THEN met \cup {s} ELSE met
  /\ UNCHANGED <<day, titles, paths, wrote, dropped>>

TitleOf(s) == IF s \in DOMAIN titles THEN titles[s] ELSE Untitled

\* The name is built from the title known now and from today's date.
ReadTitle(w) ==
  /\ at[w] = "title"
  /\ at' = [at EXCEPT ![w] = "insert"]
  /\ target' = [target EXCEPT ![w] = File(mine[w], TitleOf(mine[w]), day)]
  /\ UNCHANGED <<day, titles, paths, mine, hit, wrote, met, dropped>>

\* Mutant of Insert: the name is not pinned.
InsertNothing(w) ==
  /\ at[w] = "insert"
  /\ at' = [at EXCEPT ![w] = "write"]
  /\ UNCHANGED <<day, titles, paths, mine, target, hit, wrote, met, dropped>>

\* The name is pinned unless another one has been meanwhile; either way the
\* writer goes on with the one it built.
Insert(w) ==
  /\ at[w] = "insert"
  /\ \E gone \in Drops(paths, mine[w]) :
       /\ paths' = OrInsert(paths, gone, mine[w], target[w])
       /\ dropped' = dropped \cup gone
  /\ at' = [at EXCEPT ![w] = "write"]
  /\ UNCHANGED <<day, titles, mine, target, hit, wrote, met>>

\* The event is appended to the file, which is created if need be; the call
\* and its locals are over.
Write(w) ==
  /\ at[w] = "write"
  /\ wrote' = wrote \cup {[session |-> mine[w], file |-> target[w], hit |-> hit[w]]}
  /\ at' = [at EXCEPT ![w] = "idle"]
  /\ hit' = [hit EXCEPT ![w] = FALSE]
  /\ target' = [target EXCEPT ![w] = File(mine[w], Untitled, 0)]
  /\ UNCHANGED <<day, titles, paths, mine, met, dropped>>

Midnight ==
  /\ day < MaxDay
  /\ day' = day + 1
  /\ UNCHANGED <<titles, paths, at, mine, target, hit, wrote, met, dropped>>

SessionsNext ==
  \/ \E s \in Ids, title \in Titles : NoteTitle(s, title)
  \/ \E w \in Writers : \/ \E s \in Ids : Lookup(w, s)
                        \/ ReadTitle(w) \/ Insert(w) \/ Write(w)
  \/ Midnight

SessionsSpec == SessionsInit /\ [][SessionsNext]_sessionVars

-----------------------------------------------------------------------------
(* Properties.                                                             *)

Files == [day : Nat, session : Ids, title : Titles \cup {Untitled}]

\* The types of the state.
SessionsTypeOK ==
  /\ day \in Nat
  /\ DOMAIN titles \subseteq Ids /\ titles \in [DOMAIN titles -> Titles]
  /\ DOMAIN paths \subseteq Ids  /\ paths \in [DOMAIN paths -> Files]
  /\ at \in [Writers -> Places]
  /\ mine \in [Writers -> Ids]
  /\ target \in [Writers -> Files]
  /\ hit \in [Writers -> BOOLEAN]
  /\ wrote \subseteq [session : Ids, file : Files, hit : BOOLEAN]
  /\ met \subseteq Ids /\ dropped \subseteq Ids

\* Neither table outgrows its capacity, however many sessions come ("capped
\* so a long-running recorder cannot grow without bound"), and whichever
\* writers race to insert.
Capped ==
  /\ Cardinality(DOMAIN titles) <= MaxTitles
  /\ Cardinality(DOMAIN paths) <= MaxTitles

\* Until its name is dropped, everybody who finds the name of a session
\* decided writes to the same file, whatever race decided it.
FoundAgree ==
  \A e, f \in wrote :
    e.hit /\ f.hit /\ e.session = f.session /\ e.session \notin dropped =>
      e.file = f.file

\* Learning a title late, or a midnight, does not scatter a session across
\* two files, unless its appends overlap or its name is dropped.
OneFileUnlessMet ==
  \A e, f \in wrote :
    e.session = f.session /\ e.session \notin met \cup dropped => e.file = f.file

=============================================================================
