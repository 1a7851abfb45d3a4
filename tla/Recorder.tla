------------------------------ MODULE Recorder ------------------------------
(***************************************************************************)
(* The naming half of src/src/record.rs: Recorder::plan gives every        *)
(* request a directory and a file-name stem, numbering the requests of     *)
(* each session it still remembers.  The table of sessions is capped; when *)
(* it is full, the least recently used half is forgotten.  A restart       *)
(* forgets everything, while the files already named stay on disk.         *)
(*                                                                         *)
(* plan holds the recorder's mutex from the lookup to the stem, so it is   *)
(* one action; the wall clock is read twice inside it (last_seen, stamp).  *)
(***************************************************************************)
EXTENDS Integers, Sequences, FiniteSets

CONSTANTS
  SessionIds,      \* session-id header values, as sequences of characters
  OddChars,        \* the characters in them outside [A-Za-z0-9_-]
  Metadata,        \* x-codex-turn-metadata values, by what parsing them gives
  MaxTracked,      \* MAX_TRACKED_SESSIONS
  SecondLen,       \* clock ticks per second (the clock ticks in milliseconds)
  MaxClock, MaxPlans, MaxRestarts  \* bounds on the exploration

ASSUME RecorderAssumption ==
  /\ MaxTracked \in Nat /\ MaxTracked >= 2
  /\ SecondLen \in Nat \ {0}
  /\ MaxClock \in Nat /\ MaxPlans \in Nat /\ MaxRestarts \in Nat

VARIABLES
  clock,     \* SystemTime::now(), in ticks
  setBack,   \* the clock has been set back
  tracked,   \* Recorder::state: the sessions remembered
  issued,    \* every Plan handed out so far, oldest first
  tenure,    \* how often each session has been (re)entered into the table
  restarts   \* how often the process has been restarted

vars == <<clock, setBack, tracked, issued, tenure, restarts>>

-----------------------------------------------------------------------------
(* Names.                                                                  *)

NoSession == <<"_", "n", "o", "s", "e", "s", "s", "i", "o", "n">>
Unknown   == <<"u", "n", "k", "n", "o", "w", "n">>

\* An absent header and an empty one are both the empty sequence.
Key(session) == IF session = << >> THEN NoSession ELSE session

\* sanitize: every character outside [A-Za-z0-9_-] becomes '-', then the
\* dashes at both ends go; nothing left is "unknown".
Dashed(name) == [i \in 1 .. Len(name) |->
                   IF name[i] \in OddChars THEN "-" ELSE name[i]]

Sanitize(name) ==
  LET kept  == {i \in 1 .. Len(name) : Dashed(name)[i] # "-"}
      first == CHOOSE i \in kept : \A j \in kept : i <= j
      last  == CHOOSE i \in kept : \A j \in kept : j <= i
  IN  IF kept = {} THEN Unknown ELSE SubSeq(Dashed(name), first, last)

DirFor(session) == IF session = << >> THEN NoSession ELSE Sanitize(session)

\* thread_from_metadata, then thread_slug: only a thread source that names the
\* system is "system"; absent, malformed and unknown ones are "user".
ThreadFrom(metadata) == IF metadata \in {"absent", "malformed"} THEN "user" ELSE metadata
ThreadSlug(thread)   == IF thread \in {"system", "subsystem"} THEN "system" ELSE "user"

Second(t) == t \div SecondLen

Keys == {Key(s) : s \in SessionIds}

-----------------------------------------------------------------------------
Init ==
  /\ clock = 0 /\ setBack = FALSE
  /\ tracked = << >>
  /\ issued = << >>
  /\ tenure = [k \in Keys |-> 0]
  /\ restarts = 0

\* Mutant of Evictions: the sort is missing.
EvictionsUnsorted(k) ==
  IF Cardinality(DOMAIN tracked) >= MaxTracked /\ k \notin DOMAIN tracked
    THEN {gone \in SUBSET DOMAIN tracked : Cardinality(gone) = MaxTracked \div 2}
    ELSE {{}}

\* Mutant of Evictions: a full table is cleared.
EvictionsAll(k) ==
  IF Cardinality(DOMAIN tracked) >= MaxTracked /\ k \notin DOMAIN tracked
    THEN {DOMAIN tracked}
    ELSE {{}}

\* The sets plan may drop before entering k: half of the capacity, none of it
\* seen after anything that stays (the sort says nothing about ties).
Evictions(k) ==
  IF Cardinality(DOMAIN tracked) >= MaxTracked /\ k \notin DOMAIN tracked
    THEN {gone \in SUBSET DOMAIN tracked :
            /\ Cardinality(gone) = MaxTracked \div 2
            /\ \A g \in gone, s \in DOMAIN tracked \ gone :
                 tracked[g].seen <= tracked[s].seen}
    ELSE {{}}

\* Mutant of Touched: the number is not advanced.
TouchedStuck(k, dir, t) ==
  IF k \in DOMAIN tracked THEN [dir |-> tracked[k].dir, next |-> tracked[k].next, seen |-> t]
                          ELSE [dir |-> dir, next |-> 2, seen |-> t]

\* The entry of k once plan has touched it at time t.
Touched(k, dir, t) ==
  IF k \in DOMAIN tracked
    THEN [dir |-> tracked[k].dir, next |-> tracked[k].next + 1, seen |-> t]
    ELSE [dir |-> dir, next |-> 2, seen |-> t]

\* The time of the second clock read: the clock may tick inside plan.
Later(t) == {t, t + 1} \cap (0 .. MaxClock)

Plan(session, metadata) ==
  LET k == Key(session) IN
  /\ Len(issued) < MaxPlans
  /\ \E gone \in Evictions(k), t \in Later(clock) :
       LET entry == Touched(k, DirFor(session), clock)
           kept  == DOMAIN tracked \ gone
           fresh == k \notin DOMAIN tracked
       IN  /\ tracked' = [j \in kept \cup {k} |-> IF j = k THEN entry ELSE tracked[j]]
           /\ tenure' = IF fresh THEN [tenure EXCEPT ![k] = @ + 1] ELSE tenure
           /\ issued' = Append(issued,
                [key |-> k, dir |-> entry.dir, stamp |-> Second(t),
                 slug |-> ThreadSlug(ThreadFrom(metadata)),
                 seq |-> entry.next - 1, at |-> clock, tenure |-> tenure'[k],
                 run |-> restarts])
           /\ clock' = t
  /\ UNCHANGED <<restarts, setBack>>

Tick ==
  /\ clock < MaxClock
  /\ clock' = clock + 1
  /\ UNCHANGED <<setBack, tracked, issued, tenure, restarts>>

\* The system clock is set back (NTP, an operator), once at most; last_seen
\* and the stamps come from SystemTime, not from a monotonic clock.
ClockStepsBack ==
  /\ ~setBack /\ setBack' = TRUE
  /\ \E t \in 0 .. MaxClock : t < clock /\ clock' = t
  /\ UNCHANGED <<tracked, issued, tenure, restarts>>

\* Recorder::new with an empty table; the files named so far are still there.
Restart ==
  /\ restarts < MaxRestarts
  /\ restarts' = restarts + 1
  /\ tracked' = << >>
  /\ UNCHANGED <<clock, setBack, issued, tenure>>

Next ==
  \/ \E s \in SessionIds, m \in Metadata : Plan(s, m)
  \/ Tick
  \/ ClockStepsBack
  \/ Restart

Spec == Init /\ [][Next]_vars

-----------------------------------------------------------------------------
(* Properties.                                                             *)

Slugs   == {"user", "system"}
Dirs    == {DirFor(s) : s \in SessionIds}
Entry   == [dir : Dirs, next : Nat, seen : Nat]
PlanRec == [key : Keys, dir : Dirs, stamp : Nat, slug : Slugs,
            seq : Nat, at : Nat, tenure : Nat, run : Nat]

\* The types of the state.
TypeOK ==
  /\ clock \in Nat /\ setBack \in BOOLEAN
  /\ DOMAIN tracked \subseteq Keys
  /\ tracked \in [DOMAIN tracked -> Entry]
  /\ issued \in Seq(PlanRec)
  /\ tenure \in [Keys -> Nat]
  /\ restarts \in Nat

SameTenure(p, q) == p.key = q.key /\ p.tenure = q.tenure
SameFiles(p, q)  == <<p.dir, p.stamp, p.slug, p.seq>> = <<q.dir, q.stamp, q.slug, q.seq>>

\* The table never outgrows MAX_TRACKED_SESSIONS, whatever sessions come
\* ("so long runs cannot grow without bound").
Bounded == Cardinality(DOMAIN tracked) <= MaxTracked

\* rNNNN is the per-session request number: while a session is remembered its
\* requests are numbered 1, 2, 3, ... in the order they were planned, with no
\* number skipped or given twice.
NumberedInOrder ==
  \A j \in 1 .. Len(issued) :
    /\ \A i \in 1 .. j - 1 :
         SameTenure(issued[i], issued[j]) => issued[i].seq < issued[j].seq
    /\ \/ issued[j].seq = 1
       \/ \E i \in 1 .. j - 1 : /\ SameTenure(issued[i], issued[j])
                                /\ issued[i].seq = issued[j].seq - 1

\* The other sessions planned for before plan j, from the moment of plan i on.
OthersSince(i, j) ==
  {issued[m].key : m \in {n \in 1 .. j - 1 : issued[i].at <= issued[n].at}} \ {issued[j].key}

\* One process names two requests of a session alike only if it forgot the
\* session and met it again within a second, which takes a flood: more than
\* half a table of other sessions planned for in between ("LRU drop of the
\* least-recently-seen half").  The file of the first would be truncated by
\* the second.  (Restarts, session ids that sanitize alike and a clock set
\* back do repeat names.)
RepeatNeedsFlood ==
  ~setBack =>
    \A j \in 1 .. Len(issued) : \A i \in 1 .. j - 1 :
      /\ issued[i].key = issued[j].key /\ issued[i].run = issued[j].run
      /\ SameFiles(issued[i], issued[j])
      => Cardinality(OthersSince(i, j)) > MaxTracked - MaxTracked \div 2

\* Within a session and thread source the names sort in the order of the
\* requests, as long as the clock has not been set back.
SortsByAge ==
  ~setBack =>
    \A i, j \in 1 .. Len(issued) :
      i < j /\ SameTenure(issued[i], issued[j]) =>
        \/ issued[i].stamp < issued[j].stamp
        \/ issued[i].stamp = issued[j].stamp /\ issued[i].seq < issued[j].seq

\* When a session was last planned for, going by what was handed out.
LastPlanned(k) ==
  LET mine == {i \in 1 .. Len(issued) : issued[i].key = k}
  IN  issued[CHOOSE i \in mine : \A j \in mine : j <= i].at

\* A session is forgotten (other than by a restart) only when at least half of
\* a full table was used as recently as it.
ForgetsLeastRecent ==
  [][restarts' = restarts =>
       \A k \in DOMAIN tracked \ DOMAIN tracked' :
         Cardinality({j \in DOMAIN tracked \cap DOMAIN tracked' :
                        LastPlanned(k) <= LastPlanned(j)}) >= MaxTracked \div 2]_vars

=============================================================================
