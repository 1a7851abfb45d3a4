----------------------------- MODULE Environment -----------------------------
(***************************************************************************)
(* The rewrite of the environment blocks of a request body                 *)
(* (src/src/envrewrite.rs).                                                *)
(*                                                                         *)
(* The text of a body is the sequence of its pieces, in the order of the   *)
(* items and parts they are in: a "block" with its tags, an "open" block   *)
(* that has no end, and the "text" between.  Where in a block a tag stands *)
(* is left out.                                                            *)
(***************************************************************************)
EXTENDS Calendar, SequencesExt

Absent == << >>

Elements == {"timezone", "current_date", "cwd", "shell", "workspace_roots"}

\* A section and a body: an offset has a sign, and a piece its kind and tags.
IsRaw(raw) == raw[1] = "offset" => raw[2] \in {-1, 1}
IsPiece(p) ==
  /\ p = [kind |-> p.kind, tags |-> p.tags]
  /\ "timezone" \in DOMAIN p.tags => IsRaw(p.tags["timezone"])
IsBody(pieces) == IsSequence(pieces) /\ \A i \in DOMAIN pieces : IsPiece(pieces[i])
IsSection(section) ==
  /\ DOMAIN section = Elements \cup {"drop", "fill_missing"}
  /\ section.timezone # Absent => IsRaw(section.timezone)

\* is_active.
IsActive(section) ==
  section.drop # {} \/ \E e \in Elements : section[e] # Absent

\* xml_escape: a value that has markup in it, and how often it is escaped.
Escape(value) ==
  IF value[1] = "markup" THEN <<"markup", value[2], value[3] + 1>> ELSE value

With(tags, tag, value) ==
  [t \in DOMAIN tags \cup {tag} |-> IF t = tag THEN value ELSE tags[t]]
Without(tags, gone) == [t \in DOMAIN tags \ gone |-> tags[t]]
Over(upper, lower) ==
  [t \in DOMAIN upper \cup DOMAIN lower |-> IF t \in DOMAIN upper THEN upper[t] ELSE lower[t]]

-----------------------------------------------------------------------------
\* Mutant of Replace: what the client did not send is filled in anyway.
ReplaceOrFill(section, tags, tag, value) ==
  IF value = Absent THEN tags ELSE With(tags, tag, value)

\* An element gets the value if it is there, or else if fill_missing says so.
Replace(section, tags, tag, value) ==
  IF value = Absent \/ ~(tag \in DOMAIN tags \/ section.fill_missing) THEN tags
  ELSE With(tags, tag, value)

\* replace_or_insert: what is inserted is escaped, what is replaced is not.
ReplaceOrInsert(section, tags, tag, value) ==
  Replace(section, tags, tag,
          IF value # Absent /\ tag \notin DOMAIN tags THEN Escape(value) ELSE value)

\* Workspace roots are inserted into a filesystem element only.
ReplaceRoots(section, tags, value) ==
  IF "workspace_roots" \in DOMAIN tags \/ "filesystem" \in DOMAIN tags
    THEN Replace(section, tags, "workspace_roots",
                 IF value = Absent THEN value ELSE Escape(value))
    ELSE tags

\* resolve_date: what current_date becomes, if it does.
ResolveDate(spec, zone, now) ==
  LET dated(z, t) == <<"date">> \o DateAt(z, t) IN
  IF spec = Absent \/ (spec = <<"auto">> /\ zone = NoZone) THEN Absent
  ELSE IF spec = <<"auto">> THEN dated(zone, now)
  ELSE IF spec[1] = "shift"
    THEN dated(IF zone = NoZone THEN OffsetZone(0) ELSE zone, now + spec[2] * Day)
  ELSE IF spec[1] = "date" THEN spec
  ELSE Absent

\* Mutant of BlockZone: the block is asked once the timezone is replaced.
BlockZoneLate(section, zone, tags) ==
  IF zone # NoZone \/ "timezone" \notin DOMAIN tags THEN zone
  ELSE ParseZone(IF section.timezone # Absent THEN section.timezone
                 ELSE tags["timezone"])

\* The zone so far, or else that of the block: it stays for those after it.
BlockZone(section, zone, tags) ==
  IF zone # NoZone \/ "timezone" \notin DOMAIN tags THEN zone
  ELSE ParseZone(tags["timezone"])

\* What rewrite_block leaves of the tags of a block.
Retagged(section, zone, tags, now) ==
  LET kept == Without(tags, section.drop)
      zoned == Replace(section, kept, "timezone", section.timezone)
      dated == Replace(section, zoned, "current_date",
                       ResolveDate(section.current_date, zone, now))
      moved == ReplaceOrInsert(section, dated, "cwd", section.cwd)
      shelled == ReplaceOrInsert(section, moved, "shell", section.shell)
  IN  ReplaceRoots(section, shelled, section.workspace_roots)

\* rewrite_block: a block that is dropped leaves nothing to fill in.
RewriteBlock(section, zone, piece, now) ==
  IF "environment_context" \in section.drop
    THEN [kind |-> "text", tags |-> << >>]
    ELSE [piece EXCEPT !.tags = Retagged(section, zone, piece.tags, now)]

\* The zone of the configuration, if it is one.
SectionZone(section) ==
  IF section.timezone = Absent THEN NoZone ELSE ParseZone(section.timezone)

\* The zone that is known after so many pieces of a body.
ZoneAfter(section, body) ==
  LET zone[i \in 0..Len(body)] ==
        IF i = 0 THEN SectionZone(section)
        ELSE IF body[i].kind # "block" THEN zone[i - 1]
        ELSE BlockZone(section, zone[i - 1], body[i].tags)
  IN  zone

\* apply_env, by rewrite_item_parts and rewrite_all_blocks: every block of
\* every text, one after the other, each at the time resolve_date reads for it.
ApplyEnv(section, body, when) ==
  LET zone == ZoneAfter(section, body) IN
  [i \in DOMAIN body |->
     IF body[i].kind # "block" THEN body[i]
     ELSE RewriteBlock(section, zone[i], body[i], when[i])]

-----------------------------------------------------------------------------
(* What the rewrite may do, to be checked on every body it is given.       *)

\* Only configured and dropped elements change, and nothing is made up
\* unless fill_missing says so; what is not a whole block stays.
ChangesOnlyWhatIsSet(section, before, after) ==
  /\ Len(after) = Len(before)
  /\ \A i \in DOMAIN before :
       LET old == before[i].tags  new == after[i].tags IN
       /\ before[i].kind # "block" => after[i] = before[i]
       /\ \A t \in DOMAIN new :
            \/ t \in DOMAIN old /\ new[t] = old[t]
            \/ /\ t \in Elements /\ section[t] # Absent
               /\ t \in DOMAIN old \/ section.fill_missing
       /\ DOMAIN old \ DOMAIN new # {} =>
            DOMAIN old \ DOMAIN new \subseteq section.drop
            \/ "environment_context" \in section.drop

\* The date in a zone at now, given the date of now in UTC, by the rules of
\* the calendar: the offset moves it by a day at most.
LocalDate(zone, now, date) ==
  LET minute == (now % Day) + OffsetAt(zone, now) IN
  <<"date">> \o (IF minute < 0 THEN PrevDate(date)
                 ELSE IF minute >= Day THEN NextDate(date) ELSE date)

\* The first zone that is known: that of the section, or of a block up to i.
KnownZone(section, before, i) ==
  LET asks == {j \in 1..i : /\ before[j].kind = "block"
                            /\ "timezone" \in DOMAIN before[j].tags
                            /\ ParseZone(before[j].tags["timezone"]) # NoZone}
  IN  IF SectionZone(section) # NoZone THEN SectionZone(section)
      ELSE IF asks = {} THEN NoZone
      ELSE ParseZone(before[Min(asks)].tags["timezone"])

\* An automatic date is that of one of the moments in the zone of the section,
\* or else in the first one that the blocks so far have told.
DatesAreLocal(section, before, after, moments) ==
  section.current_date = <<"auto">> =>
    \A i \in DOMAIN after :
      LET zone == KnownZone(section, before, i) IN
      /\ after[i].kind = "block"
      /\ "current_date" \in DOMAIN after[i].tags
      /\ zone # NoZone
      => \E m \in moments :
           after[i].tags["current_date"] = LocalDate(zone, m.now, m.date)

\* A date is computed in a zone that the rewrite itself takes away: that of a
\* block, which is dropped or becomes one that is no zone.
LosesZone(section) ==
  /\ SectionZone(section) = NoZone
  /\ section.timezone # Absent \/ "timezone" \in section.drop
  /\ section.current_date # Absent
  /\ section.current_date[1] = "shift" \/ "current_date" \in section.drop

\* A body that comes by twice on a day is the same after both, but for a value
\* that is escaped where it is inserted and not where it is replaced, and for a
\* date that loses its zone.
Settles(section, before, when) ==
  LET once == ApplyEnv(section, before, when)
      escaped == \E v \in {section.cwd, section.shell} :
                   v # Absent /\ Escape(v) # v
  IN  \/ section.fill_missing /\ escaped
      \/ LosesZone(section)
      \/ ApplyEnv(section, once, when) = once
=============================================================================
