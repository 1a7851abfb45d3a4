------------------------------ MODULE Calendar ------------------------------
(***************************************************************************)
(* Dates and time zones (src/src/timeutil.rs, src/src/tz.rs).  An instant  *)
(* is a number of minutes since the Unix epoch, which may be negative; an  *)
(* offset is in minutes, too: no zone of the code's tables has seconds.    *)
(***************************************************************************)
EXTENDS Integers, Sequences, FiniteSetsExt

CONSTANTS
  Tzdata, \* the tzdata files of this host, by zone name
  Fixed   \* the table of fixed_offset, by zone name

Day == 24 * 60

-----------------------------------------------------------------------------
(* The civil calendar.                                                     *)

\* Mutant of YearOfEra: a century is a leap year.
YearWithoutCenturies(doe) == (doe - doe \div 1460 + doe \div 146096) \div 365

\* The year of a day of an era of 400 years, and the day of that year: both
\* begin on the first of March.
YearOfEra(doe) ==
  (doe - doe \div 1460 + doe \div 36524 - doe \div 146096) \div 365
DayOfYear(doe) ==
  LET yoe == YearOfEra(doe) IN doe - (365 * yoe + yoe \div 4 - yoe \div 100)

\* The date of a day of a year that begins in March.
MarchDate(y, doy) ==
  LET mp == (5 * doy + 2) \div 153
      month == IF mp < 10 THEN mp + 3 ELSE mp - 9
  IN  <<y + (IF month <= 2 THEN 1 ELSE 0), month, doy - (153 * mp + 2) \div 5 + 1>>

\* civil_from_days.  Its division that truncates is of z - 146_096 when z is
\* negative, which is the division that rounds down.
CivilFromDays(days) ==
  LET z == days + 719468
      era == z \div 146097
      doe == z - era * 146097
  IN  MarchDate(YearOfEra(doe) + era * 400, DayOfYear(doe))

\* The reference: the rules of the calendar, from one day to the next.
Leap(y) == y % 4 = 0 /\ (y % 100 # 0 \/ y % 400 = 0)
DaysIn(y, m) ==
  IF m = 2 THEN (IF Leap(y) THEN 29 ELSE 28)
  ELSE IF m \in {4, 6, 9, 11} THEN 30 ELSE 31
NextDate(d) ==
  IF d[3] < DaysIn(d[1], d[2]) THEN <<d[1], d[2], d[3] + 1>>
  ELSE IF d[2] < 12 THEN <<d[1], d[2] + 1, 1>>
  ELSE <<d[1] + 1, 1, 1>>
PrevDate(d) ==
  IF d[3] > 1 THEN <<d[1], d[2], d[3] - 1>>
  ELSE IF d[2] > 1 THEN <<d[1], d[2] - 1, DaysIn(d[1], d[2] - 1)>>
  ELSE <<d[1] - 1, 12, 31>>

-----------------------------------------------------------------------------
(* Zones.  What a timezone element or key says is one of                   *)
(*   <<"utc">>, <<"offset", sign, hours, minutes>>, <<"name", n>> for a    *)
(* name with a slash, and anything else, which is no zone.                 *)

NoZone == << >>
OffsetZone(minutes) == <<"offset", minutes>>
NamedZone(name) == <<"named", name>>

\* Zone::parse.
ParseZone(raw) ==
  IF raw[1] = "utc" THEN OffsetZone(0)
  ELSE IF raw[1] = "offset" /\ raw[3] \in 0..23 /\ raw[4] \in 0..59
    THEN OffsetZone(raw[2] * (raw[3] * 60 + raw[4]))
  ELSE IF raw[1] = "name" THEN NamedZone(raw[2])
  ELSE NoZone

\* block_base: the 64-bit block of a file that has one.
Block(file) == IF file.version >= 2 THEN file.wide ELSE file.narrow

\* The offsets of the files and of the table are within a day, as those of all
\* zones are, and a file has the types of its transitions.
IsSequence(s) == Len(s) \in Nat /\ s = [i \in 1..Len(s) |-> s[i]]
IsOffset(m) == m \in Int /\ -Day <= m /\ m <= Day
IsBlock(b) ==
  /\ IsSequence(b.trans) /\ \A i \in DOMAIN b.trans : b.trans[i].type \in DOMAIN b.types
  /\ 1 \in DOMAIN b.types /\ \A i \in DOMAIN b.types : IsOffset(b.types[i])
ASSUME ZonesAssumption ==
  /\ \A name \in DOMAIN Tzdata : IsBlock(Block(Tzdata[name]))
  /\ \A name \in DOMAIN Fixed : IsOffset(Fixed[name])

\* The last transition at or before t; before them all, the first.
Transition(trans, t) ==
  Max({1} \cup {i \in DOMAIN trans : \A j \in 1..i : trans[j].at <= t})

\* tzfile_offset.
TzfileOffset(name, t) ==
  LET block == Block(Tzdata[name]) IN
  IF block.trans = << >> THEN block.types[1]
  ELSE block.types[block.trans[Transition(block.trans, t)].type]

\* fixed_offset, for a host without a file for the zone.
FixedOffset(name) == IF name \in DOMAIN Fixed THEN Fixed[name] ELSE 0

\* Zone::offset_at.
OffsetAt(zone, t) ==
  IF zone[1] = "offset" THEN zone[2]
  ELSE IF zone[2] \in DOMAIN Tzdata THEN TzfileOffset(zone[2], t)
  ELSE FixedOffset(zone[2])

\* Zone::date_at, by parts_at.
DateAt(zone, t) == CivilFromDays((t + OffsetAt(zone, t)) \div Day)
=============================================================================
