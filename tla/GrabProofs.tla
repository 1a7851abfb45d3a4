----------------------------- MODULE GrabProofs -----------------------------
(***************************************************************************)
(* Theorems about Headers and Grab, for any configurations, any requests   *)
(* and responses, any contents of the header files however often they are  *)
(* replaced, and any arguments of a probe: what is sent upstream, what is  *)
(* dumped of it and what goes back, and what a probe sends of a template;  *)
(* what the rewrite makes of any body; and that the dates are those of the *)
(* calendar for any number of days.                                        *)
(***************************************************************************)
EXTENDS Grab, SequenceTheorems, WellFoundedInduction, TLAPS

-----------------------------------------------------------------------------
(* Lemmas on the operators of the modules.                                 *)

LEMMA Least ==
  ASSUME NEW T \in SUBSET Nat, T # {}
  PROVE  \E m \in T : \A n \in T : m <= n
<1>1. IsWellFoundedOn(OpToRel(<,Nat), Nat)
  BY NatLessThanWellFounded
<1>2. PICK m \in T : \A n \in T : <<n, m>> \notin OpToRel(<,Nat)
  BY <1>1, WFMin
<1>3. \A n \in T : ~ (n < m)
  BY <1>2, Zenon DEF OpToRel
<1> QED BY <1>3

LEMMA Induct ==
  ASSUME NEW S, 0 \in S, \A n \in Nat : n \in S => n + 1 \in S
  PROVE  Nat \subseteq S
<1> SUFFICES ASSUME Nat \ S # {} PROVE FALSE
  OBVIOUS
<1>1. PICK m \in Nat \ S : \A n \in Nat \ S : m <= n
  BY Least
<1> QED BY <1>1

\* A set of indices has a greatest one.
LEMMA Greatest ==
  ASSUME NEW N \in Nat, NEW T \in SUBSET (1..N), T # {}
  PROVE  Max(T) \in T /\ \A n \in T : n <= Max(T)
<1> DEFINE R == {N - n : n \in T}
<1>1. \A n \in T : n \in Nat /\ n <= N /\ N - n \in Nat
  OBVIOUS
<1>6. R \subseteq Nat
  BY <1>1
<1>7. R # {}
  OBVIOUS
<1>2. PICK r \in R : \A s \in R : r <= s
  BY <1>6, <1>7, Least
<1>3. PICK m \in T : r = N - m
  OBVIOUS
<1>4. \A n \in T : m >= n
  BY <1>1, <1>2, <1>3
<1>5. Max(T) = CHOOSE x \in T : \A y \in T : x >= y
  BY DEF Max
<1> QED BY <1>1, <1>4, <1>5

\* With and Over are functions of what they name.
LEMMA WithIs ==
  ASSUME NEW h, NEW name, NEW value
  PROVE  /\ DOMAIN With(h, name, value) = DOMAIN h \cup {name}
         /\ With(h, name, value)[name] = value
         /\ \A n \in DOMAIN h \ {name} : With(h, name, value)[n] = h[n]
BY DEF With

LEMMA OverIs ==
  ASSUME NEW upper, NEW lower
  PROVE  /\ DOMAIN Over(upper, lower) = DOMAIN upper \cup DOMAIN lower
         /\ \A n \in DOMAIN upper : Over(upper, lower)[n] = upper[n]
         /\ \A n \in DOMAIN lower \ DOMAIN upper : Over(upper, lower)[n] = lower[n]
BY DEF Over

-----------------------------------------------------------------------------
(* The calendar.                                                           *)

\* A quotient is known by its bounds.
LEMMA Quotient ==
  ASSUME NEW x \in Int, NEW k \in Nat, k > 0, NEW q \in Int, k*q <= x, x < k*q + k
  PROVE  x \div k = q
OBVIOUS

\* A year of an era of 400 from the first of March: the century, the four
\* years and the year in them, and its days.
IsYear(c, a, b) == c <= 3 /\ a <= 24 /\ b <= 3
Days(c, a, b) == IF b = 3 /\ (a # 24 \/ c = 3) THEN 366 ELSE 365
DayOf(c, a, b, doy) == 36524*c + 1461*a + 365*b + doy

\* A day of an era lies in a century, a day of a century in a group of four
\* years, and a day of the group in a year.
LEMMA Century ==
  ASSUME NEW doe \in Nat, doe <= 146096
  PROVE  \E c, r \in Nat :
           doe = 36524*c + r /\ c <= 3 /\ r <= 36524 /\ (c < 3 => r < 36524)
<1>1. CASE doe < 36524
  <2>1. doe = 36524*0 + doe
    OBVIOUS
  <2> QED BY <1>1, <2>1
<1>2. CASE 36524 <= doe /\ doe < 73048
  <2>1. doe = 36524*1 + (doe - 36524) /\ doe - 36524 \in Nat /\ doe - 36524 < 36524
    BY <1>2
  <2> QED BY <2>1
<1>3. CASE 73048 <= doe /\ doe < 109572
  <2>1. doe = 36524*2 + (doe - 73048) /\ doe - 73048 \in Nat /\ doe - 73048 < 36524
    BY <1>3
  <2> QED BY <2>1
<1>4. CASE 109572 <= doe
  <2>1. doe = 36524*3 + (doe - 109572) /\ doe - 109572 \in Nat /\ doe - 109572 <= 36524
    BY <1>4
  <2> QED BY <2>1
<1> QED BY <1>1, <1>2, <1>3, <1>4

LEMMA FourYears ==
  ASSUME NEW r \in Nat, r <= 36524
  PROVE  \E a, s \in Nat :
           r = 1461*a + s /\ a <= 24 /\ s <= 1460 /\ (r < 36524 /\ a = 24 => s < 1460)
<1> DEFINE a == r \div 1461
           s == r - 1461*a
<1>1. a \in Nat /\ a <= 24 /\ s \in Nat /\ s <= 1460
  OBVIOUS
<1>2. r = 1461*a + s
  BY <1>1
<1>3. r < 36524 /\ a = 24 => s < 1460
  BY <1>1
<1> HIDE DEF a, s
<1> QED BY <1>1, <1>2, <1>3

LEMMA OneYear ==
  ASSUME NEW s \in Nat, s <= 1460
  PROVE  \E b, doy \in Nat :
           s = 365*b + doy /\ b <= 3 /\ doy <= 365 /\ (doy = 365 => b = 3 /\ s = 1460)
<1>1. CASE s < 365
  <2>1. s = 365*0 + s
    OBVIOUS
  <2> QED BY <1>1, <2>1
<1>2. CASE 365 <= s /\ s < 730
  <2>1. s = 365*1 + (s - 365) /\ s - 365 \in Nat /\ s - 365 < 365
    BY <1>2
  <2> QED BY <2>1
<1>3. CASE 730 <= s /\ s < 1095
  <2>1. s = 365*2 + (s - 730) /\ s - 730 \in Nat /\ s - 730 < 365
    BY <1>3
  <2> QED BY <2>1
<1>4. CASE 1095 <= s
  <2>1. s = 365*3 + (s - 1095) /\ s - 1095 \in Nat /\ s - 1095 <= 365 /\ (s - 1095 = 365 => s = 1460)
    BY <1>4
  <2> QED BY <2>1
<1> QED BY <1>1, <1>2, <1>3, <1>4

LEMMA YearExists ==
  ASSUME NEW doe \in Nat, doe <= 146096
  PROVE  \E c, a, b, doy \in Nat :
           IsYear(c, a, b) /\ doy < Days(c, a, b) /\ doe = DayOf(c, a, b, doy)
<1>1. PICK c, r \in Nat :
        doe = 36524*c + r /\ c <= 3 /\ r <= 36524 /\ (c < 3 => r < 36524)
  BY Century
<1>2. PICK a, s \in Nat :
        r = 1461*a + s /\ a <= 24 /\ s <= 1460 /\ (r < 36524 /\ a = 24 => s < 1460)
  BY <1>1, FourYears
<1>3. PICK b, doy \in Nat :
        s = 365*b + doy /\ b <= 3 /\ doy <= 365 /\ (doy = 365 => b = 3 /\ s = 1460)
  BY <1>2, OneYear
<1>4. doy < Days(c, a, b)
  BY <1>1, <1>2, <1>3 DEF Days
<1>5. doe = DayOf(c, a, b, doy)
  BY <1>1, <1>2, <1>3 DEF DayOf
<1>6. IsYear(c, a, b)
  BY <1>1, <1>2, <1>3 DEF IsYear
<1> QED BY <1>4, <1>5, <1>6

\* What the divisions by 1460, 36524 and 146096 compute is that year.
LEMMA YearComputed ==
  ASSUME NEW c \in Nat, NEW a \in Nat, NEW b \in Nat, IsYear(c, a, b),
         NEW doy \in Nat, doy < Days(c, a, b),
         NEW doe, doe = DayOf(c, a, b, doy)
  PROVE  /\ doe \in Nat /\ doe <= 146096
         /\ doe = 146096 <=> c = 3 /\ a = 24 /\ b = 3 /\ doy = 365
         /\ YearOfEra(doe) = 100*c + 4*a + b
         /\ DayOfYear(doe) = doy
<1>0. c <= 3 /\ a <= 24 /\ b <= 3
  BY DEF IsYear
<1>1. doy <= 365 /\ (doy = 365 => b = 3 /\ (a # 24 \/ c = 3))
  BY DEF Days
<1>2. PICK last \in {0, 1} : last = 1 <=> (c = 3 /\ a = 24 /\ b = 3 /\ doy = 365)
  OBVIOUS
<1>3. PICK e \in {0, 1} : e = 1 <=> 24*c + a + 365*b + doy >= 1460
  OBVIOUS
<1>4. PICK y \in Nat : y = 100*c + 4*a + b
  OBVIOUS
<1>5. doe \in Nat /\ doe = 36524*c + 1461*a + 365*b + doy
  BY DEF DayOf
<1>6. doe <= 146096 /\ (doe = 146096 <=> last = 1)
  BY <1>0, <1>1, <1>2, <1>5
<1>7. doe \div 1460 = 25*c + a + e
  <2>1. doe = 1460*(25*c + a) + (24*c + a + 365*b + doy)
    BY <1>5
  <2>2. 24*c + a + 365*b + doy < 2*1460
    BY <1>0, <1>1
  <2>3. 1460*(25*c + a + e) <= doe /\ doe < 1460*(25*c + a + e) + 1460
    BY <1>3, <1>5, <2>1, <2>2
  <2> QED BY <1>5, <2>3, Quotient
<1>8. doe \div 36524 = c + last
  <2>1. 1461*a + 365*b + doy <= 36524 /\ (1461*a + 365*b + doy = 36524 <=> last = 1)
    BY <1>0, <1>1, <1>2
  <2>2. 36524*(c + last) <= doe /\ doe < 36524*(c + last) + 36524
    BY <1>0, <1>2, <1>5, <2>1
  <2> QED BY <1>5, <2>2, Quotient
<1>9. doe \div 146096 = last
  <2>1. 146096*last <= doe /\ doe < 146096*last + 146096
    BY <1>2, <1>5, <1>6
  <2> QED BY <1>5, <2>1, Quotient
<1>10. doe - doe \div 1460 + doe \div 36524 - doe \div 146096 = 365*y + doy - e
  BY <1>0, <1>4, <1>5, <1>7, <1>8, <1>9
<1>11. 0 <= doy - e /\ doy - e < 365
  BY <1>0, <1>1, <1>3
<1>12. YearOfEra(doe) = y
  <2>1. (365*y + doy - e) \div 365 = y
    BY <1>11, Quotient
  <2> QED BY <1>10, <2>1 DEF YearOfEra
<1>13. y \div 4 = 25*c + a
  <2>1. 4*(25*c + a) <= y /\ y < 4*(25*c + a) + 4
    BY <1>0, <1>4
  <2> QED BY <2>1, Quotient
<1>14. y \div 100 = c
  <2>1. 100*c <= y /\ y < 100*c + 100
    BY <1>0, <1>4
  <2> QED BY <2>1, Quotient
<1>15. DayOfYear(doe) = doy
  <2>1. DayOfYear(doe) = doe - (365*y + y \div 4 - y \div 100)
    BY <1>12, SMT DEF DayOfYear
  <2>2. 365*y + y \div 4 - y \div 100 = 365*(100*c + 4*a + b) + (25*c + a) - c
    BY <1>4, <1>13, <1>14, SMT
  <2>3. doe - (365*(100*c + 4*a + b) + (25*c + a) - c) = doy
    BY <1>5, SMT
  <2> QED BY <2>1, <2>2, <2>3, SMT
<1>16. doe = 146096 <=> c = 3 /\ a = 24 /\ b = 3 /\ doy = 365
  BY <1>2, <1>6
<1> QED BY <1>4, <1>5, <1>6, <1>12, <1>15, <1>16

\* The first day of a month, counted from March, and the day after its last.
\* The month m of a year that begins in March, and its first day.
First(m) == (153 * m + 2) \div 5
Month(m) == IF m < 10 THEN m + 3 ELSE m - 9

LEMMA MonthComputed ==
  ASSUME NEW y \in Int, NEW m \in 0..11, NEW doy \in Nat, doy < 366,
         First(m) <= doy, doy < First(m + 1)
  PROVE  MarchDate(y, doy) = <<y + (IF m < 10 THEN 0 ELSE 1), Month(m), doy - First(m) + 1>>
<1>1. (5 * doy + 2) \div 153 = m
  <2>1. 153*m <= 5*doy + 2 /\ 5*doy + 2 < 153*m + 153
    BY DEF First
  <2> QED BY <2>1, Quotient
<1>2. Month(m) <= 2 <=> m >= 10
  BY DEF Month
<1> QED BY <1>1, <1>2 DEF MarchDate, Month, First

LEMMA MonthExists ==
  ASSUME NEW doy \in Nat, doy < 366
  PROVE  \E m \in 0..11 : First(m) <= doy /\ doy < First(m + 1)
<1> DEFINE m == (5 * doy + 2) \div 153
<1>1. m \in Nat /\ m <= 11 /\ 153*m <= 5*doy + 2 /\ 5*doy + 2 < 153*m + 153
  OBVIOUS
<1> HIDE DEF m
<1>2. First(m) <= doy /\ doy < First(m + 1)
  BY <1>1 DEF First
<1> QED BY <1>1, <1>2

\* How long a month is, of a year that ends in the February of year y + 1.
LEMMA MonthLength ==
  ASSUME NEW y \in Int, NEW m \in 0..10
  PROVE  DaysIn(y + (IF m < 10 THEN 0 ELSE 1), Month(m)) = First(m + 1) - First(m)
BY DEF DaysIn, Month, First

\* The next day in a year that begins in March, and over its end.
LEMMA NextInYear ==
  ASSUME NEW y \in Int, NEW doy \in Nat, doy + 1 < IF Leap(y + 1) THEN 366 ELSE 365
  PROVE  MarchDate(y, doy + 1) = NextDate(MarchDate(y, doy))
<1>1. doy + 1 < 366
  OBVIOUS
<1>2. PICK m \in 0..11 : First(m) <= doy /\ doy < First(m + 1)
  BY <1>1, MonthExists
<1> DEFINE y1 == y + (IF m < 10 THEN 0 ELSE 1)
           mon == Month(m)
           day == doy - First(m) + 1
<1>3. MarchDate(y, doy) = <<y1, mon, day>>
  BY <1>1, <1>2, MonthComputed
<1>4. mon \in 1..12 /\ (mon = 2 <=> m = 11) /\ (mon = 12 <=> m = 9)
  BY DEF Month
<1>5. First(m) \in Int /\ day \in Int /\ y1 \in Int
  BY DEF First
<1>6. CASE doy + 1 < First(m + 1)
  <2>1. MarchDate(y, doy + 1) = <<y1, mon, day + 1>>
    <3>1. PICK next \in Nat : next = doy + 1
      OBVIOUS
    <3>2. First(m) <= next /\ next < First(m + 1) /\ next < 366
      BY <1>1, <1>2, <1>5, <1>6, <3>1
    <3>3. MarchDate(y, next) = <<y1, mon, next - First(m) + 1>>
      BY <3>2, MonthComputed
    <3>4. next - First(m) + 1 = day + 1
      BY <1>5, <3>1
    <3> QED BY <3>1, <3>3, <3>4
  <2>2. day < DaysIn(y1, mon)
    <3>1. CASE m < 11
      <4>1. DaysIn(y1, mon) = First(m + 1) - First(m)
        BY <3>1, MonthLength
      <4> QED BY <1>5, <1>6, <4>1 DEF First
    <3>2. CASE m = 11
      <4>1. y1 = y + 1 /\ mon = 2 /\ day = doy - 336
        BY <3>2 DEF Month, First
      <4> QED BY <4>1 DEF DaysIn
    <3> QED BY <3>1, <3>2
  <2> QED BY <1>3, <2>1, <2>2 DEF NextDate
<1>7. CASE doy + 1 = First(m + 1)
  <2>1. m < 11
    BY <1>1, <1>7 DEF First
  <2>2. First(m + 1) < First(m + 2)
    BY DEF First
  <2>3. MarchDate(y, doy + 1) = <<y + (IF m + 1 < 10 THEN 0 ELSE 1), Month(m + 1), 1>>
    <3>1. MarchDate(y, doy + 1)
            = <<y + (IF m + 1 < 10 THEN 0 ELSE 1), Month(m + 1), doy + 1 - First(m + 1) + 1>>
      BY <1>1, <1>7, <2>1, <2>2, MonthComputed
    <3> QED BY <1>7, <3>1
  <2>4. DaysIn(y1, mon) = First(m + 1) - First(m)
    BY <2>1, MonthLength
  <2>5. ~ (day < DaysIn(y1, mon))
    BY <1>5, <1>7, <2>4
  <2>6. CASE m = 9
    BY <1>3, <1>4, <2>3, <2>5, <2>6 DEF NextDate, Month
  <2>7. CASE m # 9
    <3>1. mon < 12 /\ Month(m + 1) = mon + 1 /\ y1 = y + (IF m + 1 < 10 THEN 0 ELSE 1)
      BY <1>4, <2>1, <2>7 DEF Month
    <3> QED BY <1>3, <2>3, <2>5, <3>1 DEF NextDate
  <2> QED BY <2>6, <2>7
<1>8. doy + 1 < First(m + 1) \/ doy + 1 = First(m + 1)
  BY <1>2 DEF First
<1> QED BY <1>6, <1>7, <1>8

LEMMA NextYear ==
  ASSUME NEW y \in Int, NEW doy \in Nat, doy + 1 = IF Leap(y + 1) THEN 366 ELSE 365
  PROVE  MarchDate(y + 1, 0) = NextDate(MarchDate(y, doy))
<1>1. First(11) = 337 /\ First(12) = 367 /\ First(0) = 0 /\ First(1) = 31
  BY DEF First
<1>2. MarchDate(y, doy) = <<y + 1, 2, doy - 336>>
  <2>1. MarchDate(y, doy) = <<y + (IF 11 < 10 THEN 0 ELSE 1), Month(11), doy - First(11) + 1>>
    <3>1. doy < 366 /\ First(11) <= doy /\ doy < First(11 + 1) /\ 11 \in 0..11
      BY <1>1
    <3> QED BY <3>1, MonthComputed
  <2> QED BY <1>1, <2>1 DEF Month
<1>3. MarchDate(y + 1, 0) = <<y + 1, 3, 1>>
  <2>1. MarchDate(y + 1, 0) = <<y + 1 + (IF 0 < 10 THEN 0 ELSE 1), Month(0), 0 - First(0) + 1>>
    BY <1>1, MonthComputed
  <2> QED BY <1>1, <2>1 DEF Month
<1>4. DaysIn(y + 1, 2) = doy - 336
  BY DEF DaysIn
<1> QED BY <1>2, <1>3, <1>4 DEF NextDate

\* Every day lies in an era, and is computed from its day of it.
LEMMA EraExists ==
  ASSUME NEW days \in Int
  PROVE  \E era \in Int, doe \in Nat : doe <= 146096 /\ days + 719468 = 146097 * era + doe
<1> DEFINE q == (days + 719468) \div 146097
           r == (days + 719468) - 146097 * q
<1>1. q \in Int /\ r \in Nat /\ r <= 146096
  OBVIOUS
<1>2. days + 719468 = 146097 * q + r
  BY <1>1
<1> HIDE DEF q, r
<1> QED BY <1>1, <1>2

LEMMA CivilIsMarch ==
  ASSUME NEW days \in Int, NEW era \in Int, NEW doe \in Nat, doe <= 146096,
         days + 719468 = 146097 * era + doe
  PROVE  CivilFromDays(days) = MarchDate(YearOfEra(doe) + 400 * era, DayOfYear(doe))
<1> DEFINE z == days + 719468
<1>1. z \div 146097 = era
  BY Quotient
<1>2. z - era * 146097 = doe
  OBVIOUS
<1>3. YearOfEra(doe) \in Int /\ DayOfYear(doe) \in Int
  BY DEF YearOfEra, DayOfYear
<1> QED BY <1>1, <1>2, <1>3 DEF CivilFromDays

\* The length of the year that ends in the February of a year of an era.
\* Such a year has a 29th of February if the next one is a leap year.
LEMMA LeapIs ==
  ASSUME NEW era \in Int, NEW c \in Nat, NEW a \in Nat, NEW b \in Nat, IsYear(c, a, b)
  PROVE  Days(c, a, b) = IF Leap(100*c + 4*a + b + 400*era + 1) THEN 366 ELSE 365
<1> DEFINE y == 100*c + 4*a + b + 400*era + 1
<1>1. y % 4 = 0 <=> b = 3
  BY DEF IsYear
<1>2. b = 3 => (y % 100 = 0 <=> a = 24)
  BY DEF IsYear
<1>3. b = 3 /\ a = 24 => (y % 400 = 0 <=> c = 3)
  BY DEF IsYear
<1> HIDE DEF y
<1>4. Days(c, a, b) = IF Leap(y) THEN 366 ELSE 365
  BY <1>1, <1>2, <1>3 DEF Days, Leap
<1> QED BY <1>4 DEF y

\* What is computed of the next day is the next date by the calendar's rules.
LEMMA NextDay ==
  ASSUME NEW days \in Int
  PROVE  CivilFromDays(days + 1) = NextDate(CivilFromDays(days))
<1>1. PICK era \in Int, doe \in Nat : doe <= 146096 /\ days + 719468 = 146097 * era + doe
  BY EraExists
<1>2. PICK c, a, b, doy \in Nat :
        IsYear(c, a, b) /\ doy < Days(c, a, b) /\ doe = DayOf(c, a, b, doy)
  BY <1>1, YearExists
<1> DEFINE y == 100*c + 4*a + b + 400 * era
<1>3. /\ YearOfEra(doe) = 100*c + 4*a + b
      /\ DayOfYear(doe) = doy
      /\ doe = 146096 <=> c = 3 /\ a = 24 /\ b = 3 /\ doy = 365
  BY <1>2, YearComputed
<1>4. CivilFromDays(days) = MarchDate(y, doy)
  BY <1>1, <1>3, CivilIsMarch
<1>5. Days(c, a, b) = IF Leap(y + 1) THEN 366 ELSE 365
  BY <1>2, LeapIs
<1>6. Days(c, a, b) \in {365, 366}
  BY DEF Days
<1>7. CASE doy + 1 < Days(c, a, b)
  <2>1. doe # 146096
    BY <1>3, <1>6, <1>7
  <2>2. doe + 1 = DayOf(c, a, b, doy + 1)
    BY <1>2 DEF DayOf
  <2>3. YearOfEra(doe + 1) = 100*c + 4*a + b /\ DayOfYear(doe + 1) = doy + 1
    BY <1>2, <1>7, <2>2, YearComputed
  <2>4. CivilFromDays(days + 1) = MarchDate(y, doy + 1)
    <3>1. doe + 1 <= 146096 /\ days + 1 + 719468 = 146097 * era + (doe + 1)
      BY <1>1, <2>1
    <3> QED BY <2>3, <3>1, CivilIsMarch
  <2>5. MarchDate(y, doy + 1) = NextDate(MarchDate(y, doy))
    BY <1>5, <1>7, NextInYear
  <2> QED BY <1>4, <2>4, <2>5
<1>8. CASE doy + 1 = Days(c, a, b)
  <2>1. MarchDate(y + 1, 0) = NextDate(MarchDate(y, doy))
    BY <1>5, <1>8, NextYear
  <2>2. CivilFromDays(days + 1) = MarchDate(y + 1, 0)
    <3>1. CASE doe = 146096
      <4>1. YearOfEra(0) = 0 /\ DayOfYear(0) = 0
        BY DEF YearOfEra, DayOfYear
      <4>2. PICK d, next \in Int : d = days + 1 /\ next = era + 1
        OBVIOUS
      <4>3. d + 719468 = 146097 * next + 0
        BY <1>1, <3>1, <4>2
      <4>4. CivilFromDays(d) = MarchDate(YearOfEra(0) + 400 * next, DayOfYear(0))
        BY <4>3, CivilIsMarch, SMT
      <4>5. YearOfEra(0) + 400 * next = y + 1
        BY <1>3, <3>1, <4>1, <4>2
      <4> QED BY <4>1, <4>2, <4>4, <4>5
    <3>2. CASE doe # 146096
      <4>1. PICK c1, a1, b1 \in Nat :
              /\ IsYear(c1, a1, b1)
              /\ 100*c1 + 4*a1 + b1 = 100*c + 4*a + b + 1
              /\ doe + 1 = DayOf(c1, a1, b1, 0)
        <5>1. CASE b < 3
          <6>1. 100*c + 4*a + (b + 1) = 100*c + 4*a + b + 1 /\ IsYear(c, a, b + 1)
            BY <1>2, <5>1 DEF IsYear
          <6>2. doe + 1 = DayOf(c, a, b + 1, 0)
            BY <1>2, <1>8, <5>1 DEF Days, DayOf
          <6> QED BY <6>1, <6>2
        <5>2. CASE b = 3 /\ a < 24
          <6>1. 100*c + 4*(a + 1) + 0 = 100*c + 4*a + b + 1 /\ IsYear(c, a + 1, 0)
            BY <1>2, <5>2 DEF IsYear
          <6>2. doe + 1 = DayOf(c, a + 1, 0, 0)
            BY <1>2, <1>8, <5>2 DEF Days, DayOf
          <6> QED BY <6>1, <6>2
        <5>3. CASE b = 3 /\ a = 24
          <6>1. c < 3
            BY <1>2, <1>3, <1>8, <3>2, <5>3 DEF Days, IsYear
          <6>2. 100*(c + 1) + 4*0 + 0 = 100*c + 4*a + b + 1 /\ IsYear(c + 1, 0, 0)
            BY <5>3, <6>1 DEF IsYear
          <6>3. doe + 1 = DayOf(c + 1, 0, 0, 0)
            BY <1>2, <1>8, <5>3, <6>1 DEF Days, DayOf
          <6> QED BY <6>2, <6>3
        <5> QED BY <1>2, <5>1, <5>2, <5>3 DEF IsYear
      <4>2. 0 < Days(c1, a1, b1)
        BY DEF Days
      <4>3. YearOfEra(doe + 1) = 100*c + 4*a + b + 1 /\ DayOfYear(doe + 1) = 0
        BY <4>1, <4>2, YearComputed
      <4>4. doe + 1 <= 146096 /\ days + 1 + 719468 = 146097 * era + (doe + 1)
        BY <1>1, <3>2
      <4>5. CivilFromDays(days + 1) = MarchDate(100*c + 4*a + b + 1 + 400 * era, 0)
        BY <4>3, <4>4, CivilIsMarch
      <4>6. 100*c + 4*a + b + 1 + 400 * era = y + 1
        OBVIOUS
      <4> QED BY <4>5, <4>6
    <3> QED BY <3>1, <3>2
  <2> QED BY <1>4, <2>1, <2>2
<1>9. doy + 1 < Days(c, a, b) \/ doy + 1 = Days(c, a, b)
  BY <1>2, <1>6
<1> QED BY <1>7, <1>8, <1>9

\* A date that the calendar has.
IsDate(d) == d[2] \in 1..12 /\ d[3] \in 1..DaysIn(d[1], d[2])

LEMMA MarchIsDate ==
  ASSUME NEW y \in Int, NEW doy \in Nat, doy < IF Leap(y + 1) THEN 366 ELSE 365
  PROVE  IsDate(MarchDate(y, doy)) /\ \E a, b, c \in Int : MarchDate(y, doy) = <<a, b, c>>
<1>1. doy < 366
  OBVIOUS
<1>2. PICK m \in 0..11 : First(m) <= doy /\ doy < First(m + 1)
  BY <1>1, MonthExists
<1> DEFINE y1 == y + (IF m < 10 THEN 0 ELSE 1)
           mon == Month(m)
           day == doy - First(m) + 1
<1>3. MarchDate(y, doy) = <<y1, mon, day>>
  BY <1>1, <1>2, MonthComputed
<1>4. mon \in 1..12 /\ mon \in Int
  BY DEF Month
<1>5. First(m) \in Int /\ First(m + 1) \in Int /\ y1 \in Int
  BY DEF First
<1>6. day \in Int /\ 1 <= day
  BY <1>2, <1>5
<1>7. day <= DaysIn(y1, mon)
  <2>1. CASE m < 11
    <3>1. DaysIn(y1, mon) = First(m + 1) - First(m)
      BY <2>1, MonthLength
    <3> QED BY <1>2, <1>5, <3>1
  <2>2. CASE m = 11
    <3>1. y1 = y + 1 /\ mon = 2 /\ day = doy - 336
      BY <2>2 DEF Month, First
    <3> QED BY <3>1 DEF DaysIn
  <2> QED BY <2>1, <2>2
<1>8. DaysIn(y1, mon) \in Int
  BY DEF DaysIn
<1> HIDE DEF y1, mon, day
<1>9. day \in 1..DaysIn(y1, mon)
  BY <1>6, <1>7, <1>8
<1> QED BY <1>3, <1>4, <1>5, <1>6, <1>9 DEF IsDate

\* A day is a date, of a year that begins in March.
LEMMA CivilIsDate ==
  ASSUME NEW days \in Int
  PROVE  IsDate(CivilFromDays(days)) /\ \E a, b, c \in Int : CivilFromDays(days) = <<a, b, c>>
<1>1. PICK era \in Int, doe \in Nat : doe <= 146096 /\ days + 719468 = 146097 * era + doe
  BY EraExists
<1>2. PICK c, a, b, doy \in Nat :
        IsYear(c, a, b) /\ doy < Days(c, a, b) /\ doe = DayOf(c, a, b, doy)
  BY <1>1, YearExists
<1> DEFINE y == 100*c + 4*a + b + 400 * era
<1>3. YearOfEra(doe) = 100*c + 4*a + b /\ DayOfYear(doe) = doy
  BY <1>2, YearComputed
<1>4. CivilFromDays(days) = MarchDate(y, doy)
  BY <1>1, <1>3, CivilIsMarch
<1>5. Days(c, a, b) = IF Leap(y + 1) THEN 366 ELSE 365
  BY <1>2, LeapIs
<1>6. PICK year \in Int : year = y
  OBVIOUS
<1>7. doy < IF Leap(year + 1) THEN 366 ELSE 365
  BY <1>2, <1>5, <1>6
<1> HIDE DEF y
<1>8. CivilFromDays(days) = MarchDate(year, doy)
  BY <1>4, <1>6
<1>9. IsDate(MarchDate(year, doy))
  BY <1>7, MarchIsDate
<1>10. \E p, q, r \in Int : MarchDate(year, doy) = <<p, q, r>>
  BY <1>7, MarchIsDate
<1> QED BY <1>8, <1>9, <1>10

\* On dates, PrevDate takes back what NextDate does.
LEMMA PrevOfNext ==
  ASSUME NEW a \in Int, NEW b \in Int, NEW c \in Int, IsDate(<<a, b, c>>)
  PROVE  PrevDate(NextDate(<<a, b, c>>)) = <<a, b, c>>
<1>1. b \in 1..12 /\ 1 <= c /\ c <= DaysIn(a, b)
  BY DEF IsDate, DaysIn
<1>2. DaysIn(a, b) \in Int
  BY DEF DaysIn
<1>3. CASE c < DaysIn(a, b)
  <2>1. NextDate(<<a, b, c>>) = <<a, b, c + 1>>
    BY <1>3 DEF NextDate
  <2>2. PrevDate(<<a, b, c + 1>>) = <<a, b, c>>
    BY <1>1 DEF PrevDate
  <2> QED BY <2>1, <2>2
<1>4. CASE c = DaysIn(a, b) /\ b < 12
  <2>1. NextDate(<<a, b, c>>) = <<a, b + 1, 1>>
    BY <1>2, <1>4 DEF NextDate
  <2>2. PrevDate(<<a, b + 1, 1>>) = <<a, b + 1 - 1, DaysIn(a, b + 1 - 1)>>
    BY <1>1 DEF PrevDate
  <2>3. b + 1 - 1 = b
    BY <1>1
  <2> QED BY <1>4, <2>1, <2>2, <2>3
<1>5. CASE c = DaysIn(a, b) /\ b = 12
  <2>1. NextDate(<<a, b, c>>) = <<a + 1, 1, 1>>
    BY <1>2, <1>5 DEF NextDate
  <2>2. PrevDate(<<a + 1, 1, 1>>) = <<a, 12, 31>>
    BY DEF PrevDate
  <2>3. c = 31
    BY <1>5 DEF DaysIn
  <2> QED BY <1>5, <2>1, <2>2, <2>3
<1> QED BY <1>1, <1>2, <1>3, <1>4, <1>5

LEMMA PrevDay ==
  ASSUME NEW days \in Int
  PROVE  CivilFromDays(days - 1) = PrevDate(CivilFromDays(days))
<1>1. PICK d \in Int : d = days - 1
  OBVIOUS
<1>2. CivilFromDays(d + 1) = NextDate(CivilFromDays(d))
  BY NextDay
<1>3. PICK a, b, c \in Int : CivilFromDays(d) = <<a, b, c>>
  BY CivilIsDate
<1>4. IsDate(<<a, b, c>>)
  BY <1>3, CivilIsDate
<1>5. PrevDate(NextDate(<<a, b, c>>)) = <<a, b, c>>
  BY <1>4, PrevOfNext
<1>6. d + 1 = days
  BY <1>1
<1> QED BY <1>1, <1>2, <1>3, <1>5, <1>6

\* Day 0 is the Unix epoch.
LEMMA Epoch == CivilFromDays(0) = <<1970, 1, 1>>
<1>1. IsYear(3, 17, 1) /\ 306 < Days(3, 17, 1) /\ 135080 = DayOf(3, 17, 1, 306)
  BY SMT DEF IsYear, Days, DayOf
<1>2. YearOfEra(135080) = 369 /\ DayOfYear(135080) = 306
  BY <1>1, YearComputed, SMT
<1>3. CivilFromDays(0) = MarchDate(YearOfEra(135080) + 400 * 4, DayOfYear(135080))
  <2>1. PICK era, doe \in Nat : era = 4 /\ doe = 135080
    BY SMT
  <2>2. doe <= 146096 /\ 0 + 719468 = 146097 * era + doe
    BY <2>1, SMT
  <2>3. CivilFromDays(0) = MarchDate(YearOfEra(doe) + 400 * era, DayOfYear(doe))
    BY <2>2, CivilIsMarch, SMT
  <2> QED BY <2>1, <2>3, SMT
<1>4. MarchDate(1969, 306) = <<1970, 1, 1>>
  BY DEF MarchDate
<1> QED BY <1>2, <1>3, <1>4, SMT

\* The calendar starts on 1970-01-01 and goes on by its rules.
IsCalendar(Cal) ==
  /\ Cal[0] = <<1970, 1, 1>>
  /\ \A d \in Int : Cal[d + 1] = NextDate(Cal[d]) /\ Cal[d - 1] = PrevDate(Cal[d])

\* What civil_from_days computes is the calendar, however long ago or ahead.
THEOREM CivilIsCalendar ==
  ASSUME NEW Cal, IsCalendar(Cal)
  PROVE  \A d \in Int : CivilFromDays(d) = Cal[d]
<1> DEFINE Same == {n \in Nat : CivilFromDays(n) = Cal[n] /\ CivilFromDays(-n) = Cal[-n]}
<1>1. 0 \in Same
  BY Epoch DEF IsCalendar
<1>2. ASSUME NEW n \in Nat, n \in Same PROVE n + 1 \in Same
  <2>1. CivilFromDays(n + 1) = Cal[n + 1]
    BY <1>2, NextDay DEF IsCalendar
  <2>2. CivilFromDays(-n - 1) = Cal[-n - 1]
    <3>1. PICK d \in Int : d = -n
      OBVIOUS
    <3>2. CivilFromDays(d - 1) = Cal[d - 1]
      BY <1>2, <3>1, PrevDay DEF IsCalendar
    <3> QED BY <3>1, <3>2
  <2>3. -n - 1 = -(n + 1)
    OBVIOUS
  <2> QED BY <2>1, <2>2, <2>3
<1> HIDE DEF Same
<1>3. Nat \subseteq Same
  BY <1>1, <1>2, Induct
<1>4. ASSUME NEW d \in Int PROVE CivilFromDays(d) = Cal[d]
  <2>1. CASE d \in Nat
    BY <1>3, <2>1 DEF Same
  <2>2. CASE -d \in Nat
    <3>1. PICK n \in Nat : n = -d /\ d = -n
      BY <2>2
    <3> QED BY <1>3, <3>1 DEF Same
  <2>3. d \in Nat \/ -d \in Nat
    OBVIOUS
  <2> QED BY <2>1, <2>2, <2>3
<1> QED BY <1>4

\* There is such a calendar: the one that civil_from_days computes.
LEMMA CalendarExists == \E Cal : IsCalendar(Cal)
<1> DEFINE Cal == [d \in Int |-> CivilFromDays(d)]
<1>1. Cal[0] = <<1970, 1, 1>>
  BY Epoch
<1>2. ASSUME NEW d \in Int
      PROVE  Cal[d + 1] = NextDate(Cal[d]) /\ Cal[d - 1] = PrevDate(Cal[d])
  <2>1. d + 1 \in Int /\ d - 1 \in Int
    OBVIOUS
  <2> QED BY <2>1, NextDay, PrevDay
<1> HIDE DEF Cal
<1> QED BY <1>1, <1>2 DEF IsCalendar

-----------------------------------------------------------------------------
(* The zone of each piece of a body.                                       *)

ZoneStep(section, pieces, g, i) ==
  IF i = 0 THEN SectionZone(section)
  ELSE IF pieces[i].kind # "block" THEN g[i - 1]
  ELSE BlockZone(section, g[i - 1], pieces[i].tags)
ZoneFits(section, pieces, n, g) == g = [i \in 0..n |-> ZoneStep(section, pieces, g, i)]

\* The recursion of ZoneAfter defines a function.
LEMMA ZoneExists ==
  ASSUME NEW section, NEW pieces
  PROVE  \A n \in Nat : \E g : ZoneFits(section, pieces, n, g)
<1> DEFINE N == {n \in Nat : \E g : ZoneFits(section, pieces, n, g)}
<1>1. 0 \in N
  <2>1. ZoneFits(section, pieces, 0, [i \in 0..0 |-> SectionZone(section)])
    BY DEF ZoneFits, ZoneStep
  <2> QED BY <2>1
<1>2. ASSUME NEW n \in Nat, n \in N PROVE n + 1 \in N
  <2>1. PICK g : ZoneFits(section, pieces, n, g)
    BY <1>2
  <2> DEFINE h == [i \in 0..(n + 1) |-> ZoneStep(section, pieces, g, i)]
  <2>2. ASSUME NEW i \in 0..(n + 1)
        PROVE  ZoneStep(section, pieces, g, i) = ZoneStep(section, pieces, h, i)
    <3>1. CASE i = 0
      BY <3>1 DEF ZoneStep
    <3>2. CASE i # 0
      <4>1. i - 1 \in 0..n /\ i - 1 \in 0..(n + 1)
        BY <3>2
      <4>2. g[i - 1] = ZoneStep(section, pieces, g, i - 1)
        <5>1. g = [j \in 0..n |-> ZoneStep(section, pieces, g, j)]
          BY <2>1 DEF ZoneFits
        <5> QED BY <4>1, <5>1
      <4>3. h[i - 1] = g[i - 1]
        BY <4>1, <4>2
      <4> HIDE DEF h
      <4> QED BY <3>2, <4>3 DEF ZoneStep
    <3> QED BY <3>1, <3>2
  <2>3. h = [i \in 0..(n + 1) |-> ZoneStep(section, pieces, g, i)]
    OBVIOUS
  <2> HIDE DEF h
  <2>4. ZoneFits(section, pieces, n + 1, h)
    BY <2>2, <2>3 DEF ZoneFits
  <2> QED BY <2>4
<1> HIDE DEF N
<1>3. Nat \subseteq N
  BY <1>1, <1>2, Induct
<1> QED BY <1>3 DEF N

LEMMA ZonesAre ==
  ASSUME NEW section, NEW pieces, Len(pieces) \in Nat
  PROVE  \A i \in 0..Len(pieces) :
           ZoneAfter(section, pieces)[i] = ZoneStep(section, pieces, ZoneAfter(section, pieces), i)
<1> DEFINE zone == ZoneAfter(section, pieces)
<1>1. zone = CHOOSE g : ZoneFits(section, pieces, Len(pieces), g)
  BY DEF ZoneAfter, ZoneFits, ZoneStep
<1>2. \E g : ZoneFits(section, pieces, Len(pieces), g)
  BY ZoneExists
<1> HIDE DEF zone
<1>3. ZoneFits(section, pieces, Len(pieces), zone)
  BY <1>1, <1>2
<1>4. zone = [i \in 0..Len(pieces) |-> ZoneStep(section, pieces, zone, i)]
  BY <1>3 DEF ZoneFits
<1>5. \A i \in 0..Len(pieces) : zone[i] = ZoneStep(section, pieces, zone, i)
  BY <1>4
<1> QED BY <1>5 DEF zone

\* A zone of the section is the one of every piece.
LEMMA SectionsOwn ==
  ASSUME NEW section, NEW pieces, Len(pieces) \in Nat, SectionZone(section) # NoZone
  PROVE  \A i \in 0..Len(pieces) : ZoneAfter(section, pieces)[i] = SectionZone(section)
<1> DEFINE zone == ZoneAfter(section, pieces)
           S == {i \in Nat : i <= Len(pieces) => zone[i] = SectionZone(section)}
<1>1. \A i \in 0..Len(pieces) : zone[i] = ZoneStep(section, pieces, zone, i)
  BY ZonesAre
<1> HIDE DEF zone
<1>2. 0 \in S
  BY <1>1 DEF ZoneStep
<1>3. ASSUME NEW i \in Nat, i \in S PROVE i + 1 \in S
  <2> SUFFICES ASSUME i + 1 <= Len(pieces) PROVE zone[i + 1] = SectionZone(section)
    OBVIOUS
  <2>1. zone[i] = SectionZone(section)
    BY <1>3
  <2>2. zone[i + 1] = ZoneStep(section, pieces, zone, i + 1)
    BY <1>1
  <2>3. i + 1 # 0 /\ i + 1 - 1 = i
    OBVIOUS
  <2> QED BY <2>1, <2>2, <2>3 DEF ZoneStep, BlockZone
<1> HIDE DEF S
<1>4. Nat \subseteq S
  BY <1>2, <1>3, Induct
<1> QED BY <1>4 DEF S, zone

LEMMA LeastIs ==
  ASSUME NEW T \in SUBSET Nat, NEW m \in T, \A n \in T : m <= n
  PROVE  Min(T) = m
<1>1. Min(T) \in T /\ \A n \in T : Min(T) <= n
  BY DEF Min
<1>2. m \in Nat /\ Min(T) \in Nat /\ m <= Min(T) /\ Min(T) <= m
  BY <1>1
<1> QED BY <1>2

\* The zone that is handed on is the first one that is known.
LEMMA ZoneIsKnown ==
  ASSUME NEW section, NEW pieces, Len(pieces) \in Nat
  PROVE  \A i \in 0..Len(pieces) : ZoneAfter(section, pieces)[i] = KnownZone(section, pieces, i)
<1>1. CASE SectionZone(section) # NoZone
  BY <1>1, SectionsOwn DEF KnownZone
<1>2. CASE SectionZone(section) = NoZone
  <2> DEFINE zone == ZoneAfter(section, pieces)
             told(j) == ParseZone(pieces[j].tags["timezone"])
             ask(j) == /\ pieces[j].kind = "block" /\ "timezone" \in DOMAIN pieces[j].tags
                       /\ told(j) # NoZone
             asks(i) == {j \in 1..i : ask(j)}
             known(i) == IF asks(i) = {} THEN NoZone ELSE told(Min(asks(i)))
             S == {i \in Nat : i <= Len(pieces) => zone[i] = known(i)}
  <2>1. \A i : KnownZone(section, pieces, i) = known(i)
    BY <1>2 DEF KnownZone
  <2>2. \A i \in 0..Len(pieces) : zone[i] = ZoneStep(section, pieces, zone, i)
    BY ZonesAre
  <2> HIDE DEF zone
  <2>3. 0 \in S
    <3>1. asks(0) = {}
      OBVIOUS
    <3> QED BY <1>2, <2>2, <3>1 DEF ZoneStep
  <2>4. ASSUME NEW i \in Nat, i \in S PROVE i + 1 \in S
    <3> SUFFICES ASSUME i + 1 <= Len(pieces) PROVE zone[i + 1] = known(i + 1)
      OBVIOUS
    <3>1. zone[i] = known(i)
      BY <2>4
    <3>2. zone[i + 1] = IF pieces[i + 1].kind # "block" THEN zone[i]
                        ELSE BlockZone(section, zone[i], pieces[i + 1].tags)
      <4>1. zone[i + 1] = ZoneStep(section, pieces, zone, i + 1)
        BY <2>2
      <4>2. i + 1 # 0 /\ i + 1 - 1 = i
        OBVIOUS
      <4> QED BY <4>1, <4>2 DEF ZoneStep
    <3>3. asks(i + 1) = asks(i) \cup {j \in {i + 1} : ask(j)}
      <4>1. 1..(i + 1) = (1..i) \cup {i + 1}
        OBVIOUS
      <4> HIDE DEF ask
      <4> QED BY <4>1
    <3>4. asks(i) \in SUBSET Nat /\ \A j \in asks(i) : j <= i /\ ask(j)
      <4> HIDE DEF ask
      <4> QED OBVIOUS
    <3>5. CASE asks(i) # {}
      <4>1. PICK m \in asks(i) : \A j \in asks(i) : m <= j
        <5> HIDE DEF asks
        <5> QED BY <3>4, <3>5, Least
      <4>2. asks(i + 1) \in SUBSET Nat /\ m \in asks(i + 1) /\ \A j \in asks(i + 1) : m <= j
        <5> HIDE DEF asks, ask
        <5> QED BY <3>3, <3>4, <4>1
      <4>3. ask(m)
        BY <3>4
      <4> HIDE DEF asks, ask, told
      <4>4. Min(asks(i)) = m /\ Min(asks(i + 1)) = m
        BY <3>4, <4>1, <4>2, LeastIs
      <4>5. known(i) = told(m) /\ known(i + 1) = told(m) /\ told(m) # NoZone
        BY <4>2, <4>3, <4>4 DEF ask
      <4>6. zone[i + 1] = zone[i]
        BY <3>1, <3>2, <4>5 DEF BlockZone
      <4> QED BY <3>1, <4>5, <4>6
    <3>6. CASE asks(i) = {} /\ ask(i + 1)
      <4>1. asks(i + 1) = {i + 1}
        <5> HIDE DEF asks, ask
        <5> QED BY <3>3, <3>6
      <4>2. Min({i + 1}) = i + 1
        BY LeastIs
      <4>3. known(i + 1) = told(i + 1)
        <5> HIDE DEF asks, ask, told
        <5> QED BY <4>1, <4>2
      <4>4. zone[i] = NoZone
        BY <3>1, <3>6
      <4> QED BY <3>2, <3>6, <4>3, <4>4 DEF BlockZone
    <3>7. CASE asks(i) = {} /\ ~ask(i + 1)
      <4>1. asks(i + 1) = {}
        <5> HIDE DEF asks, ask
        <5> QED BY <3>3, <3>7
      <4>2. zone[i] = NoZone
        BY <3>1, <3>7
      <4>3. zone[i + 1] = NoZone
        BY <3>2, <3>7, <4>2 DEF BlockZone
      <4> QED BY <4>1, <4>3
    <3> QED BY <3>5, <3>6, <3>7
  <2> HIDE DEF S
  <2>5. Nat \subseteq S
    BY <2>3, <2>4, Induct
  <2>6. \A i \in 0..Len(pieces) : zone[i] = known(i)
    <3> HIDE DEF known
    <3> QED BY <2>5 DEF S
  <2> QED BY <2>1, <2>6 DEF zone
<1> QED BY <1>1, <1>2

-----------------------------------------------------------------------------
(* The tags of a block.                                                    *)

IsTags(tags) == tags = [t \in DOMAIN tags |-> tags[t]]
Gives(section, tags, tag, value) ==
  value # Absent /\ (tag \in DOMAIN tags \/ section.fill_missing)

LEMMA ReplaceIs ==
  ASSUME NEW section, NEW tags, NEW tag, NEW value, IsTags(tags)
  PROVE  /\ IsTags(Replace(section, tags, tag, value))
         /\ \A t : t \in DOMAIN Replace(section, tags, tag, value)
                  <=> t \in DOMAIN tags \/ (t = tag /\ Gives(section, tags, tag, value))
         /\ \A t \in DOMAIN Replace(section, tags, tag, value) :
              Replace(section, tags, tag, value)[t]
                = IF t = tag /\ Gives(section, tags, tag, value) THEN value ELSE tags[t]
BY DEF Replace, Gives, IsTags, With

\* The elements of a set S have got the values V.
Layer(kept, S, V, new) ==
  /\ IsTags(new) /\ DOMAIN new = DOMAIN kept \cup S
  /\ \A t \in DOMAIN new : new[t] = IF t \in S THEN V[t] ELSE kept[t]

LEMMA OneMore ==
  ASSUME NEW section, NEW kept, NEW S, NEW V, NEW old, Layer(kept, S, V, old), NEW tag,
         tag \notin S
  PROVE  /\ tag \in DOMAIN old <=> tag \in DOMAIN kept
         /\ Gives(section, kept, tag, V[tag]) =>
              Layer(kept, S \cup {tag}, V, Replace(section, old, tag, V[tag]))
         /\ ~Gives(section, kept, tag, V[tag]) =>
              Layer(kept, S, V, Replace(section, old, tag, V[tag]))
<1>1. tag \in DOMAIN old <=> tag \in DOMAIN kept
  BY DEF Layer
<1>2. Gives(section, kept, tag, V[tag]) <=> Gives(section, old, tag, V[tag])
  BY <1>1 DEF Gives
<1> DEFINE new == Replace(section, old, tag, V[tag])
<1>3. /\ IsTags(new)
      /\ \A t : t \in DOMAIN new
               <=> t \in DOMAIN old \/ (t = tag /\ Gives(section, old, tag, V[tag]))
      /\ \A t \in DOMAIN new :
           new[t] = IF t = tag /\ Gives(section, old, tag, V[tag]) THEN V[tag] ELSE old[t]
  BY ReplaceIs DEF Layer
<1> HIDE DEF new
<1>4. Gives(section, kept, tag, V[tag]) => Layer(kept, S \cup {tag}, V, new)
  BY <1>2, <1>3 DEF Layer
<1>5. ~Gives(section, kept, tag, V[tag]) => Layer(kept, S, V, new)
  BY <1>2, <1>3 DEF Layer
<1> QED BY <1>1, <1>4, <1>5 DEF new

LEMMA EscapeGives ==
  ASSUME NEW value
  PROVE  value # Absent => Escape(value) # Absent
BY DEF Escape, Absent

\* The value that an element of a block gets, if it does.
ValueOf(section, zone, kept, moment, e) ==
  IF e = "timezone" THEN section.timezone
  ELSE IF e = "current_date" THEN ResolveDate(section.current_date, zone, moment)
  ELSE IF e \in {"cwd", "shell"}
    THEN IF section[e] # Absent /\ e \notin DOMAIN kept THEN Escape(section[e]) ELSE section[e]
  ELSE IF section.workspace_roots = Absent THEN Absent ELSE Escape(section.workspace_roots)
Gets(section, zone, kept, moment, e) ==
  /\ e \in Elements
  /\ ValueOf(section, zone, kept, moment, e) # Absent
  /\ e \in DOMAIN kept \/ section.fill_missing
  /\ e = "workspace_roots" => e \in DOMAIN kept \/ "filesystem" \in DOMAIN kept

\* What becomes of the tags that are kept.
Made(section, zone, kept, moment, new) ==
  /\ IsTags(new)
  /\ \A t : t \in DOMAIN new <=> t \in DOMAIN kept \/ Gets(section, zone, kept, moment, t)
  /\ \A t \in DOMAIN new :
       new[t] = IF Gets(section, zone, kept, moment, t) THEN ValueOf(section, zone, kept, moment, t)
                ELSE kept[t]

LEMMA RetaggedIs ==
  ASSUME NEW section, NEW zone, NEW tags, NEW moment
  PROVE  Made(section, zone, Without(tags, section.drop), moment,
              Retagged(section, zone, tags, moment))
<1> DEFINE kept == Without(tags, section.drop)
           zoned == Replace(section, kept, "timezone", section.timezone)
           day == ResolveDate(section.current_date, zone, moment)
           dated == Replace(section, zoned, "current_date", day)
           cwd(ts) == IF section.cwd # Absent /\ "cwd" \notin DOMAIN ts THEN Escape(section.cwd)
                      ELSE section.cwd
           moved == Replace(section, dated, "cwd", cwd(dated))
           shell(ts) == IF section.shell # Absent /\ "shell" \notin DOMAIN ts
                          THEN Escape(section.shell) ELSE section.shell
           shelled == Replace(section, moved, "shell", shell(moved))
           roots == IF section.workspace_roots = Absent THEN section.workspace_roots
                    ELSE Escape(section.workspace_roots)
           new == IF "workspace_roots" \in DOMAIN shelled \/ "filesystem" \in DOMAIN shelled
                    THEN Replace(section, shelled, "workspace_roots", roots) ELSE shelled
           V == [e \in Elements |-> ValueOf(section, zone, kept, moment, e)]
           gets(e) == Gets(section, zone, kept, moment, e)
           G(T) == {t \in T : gets(t)}
<1>1. Retagged(section, zone, tags, moment) = new
  BY DEF Retagged, ReplaceOrInsert, ReplaceRoots
<1>2. /\ V["timezone"] = section.timezone /\ V["current_date"] = day
      /\ V["cwd"] = cwd(kept) /\ V["shell"] = shell(kept)
      /\ V["workspace_roots"] = roots
  BY DEF ValueOf, Elements
<1>3. \A e \in Elements \ {"workspace_roots"} : gets(e) <=> Gives(section, kept, e, V[e])
  BY DEF Gets, Gives
<1>4. gets("workspace_roots") <=>
        /\ Gives(section, kept, "workspace_roots", V["workspace_roots"])
        /\ "workspace_roots" \in DOMAIN kept \/ "filesystem" \in DOMAIN kept
  BY DEF Gets, Gives, Elements
<1>5. Layer(kept, {}, V, kept)
  BY DEF Layer, IsTags, Without
<1>6. \A t : gets(t) => t \in Elements
  BY DEF Gets
<1>7. \A e \in Elements : V[e] = ValueOf(section, zone, kept, moment, e)
  OBVIOUS
<1> HIDE DEF kept, day, V, gets
<1>8. Layer(kept, G({"timezone"}), V, zoned)
  <2>1. zoned = Replace(section, kept, "timezone", V["timezone"])
    BY <1>2
  <2>2. gets("timezone") <=> Gives(section, kept, "timezone", V["timezone"])
    BY <1>3 DEF Elements
  <2>3. G({"timezone"}) = IF gets("timezone") THEN {} \cup {"timezone"} ELSE {}
    OBVIOUS
  <2> HIDE DEF zoned, G
  <2>5. gets("timezone") => Layer(kept, {} \cup {"timezone"}, V, zoned)
    BY <1>5, <2>1, <2>2, <2>3, OneMore
  <2>6. ~gets("timezone") => Layer(kept, {}, V, zoned)
    BY <1>5, <2>1, <2>2, <2>3, OneMore
  <2> QED BY <2>2, <2>3, <2>5, <2>6
<1> HIDE DEF zoned
<1>9. Layer(kept, G({"timezone", "current_date"}), V, dated)
  <2>1. dated = Replace(section, zoned, "current_date", V["current_date"])
    BY <1>2
  <2>2. gets("current_date") <=> Gives(section, kept, "current_date", V["current_date"])
    BY <1>3 DEF Elements
  <2>3. /\ "current_date" \notin G({"timezone"})
        /\ G({"timezone", "current_date"})
             = IF gets("current_date") THEN G({"timezone"}) \cup {"current_date"}
               ELSE G({"timezone"})
    OBVIOUS
  <2> HIDE DEF dated, G
  <2>5. gets("current_date") => Layer(kept, G({"timezone"}) \cup {"current_date"}, V, dated)
    BY <1>8, <2>1, <2>2, <2>3, OneMore
  <2>6. ~gets("current_date") => Layer(kept, G({"timezone"}), V, dated)
    BY <1>8, <2>1, <2>2, <2>3, OneMore
  <2> QED BY <2>2, <2>3, <2>5, <2>6
<1> HIDE DEF dated
<1>10. Layer(kept, G({"timezone", "current_date", "cwd"}), V, moved)
  <2>1. gets("cwd") <=> Gives(section, kept, "cwd", V["cwd"])
    BY <1>3 DEF Elements
  <2>2. /\ "cwd" \notin G({"timezone", "current_date"})
        /\ G({"timezone", "current_date", "cwd"})
             = IF gets("cwd") THEN G({"timezone", "current_date"}) \cup {"cwd"}
               ELSE G({"timezone", "current_date"})
    OBVIOUS
  <2> HIDE DEF G
  <2>3. "cwd" \in DOMAIN dated <=> "cwd" \in DOMAIN kept
    BY <1>9, <2>2, OneMore
  <2>4. moved = Replace(section, dated, "cwd", V["cwd"])
    BY <1>2, <2>3
  <2> HIDE DEF moved
  <2>5. gets("cwd") => Layer(kept, G({"timezone", "current_date"}) \cup {"cwd"}, V, moved)
    BY <1>9, <2>1, <2>2, <2>4, OneMore
  <2>6. ~gets("cwd") => Layer(kept, G({"timezone", "current_date"}), V, moved)
    BY <1>9, <2>1, <2>2, <2>4, OneMore
  <2> QED BY <2>2, <2>4, <2>5, <2>6
<1> HIDE DEF moved
<1>11. Layer(kept, G({"timezone", "current_date", "cwd", "shell"}), V, shelled)
  <2>1. gets("shell") <=> Gives(section, kept, "shell", V["shell"])
    BY <1>3 DEF Elements
  <2>2. /\ "shell" \notin G({"timezone", "current_date", "cwd"})
        /\ G({"timezone", "current_date", "cwd", "shell"})
             = IF gets("shell") THEN G({"timezone", "current_date", "cwd"}) \cup {"shell"}
               ELSE G({"timezone", "current_date", "cwd"})
    OBVIOUS
  <2> HIDE DEF G
  <2>3. "shell" \in DOMAIN moved <=> "shell" \in DOMAIN kept
    BY <1>10, <2>2, OneMore
  <2>4. shelled = Replace(section, moved, "shell", V["shell"])
    BY <1>2, <2>3
  <2> HIDE DEF shelled
  <2>5. gets("shell") =>
          Layer(kept, G({"timezone", "current_date", "cwd"}) \cup {"shell"}, V, shelled)
    BY <1>10, <2>1, <2>2, <2>4, OneMore
  <2>6. ~gets("shell") => Layer(kept, G({"timezone", "current_date", "cwd"}), V, shelled)
    BY <1>10, <2>1, <2>2, <2>4, OneMore
  <2> QED BY <2>2, <2>4, <2>5, <2>6
<1> HIDE DEF shelled
<1>12. Layer(kept, G(Elements), V, new)
  <2> DEFINE S == G({"timezone", "current_date", "cwd", "shell"})
  <2>1. /\ "workspace_roots" \notin S
        /\ G(Elements) = IF gets("workspace_roots") THEN S \cup {"workspace_roots"} ELSE S
    BY DEF Elements
  <2>2. \A t \in S : t # "workspace_roots" /\ t # "filesystem"
    OBVIOUS
  <2> HIDE DEF G
  <2>3. /\ "workspace_roots" \in DOMAIN shelled <=> "workspace_roots" \in DOMAIN kept
        /\ "filesystem" \in DOMAIN shelled <=> "filesystem" \in DOMAIN kept
    BY <1>11, <2>2 DEF Layer
  <2> HIDE DEF S
  <2>4. CASE "workspace_roots" \in DOMAIN shelled \/ "filesystem" \in DOMAIN shelled
    <3>1. new = Replace(section, shelled, "workspace_roots", V["workspace_roots"])
      BY <1>2, <2>4
    <3>2. gets("workspace_roots")
            <=> Gives(section, kept, "workspace_roots", V["workspace_roots"])
      BY <1>4, <2>3, <2>4
    <3>3. Layer(kept, S, V, shelled)
      BY <1>11 DEF S
    <3> HIDE DEF new
    <3>4. gets("workspace_roots") => Layer(kept, S \cup {"workspace_roots"}, V, new)
      BY <2>1, <3>1, <3>2, <3>3, OneMore
    <3>5. ~gets("workspace_roots") => Layer(kept, S, V, new)
      BY <2>1, <3>1, <3>2, <3>3, OneMore
    <3> QED BY <2>1, <3>4, <3>5
  <2>5. CASE ~("workspace_roots" \in DOMAIN shelled \/ "filesystem" \in DOMAIN shelled)
    <3>1. ~gets("workspace_roots") /\ new = shelled
      BY <1>4, <2>3, <2>5
    <3> HIDE DEF new
    <3> QED BY <1>11, <2>1, <3>1 DEF S
  <2> QED BY <2>4, <2>5
<1> HIDE DEF new
<1>13. Made(section, zone, kept, moment, new)
  BY <1>6, <1>7, <1>12 DEF Made, Layer, gets
<1> QED BY <1>1, <1>13 DEF kept

-----------------------------------------------------------------------------
(* What is left of a body.                                                 *)

LEMMA LengthIs ==
  ASSUME NEW s, NEW n \in Nat, DOMAIN s = 1..n, s = [i \in 1..n |-> s[i]]
  PROVE  Len(s) = n
<1>1. \A i \in 1..n : s[i] \in {s[j] : j \in 1..n}
  OBVIOUS
<1>2. s \in Seq({s[j] : j \in 1..n})
  BY <1>1
<1> QED BY <1>2

LEMMA AppliedIs ==
  ASSUME NEW section, NEW pieces, IsBody(pieces), NEW when
  PROVE  /\ IsSequence(ApplyEnv(section, pieces, when))
         /\ Len(ApplyEnv(section, pieces, when)) = Len(pieces)
         /\ DOMAIN ApplyEnv(section, pieces, when) = 1..Len(pieces)
         /\ DOMAIN pieces = 1..Len(pieces)
         /\ \A i \in 1..Len(pieces) :
              ApplyEnv(section, pieces, when)[i]
                = IF pieces[i].kind # "block" THEN pieces[i]
                  ELSE RewriteBlock(section, KnownZone(section, pieces, i), pieces[i], when[i])
<1> DEFINE zone == ZoneAfter(section, pieces)
           new == ApplyEnv(section, pieces, when)
<1>1. Len(pieces) \in Nat /\ DOMAIN pieces = 1..Len(pieces)
  BY DEF IsBody, IsSequence
<1>2. new = [i \in 1..Len(pieces) |-> IF pieces[i].kind # "block" THEN pieces[i]
                                    ELSE RewriteBlock(section, zone[i], pieces[i], when[i])]
  BY <1>1 DEF ApplyEnv
<1>3. \A i \in 1..Len(pieces) : zone[i] = KnownZone(section, pieces, i)
  BY <1>1, ZoneIsKnown
<1> HIDE DEF new, zone
<1>4. DOMAIN new = 1..Len(pieces) /\ new = [i \in 1..Len(pieces) |-> new[i]]
  BY <1>2
<1>5. Len(new) = Len(pieces)
  BY <1>1, <1>4, LengthIs
<1>6. \A i \in 1..Len(pieces) :
        new[i] = IF pieces[i].kind # "block" THEN pieces[i]
                 ELSE RewriteBlock(section, KnownZone(section, pieces, i), pieces[i], when[i])
  BY <1>2, <1>3
<1>7. IsSequence(new)
  BY <1>1, <1>4, <1>5 DEF IsSequence
<1> QED BY <1>1, <1>4, <1>5, <1>6, <1>7 DEF new

\* What a block is after the rewrite.
LEMMA RewrittenIs ==
  ASSUME NEW section, NEW zone, NEW piece, IsPiece(piece), NEW moment
  PROVE  LET new == RewriteBlock(section, zone, piece, moment) IN
         IF "environment_context" \in section.drop
           THEN new = [kind |-> "text", tags |-> << >>]
           ELSE new = [kind |-> piece.kind, tags |-> Retagged(section, zone, piece.tags, moment)]
BY DEF RewriteBlock, IsPiece

LEMMA OnlyWhatIsSet ==
  ASSUME NEW section, NEW pieces, IsBody(pieces), NEW when
  PROVE  ChangesOnlyWhatIsSet(section, pieces, ApplyEnv(section, pieces, when))
<1> DEFINE after == ApplyEnv(section, pieces, when)
<1>1. /\ Len(after) = Len(pieces) /\ DOMAIN pieces = 1..Len(pieces)
      /\ \A i \in 1..Len(pieces) :
           after[i] = IF pieces[i].kind # "block" THEN pieces[i]
                      ELSE RewriteBlock(section, KnownZone(section, pieces, i), pieces[i], when[i])
  BY AppliedIs
<1> HIDE DEF after
<1>2. ASSUME NEW i \in DOMAIN pieces
      PROVE  LET old == pieces[i].tags  new == after[i].tags IN
             /\ pieces[i].kind # "block" => after[i] = pieces[i]
             /\ \A t \in DOMAIN new :
                  \/ t \in DOMAIN old /\ new[t] = old[t]
                  \/ /\ t \in Elements /\ section[t] # Absent
                     /\ t \in DOMAIN old \/ section.fill_missing
             /\ DOMAIN old \ DOMAIN new # {} =>
                  DOMAIN old \ DOMAIN new \subseteq section.drop
                  \/ "environment_context" \in section.drop
  <2> DEFINE zone == KnownZone(section, pieces, i)
             old == pieces[i].tags
             new == Retagged(section, zone, old, when[i])
             kept == Without(old, section.drop)
  <2>0. IsPiece(pieces[i])
    BY DEF IsBody
  <2>1. CASE pieces[i].kind # "block"
    BY <1>1, <2>1
  <2>2. CASE pieces[i].kind = "block" /\ "environment_context" \in section.drop
    <3>1. after[i] = [kind |-> "text", tags |-> << >>]
      BY <1>1, <2>0, <2>2, RewrittenIs
    <3> QED BY <2>2, <3>1
  <2>3. CASE pieces[i].kind = "block" /\ "environment_context" \notin section.drop
    <3>1. after[i].tags = new
      BY <1>1, <2>0, <2>3, RewrittenIs
    <3>2. Made(section, zone, kept, when[i], new)
      BY RetaggedIs
    <3>3. /\ \A t : t \in DOMAIN kept <=> t \in DOMAIN old /\ t \notin section.drop
          /\ \A t \in DOMAIN kept : kept[t] = old[t]
      BY DEF Without
    <3> HIDE DEF new, kept, zone
    <3>4. ASSUME NEW t, Gets(section, zone, kept, when[i], t)
          PROVE  /\ t \in Elements /\ section[t] # Absent
                 /\ t \in DOMAIN old \/ section.fill_missing
      <4>1. t \in Elements /\ (t \in DOMAIN kept \/ section.fill_missing)
        BY <3>4 DEF Gets
      <4>2. section[t] # Absent
        BY <3>4 DEF Gets, ValueOf, Elements, ResolveDate
      <4> QED BY <3>3, <4>1, <4>2
    <3>5. ASSUME NEW t \in DOMAIN new
          PROVE  \/ t \in DOMAIN old /\ new[t] = old[t]
                 \/ /\ t \in Elements /\ section[t] # Absent
                    /\ t \in DOMAIN old \/ section.fill_missing
      BY <3>2, <3>3, <3>4 DEF Made
    <3>6. DOMAIN old \ DOMAIN new \subseteq section.drop
      BY <3>2, <3>3 DEF Made
    <3> QED BY <2>3, <3>1, <3>5, <3>6
  <2> QED BY <2>1, <2>2, <2>3
<1> QED BY <1>1, <1>2 DEF ChangesOnlyWhatIsSet, after

-----------------------------------------------------------------------------
(* The dates of a body.                                                    *)

IsZone(zone) == zone[1] = "offset" => IsOffset(zone[2])

LEMMA ParsedIs ==
  ASSUME NEW raw, IsRaw(raw), ParseZone(raw) # NoZone
  PROVE  IsZone(ParseZone(raw))
<1>1. CASE raw[1] = "utc"
  BY <1>1 DEF ParseZone, OffsetZone, IsZone, IsOffset, Day
<1>2. CASE raw[1] # "utc" /\ raw[1] = "offset" /\ raw[3] \in 0..23 /\ raw[4] \in 0..59
  <2>1. PICK m \in Int : m = raw[3] * 60 + raw[4] /\ 0 <= m /\ m < 1440
    BY <1>2
  <2>2. ParseZone(raw) = <<"offset", raw[2] * m>>
    BY <1>2, <2>1 DEF ParseZone, OffsetZone
  <2>3. raw[2] * m = m \/ raw[2] * m = -m
    <3>1. raw[2] = -1 \/ raw[2] = 1
      BY <1>2 DEF IsRaw
    <3>2. (-1) * m = -m /\ 1 * m = m
      BY <2>1
    <3> QED BY <3>1, <3>2
  <2>4. IsOffset(raw[2] * m)
    BY <2>1, <2>3 DEF IsOffset, Day
  <2> QED BY <2>2, <2>4 DEF IsZone
<1>3. CASE raw[1] # "utc" /\ ~(raw[1] = "offset" /\ raw[3] \in 0..23 /\ raw[4] \in 0..59)
  <2>1. ParseZone(raw) = NamedZone(raw[2])
    BY <1>3 DEF ParseZone
  <2> QED BY <2>1 DEF NamedZone, IsZone
<1> QED BY <1>1, <1>2, <1>3

LEMMA KnownIs ==
  ASSUME NEW section, IsSection(section), NEW pieces, IsBody(pieces), NEW i \in DOMAIN pieces,
         KnownZone(section, pieces, i) # NoZone
  PROVE  IsZone(KnownZone(section, pieces, i))
<1>1. CASE SectionZone(section) # NoZone
  BY <1>1, ParsedIs DEF KnownZone, SectionZone, IsSection
<1>2. CASE SectionZone(section) = NoZone
  <2> DEFINE asks == {j \in 1..i : /\ pieces[j].kind = "block"
                                   /\ "timezone" \in DOMAIN pieces[j].tags
                                   /\ ParseZone(pieces[j].tags["timezone"]) # NoZone}
  <2>1. /\ asks # {}
        /\ KnownZone(section, pieces, i) = ParseZone(pieces[Min(asks)].tags["timezone"])
    BY <1>2 DEF KnownZone
  <2>2. i \in 1..Len(pieces) /\ DOMAIN pieces = 1..Len(pieces) /\ Len(pieces) \in Nat
    BY DEF IsBody, IsSequence
  <2>3. /\ asks \in SUBSET Nat
        /\ \A j \in asks : j \in DOMAIN pieces /\ "timezone" \in DOMAIN pieces[j].tags
    BY <2>2
  <2>4. Min(asks) \in asks
    <3> HIDE DEF asks
    <3>1. PICK m \in asks : \A j \in asks : m <= j
      BY <2>1, <2>3, Least
    <3> QED BY <2>3, <3>1, LeastIs
  <2> HIDE DEF asks
  <2>5. IsRaw(pieces[Min(asks)].tags["timezone"])
    BY <2>3, <2>4 DEF IsBody, IsPiece
  <2> QED BY <2>1, <2>5, ParsedIs
<1> QED BY <1>1, <1>2

\* The offset of a zone is within a day.
LEMMA OffsetIs ==
  ASSUME NEW zone, IsZone(zone), NEW t \in Int
  PROVE  IsOffset(OffsetAt(zone, t))
<1>1. CASE zone[1] = "offset"
  BY <1>1 DEF IsZone, OffsetAt
<1>2. CASE zone[1] # "offset" /\ zone[2] \in DOMAIN Tzdata
  <2> DEFINE b == Block(Tzdata[zone[2]])
             T == {1} \cup {i \in DOMAIN b.trans : \A j \in 1..i : b.trans[j].at <= t}
  <2>1. OffsetAt(zone, t) = IF b.trans = << >> THEN b.types[1]
                            ELSE b.types[b.trans[Max(T)].type]
    BY <1>2 DEF OffsetAt, TzfileOffset, Transition
  <2>2. IsBlock(b)
    BY <1>2, ZonesAssumption
  <2> HIDE DEF b
  <2>3. CASE b.trans # << >>
    <3>1. Len(b.trans) \in Nat /\ DOMAIN b.trans = 1..Len(b.trans)
      BY <2>2 DEF IsBlock, IsSequence
    <3>2. Len(b.trans) # 0
      <4> SUFFICES ASSUME Len(b.trans) = 0 PROVE FALSE
        OBVIOUS
      <4>1. b.trans = [i \in 1..0 |-> b.trans[i]]
        BY <2>2 DEF IsBlock, IsSequence
      <4>2. b.trans = << >>
        BY <4>1
      <4> QED BY <2>3, <4>2
    <3>3. T \in SUBSET (1..Len(b.trans)) /\ T # {}
      BY <3>1, <3>2
    <3> HIDE DEF T
    <3>4. Max(T) \in T
      BY <3>1, <3>3, Greatest
    <3>5. Max(T) \in DOMAIN b.trans
      BY <3>1, <3>3, <3>4
    <3> QED BY <2>1, <2>2, <2>3, <3>5 DEF IsBlock
  <2>4. CASE b.trans = << >>
    BY <2>1, <2>2, <2>4 DEF IsBlock
  <2> QED BY <2>3, <2>4
<1>3. CASE zone[1] # "offset" /\ zone[2] \notin DOMAIN Tzdata
  BY <1>3, ZonesAssumption DEF OffsetAt, FixedOffset, IsOffset, Day
<1> QED BY <1>1, <1>2, <1>3

\* The date in a zone is that of the day, of the day before or of the next.
LEMMA LocalDay ==
  ASSUME NEW zone, IsZone(zone), NEW moment \in Int, NEW today,
         today = CivilFromDays(moment \div Day)
  PROVE  <<"date">> \o DateAt(zone, moment) = LocalDate(zone, moment, today)
<1> DEFINE off == OffsetAt(zone, moment)
<1>1. off \in Int /\ -1440 <= off /\ off <= 1440
  BY OffsetIs DEF IsOffset, Day
<1> HIDE DEF off
<1>2. PICK d, m \in Int : /\ moment \div Day = d /\ moment % Day = m
                         /\ moment = 1440 * d + m /\ 0 <= m /\ m < 1440
  BY DEF Day
<1>3. DateAt(zone, moment) = CivilFromDays((moment + off) \div 1440)
  BY DEF DateAt, Day, off
<1>4. CASE m + off < 0
  <2>1. (moment + off) \div 1440 = d - 1
    BY <1>1, <1>2, <1>4
  <2>2. CivilFromDays(d - 1) = PrevDate(today)
    BY <1>2, PrevDay
  <2> QED BY <1>2, <1>3, <1>4, <2>1, <2>2 DEF LocalDate, off
<1>5. CASE m + off >= 1440
  <2>1. (moment + off) \div 1440 = d + 1
    BY <1>1, <1>2, <1>5
  <2>2. CivilFromDays(d + 1) = NextDate(today)
    BY <1>2, NextDay
  <2>3. ~(m + off < 0)
    BY <1>1, <1>5
  <2> QED BY <1>2, <1>3, <1>5, <2>1, <2>2, <2>3 DEF LocalDate, off, Day
<1>6. CASE ~(m + off < 0) /\ ~(m + off >= 1440)
  <2>1. (moment + off) \div 1440 = d
    BY <1>1, <1>2, <1>6
  <2> QED BY <1>2, <1>3, <1>6, <2>1 DEF LocalDate, off, Day
<1> QED BY <1>4, <1>5, <1>6

LEMMA DateIsThere ==
  ASSUME NEW zone, IsZone(zone), NEW moment \in Int
  PROVE  <<"date">> \o DateAt(zone, moment) # Absent
<1>1. (moment + OffsetAt(zone, moment)) \div Day \in Int
  BY OffsetIs DEF IsOffset, Day
<1>2. PICK p, q, r \in Int : DateAt(zone, moment) = <<p, q, r>>
  BY <1>1, CivilIsDate DEF DateAt
<1> QED BY <1>2 DEF Absent

LEMMA DatesLocal ==
  ASSUME NEW section, IsSection(section), NEW pieces, IsBody(pieces), NEW moments, NEW when,
         \A m \in moments : m.now \in Int /\ m.date = CivilFromDays(m.now \div Day),
         \A i \in DOMAIN pieces : when[i] \in {m.now : m \in moments}
  PROVE  DatesAreLocal(section, pieces, ApplyEnv(section, pieces, when), moments)
<1> DEFINE after == ApplyEnv(section, pieces, when)
<1>1. /\ DOMAIN after = 1..Len(pieces) /\ DOMAIN pieces = 1..Len(pieces)
      /\ \A i \in 1..Len(pieces) :
           after[i] = IF pieces[i].kind # "block" THEN pieces[i]
                      ELSE RewriteBlock(section, KnownZone(section, pieces, i), pieces[i], when[i])
  BY AppliedIs
<1> HIDE DEF after
<1>2. ASSUME section.current_date = <<"auto">>, NEW i \in DOMAIN after,
             after[i].kind = "block", "current_date" \in DOMAIN after[i].tags,
             KnownZone(section, pieces, i) # NoZone
      PROVE  \E m \in moments :
               after[i].tags["current_date"]
                 = LocalDate(KnownZone(section, pieces, i), m.now, m.date)
  <2> DEFINE zone == KnownZone(section, pieces, i)
             new == Retagged(section, zone, pieces[i].tags, when[i])
             kept == Without(pieces[i].tags, section.drop)
             day == <<"date">> \o DateAt(zone, when[i])
  <2>1. IsPiece(pieces[i]) /\ pieces[i].kind = "block"
    BY <1>1, <1>2 DEF IsBody
  <2>0. PICK m \in moments : when[i] = m.now
    BY <1>1, <1>2
  <2>2. "environment_context" \notin section.drop /\ after[i].tags = new
    BY <1>1, <1>2, <2>1, RewrittenIs
  <2>3. Made(section, zone, kept, when[i], new)
    BY RetaggedIs
  <2>4. IsZone(zone)
    BY <1>1, <1>2, KnownIs
  <2>5. ResolveDate(section.current_date, zone, when[i]) = day
    <3>1. <<"auto">> # Absent
      BY DEF Absent
    <3> HIDE DEF zone
    <3> QED BY <1>2, <3>1 DEF ResolveDate, zone
  <2>6. day # Absent /\ day = LocalDate(zone, m.now, m.date)
    BY <2>0, <2>4, DateIsThere, LocalDay
  <2> HIDE DEF new, kept, zone, day
  <2>7. ValueOf(section, zone, kept, when[i], "current_date") = day
    BY <2>5 DEF ValueOf
  <2>8. Gets(section, zone, kept, when[i], "current_date")
    BY <1>2, <2>2, <2>3, <2>6, <2>7 DEF Made, Gets, Elements
  <2>9. new["current_date"] = day
    BY <1>2, <2>2, <2>3, <2>7, <2>8 DEF Made
  <2> QED BY <2>2, <2>6, <2>9 DEF zone
<1> QED BY <1>2 DEF DatesAreLocal, after

-----------------------------------------------------------------------------
(* A body that comes by twice.                                             *)

\* What a block gets again is what it has.
LEMMA MadeAgain ==
  ASSUME NEW section, NEW zone, NEW again, NEW tags, NEW moment,
         "environment_context" \notin section.drop,
         ~(section.fill_missing /\ \E v \in {section.cwd, section.shell} :
                                     v # Absent /\ Escape(v) # v),
         \/ ResolveDate(section.current_date, again, moment)
              = ResolveDate(section.current_date, zone, moment)
         \/ /\ ResolveDate(section.current_date, again, moment) = Absent
            /\ "current_date" \notin section.drop
  PROVE  LET once == Retagged(section, zone, tags, moment)
         IN  Retagged(section, again, once, moment) = once
<1> DEFINE once == Retagged(section, zone, tags, moment)
           twice == Retagged(section, again, once, moment)
           kept == Without(tags, section.drop)
           left == Without(once, section.drop)
           value(e) == ValueOf(section, zone, kept, moment, e)
           gets(e) == Gets(section, zone, kept, moment, e)
           value2(e) == ValueOf(section, again, left, moment, e)
           gets2(e) == Gets(section, again, left, moment, e)
<1>1. Made(section, zone, kept, moment, once)
  BY RetaggedIs
<1>2. Made(section, again, left, moment, twice)
  BY RetaggedIs
<1>3. /\ \A t : t \in DOMAIN left <=> t \in DOMAIN once /\ t \notin section.drop
      /\ \A t \in DOMAIN left : left[t] = once[t]
  BY DEF Without
<1>4. \A t \in DOMAIN kept : t \notin section.drop
  BY DEF Without
<1> HIDE DEF once, twice, kept, left
<1>5. \A t : t \in DOMAIN once <=> t \in DOMAIN kept \/ gets(t)
  BY <1>1 DEF Made
<1>6. \A t : t \in DOMAIN left <=> t \in DOMAIN kept \/ (gets(t) /\ t \notin section.drop)
  BY <1>3, <1>4, <1>5
<1>7. "filesystem" \in DOMAIN left <=> "filesystem" \in DOMAIN kept
  BY <1>6 DEF Gets, Elements
<1>8. ASSUME NEW e \in Elements, value2(e) = value(e) \/ (value2(e) # Absent <=> value(e) # Absent)
      PROVE  gets2(e) <=> gets(e)
  <2>0. value2(e) # Absent <=> value(e) # Absent
    BY <1>8
  <2>1. gets(e) <=> /\ value(e) # Absent /\ (e \in DOMAIN kept \/ section.fill_missing)
                    /\ e = "workspace_roots" => e \in DOMAIN kept \/ "filesystem" \in DOMAIN kept
    BY <1>8 DEF Gets
  <2>2. gets2(e) <=> /\ value2(e) # Absent /\ (e \in DOMAIN left \/ section.fill_missing)
                     /\ e = "workspace_roots" => e \in DOMAIN left \/ "filesystem" \in DOMAIN left
    BY <1>8 DEF Gets
  <2>3. e \in DOMAIN left <=> e \in DOMAIN kept \/ (gets(e) /\ e \notin section.drop)
    BY <1>6
  <2> HIDE DEF gets, gets2, value, value2
  <2> QED BY <1>7, <2>0, <2>1, <2>2, <2>3
<1>9. ASSUME NEW t, gets2(t) PROVE t \in DOMAIN once /\ once[t] = value2(t)
  <2>1. t \in Elements /\ value2(t) # Absent
    BY <1>9 DEF Gets
  <2>2. CASE t = "timezone" \/ t = "workspace_roots"
    <3>1. value2(t) = value(t)
      BY <2>2 DEF ValueOf
    <3>2. gets(t)
      BY <1>8, <1>9, <2>1, <3>1
    <3> HIDE DEF value, value2, gets, gets2
    <3>3. once[t] = value(t)
      BY <1>1, <1>5, <3>2 DEF Made, value, gets
    <3> QED BY <1>5, <3>1, <3>2, <3>3
  <2>3. CASE t = "current_date"
    <3>1. /\ value2(t) = ResolveDate(section.current_date, again, moment)
          /\ value(t) = ResolveDate(section.current_date, zone, moment)
      BY <2>3 DEF ValueOf
    <3>2. value2(t) = value(t)
      BY <2>1, <3>1
    <3>3. gets(t)
      BY <1>8, <1>9, <2>1, <3>2
    <3> HIDE DEF value, value2, gets, gets2
    <3>4. once[t] = value(t)
      BY <1>1, <1>5, <3>3 DEF Made, value, gets
    <3> QED BY <1>5, <3>2, <3>3, <3>4
  <2>4. CASE t \in {"cwd", "shell"}
    <3>1. /\ value2(t) = IF section[t] # Absent /\ t \notin DOMAIN left THEN Escape(section[t])
                         ELSE section[t]
          /\ value(t) = IF section[t] # Absent /\ t \notin DOMAIN kept THEN Escape(section[t])
                        ELSE section[t]
      BY <2>4 DEF ValueOf
    <3>2. section[t] # Absent
      BY <2>1, <3>1
    <3>3. value(t) # Absent
      BY <3>1, <3>2, EscapeGives
    <3>4. gets(t)
      BY <1>8, <1>9, <2>1, <3>3
    <3>5. t \in DOMAIN kept \/ section.fill_missing
      BY <3>4 DEF Gets
    <3>6. section.fill_missing => Escape(section[t]) = section[t]
      BY <2>4, <3>2
    <3>7. value2(t) = value(t)
      BY <1>6, <3>1, <3>5, <3>6
    <3> HIDE DEF value, value2, gets, gets2
    <3>8. once[t] = value(t)
      BY <1>1, <1>5, <3>4 DEF Made, value, gets
    <3> QED BY <1>5, <3>4, <3>7, <3>8
  <2> QED BY <2>1, <2>2, <2>3, <2>4 DEF Elements
<1>10. ASSUME NEW t \in DOMAIN once, t \notin DOMAIN left PROVE gets2(t)
  <2>1. gets(t) /\ t \in section.drop
    BY <1>5, <1>6, <1>10
  <2>2. t \in Elements /\ value(t) # Absent
    BY <2>1 DEF Gets
  <2>3. value2(t) # Absent
    <3>1. CASE t = "timezone" \/ t = "workspace_roots"
      BY <2>2, <3>1 DEF ValueOf
    <3>2. CASE t = "current_date"
      <4>1. /\ value2(t) = ResolveDate(section.current_date, again, moment)
            /\ value(t) = ResolveDate(section.current_date, zone, moment)
        BY <3>2 DEF ValueOf
      <4> QED BY <2>1, <2>2, <3>2, <4>1
    <3>3. CASE t \in {"cwd", "shell"}
      <4>1. section[t] # Absent
        BY <2>2, <3>3 DEF ValueOf
      <4> QED BY <3>3, <4>1, EscapeGives DEF ValueOf
    <3> QED BY <2>2, <3>1, <3>2, <3>3 DEF Elements
  <2> QED BY <1>8, <2>1, <2>2, <2>3
<1> HIDE DEF value, value2, gets, gets2
<1>11. DOMAIN twice = DOMAIN once
  <2>1. \A t : t \in DOMAIN twice <=> t \in DOMAIN left \/ gets2(t)
    BY <1>2 DEF Made, gets2
  <2> QED BY <1>3, <1>9, <1>10, <2>1
<1>12. \A t \in DOMAIN once : twice[t] = once[t]
  <2>1. \A t \in DOMAIN once : twice[t] = IF gets2(t) THEN value2(t) ELSE left[t]
    BY <1>2, <1>11 DEF Made, gets2, value2
  <2> QED BY <1>3, <1>9, <1>10, <2>1
<1>13. IsTags(once) /\ IsTags(twice)
  BY <1>1, <1>2 DEF Made
<1>14. twice = once
  BY <1>11, <1>12, <1>13 DEF IsTags
<1> QED BY <1>14 DEF once, twice

LEMMA BodyAgain ==
  ASSUME NEW section, IsSection(section), NEW pieces, IsBody(pieces), NEW when
  PROVE  IsBody(ApplyEnv(section, pieces, when))
<1> DEFINE after == ApplyEnv(section, pieces, when)
<1>1. /\ IsSequence(after)
      /\ DOMAIN after = 1..Len(pieces) /\ DOMAIN pieces = 1..Len(pieces)
      /\ \A i \in 1..Len(pieces) :
           after[i] = IF pieces[i].kind # "block" THEN pieces[i]
                      ELSE RewriteBlock(section, KnownZone(section, pieces, i), pieces[i], when[i])
  BY AppliedIs
<1> HIDE DEF after
<1>2. ASSUME NEW i \in DOMAIN after PROVE IsPiece(after[i])
  <2>1. IsPiece(pieces[i])
    BY <1>1 DEF IsBody
  <2> DEFINE zone == KnownZone(section, pieces, i)
             new == Retagged(section, zone, pieces[i].tags, when[i])
             kept == Without(pieces[i].tags, section.drop)
  <2>2. CASE pieces[i].kind # "block"
    BY <1>1, <2>1, <2>2
  <2>3. CASE pieces[i].kind = "block" /\ "environment_context" \in section.drop
    <3>1. after[i] = [kind |-> "text", tags |-> << >>]
      BY <1>1, <2>1, <2>3, RewrittenIs
    <3> QED BY <3>1 DEF IsPiece
  <2>4. CASE pieces[i].kind = "block" /\ "environment_context" \notin section.drop
    <3>1. after[i] = [kind |-> pieces[i].kind, tags |-> new]
      BY <1>1, <2>1, <2>4, RewrittenIs
    <3>2. Made(section, zone, kept, when[i], new)
      BY RetaggedIs
    <3>3. \A t \in DOMAIN kept : t \in DOMAIN pieces[i].tags /\ kept[t] = pieces[i].tags[t]
      BY DEF Without
    <3> HIDE DEF new, kept, zone
    <3>4. ASSUME "timezone" \in DOMAIN new PROVE IsRaw(new["timezone"])
      <4>1. CASE Gets(section, zone, kept, when[i], "timezone")
        <5>1. new["timezone"] = section.timezone /\ section.timezone # Absent
          BY <3>2, <3>4, <4>1 DEF Made, Gets, ValueOf
        <5> QED BY <5>1 DEF IsSection
      <4>2. CASE ~Gets(section, zone, kept, when[i], "timezone")
        <5>1. "timezone" \in DOMAIN kept /\ new["timezone"] = kept["timezone"]
          BY <3>2, <3>4, <4>2 DEF Made
        <5> QED BY <2>1, <3>3, <5>1 DEF IsPiece
      <4> QED BY <4>1, <4>2
    <3> QED BY <3>1, <3>4 DEF IsPiece
  <2> QED BY <2>2, <2>3, <2>4
<1> QED BY <1>1, <1>2 DEF IsBody, after

\* The zone of a piece when the body comes by again.
LEMMA ZoneAgain ==
  ASSUME NEW section, NEW pieces, IsBody(pieces), NEW when, NEW i \in DOMAIN pieces,
         "environment_context" \notin section.drop
  PROVE  LET again == KnownZone(section, ApplyEnv(section, pieces, when), i) IN
         IF SectionZone(section) = NoZone
            /\ (section.timezone # Absent \/ "timezone" \in section.drop)
           THEN again = NoZone
           ELSE again = KnownZone(section, pieces, i)
<1> DEFINE after == ApplyEnv(section, pieces, when)
           ask(b, j) == /\ b[j].kind = "block" /\ "timezone" \in DOMAIN b[j].tags
                        /\ ParseZone(b[j].tags["timezone"]) # NoZone
           asks(b) == {j \in 1..i : ask(b, j)}
           known(b) == IF asks(b) = {} THEN NoZone
                       ELSE ParseZone(b[Min(asks(b))].tags["timezone"])
<1>1. /\ i \in 1..Len(pieces) /\ Len(pieces) \in Nat
      /\ \A j \in 1..Len(pieces) :
           after[j] = IF pieces[j].kind # "block" THEN pieces[j]
                      ELSE RewriteBlock(section, KnownZone(section, pieces, j), pieces[j], when[j])
  BY AppliedIs DEF IsBody, IsSequence
<1> HIDE DEF after
<1>2. CASE SectionZone(section) # NoZone
  BY <1>2 DEF KnownZone
<1>3. CASE SectionZone(section) = NoZone
  <2>1. KnownZone(section, pieces, i) = known(pieces) /\ KnownZone(section, after, i) = known(after)
    BY <1>3 DEF KnownZone
  <2>2. ASSUME NEW j \in 1..i
        PROVE  /\ after[j].kind = pieces[j].kind
               /\ pieces[j].kind = "block" =>
                    Made(section, KnownZone(section, pieces, j),
                         Without(pieces[j].tags, section.drop), when[j], after[j].tags)
    <3>1. j \in 1..Len(pieces) /\ DOMAIN pieces = 1..Len(pieces)
      BY <1>1 DEF IsBody, IsSequence
    <3>2. IsPiece(pieces[j])
      BY <3>1 DEF IsBody
    <3>3. CASE pieces[j].kind = "block"
      <4> DEFINE zone == KnownZone(section, pieces, j)
      <4>1. after[j] = [kind |-> pieces[j].kind,
                        tags |-> Retagged(section, zone, pieces[j].tags, when[j])]
        BY <1>1, <3>1, <3>2, <3>3, RewrittenIs
      <4> HIDE DEF zone
      <4>2. Made(section, zone, Without(pieces[j].tags, section.drop), when[j], after[j].tags)
        BY <4>1, RetaggedIs
      <4> QED BY <4>1, <4>2 DEF zone
    <3>4. CASE pieces[j].kind # "block"
      BY <1>1, <3>1, <3>4
    <3> QED BY <3>3, <3>4
  <2>3. CASE section.timezone # Absent \/ "timezone" \in section.drop
    <3>1. ASSUME NEW j \in 1..i, ask(after, j) PROVE FALSE
      <4> DEFINE zone == KnownZone(section, pieces, j)
                 kept == Without(pieces[j].tags, section.drop)
      <4>1. "timezone" \in DOMAIN kept => "timezone" \notin section.drop
        BY DEF Without
      <4>2. Made(section, zone, kept, when[j], after[j].tags) /\ "timezone" \in DOMAIN after[j].tags
        BY <2>2, <3>1
      <4> HIDE DEF zone, kept
      <4>3. Gets(section, zone, kept, when[j], "timezone")
        BY <2>3, <4>1, <4>2 DEF Made, Gets, ValueOf, Elements
      <4>4. section.timezone # Absent /\ after[j].tags["timezone"] = section.timezone
        BY <4>2, <4>3 DEF Made, Gets, ValueOf
      <4> QED BY <1>3, <3>1, <4>4 DEF SectionZone
    <3>2. asks(after) = {}
      <4> HIDE DEF ask
      <4> QED BY <3>1
    <3> QED BY <1>3, <2>1, <2>3, <3>2 DEF after
  <2>4. CASE ~(section.timezone # Absent \/ "timezone" \in section.drop)
    <3>1. ASSUME NEW j \in 1..i, pieces[j].kind = "block"
          PROVE  /\ "timezone" \in DOMAIN after[j].tags <=> "timezone" \in DOMAIN pieces[j].tags
                 /\ "timezone" \in DOMAIN pieces[j].tags =>
                      after[j].tags["timezone"] = pieces[j].tags["timezone"]
      <4> DEFINE zone == KnownZone(section, pieces, j)
                 kept == Without(pieces[j].tags, section.drop)
      <4>1. /\ "timezone" \in DOMAIN kept <=> "timezone" \in DOMAIN pieces[j].tags
            /\ "timezone" \in DOMAIN kept => kept["timezone"] = pieces[j].tags["timezone"]
        BY <2>4 DEF Without
      <4>2. Made(section, zone, kept, when[j], after[j].tags)
        BY <2>2, <3>1
      <4> HIDE DEF zone, kept
      <4>3. ~Gets(section, zone, kept, when[j], "timezone")
        BY <2>4 DEF Gets, ValueOf
      <4> QED BY <4>1, <4>2, <4>3 DEF Made
    <3>2. \A j \in 1..i : ask(after, j) <=> ask(pieces, j)
      BY <2>2, <3>1
    <3>3. asks(after) = asks(pieces)
      <4> HIDE DEF ask
      <4> QED BY <3>2
    <3>4. CASE asks(pieces) # {}
      <4>1. asks(pieces) \in SUBSET Nat /\ \A j \in asks(pieces) : j \in 1..i /\ ask(pieces, j)
        <5> HIDE DEF ask
        <5> QED OBVIOUS
      <4>2. Min(asks(pieces)) \in asks(pieces)
        <5> HIDE DEF asks, ask
        <5>1. PICK m \in asks(pieces) : \A j \in asks(pieces) : m <= j
          BY <3>4, <4>1, Least
        <5> QED BY <4>1, <5>1, LeastIs
      <4> DEFINE m == Min(asks(pieces))
      <4> HIDE DEF asks, m
      <4>3. m \in 1..i /\ pieces[m].kind = "block" /\ "timezone" \in DOMAIN pieces[m].tags
        BY <4>1, <4>2 DEF m
      <4>4. after[m].tags["timezone"] = pieces[m].tags["timezone"]
        BY <3>1, <4>3
      <4>5. known(after) = known(pieces)
        BY <3>3, <4>4 DEF m
      <4> QED BY <1>3, <2>1, <2>4, <4>5 DEF after
    <3>5. CASE asks(pieces) = {}
      <4>1. known(after) = known(pieces)
        <5> HIDE DEF asks
        <5> QED BY <3>3, <3>5
      <4> QED BY <1>3, <2>1, <2>4, <4>1 DEF after
    <3> QED BY <3>4, <3>5
  <2> QED BY <2>3, <2>4
<1> QED BY <1>2, <1>3

LEMMA ItSettles ==
  ASSUME NEW section, IsSection(section), NEW pieces, IsBody(pieces), NEW when
  PROVE  Settles(section, pieces, when)
<1> SUFFICES ASSUME ~(section.fill_missing /\ \E v \in {section.cwd, section.shell} :
                                               v # Absent /\ Escape(v) # v),
                    ~LosesZone(section)
             PROVE  LET once == ApplyEnv(section, pieces, when)
                    IN  ApplyEnv(section, once, when) = once
  BY DEF Settles
<1> DEFINE once == ApplyEnv(section, pieces, when)
           twice == ApplyEnv(section, once, when)
<1>1. /\ IsSequence(once) /\ Len(once) = Len(pieces)
      /\ DOMAIN once = 1..Len(pieces) /\ DOMAIN pieces = 1..Len(pieces)
      /\ \A i \in 1..Len(pieces) :
           once[i] = IF pieces[i].kind # "block" THEN pieces[i]
                     ELSE RewriteBlock(section, KnownZone(section, pieces, i), pieces[i], when[i])
  BY AppliedIs
<1>2. IsBody(once)
  BY BodyAgain
<1>3. \A i \in DOMAIN pieces :
        "environment_context" \notin section.drop =>
          IF SectionZone(section) = NoZone
             /\ (section.timezone # Absent \/ "timezone" \in section.drop)
            THEN KnownZone(section, once, i) = NoZone
            ELSE KnownZone(section, once, i) = KnownZone(section, pieces, i)
  BY ZoneAgain
<1> HIDE DEF once
<1>4. /\ IsSequence(twice) /\ Len(twice) = Len(pieces)
      /\ \A i \in 1..Len(pieces) :
           twice[i] = IF once[i].kind # "block" THEN once[i]
                      ELSE RewriteBlock(section, KnownZone(section, once, i), once[i], when[i])
  BY <1>1, <1>2, AppliedIs
<1> HIDE DEF twice
<1>5. ASSUME NEW i \in 1..Len(pieces) PROVE twice[i] = once[i]
  <2>0. IsPiece(pieces[i]) /\ IsPiece(once[i])
    BY <1>1, <1>2 DEF IsBody
  <2>1. CASE pieces[i].kind # "block"
    BY <1>1, <1>4, <2>1
  <2>2. CASE pieces[i].kind = "block" /\ "environment_context" \in section.drop
    <3>1. once[i] = [kind |-> "text", tags |-> << >>]
      BY <1>1, <2>0, <2>2, RewrittenIs
    <3>2. once[i].kind # "block"
      BY <3>1
    <3> QED BY <1>4, <3>2
  <2>3. CASE pieces[i].kind = "block" /\ "environment_context" \notin section.drop
    <3> DEFINE zone == KnownZone(section, pieces, i)
               again == KnownZone(section, once, i)
               new == Retagged(section, zone, pieces[i].tags, when[i])
               newer == Retagged(section, again, new, when[i])
    <3>1. once[i] = [kind |-> "block", tags |-> new]
      BY <1>1, <2>0, <2>3, RewrittenIs
    <3>2. once[i].kind = "block" /\ once[i].tags = new
      BY <3>1
    <3>3. twice[i] = [kind |-> "block", tags |-> newer]
      BY <1>4, <2>0, <2>3, <3>2, RewrittenIs
    <3>4. \/ again = zone
          \/ /\ again = NoZone /\ SectionZone(section) = NoZone
             /\ section.timezone # Absent \/ "timezone" \in section.drop
      BY <1>1, <1>3, <2>3
    <3> HIDE DEF zone, again
    <3>5. \/ ResolveDate(section.current_date, again, when[i])
               = ResolveDate(section.current_date, zone, when[i])
          \/ /\ ResolveDate(section.current_date, again, when[i]) = Absent
             /\ "current_date" \notin section.drop
      <4>1. CASE again = zone
        BY <4>1
      <4>2. CASE again # zone
        <5>1. again = NoZone
          BY <3>4, <4>2
        <5>2. \/ section.current_date = Absent
              \/ section.current_date[1] # "shift" /\ "current_date" \notin section.drop
          BY <3>4, <4>2 DEF LosesZone
        <5> QED BY <5>1, <5>2 DEF ResolveDate
      <4> QED BY <4>1, <4>2
    <3>6. newer = new
      BY <2>3, <3>5, MadeAgain
    <3> QED BY <3>1, <3>3, <3>6
  <2> QED BY <2>1, <2>2, <2>3
<1>6. twice = once
  <2>1. twice = [i \in 1..Len(pieces) |-> twice[i]] /\ once = [i \in 1..Len(pieces) |-> once[i]]
    BY <1>1, <1>4 DEF IsSequence
  <2> QED BY <1>5, <2>1
<1> QED BY <1>6 DEF once, twice

-----------------------------------------------------------------------------
(* Headers: every value is a sequence.                                     *)

LEMMA OverHeaders ==
  ASSUME NEW upper, NEW lower, AreHeaders(upper), AreHeaders(lower)
  PROVE  AreHeaders(Over(upper, lower))
BY DEF AreHeaders, Over

LEMMA WithHeaders ==
  ASSUME NEW h, NEW name, NEW value, IsSequence(value), AreHeaders(h)
  PROVE  AreHeaders(With(h, name, value))
BY DEF AreHeaders, With

\* What comes in of the lines of a request or of a response.
LEMMA InsertedIs ==
  ASSUME NEW lines, AreLines(lines), NEW dropped
  PROVE  /\ AreHeaders(Inserted(lines, dropped))
         /\ DOMAIN Inserted(lines, dropped)
              = {lines[i].name : i \in DOMAIN lines} \ (HopByHop \cup dropped)
<1> DEFINE names == {lines[i].name : i \in DOMAIN lines} \ (HopByHop \cup dropped)
           last(n) == Max({i \in DOMAIN lines : lines[i].name = n})
<1>1. Inserted(lines, dropped) = [n \in names |-> Utf8(lines[last(n)].value)]
  BY DEF Inserted
<1>2. ASSUME NEW n \in names
      PROVE  IsSequence(Utf8(lines[last(n)].value))
  <2> DEFINE T == {i \in DOMAIN lines : lines[i].name = n}
  <2>1. DOMAIN lines = 1..Len(lines) /\ Len(lines) \in Nat
    BY DEF AreLines, IsSequence
  <2>2. T \in SUBSET (1..Len(lines)) /\ T # {}
    BY <2>1
  <2>3. Max(T) \in T
    BY <2>1, <2>2, Greatest
  <2>4. IsSequence(lines[last(n)].value)
    BY <2>3 DEF AreLines
  <2>5. IsSequence(<<"<non-utf8>">>)
    BY DEF IsSequence
  <2> QED BY <2>4, <2>5 DEF Utf8
<1> HIDE DEF names, last
<1>3. DOMAIN Inserted(lines, dropped) = names
  BY <1>1
<1>4. AreHeaders(Inserted(lines, dropped))
  BY <1>1, <1>2 DEF AreHeaders
<1> QED BY <1>3, <1>4 DEF names

-----------------------------------------------------------------------------
(* What is sent upstream.                                                  *)

\* The concatenation, as an operator that the provers do not take apart.
Joined(s, t) == s \o t

LEMMA JoinedIs ==
  ASSUME NEW s, NEW t, IsSequence(s), IsSequence(t)
  PROVE  /\ IsSequence(Joined(s, t))
         /\ Len(Joined(s, t)) = Len(s) + Len(t)
         /\ \A i \in 1..Len(s) : Joined(s, t)[i] = s[i]
         /\ \A i \in 1..Len(s) + Len(t) : i > Len(s) => Joined(s, t)[i] = t[i - Len(s)]
<1> DEFINE S == {s[i] : i \in 1..Len(s)} \cup {t[i] : i \in 1..Len(t)}
           st == s \o t
<1>1. s \in Seq(S) /\ t \in Seq(S)
  BY DEF IsSequence
<1> HIDE DEF S
<1>2. /\ st \in Seq(S)
      /\ Len(st) = Len(s) + Len(t)
      /\ \A i \in 1 .. Len(s) + Len(t) :
           st[i] = IF i <= Len(s) THEN s[i] ELSE t[i - Len(s)]
  BY <1>1, ConcatProperties
<1> HIDE DEF st
<1>3. IsSequence(st)
  BY <1>2 DEF IsSequence
<1>4. Len(s) \in Nat /\ Len(t) \in Nat
  BY DEF IsSequence
<1>5. ASSUME NEW i \in 1..Len(s) PROVE st[i] = s[i]
  <2>1. i \in 1 .. Len(s) + Len(t) /\ i <= Len(s)
    BY <1>4
  <2> QED BY <1>2, <2>1
<1>6. \A i \in 1..Len(s) + Len(t) : i > Len(s) => st[i] = t[i - Len(s)]
  BY <1>2, <1>4
<1> QED BY <1>2, <1>3, <1>5, <1>6 DEF st, Joined

\* A configured header has the value of the configuration or of its environment.
LEMMA ResolvedHeaders ==
  ASSUME NEW c, NEW pairs, AreHeaders(c.env),
         \A n \in DOMAIN pairs : pairs[n][1] = "env:" \/ IsSequence(pairs[n])
  PROVE  AreHeaders(Resolved(c, pairs))
BY DEF Resolved, AreHeaders

LEMMA RequestSetsHeaders ==
  ASSUME NEW c \in Configs
  PROVE  AreHeaders(RequestSets(c))
<1>1. AreHeaders(c.env) /\ AreHeaders(c.flags) /\ AreHeaders(c.set)
  BY HeadersAssumption
<1>2. AreHeaders(Over(c.flags, c.set))
  BY <1>1, OverHeaders
<1>3. AreHeaders(Resolved(c, Over(c.flags, c.set)))
  BY <1>1, <1>2, ResolvedHeaders DEF AreHeaders
<1> DEFINE vars1 == [n \in DOMAIN c.fromEnv |-> <<"env:", c.fromEnv[n]>>]
<1>4. \A n \in DOMAIN vars1 : vars1[n][1] = "env:"
  OBVIOUS
<1> HIDE DEF vars1
<1>5. AreHeaders(Resolved(c, vars1))
  BY <1>1, <1>4, ResolvedHeaders
<1> QED BY <1>3, <1>5, OverHeaders DEF RequestSets, vars1

\* What is written of a User-Agent that is taken apart.
NewFront(p, ua) ==
  <<Field(p.originator, ua[1]), Field(p.codex_version, ua[2]), Field(p.os, ua[3]),
    Field(p.arch, ua[4]), Field(p.terminal, ua[5])>>
NewSuffix(p, ua) ==
  IF ua[5] = "" /\ ua[6] # ""
    THEN IF p.terminal = "inherit" THEN <<ua[6], ua[7]>> ELSE <<"", "">>
  ELSE IF ua[6] = "" THEN <<"", "">>
  ELSE <<Field(p.originator, ua[1]), Field(p.codex_version, ua[2])>>

LEMMA Composed ==
  ASSUME NEW p, NEW ua, p.user_agent = "inherit", Len(ua) = 7
  PROVE  LET new == RewriteUserAgent(p, ua) IN
         /\ IsSequence(new)
         /\ new[1] = NewFront(p, ua)[1] /\ new[2] = NewFront(p, ua)[2]
         /\ new[6] = NewSuffix(p, ua)[1] /\ new[7] = NewSuffix(p, ua)[2]
<1>1. RewriteUserAgent(p, ua) = Joined(NewFront(p, ua), NewSuffix(p, ua))
  BY DEF RewriteUserAgent, NewFront, NewSuffix, Suffix, Joined
<1> DEFINE f == NewFront(p, ua)
           r == NewSuffix(p, ua)
<1>2. IsSequence(f) /\ Len(f) = 5
  BY DEF NewFront, IsSequence
<1>3. \A a, b : IsSequence(<<a, b>>) /\ Len(<<a, b>>) = 2
  BY DEF IsSequence
<1>4. \E a, b : r = <<a, b>>
  BY DEF NewSuffix
<1>5. IsSequence(r) /\ Len(r) = 2
  BY <1>3, <1>4
<1> HIDE DEF f, r
<1> DEFINE j == Joined(f, r)
<1>6. IsSequence(j)
  BY <1>2, <1>5, JoinedIs
<1>10. \A i \in 1..Len(f) : j[i] = f[i]
  BY <1>2, <1>5, JoinedIs
<1>11. \A i \in 1..Len(f) + Len(r) : i > Len(f) => j[i] = r[i - Len(f)]
  BY <1>2, <1>5, JoinedIs
<1> HIDE DEF j
<1>7. j[1] = f[1] /\ j[2] = f[2]
  BY <1>2, <1>10
<1>8. j[6] = r[1] /\ j[7] = r[2]
  BY <1>2, <1>5, <1>11
<1>9. IsSequence(j) /\ j[1] = f[1] /\ j[2] = f[2] /\ j[6] = r[1] /\ j[7] = r[2]
  BY <1>6, <1>7, <1>8
<1> QED BY <1>1, <1>9 DEF f, r, j

LEMMA RewriteIsSequence ==
  ASSUME NEW p, NEW ua, IsSequence(ua)
  PROVE  IsSequence(RewriteUserAgent(p, ua))
<1>1. CASE p.user_agent # "inherit"
  <2>1. RewriteUserAgent(p, ua) = <<p.user_agent>>
    BY <1>1 DEF RewriteUserAgent
  <2>2. IsSequence(<<p.user_agent>>)
    BY DEF IsSequence
  <2> QED BY <2>1, <2>2
<1>2. CASE p.user_agent = "inherit" /\ Len(ua) # 7
  BY <1>2 DEF RewriteUserAgent
<1>3. CASE p.user_agent = "inherit" /\ Len(ua) = 7
  BY <1>3, Composed
<1> QED BY <1>1, <1>2, <1>3

\* A persona changes two values and makes nothing up.
LEMMA PersonifiedIs ==
  ASSUME NEW c, NEW headers
  PROVE  /\ DOMAIN Personified(c, headers) = DOMAIN headers
         /\ \A n \in DOMAIN headers \ {"user-agent", "originator"} :
              Personified(c, headers)[n] = headers[n]
         /\ c.persona # Absent =>
              LET p == c.persona[1] IN
              /\ "user-agent" \in DOMAIN headers =>
                   Personified(c, headers)["user-agent"]
                     = RewriteUserAgent(p, headers["user-agent"])
              /\ "originator" \in DOMAIN headers =>
                   Personified(c, headers)["originator"]
                     = IF p.originator = "inherit" THEN headers["originator"]
                       ELSE <<p.originator>>
BY DEF Personified, Originated

LEMMA PersonifiedHeaders ==
  ASSUME NEW c, NEW headers, AreHeaders(headers)
  PROVE  AreHeaders(Personified(c, headers))
<1> DEFINE new == Personified(c, headers)
<1>1. CASE c.persona = Absent
  BY <1>1 DEF Personified
<1>2. CASE c.persona # Absent
  <2> DEFINE p == c.persona[1]
  <2>1. /\ DOMAIN new = DOMAIN headers
        /\ \A n \in DOMAIN headers \ {"user-agent", "originator"} : new[n] = headers[n]
        /\ "user-agent" \in DOMAIN headers =>
             new["user-agent"] = RewriteUserAgent(p, headers["user-agent"])
        /\ "originator" \in DOMAIN headers =>
             new["originator"] = headers["originator"] \/ new["originator"] = <<p.originator>>
    BY <1>2 DEF Personified, Originated
  <2>2. IsSequence(<<p.originator>>)
    BY DEF IsSequence
  <2>3. "user-agent" \in DOMAIN headers => IsSequence(RewriteUserAgent(p, headers["user-agent"]))
    BY RewriteIsSequence DEF AreHeaders
  <2> HIDE DEF new, p
  <2>4. AreHeaders(new)
    BY <2>1, <2>2, <2>3 DEF AreHeaders
  <2> QED BY <2>4 DEF new
<1> QED BY <1>1, <1>2

-----------------------------------------------------------------------------
(* The invariant of the proxy.                                             *)

\* What goes out before a header file is looked at.
Given == Over(RequestSets(cfg), Personified(cfg, Inserted(req.lines, cfg.drop)))

\* A header that no file has set.
Unset(n) ==
  IF n \in DOMAIN Given THEN n \in DOMAIN out /\ out[n] = Given[n] ELSE n \notin DOMAIN out

HasValue(content) == content # Gone /\ Len(content) = 1

Phases == {"idle", "files", "sent", "answered", "probing"}

StateOK ==
  /\ cfg \in Configs
  /\ phase \in Phases
  /\ phase # "idle" => req \in Clients
  /\ DOMAIN file = cfg.files /\ DOMAIN held = cfg.files
  /\ \A n \in cfg.files : file[n] = Gone \/ IsContent(file[n])
  /\ AreHeaders(out)

\* What a header file holds it has held.
HeldInv == phase = "files" => \A n \in cfg.files : file[n] \in held[n]

\* Only the header files go over what was given.
OutInv ==
  phase # "idle" =>
    /\ DOMAIN Given \subseteq DOMAIN out
    /\ DOMAIN out \subseteq DOMAIN Given \cup cfg.files
    /\ \A n \in DOMAIN Given \ cfg.files : out[n] = Given[n]
    /\ todo \subseteq cfg.files
    /\ \A n \in todo : Unset(n)
    /\ uri.query = Versioned(cfg, req.query)
    /\ phase # "files" => todo = {}

\* A file that has been read gave a value that it held, or held none.
ReadInv ==
  phase \in {"files", "sent"} => \A n \in cfg.files \ todo :
    \/ /\ Unset(n)
       /\ \E c \in held[n] : ~HasValue(c)
    \/ /\ n \in DOMAIN out
       /\ \E c \in held[n] : HasValue(c) /\ out[n] = c[1]

DumpInv ==
  phase \in {"sent", "answered"} => dump \in {DumpOf(cfg, noted, req.path, out), {}}

BackInv ==
  phase = "answered" => \A n \in DOMAIN back :
    n \in HopByHop \cup cfg.backDrop => n \in DOMAIN cfg.backSets \cup cfg.backFiles

ProxyInv ==
  /\ StateOK
  /\ HeldInv
  /\ OutInv
  /\ ReadInv
  /\ DumpInv
  /\ BackInv

LEMMA ProxyInitInv == ProxyInit => ProxyInv
<1> SUFFICES ASSUME ProxyInit PROVE ProxyInv
  OBVIOUS
<1>1. IsContent(AtStart)
  BY HeadersAssumption
<1>2. phase = "idle" /\ AreHeaders(out)
  BY DEF ProxyInit, NoHeaders, AreHeaders
<1>3. StateOK
  BY <1>1, <1>2 DEF ProxyInit, StateOK, Phases
<1> QED BY <1>2, <1>3 DEF ProxyInv, HeldInv, OutInv, ReadInv, DumpInv, BackInv

LEMMA TickKeeps == ProxyInv /\ Tick => ProxyInv'
<1> SUFFICES ASSUME ProxyInv, Tick PROVE ProxyInv'
  OBVIOUS
<1>1. /\ phase \in {"idle", "files", "probing"} /\ phase' = phase /\ cfg' = cfg /\ file' = file
      /\ req' = req /\ uri' = uri /\ out' = out /\ todo' = todo /\ noted' = noted
      /\ dump' = dump /\ held' = held /\ back' = back
  BY DEF Tick, outgoing
<1>2. StateOK'
  BY <1>1 DEF ProxyInv, StateOK
<1>3. OutInv'
  BY <1>1 DEF ProxyInv, OutInv, Unset, Given
<1>4. \A m : Unset(m)' <=> Unset(m)
  BY <1>1 DEF Unset, Given
<1>5. ReadInv'
  BY <1>1, <1>4 DEF ProxyInv, ReadInv, HasValue
<1> QED BY <1>1, <1>2, <1>3, <1>5 DEF ProxyInv, HeldInv, DumpInv, BackInv

LEMMA RotateKeeps ==
  ASSUME ProxyInv, NEW n \in DOMAIN file, NEW content \in Contents \cup {Gone},
         Rotate(n, content)
  PROVE  ProxyInv'
<1>1. /\ phase \in {"idle", "files", "sent"} /\ phase' = phase /\ cfg' = cfg
      /\ req' = req /\ uri' = uri /\ out' = out /\ todo' = todo /\ noted' = noted
      /\ dump' = dump /\ back' = back
      /\ file' = [file EXCEPT ![n] = content]
      /\ held' = [held EXCEPT ![n] = IF phase = "files" THEN @ \cup {content} ELSE @]
  BY DEF Rotate, outgoing
<1>2. content = Gone \/ IsContent(content)
  BY HeadersAssumption
<1>3. StateOK
  BY DEF ProxyInv
<1>4. StateOK'
  BY <1>1, <1>2, <1>3 DEF StateOK
<1>5. HeldInv'
  BY <1>1, <1>3 DEF ProxyInv, StateOK, HeldInv
<1>6. OutInv'
  BY <1>1 DEF ProxyInv, OutInv, Unset, Given
<1>7. \A m \in cfg.files : held[m] \subseteq held'[m]
  BY <1>1, <1>3 DEF StateOK
<1>8. \A m : Unset(m)' <=> Unset(m)
  BY <1>1 DEF Unset, Given
<1>9. ReadInv'
  BY <1>1, <1>7, <1>8 DEF ProxyInv, ReadInv
<1> QED BY <1>1, <1>4, <1>5, <1>6, <1>9 DEF ProxyInv, DumpInv, BackInv

LEMMA ArriveKeeps ==
  ASSUME ProxyInv, NEW r \in Clients, Arrive(r)
  PROVE  ProxyInv'
<1>1. /\ phase' = "files" /\ cfg' = cfg /\ file' = file /\ req' = r
      /\ uri'.query = Versioned(cfg, r.query)
      /\ out' = Over(RequestSets(cfg), Personified(cfg, Inserted(r.lines, cfg.drop)))
      /\ todo' = cfg.files
      /\ held' = [n \in cfg.files |-> {file[n]}]
  BY DEF Arrive
<1>2. StateOK
  BY DEF ProxyInv
<1>3. AreHeaders(Inserted(r.lines, cfg.drop))
  BY HeadersAssumption, InsertedIs
<1>4. AreHeaders(out')
  BY <1>1, <1>2, <1>3, PersonifiedHeaders, RequestSetsHeaders, OverHeaders DEF StateOK
<1>5. StateOK'
  BY <1>1, <1>2, <1>4 DEF StateOK, Phases
<1>6. out' = Given'
  BY <1>1 DEF Given
<1>7. OutInv'
  BY <1>1, <1>6 DEF OutInv, Unset
<1> QED BY <1>1, <1>5, <1>7 DEF ProxyInv, HeldInv, ReadInv, DumpInv, BackInv

LEMMA SetFromFileKeeps ==
  ASSUME ProxyInv, NEW n \in todo, SetFromFile(n)
  PROVE  ProxyInv'
<1>1. /\ phase = "files" /\ phase' = phase /\ cfg' = cfg /\ file' = file
      /\ req' = req /\ uri' = uri /\ todo' = todo \ {n} /\ held' = held
      /\ IF ReadFile(file[n]) = Absent THEN out' = out
         ELSE out' = With(out, n, ReadFile(file[n])[1])
  BY DEF SetFromFile
<1>2. StateOK /\ HeldInv /\ OutInv /\ ReadInv
  BY DEF ProxyInv
<1>3. n \in cfg.files /\ file[n] \in held[n] /\ Unset(n)
  BY <1>1, <1>2 DEF HeldInv, OutInv
<1>4. ReadFile(file[n]) = Absent <=> ~HasValue(file[n])
  BY DEF ReadFile, HasValue, Absent
<1>5. HasValue(file[n]) => ReadFile(file[n]) = file[n]
  BY DEF ReadFile, HasValue
<1>6. Given' = Given
  BY <1>1 DEF Given
<1>7. CASE ~HasValue(file[n])
  <2>1. out' = out
    BY <1>1, <1>4, <1>7
  <2>2. \A m : Unset(m)' <=> Unset(m)
    BY <1>6, <2>1 DEF Unset
  <2>3. StateOK' /\ HeldInv'
    BY <1>1, <1>2, <2>1 DEF StateOK, HeldInv
  <2>4. OutInv'
    BY <1>1, <1>2, <1>6, <2>1, <2>2 DEF OutInv
  <2>5. ReadInv'
    BY <1>1, <1>2, <1>3, <1>7, <2>1, <2>2 DEF ReadInv
  <2> QED BY <1>1, <2>3, <2>4, <2>5 DEF ProxyInv, DumpInv, BackInv
<1>8. CASE HasValue(file[n])
  <2>1. out' = With(out, n, file[n][1])
    BY <1>1, <1>4, <1>5, <1>8
  <2>2. /\ DOMAIN out' = DOMAIN out \cup {n}
        /\ out'[n] = file[n][1]
        /\ \A m \in DOMAIN out \ {n} : out'[m] = out[m]
    BY <2>1 DEF With
  <2>3. IsSequence(file[n][1])
    <3>1. IsContent(file[n]) /\ Len(file[n]) = 1
      BY <1>2, <1>3, <1>8 DEF StateOK, HasValue
    <3>2. 1 \in DOMAIN file[n]
      BY <3>1 DEF IsContent, IsSequence
    <3> QED BY <3>1, <3>2 DEF IsContent
  <2>4. AreHeaders(out')
    BY <1>2, <2>1, <2>3, WithHeaders DEF StateOK
  <2>5. StateOK' /\ HeldInv'
    BY <1>1, <1>2, <2>4 DEF StateOK, HeldInv
  <2>6. \A m : m # n => (Unset(m)' <=> Unset(m))
    BY <1>6, <2>2 DEF Unset
  <2>7. OutInv'
    BY <1>1, <1>2, <1>3, <1>6, <2>2, <2>6 DEF OutInv
  <2>8. ReadInv'
    <3> SUFFICES ASSUME NEW m \in cfg.files \ todo'
                 PROVE  \/ /\ Unset(m)'
                           /\ \E c \in held[m] : ~HasValue(c)
                        \/ /\ m \in DOMAIN out'
                           /\ \E c \in held[m] : HasValue(c) /\ out'[m] = c[1]
      BY <1>1 DEF ReadInv, HasValue
    <3>1. CASE m = n
      BY <1>3, <1>8, <2>2, <3>1
    <3>2. CASE m # n
      BY <1>1, <1>2, <2>2, <2>6, <3>2 DEF ReadInv
    <3> QED BY <3>1, <3>2
  <2> QED BY <1>1, <2>5, <2>7, <2>8 DEF ProxyInv, DumpInv, BackInv
<1> QED BY <1>7, <1>8

LEMMA SendKeeps == ProxyInv /\ Send => ProxyInv'
<1> SUFFICES ASSUME ProxyInv, Send PROVE ProxyInv'
  OBVIOUS
<1>1. /\ phase = "files" /\ todo = {} /\ phase' = "sent" /\ cfg' = cfg /\ file' = file
      /\ req' = req /\ uri' = uri /\ out' = out /\ todo' = todo /\ noted' = noted
      /\ held' = held /\ back' = back
      /\ dump' \in {DumpOf(cfg, noted, req.path, out), {}}
  BY DEF Send
<1>2. \A m : Unset(m)' <=> Unset(m)
  BY <1>1 DEF Unset, Given
<1>3. StateOK'
  BY <1>1 DEF ProxyInv, StateOK, Phases
<1>4. OutInv'
  BY <1>1, <1>2 DEF ProxyInv, OutInv, Given
<1>5. ReadInv'
  BY <1>1, <1>2 DEF ProxyInv, ReadInv, HasValue
<1> QED BY <1>1, <1>3, <1>4, <1>5 DEF ProxyInv, HeldInv, DumpInv, BackInv

LEMMA AnswerKeeps ==
  ASSUME ProxyInv, NEW lines \in Answers, Answer(lines)
  PROVE  ProxyInv'
<1> DEFINE given == {n \in cfg.backFiles : file[n] # Gone /\ Len(file[n]) < 2}
           files == [n \in given |-> IF file[n] = << >> THEN <<"">> ELSE file[n][1]]
           came == Inserted(lines, cfg.backDrop)
<1>1. /\ phase = "sent" /\ phase' = "answered" /\ cfg' = cfg /\ file' = file
      /\ req' = req /\ uri' = uri /\ out' = out /\ todo' = todo /\ noted' = noted
      /\ dump' = dump /\ held' = [n \in DOMAIN held |-> {}]
  BY DEF Answer, outgoing
<1>2. back' = Over(files, Over(cfg.backSets, came))
  BY DEF Answer
<1>3. StateOK'
  BY <1>1 DEF ProxyInv, StateOK, Phases
<1>4. OutInv'
  BY <1>1 DEF ProxyInv, OutInv, Unset, Given
<1>5. DOMAIN came \cap (HopByHop \cup cfg.backDrop) = {}
  <2>1. AreLines(lines)
    BY HeadersAssumption
  <2>2. DOMAIN came = {lines[i].name : i \in DOMAIN lines} \ (HopByHop \cup cfg.backDrop)
    BY <2>1, InsertedIs
  <2> QED BY <2>2
<1>6. DOMAIN files \subseteq cfg.backFiles
  OBVIOUS
<1> HIDE DEF files, came
<1>7. DOMAIN back' = DOMAIN files \cup DOMAIN cfg.backSets \cup DOMAIN came
  BY <1>2 DEF Over
<1>8. BackInv'
  BY <1>1, <1>5, <1>6, <1>7 DEF BackInv
<1> QED BY <1>1, <1>3, <1>4, <1>8 DEF ProxyInv, HeldInv, ReadInv, DumpInv

\* What a probe does leaves the proxy as it is.
LEMMA ProbeKeeps ==
  ASSUME ProxyInv, phase \in {"answered", "probing"}, phase' = "probing",
         UNCHANGED <<cfg, file, outgoing, held, back>>
  PROVE  ProxyInv'
<1>1. /\ cfg' = cfg /\ file' = file /\ req' = req /\ uri' = uri /\ out' = out
      /\ todo' = todo /\ held' = held
  BY DEF outgoing
<1>2. StateOK'
  BY <1>1 DEF ProxyInv, StateOK, Phases
<1>3. OutInv'
  BY <1>1 DEF ProxyInv, OutInv, Unset, Given
<1> QED BY <1>2, <1>3 DEF ProxyInv, HeldInv, ReadInv, DumpInv, BackInv

-----------------------------------------------------------------------------
(* The invariant of a probe.                                               *)

\* A credential of the --auth file, or one that is not in it; without a file,
\* a fake one.
Own(n, value) ==
  IF auth = Absent THEN value = <<"fake">>
  ELSE LET own == IF n = "chatgpt-account-id" THEN {auth.account}
                  ELSE {auth.access, auth.key}
       IN  value \in own \/ own = {Absent}

ProbeInv ==
  /\ IsSequence(tries)
  /\ phase # "probing" => tries = << >>
  /\ \A n \in Credentials \cap DOMAIN base : Own(n, base[n])
  /\ NoReplay
  /\ CredentialsExplicit

Inv == ProxyInv /\ ProbeInv

LEMMA AppendIs ==
  ASSUME NEW s, IsSequence(s), NEW e
  PROVE  /\ IsSequence(Append(s, e))
         /\ DOMAIN Append(s, e) = DOMAIN s \cup {Len(s) + 1}
         /\ \A k \in DOMAIN s : Append(s, e)[k] = s[k]
         /\ Append(s, e)[Len(s) + 1] = e
<1> DEFINE S == {s[i] : i \in 1..Len(s)} \cup {e}
           a == Append(s, e)
<1>1. s \in Seq(S) /\ e \in S
  BY DEF IsSequence
<1> HIDE DEF S
<1>2. a \in Seq(S) /\ Len(a) = Len(s) + 1
  BY <1>1
<1>3. (\A k \in 1..Len(s) : a[k] = s[k]) /\ a[Len(s) + 1] = e
  BY <1>1
<1> HIDE DEF a
<1>4. IsSequence(a) /\ DOMAIN a = 1..Len(a) /\ DOMAIN s = 1..Len(s) /\ Len(s) \in Nat
  BY <1>1, <1>2 DEF IsSequence
<1>5. DOMAIN a = DOMAIN s \cup {Len(s) + 1}
  BY <1>2, <1>4
<1> QED BY <1>3, <1>4, <1>5 DEF a

\* A probe starts with credentials that were asked for.
LEMMA AuthorizedOwn ==
  ASSUME NEW a, NEW headers, auth' = a
  PROVE  \A n \in Credentials \cap DOMAIN Authorized(headers, a) :
           Own(n, Authorized(headers, a)[n])'
<1>1. CASE a = Absent /\ Credentials \cap DOMAIN headers = {}
  BY <1>1 DEF Authorized
<1>2. CASE a = Absent /\ Credentials \cap DOMAIN headers # {}
  <2>1. Authorized(headers, a) = Over(Fake, headers)
    BY <1>2 DEF Authorized
  <2>2. \A n \in Credentials : Over(Fake, headers)[n] = <<"fake">>
    BY DEF Over, Fake
  <2> QED BY <1>2, <2>1, <2>2 DEF Own
<1>3. CASE a # Absent
  <2> DEFINE token == IF a.access # Absent THEN a.access ELSE a.key
             mine == Put(headers, "authorization", token)
             new == Put(mine, "chatgpt-account-id", a.account)
  <2>1. Authorized(headers, a) = new
    BY <1>3 DEF Authorized
  <2>2. token # Absent => mine["authorization"] = token
    BY DEF Put, With
  <2> HIDE DEF mine, token
  <2>3. token # Absent => new["authorization"] = token
    <3>1. CASE a.account = Absent
      BY <2>2, <3>1 DEF Put
    <3>2. CASE a.account # Absent
      <4>1. new = With(mine, "chatgpt-account-id", a.account)
        BY <3>2 DEF Put
      <4>2. token # Absent => "authorization" \in DOMAIN mine
        BY DEF mine, Put, With
      <4> QED BY <2>2, <4>1, <4>2 DEF With
    <3> QED BY <3>1, <3>2
  <2>4. a.account # Absent => new["chatgpt-account-id"] = a.account
    BY DEF Put, With
  <2> HIDE DEF new
  <2>5. Own("authorization", new["authorization"])'
    BY <1>3, <2>3 DEF Own, token
  <2>6. Own("chatgpt-account-id", new["chatgpt-account-id"])'
    BY <1>3, <2>4 DEF Own
  <2> QED BY <2>1, <2>5, <2>6 DEF Credentials
<1> QED BY <1>1, <1>2, <1>3

LEMMA BeginKeeps ==
  ASSUME Inv, NEW a \in Auths, NEW x \in Explicits, NEW token \in Injects,
         Begin(a, x, token)
  PROVE  Inv'
<1>1. ProxyInv'
  BY ProbeKeeps DEF Inv, Begin
<1>2. tries = << >> /\ tries' = << >>
  BY DEF Inv, ProbeInv, Begin
<1>3. \A n \in Credentials \cap DOMAIN base' : Own(n, base[n])'
  BY AuthorizedOwn DEF Begin
<1>4. NoReplay' /\ CredentialsExplicit'
  BY <1>2 DEF NoReplay, CredentialsExplicit
<1>5. IsSequence(tries')
  BY <1>2 DEF Inv, ProbeInv
<1> QED BY <1>1, <1>2, <1>3, <1>4, <1>5 DEF Inv, ProbeInv, Begin

LEMMA AttemptKeeps == Inv /\ Attempt => Inv'
<1> SUFFICES ASSUME Inv, Attempt PROVE Inv'
  OBVIOUS
<1> DEFINE id == Ids[Len(tries) + 1]
           mine == [n \in DOMAIN base |-> Refreshed(n, base[n], id)]
           headers == Without(Over(explicit, mine), {"content-type", "content-encoding"})
           body1(early) == BuildBody(cfg, req, id, ReadTimes(cfg, Len(req.body), early, now'))
           k == Len(tries) + 1
<1>1. PICK early \in 0..Len(req.body) :
        tries' = Append(tries, [headers |-> headers, body |-> body1(early),
                                times |-> {Moment, Moment'}])
  BY DEF Attempt
<1> DEFINE e == [headers |-> headers, body |-> body1(early), times |-> {Moment, Moment'}]
<1>2. ProxyInv'
  BY ProbeKeeps DEF Inv, Attempt
<1>3. /\ phase = "probing" /\ phase' = phase /\ req' = req /\ auth' = auth
      /\ explicit' = explicit /\ base' = base
  BY DEF Attempt, outgoing
<1>4. /\ IsSequence(tries')
      /\ DOMAIN tries' = DOMAIN tries \cup {k}
      /\ \A i \in DOMAIN tries : tries'[i] = tries[i]
      /\ tries'[k] = e
  BY <1>1, AppendIs DEF Inv, ProbeInv
<1>5. ASSUME NEW n \in DOMAIN headers \ DOMAIN explicit
      PROVE  n \in DOMAIN base /\ headers[n] = Refreshed(n, base[n], id)
  BY DEF Without, Over
<1> DEFINE ids == e.body.ids
<1>6. e.headers = headers
  OBVIOUS
<1>7. /\ DOMAIN req.ids \subseteq IdKeys
      /\ req.readable => ids = [key \in DOMAIN req.ids |-> RefreshedKey(key, req.ids[key], id)]
  <2>1. req \in Clients
    BY <1>3 DEF Inv, ProxyInv, StateOK
  <2> QED BY <2>1, GrabAssumption DEF BuildBody
<1> HIDE DEF e, headers, id
<1>8. NoReplay'
  <2>1. ASSUME NEW n \in (IdHeaders \cap DOMAIN headers) \ DOMAIN explicit
        PROVE  \/ headers[n] \in {<<id>>, <<id, "0">>, <<"meta", id>>}
               \/ n = "x-codex-turn-metadata" /\ base[n][1] # "meta"
    BY <1>5 DEF Refreshed, IdHeaders
  <2>2. ASSUME req.readable, NEW key \in DOMAIN ids
        PROVE  ids[key] \in {<<id>>, <<id, "turn">>, <<id, "0">>, <<id, "context">>, <<"meta", id>>}
               \/ Replayed(key, req.ids[key])
    <3>1. key \in IdKeys /\ ids[key] = RefreshedKey(key, req.ids[key], id)
      BY <1>7, <2>2
    <3> QED BY <3>1 DEF RefreshedKey, Replayed, IdKeys
  <2>3. ASSUME req.readable, NEW n \in (SessionHeaders \cap DOMAIN headers) \ DOMAIN explicit,
               NEW key \in {"session_id", "prompt_cache_key"} \cap DOMAIN ids
        PROVE  headers[n] = ids[key]
    <3>1. ids[key] = <<id>>
      BY <1>7, <2>3 DEF RefreshedKey
    <3>2. headers[n] = <<id>>
      BY <1>5, <2>3 DEF Refreshed
    <3> QED BY <3>1, <3>2
  <2> DEFINE own(value) == \E i \in DOMAIN value : value[i] = id
  <2>4. /\ own(<<id>>) /\ own(<<id, "0">>) /\ own(<<"meta", id>>)
        /\ own(<<id, "turn">>) /\ own(<<id, "context">>)
    OBVIOUS
  <2>5. /\ \A n \in (IdHeaders \cap DOMAIN headers) \ DOMAIN explicit :
             own(headers[n]) \/ (n = "x-codex-turn-metadata" /\ headers[n][1] # "meta")
        /\ req.readable => \A key \in DOMAIN ids : own(ids[key]) \/ Replayed(key, req.ids[key])
    <3>1. ASSUME NEW n \in (IdHeaders \cap DOMAIN headers) \ DOMAIN explicit,
                 n = "x-codex-turn-metadata", base[n][1] # "meta"
          PROVE  headers[n][1] # "meta"
      BY <1>5, <3>1 DEF Refreshed, SessionHeaders
    <3> HIDE DEF own
    <3> QED BY <2>1, <2>2, <2>4, <3>1
  <2> HIDE DEF ids, own
  <2>6. ASSUME NEW i \in DOMAIN tries'
        PROVE  LET sent == tries'[i].headers
                   idsOf == tries'[i].body.ids
                   ownOf(value) == \E j \in DOMAIN value : value[j] = Ids[i]
               IN  /\ \A n \in (IdHeaders \cap DOMAIN sent) \ DOMAIN explicit :
                        ownOf(sent[n]) \/ (n = "x-codex-turn-metadata" /\ sent[n][1] # "meta")
                   /\ req.readable =>
                        /\ \A key \in DOMAIN idsOf :
                             ownOf(idsOf[key]) \/ Replayed(key, req.ids[key])
                        /\ \A n \in (SessionHeaders \cap DOMAIN sent) \ DOMAIN explicit :
                             \A key \in {"session_id", "prompt_cache_key"} \cap DOMAIN idsOf :
                               sent[n] = idsOf[key]
    <3>1. CASE i = k
      <4>1. tries'[i].headers = headers /\ tries'[i].body.ids = ids /\ Ids[i] = id
        BY <1>4, <1>6, <3>1 DEF ids, id
      <4> QED BY <2>3, <2>5, <4>1 DEF own
    <3>2. CASE i \in DOMAIN tries
      BY <1>4, <3>2 DEF Inv, ProbeInv, NoReplay
    <3> QED BY <1>4, <3>1, <3>2
  <2> QED BY <1>3, <2>6 DEF NoReplay, Replayed
<1>9. CredentialsExplicit'
  <2>1. ASSUME NEW n \in Credentials, n \in DOMAIN headers \ DOMAIN explicit
        PROVE  Own(n, headers[n])
    <3>1. n \in DOMAIN base /\ headers[n] = Refreshed(n, base[n], id)
      BY <1>5, <2>1
    <3>2. headers[n] = base[n]
      BY <3>1 DEF Refreshed, Credentials, SessionHeaders
    <3> QED BY <3>1, <3>2 DEF Inv, ProbeInv
  <2>2. ASSUME NEW i \in DOMAIN tries', NEW n \in Credentials,
               n \in DOMAIN tries'[i].headers \ DOMAIN explicit
        PROVE  Own(n, tries'[i].headers[n])
    <3>1. CASE i = k
      BY <1>4, <1>6, <2>1, <2>2, <3>1
    <3>2. CASE i \in DOMAIN tries
      BY <1>4, <2>2, <3>2 DEF Inv, ProbeInv, CredentialsExplicit, Own
    <3> QED BY <1>4, <3>1, <3>2
  <2> QED BY <1>3, <2>2 DEF CredentialsExplicit, Own
<1> QED BY <1>1, <1>2, <1>3, <1>4, <1>8, <1>9 DEF Inv, ProbeInv, Own

LEMMA ProxyKeeps ==
  Inv /\ ProxyNext /\ UNCHANGED <<auth, explicit, inject, base, tries>> => Inv'
<1> SUFFICES ASSUME Inv, ProxyNext, UNCHANGED <<auth, explicit, inject, base, tries>>
             PROVE  Inv'
  OBVIOUS
<1>1. ProxyInv'
  BY TickKeeps, RotateKeeps, ArriveKeeps, SetFromFileKeeps, SendKeeps, AnswerKeeps
     DEF Inv, ProxyNext
<1>2. /\ phase' = "probing" <=> phase = "probing"
      /\ phase = "probing" => req' = req
  BY DEF ProxyNext, Tick, Rotate, Arrive, SetFromFile, Send, Answer, outgoing
<1>3. /\ auth' = auth /\ explicit' = explicit /\ base' = base /\ tries' = tries
  OBVIOUS
<1>4. CredentialsExplicit'
  BY <1>3 DEF Inv, ProbeInv, CredentialsExplicit
<1>5. NoReplay'
  <2>1. CASE phase = "probing"
    BY <1>2, <1>3, <2>1 DEF Inv, ProbeInv, NoReplay, Replayed
  <2>2. CASE phase # "probing"
    BY <1>3, <2>2 DEF Inv, ProbeInv, NoReplay
  <2> QED BY <2>1, <2>2
<1> QED BY <1>1, <1>2, <1>3, <1>4, <1>5 DEF Inv, ProbeInv, Own

LEMMA StutterKeeps == Inv /\ UNCHANGED vars => Inv'
<1> SUFFICES ASSUME Inv, UNCHANGED vars PROVE Inv'
  OBVIOUS
<1>1. /\ cfg' = cfg /\ file' = file /\ phase' = phase /\ req' = req /\ uri' = uri /\ out' = out
      /\ todo' = todo /\ noted' = noted /\ dump' = dump /\ held' = held /\ back' = back
      /\ auth' = auth /\ explicit' = explicit /\ base' = base /\ tries' = tries
  BY DEF vars, proxy, outgoing
<1>2. StateOK' /\ OutInv'
  BY <1>1 DEF Inv, ProxyInv, StateOK, OutInv, Unset, Given
<1>3. HeldInv' /\ ReadInv'
  BY <1>1 DEF Inv, ProxyInv, HeldInv, ReadInv, Unset, Given, HasValue
<1>4. DumpInv' /\ BackInv'
  BY <1>1 DEF Inv, ProxyInv, DumpInv, BackInv
<1>5. NoReplay' /\ CredentialsExplicit'
  BY <1>1 DEF Inv, ProbeInv, NoReplay, Replayed, CredentialsExplicit
<1> QED BY <1>1, <1>2, <1>3, <1>4, <1>5 DEF Inv, ProxyInv, ProbeInv, Own

LEMMA InitInv == Init => Inv
<1> SUFFICES ASSUME Init PROVE Inv
  OBVIOUS
<1>1. tries = << >> /\ base = NoHeaders
  BY DEF Init
<1>2. IsSequence(tries) /\ DOMAIN base = {} /\ DOMAIN tries = {}
  BY <1>1 DEF IsSequence, NoHeaders
<1> QED BY <1>1, <1>2, ProxyInitInv
        DEF Init, Inv, ProbeInv, NoReplay, CredentialsExplicit

\* What was given, what was read of the header files, what is dumped of it and
\* what a probe took from the dump are what the code means them to be, in
\* every state of a proxy and of a probe.
THEOREM Invariance == Spec => []Inv
<1>1. Init => Inv
  BY InitInv
<1>2. Inv /\ [Next]_vars => Inv'
  BY ProxyKeeps, BeginKeeps, AttemptKeeps, StutterKeeps DEF Next
<1> QED BY <1>1, <1>2, PTL DEF Spec

-----------------------------------------------------------------------------
(* What the invariant says of the properties.                              *)

LEMMA FreshWhenRead == Inv => FreshFile
<1> SUFFICES ASSUME Inv, phase = "sent", NEW n \in cfg.files
             PROVE  LET hasValue(c) == c # Gone /\ Len(c) = 1
                        values == {c[1] : c \in {c \in held[n] : hasValue(c)}}
                    IN  IF n \notin DOMAIN out
                          THEN n \notin DOMAIN Given /\ \E c \in held[n] : ~hasValue(c)
                          ELSE \/ out[n] \in values
                               \/ /\ \E c \in held[n] : ~hasValue(c)
                                  /\ n \in DOMAIN Given /\ out[n] = Given[n]
  BY DEF FreshFile, Sent, Given
<1>1. todo = {}
  BY DEF Inv, ProxyInv, OutInv
<1>2. \/ /\ Unset(n)
         /\ \E c \in held[n] : ~HasValue(c)
      \/ /\ n \in DOMAIN out
         /\ \E c \in held[n] : HasValue(c) /\ out[n] = c[1]
  BY <1>1 DEF Inv, ProxyInv, ReadInv
<1> QED BY <1>2 DEF Unset, HasValue

\* What is read of a header file was in it while the request was handled.
THEOREM OnlyFresh == Spec => []FreshFile
BY Invariance, FreshWhenRead, PTL

LEMMA NothingGiven == Inv => NothingComesBack
<1> SUFFICES ASSUME Inv, phase = "sent", NEW n \in DOMAIN out,
                    \/ n \in HopByHop \cup cfg.drop
                    \/ n \notin {req.lines[i].name : i \in DOMAIN req.lines}
             PROVE  n \in Configured(cfg)
  BY DEF Inv, ProxyInv, BackInv, NothingComesBack, Sent
<1> DEFINE came == Inserted(req.lines, cfg.drop)
<1>1. req \in Clients /\ cfg \in Configs
  BY DEF Inv, ProxyInv, StateOK
<1>2. DOMAIN came = {req.lines[i].name : i \in DOMAIN req.lines} \ (HopByHop \cup cfg.drop)
  BY <1>1, HeadersAssumption, InsertedIs
<1>3. n \notin DOMAIN came
  BY <1>2
<1>4. DOMAIN Personified(cfg, came) = DOMAIN came
  BY PersonifiedIs
<1> HIDE DEF came
<1>5. DOMAIN Given = DOMAIN RequestSets(cfg) \cup DOMAIN came
  BY <1>4 DEF Given, Over, came
<1>6. n \in DOMAIN Given \cup cfg.files
  BY DEF Inv, ProxyInv, OutInv
<1> QED BY <1>3, <1>5, <1>6 DEF Configured

\* A header that is dropped or only for one hop goes on by the configuration
\* alone, upstream and back.
THEOREM NothingElse == Spec => []NothingComesBack
BY Invariance, NothingGiven, PTL

LEMMA PersonaInOne == Inv => PersonaAgrees
<1> DEFINE p == cfg.persona[1]
           came == Inserted(req.lines, cfg.drop)
           told == came["user-agent"]
           ua == out["user-agent"]
<1> SUFFICES ASSUME Inv, phase = "sent", cfg.persona # Absent,
                    "user-agent" \in DOMAIN out \ Configured(cfg),
                    p.user_agent = "inherit",
                    Len(told) = 7, told[6] # "" => told[5] # ""
             PROVE  /\ p.originator # "inherit" =>
                         /\ ua[1] = p.originator
                         /\ "originator" \in DOMAIN out \ Configured(cfg)
                              => out["originator"] = <<p.originator>>
                    /\ p.codex_version # "inherit" =>
                         /\ ua[2] = p.codex_version
                         /\ p.rewrite_client_version =>
                              \A i \in DOMAIN uri.query :
                                uri.query[i][1] = "client_version" => uri.query[i][2] = ua[2]
                    /\ ua[6] # "" => <<ua[6], ua[7]>> = <<ua[1], ua[2]>>
  BY DEF PersonaAgrees, Sent
<1>1. ASSUME NEW n \in DOMAIN out \ Configured(cfg)
      PROVE  n \in DOMAIN came /\ out[n] = Personified(cfg, came)[n]
  <2>1. n \notin DOMAIN RequestSets(cfg) /\ n \notin cfg.files
    BY DEF Configured
  <2>2. n \in DOMAIN Given /\ out[n] = Given[n]
    BY <2>1 DEF Inv, ProxyInv, OutInv
  <2>3. n \in DOMAIN Personified(cfg, came) /\ Given[n] = Personified(cfg, came)[n]
    BY <2>1, <2>2 DEF Given, Over
  <2>4. DOMAIN Personified(cfg, came) = DOMAIN came
    BY PersonifiedIs
  <2> QED BY <2>2, <2>3, <2>4
<1> HIDE DEF came
<1>2. "user-agent" \in DOMAIN came /\ ua = Personified(cfg, came)["user-agent"]
  BY <1>1
<1>3. ua = RewriteUserAgent(p, told)
  BY <1>2, PersonifiedIs DEF Personified, Originated
<1> HIDE DEF told, ua, p
<1>4. ua[1] = NewFront(p, told)[1] /\ ua[2] = NewFront(p, told)[2]
      /\ ua[6] = NewSuffix(p, told)[1] /\ ua[7] = NewSuffix(p, told)[2]
  BY <1>3, Composed
<1>5. NewFront(p, told)[1] = Field(p.originator, told[1])
      /\ NewFront(p, told)[2] = Field(p.codex_version, told[2])
  BY DEF NewFront
<1>6. ua[6] # "" => ua[6] = ua[1] /\ ua[7] = ua[2]
  BY <1>4, <1>5 DEF NewSuffix
<1>7. p.originator # "inherit" => ua[1] = p.originator
  BY <1>4, <1>5 DEF Field
<1>8. p.codex_version # "inherit" => ua[2] = p.codex_version
  BY <1>4, <1>5 DEF Field
<1>9. p.originator # "inherit" /\ "originator" \in DOMAIN out \ Configured(cfg)
      => out["originator"] = <<p.originator>>
  <2> SUFFICES ASSUME p.originator # "inherit", "originator" \in DOMAIN out \ Configured(cfg)
               PROVE  out["originator"] = <<p.originator>>
    OBVIOUS
  <2>1. "originator" \in DOMAIN came /\ out["originator"] = Personified(cfg, came)["originator"]
    BY <1>1
  <2> QED BY <2>1 DEF Personified, Originated, p
<1>10. ASSUME p.codex_version # "inherit", p.rewrite_client_version,
              NEW i \in DOMAIN uri.query, uri.query[i][1] = "client_version"
       PROVE  uri.query[i][2] = p.codex_version
  <2>1. uri.query = Versioned(cfg, req.query)
    BY DEF Inv, ProxyInv, OutInv
  <2>2. i \in DOMAIN req.query
        /\ uri.query[i] = IF req.query[i][1] = "client_version"
                            THEN <<"client_version", p.codex_version>> ELSE req.query[i]
    BY <1>10, <2>1 DEF Versioned, p
  <2>3. CASE req.query[i][1] = "client_version"
    <3>1. uri.query[i] = <<"client_version", p.codex_version>>
      BY <2>2, <2>3
    <3>2. \A a, b : <<a, b>>[2] = b
      OBVIOUS
    <3> DEFINE q == uri.query[i]
               v == p.codex_version
    <3>3. q = <<"client_version", v>>
      BY <3>1
    <3> HIDE DEF q, v
    <3>4. q[2] = v
      BY <3>2, <3>3
    <3> QED BY <3>4 DEF q, v
  <2>4. CASE req.query[i][1] # "client_version"
    BY <1>10, <2>2, <2>4
  <2> QED BY <2>3, <2>4
<1> QED BY <1>6, <1>7, <1>8, <1>9, <1>10

\* A persona tells one product and one version wherever it tells them.
THEOREM OnePersona == Spec => []PersonaAgrees
BY Invariance, PersonaInOne, PTL

\* Every attempt of a probe has ids of its own, but for those that Replayed
\* names.
THEOREM FreshIds == Spec => []NoReplay
<1>1. Inv => NoReplay
  BY DEF Inv, ProbeInv
<1> QED BY <1>1, Invariance, PTL

\* A probe sends the credentials of its --auth file, or fake ones without one;
\* a recorded one only under a file that has none of its kind.
THEOREM GivenCredentials == Spec => []CredentialsExplicit
<1>1. Inv => CredentialsExplicit
  BY DEF Inv, ProbeInv
<1> QED BY <1>1, Invariance, PTL

-----------------------------------------------------------------------------
(* What is dumped, read again.                                             *)

Unmarked(value) == \A i \in DOMAIN value : value[i] # "<-"
Mark == <<"<-", "sent">>

\* The mark is taken off, and nothing else.
LEMMA CutUnmarked ==
  ASSUME NEW v, Unmarked(v)
  PROVE  Cut(v) = v
BY DEF Cut, Unmarked

LEMMA CutMarked ==
  ASSUME NEW v, IsSequence(v), Unmarked(v)
  PROVE  Cut(Joined(v, Mark)) = v
<1> DEFINE w == Joined(v, Mark)
           marks == {i \in DOMAIN w : w[i] = "<-"}
           S == {w[i] : i \in DOMAIN w}
<1>1. IsSequence(Mark) /\ Len(Mark) = 2 /\ Mark[1] = "<-" /\ Mark[2] # "<-"
  BY DEF Mark, IsSequence
<1>2. /\ IsSequence(w)
      /\ Len(w) = Len(v) + Len(Mark)
      /\ \A i \in 1..Len(v) : w[i] = v[i]
  BY <1>1, JoinedIs
<1>3. \A i \in 1..Len(v) + Len(Mark) : i > Len(v) => w[i] = Mark[i - Len(v)]
  BY <1>1, JoinedIs
<1> HIDE DEF w
<1>4. /\ Len(v) \in Nat /\ DOMAIN v = 1..Len(v)
      /\ Len(w) = Len(v) + 2 /\ DOMAIN w = 1..Len(v) + 2
      /\ w = [i \in 1..Len(w) |-> w[i]]
  BY <1>1, <1>2 DEF IsSequence
<1>5. w[Len(v) + 1] = Mark[1] /\ w[Len(v) + 2] = Mark[2]
  BY <1>1, <1>3, <1>4
<1>6. marks = {Len(v) + 1}
  <2>1. \A i \in 1..Len(v) : w[i] # "<-"
    BY <1>2, <1>4 DEF Unmarked
  <2>2. \A i \in 1..Len(v) + 2 : i \in 1..Len(v) \/ i = Len(v) + 1 \/ i = Len(v) + 2
    BY <1>4
  <2> QED BY <1>1, <1>4, <1>5, <2>1, <2>2
<1>7. Min(marks) = Len(v) + 1
  BY <1>4, <1>6 DEF Min
<1>8. Cut(w) = SubSeq(w, 1, Len(v))
  <2>1. Cut(w) = SubSeq(w, 1, Min(marks) - 1)
    BY <1>6 DEF Cut
  <2>2. Min(marks) - 1 = Len(v)
    BY <1>4, <1>7
  <2> QED BY <2>1, <2>2
<1>9. w \in Seq(S)
  BY <1>4
<1> HIDE DEF S, marks
<1> DEFINE u == SubSeq(w, 1, Len(v))
<1>10. u = [i \in 1..Len(v) |-> w[i]]
  BY <1>4, <1>9
<1> HIDE DEF u
<1>11. u = [i \in 1..Len(v) |-> v[i]]
  BY <1>2, <1>10
<1>12. v = [i \in 1..Len(v) |-> v[i]]
  BY DEF IsSequence
<1> QED BY <1>8, <1>11, <1>12 DEF w, u

\* Lines that tell of headers: read as a template's, they are these headers.
Tell(lines, headers) ==
  LET read == TemplateHeaders(lines, FALSE)
      told(n) == Redact(n, headers[n])
      left == Owned \cup {"x-incoming-path"}
  IN  /\ DOMAIN read \subseteq DOMAIN headers \ left
      /\ \A n \in DOMAIN headers \ left :
           Unmarked(told(n)) =>
             IF told(n) = <<"">> THEN n \notin DOMAIN read
             ELSE n \in DOMAIN read /\ read[n] = told(n)

\* A dump of headers, read again, has each of them once.
LEMMA DumpReads ==
  ASSUME NEW c, NEW files, NEW path, NEW headers, AreHeaders(headers)
  PROVE  Tell(DumpOf(c, files, path, headers), headers)
<1> DEFINE lines == DumpOf(c, files, path, headers)
           read == TemplateHeaders(lines, FALSE)
           told(n) == Redact(n, headers[n])
           left == Owned \cup {"x-incoming-path"}
           names == DOMAIN RequestSets(c) \cup files
           sent(n) == SentLine(names, n, told(n))
           mine == {l \in lines : l.kind = "header" /\ l.name \notin left /\ Cut(l.value) # <<"">>}
           of(n) == CHOOSE l \in mine : l.name = n
<1>1. read = [n \in {l.name : l \in mine} |-> Cut(of(n).value)]
  BY DEF TemplateHeaders
<1>2. \A n : /\ sent(n).kind = "header" /\ sent(n).name = n
             /\ sent(n).value = IF n \in names THEN Joined(told(n), Mark) ELSE told(n)
  BY DEF SentLine, Joined, Mark
<1>3. \A n \in DOMAIN headers : sent(n) \in lines
  BY DEF DumpOf
<1>4. \A l \in lines : l.kind = "header" /\ l.name \notin left
        => l.name \in DOMAIN headers /\ l = sent(l.name)
  <2> SUFFICES ASSUME NEW l \in lines, l.kind = "header", l.name \notin left
               PROVE  l.name \in DOMAIN headers /\ l = sent(l.name)
    OBVIOUS
  <2> DEFINE request == [kind |-> "request", name |-> "POST", value |-> path]
             incoming == [kind |-> "header", name |-> "x-incoming-path", value |-> path]
             comment(n, value) == [kind |-> "comment", name |-> n, value |-> Redact(n, value)]
             sets == RequestSets(c)
  <2>1. \/ l = request \/ l = incoming
        \/ \E n \in DOMAIN sets : l = comment(n, sets[n])
        \/ \E n \in files : l = comment(n, headers[n])
        \/ \E n \in DOMAIN headers : l = sent(n)
    BY DEF DumpOf
  <2>2. l # request /\ l # incoming
    OBVIOUS
  <2>3. \A n, value : l # comment(n, value)
    OBVIOUS
  <2> HIDE DEF sent, request, incoming, comment, left, lines
  <2>4. PICK n \in DOMAIN headers : l = sent(n)
    BY <2>1, <2>2, <2>3
  <2>5. l.name = n
    BY <1>2, <2>4
  <2> QED BY <2>4, <2>5
<1>5. \A n \in DOMAIN headers : IsSequence(told(n))
  <2>1. IsSequence(<<"redacted">>)
    BY DEF IsSequence
  <2> QED BY <2>1 DEF Redact, AreHeaders
<1> HIDE DEF told, sent, lines, names, left
<1>6. \A l \in mine : l.name \in DOMAIN headers \ left /\ l = sent(l.name)
  BY <1>4
<1>7. \A n \in DOMAIN headers \ left : sent(n) \in mine <=> Cut(sent(n).value) # <<"">>
  BY <1>2, <1>3
<1> HIDE DEF mine
<1>8. DOMAIN read = {l.name : l \in mine}
  BY <1>1
<1>9. DOMAIN read \subseteq DOMAIN headers \ left
  BY <1>6, <1>8
<1>10. ASSUME NEW n \in DOMAIN headers \ left, Unmarked(told(n))
       PROVE  IF told(n) = <<"">> THEN n \notin DOMAIN read
              ELSE n \in DOMAIN read /\ read[n] = told(n)
  <2>1. Cut(sent(n).value) = told(n)
    BY <1>2, <1>5, <1>10, CutMarked, CutUnmarked
  <2>2. CASE told(n) = <<"">>
    <3>1. sent(n) \notin mine
      BY <1>7, <2>1, <2>2
    <3>2. \A l \in mine : l.name # n
      BY <1>6, <3>1
    <3> QED BY <1>8, <2>2, <3>2
  <2>3. CASE told(n) # <<"">>
    <3>1. sent(n) \in mine /\ sent(n).name = n
      BY <1>2, <1>7, <2>1, <2>3
    <3>2. of(n) \in mine /\ of(n).name = n
      BY <3>1
    <3>3. of(n) = sent(n)
      BY <1>6, <3>2
    <3>4. n \in DOMAIN read
      BY <1>8, <3>1
    <3> HIDE DEF of
    <3>5. read[n] = Cut(of(n).value)
      BY <1>1, <1>8, <3>4
    <3> QED BY <2>1, <2>3, <3>3, <3>4, <3>5
  <2> QED BY <2>2, <2>3
<1> QED BY <1>9, <1>10 DEF lines, told, left, Tell

LEMMA DumpOfSent == Inv => DumpTellsSent
<1> SUFFICES ASSUME Inv, phase \in {"sent", "answered"}, dump # {} PROVE DumpTellsSent
  BY DEF DumpTellsSent
<1>1. dump = DumpOf(cfg, noted, req.path, out) /\ AreHeaders(out)
  BY DEF Inv, ProxyInv, DumpInv, StateOK
<1>2. Tell(dump, out)
  BY <1>1, DumpReads
<1> QED BY <1>2 DEF DumpTellsSent, Tell, Unmarked

\* What a probe reads of a dump is what was sent, but for what the recorder
\* or the probe's client sets themselves.
THEOREM DumpIsTheRequest == Spec => []DumpTellsSent
BY Invariance, DumpOfSent, PTL

-----------------------------------------------------------------------------
(* The environment and the clock.                                          *)

\* What the rewrite of a body makes of it, if it reads the times of moments.
Rewritten(section, pieces, moments) ==
  {ApplyEnv(section, pieces, when) : when \in [DOMAIN pieces -> {m.now : m \in moments}]}

\* What goes out of a body is the rewrite of it at times that are noted.
EnvInv ==
  /\ now \in Int
  /\ \A m \in times : m.now \in Int
  /\ phase = "files" => Moment \in times
  /\ phase = "sent" =>
       IF req.readable /\ IsActive(cfg.section)
         THEN body \in Rewritten(cfg.section, req.body, Read(cfg, times))
         ELSE body = req.body
  /\ \A k \in DOMAIN tries :
       /\ \A m \in tries[k].times : m.now \in Int
       /\ req.readable =>
            tries[k].body.pieces
              \in Rewritten(ProbeSection(cfg), req.body, Read(cfg, tries[k].times))

\* The dates that are noted are those of the calendar.
OfItsDay(m) == m.date = CivilFromDays(m.now \div Day)
DayInv ==
  /\ OfItsDay(Moment)
  /\ \A m \in times : OfItsDay(m)
  /\ \A k \in DOMAIN tries : \A m \in tries[k].times : OfItsDay(m)
  /\ cfg.pinned # Absent => OfItsDay(cfg.pinned[1])

\* The clock starts on a day of the calendar, and what is pinned is one.
OnCalendar ==
  \E Cal : /\ IsCalendar(Cal)
           /\ \A k \in Clocks : k.date = Cal[k.now \div Day]
           /\ \A c \in Configs : c.pinned # Absent =>
                c.pinned[1].date = Cal[c.pinned[1].now \div Day]

LEMMA InitEnv ==
  ASSUME Init
  PROVE  EnvInv /\ (OnCalendar => DayInv)
<1>1. phase = "idle" /\ tries = << >> /\ DOMAIN tries = {} /\ times = {} /\ cfg \in Configs
  BY DEF Init, ProxyInit
<1>2. PICK k \in Clocks : now = k.now /\ date = k.date
  BY DEF Init, ProxyInit
<1>3. now \in Int /\ (cfg.pinned # Absent => cfg.pinned[1].now \in Int)
  BY <1>1, <1>2, HeadersAssumption
<1>4. EnvInv
  BY <1>1, <1>3 DEF EnvInv
<1>5. ASSUME OnCalendar
      PROVE  /\ date = CivilFromDays(now \div Day)
             /\ cfg.pinned # Absent => OfItsDay(cfg.pinned[1])
  <2>1. PICK Cal :
          /\ IsCalendar(Cal)
          /\ \A c \in Clocks : c.date = Cal[c.now \div Day]
          /\ \A c \in Configs : c.pinned # Absent =>
               c.pinned[1].date = Cal[c.pinned[1].now \div Day]
    BY <1>5 DEF OnCalendar
  <2>2. \A t \in Int : CivilFromDays(t \div Day) = Cal[t \div Day]
    BY <2>1, CivilIsCalendar DEF Day
  <2> QED BY <1>1, <1>2, <1>3, <2>1, <2>2 DEF OfItsDay
<1> QED BY <1>1, <1>4, <1>5 DEF DayInv, OfItsDay, Moment

\* Where the clock goes it stays on the calendar.
LEMMA ClockKept ==
  ASSUME now \in Int, Goes \/ UNCHANGED clock
  PROVE  now' \in Int /\ (OfItsDay(Moment) => OfItsDay(Moment)')
<1>1. CASE UNCHANGED clock
  BY <1>1 DEF clock, OfItsDay, Moment
<1>2. CASE Goes
  <2>1. /\ now' = now + ClockStep
        /\ date' = IF now' \div Day > now \div Day THEN NextDate(date) ELSE date
    BY <1>2 DEF Goes
  <2>2. ClockStep \in Int /\ 1 <= ClockStep /\ ClockStep <= 1440
    BY HeadersAssumption DEF Day
  <2>3. ASSUME date = CivilFromDays(now \div Day) PROVE date' = CivilFromDays(now' \div Day)
    <3>1. PICK d, e \in Int : now \div 1440 = d /\ now' \div 1440 = e /\ (e = d \/ e = d + 1)
      BY <2>1, <2>2
    <3>2. date = CivilFromDays(d)
      BY <2>3, <3>1 DEF Day
    <3>3. date' = IF e > d THEN NextDate(date) ELSE date
      BY <2>1, <3>1 DEF Day
    <3>4. CivilFromDays(d + 1) = NextDate(CivilFromDays(d))
      BY NextDay
    <3>5. CASE e = d
      BY <3>1, <3>2, <3>3, <3>5 DEF Day
    <3>6. CASE e = d + 1
      BY <3>1, <3>2, <3>3, <3>4, <3>6 DEF Day
    <3> QED BY <3>1, <3>5, <3>6
  <2>4. now' \in Int
    BY <2>1, <2>2
  <2> QED BY <2>3, <2>4 DEF OfItsDay, Moment
<1> QED BY <1>1, <1>2

\* The times that a rewrite reads are those of its first or its last moment.
LEMMA ReadAtMoments ==
  ASSUME NEW moments, Moment \in moments, Moment' \in moments,
         NEW n \in Nat, NEW early
  PROVE  ReadTimes(cfg, n, early, now') \in [1..n -> {m.now : m \in Read(cfg, moments)}]
<1>1. CASE cfg.pinned # Absent
  BY <1>1 DEF ReadTimes, Read
<1>2. CASE cfg.pinned = Absent
  <2>1. now \in {m.now : m \in moments} /\ now' \in {m.now : m \in moments}
    BY DEF Moment
  <2> QED BY <1>2, <2>1 DEF ReadTimes, Read
<1> QED BY <1>1, <1>2

LEMMA TickEnv ==
  ASSUME Inv, EnvInv, Tick, tries' = tries
  PROVE  EnvInv' /\ (DayInv => DayInv')
<1>1. /\ phase \in {"idle", "files", "probing"} /\ Goes
      /\ phase' = phase /\ cfg' = cfg /\ req' = req /\ body' = body
      /\ times' = IF phase = "files" THEN times \cup {Moment'} ELSE times
  BY DEF Tick, outgoing
<1>2. now' \in Int /\ Moment'.now = now' /\ (OfItsDay(Moment) => OfItsDay(Moment)')
  BY <1>1, ClockKept DEF EnvInv, Moment
<1>3. EnvInv'
  BY <1>1, <1>2 DEF EnvInv, Rewritten, Read
<1>4. DayInv => DayInv'
  BY <1>1, <1>2 DEF DayInv, OfItsDay
<1> QED BY <1>3, <1>4

LEMMA SendEnv ==
  ASSUME Inv, EnvInv, Send, tries' = << >>
  PROVE  EnvInv' /\ (DayInv => DayInv')
<1>1. PICK early \in 0..Len(req.body) :
        /\ Rewriting(req.body, early)
        /\ body' = IF req.readable /\ IsActive(cfg.section)
                     THEN ApplyEnv(cfg.section, req.body,
                                   ReadTimes(cfg, Len(req.body), early, now'))
                     ELSE req.body
  BY DEF Send
<1>2. /\ phase = "files" /\ phase' = "sent" /\ cfg' = cfg /\ req' = req
      /\ times' = times \cup {Moment'}
  BY DEF Send
<1>3. Goes \/ UNCHANGED clock
  BY <1>1 DEF Rewriting
<1>4. now' \in Int /\ Moment'.now = now' /\ (OfItsDay(Moment) => OfItsDay(Moment)')
  BY <1>3, ClockKept DEF EnvInv, Moment
<1>5. Moment \in times' /\ Moment' \in times'
  BY <1>2 DEF EnvInv
<1>6. IsBody(req.body)
  BY <1>2, HeadersAssumption DEF Inv, ProxyInv, StateOK
<1>7. Len(req.body) \in Nat /\ DOMAIN req.body = 1..Len(req.body)
  BY <1>6 DEF IsBody, IsSequence
<1>8. ReadTimes(cfg, Len(req.body), early, now')
        \in [DOMAIN req.body -> {m.now : m \in Read(cfg, times')}]
  BY <1>5, <1>7, ReadAtMoments
<1>9. IF req.readable /\ IsActive(cfg.section)
        THEN body' \in Rewritten(cfg.section, req.body, Read(cfg, times'))
        ELSE body' = req.body
  BY <1>1, <1>8 DEF Rewritten
<1>10. DOMAIN tries' = {}
  OBVIOUS
<1>11. \A m \in times' : m.now \in Int
  BY <1>2, <1>4 DEF EnvInv
<1>12. EnvInv'
  BY <1>2, <1>4, <1>9, <1>10, <1>11 DEF EnvInv, Rewritten, Read
<1>13. DayInv => DayInv'
  BY <1>2, <1>4, <1>10 DEF DayInv, OfItsDay
<1> QED BY <1>12, <1>13

LEMMA ProxyEnv ==
  ASSUME Inv, EnvInv, ProxyNext, UNCHANGED <<auth, explicit, inject, base, tries>>
  PROVE  EnvInv' /\ (DayInv => DayInv')
<1>0. tries' = tries /\ (phase # "probing" => tries = << >> /\ DOMAIN tries = {})
  BY DEF Inv, ProbeInv
<1>1. CASE Tick
  BY <1>0, <1>1, TickEnv
<1>2. ASSUME NEW n \in DOMAIN file, NEW content \in Contents \cup {Gone}, Rotate(n, content)
      PROVE  EnvInv' /\ (DayInv => DayInv')
  BY <1>0, <1>2
     DEF Rotate, clock, outgoing, EnvInv, DayInv, OfItsDay, Moment, Rewritten, Read
<1>3. ASSUME NEW r \in Clients, Arrive(r)
      PROVE  EnvInv' /\ (DayInv => DayInv')
  <2>1. /\ phase = "idle" /\ phase' = "files" /\ times' = {Moment} /\ cfg' = cfg
        /\ now' = now /\ date' = date
    BY <1>3 DEF Arrive, clock
  <2> QED BY <1>0, <2>1 DEF EnvInv, DayInv, OfItsDay, Moment
<1>4. ASSUME NEW n \in todo, SetFromFile(n)
      PROVE  EnvInv' /\ (DayInv => DayInv')
  BY <1>0, <1>4
     DEF SetFromFile, clock, EnvInv, DayInv, OfItsDay, Moment, Rewritten, Read
<1>5. CASE Send
  <2>1. phase # "probing"
    BY <1>5 DEF Send
  <2> QED BY <1>0, <1>5, <2>1, SendEnv
<1>6. ASSUME NEW lines \in Answers, Answer(lines)
      PROVE  EnvInv' /\ (DayInv => DayInv')
  BY <1>0, <1>6 DEF Answer, clock, outgoing, EnvInv, DayInv, OfItsDay, Moment
<1> QED BY <1>1, <1>2, <1>3, <1>4, <1>5, <1>6 DEF ProxyNext

LEMMA BeginEnv ==
  ASSUME Inv, EnvInv, NEW a \in Auths, NEW x \in Explicits, NEW token \in Injects,
         Begin(a, x, token)
  PROVE  EnvInv' /\ (DayInv => DayInv')
BY DEF Begin, clock, outgoing, EnvInv, DayInv, OfItsDay, Moment, Rewritten, Read

LEMMA AttemptEnv ==
  ASSUME Inv, EnvInv, Attempt
  PROVE  EnvInv' /\ (DayInv => DayInv')
<1> DEFINE id == Ids[Len(tries) + 1]
           headers == Without(Over(explicit, [n \in DOMAIN base |-> Refreshed(n, base[n], id)]),
                              {"content-type", "content-encoding"})
           when(early) == ReadTimes(cfg, Len(req.body), early, now')
           k == Len(tries) + 1
<1>1. PICK early \in 0..Len(req.body) :
        /\ Rewriting(req.body, early)
        /\ tries' = Append(tries, [headers |-> headers, times |-> {Moment, Moment'},
                                   body |-> BuildBody(cfg, req, id, when(early))])
  BY DEF Attempt
<1> DEFINE e == [headers |-> headers, times |-> {Moment, Moment'},
                 body |-> BuildBody(cfg, req, id, when(early))]
<1>2. /\ phase = "probing" /\ phase' = phase /\ cfg' = cfg /\ req' = req
      /\ times' = times /\ body' = body
  BY DEF Attempt, outgoing
<1>3. /\ DOMAIN tries' = DOMAIN tries \cup {k}
      /\ \A i \in DOMAIN tries : tries'[i] = tries[i]
      /\ tries'[k] = e
  BY <1>1, AppendIs DEF Inv, ProbeInv
<1>4. Goes \/ UNCHANGED clock
  BY <1>1 DEF Rewriting
<1>5. /\ now' \in Int /\ (OfItsDay(Moment) => OfItsDay(Moment)')
      /\ Moment.now = now /\ Moment'.now = now'
  BY <1>4, ClockKept DEF EnvInv, Moment
<1>6. e.times = {Moment, Moment'} /\ e.body = BuildBody(cfg, req, id, when(early))
  OBVIOUS
<1>7. req \in Clients /\ IsBody(req.body)
  BY <1>2, HeadersAssumption DEF Inv, ProxyInv, StateOK
<1>8. Len(req.body) \in Nat /\ DOMAIN req.body = 1..Len(req.body)
  BY <1>7 DEF IsBody, IsSequence
<1>9. when(early) \in [DOMAIN req.body -> {m.now : m \in Read(cfg, {Moment, Moment'})}]
  BY <1>8, ReadAtMoments
<1> HIDE DEF when
<1>10. req.readable => e.body.pieces = ApplyEnv(ProbeSection(cfg), req.body, when(early))
  BY <1>6 DEF BuildBody
<1> HIDE DEF e, k, id
<1>11. req.readable =>
         e.body.pieces \in Rewritten(ProbeSection(cfg), req.body, Read(cfg, e.times))
  BY <1>6, <1>9, <1>10 DEF Rewritten
<1>12. \A m \in e.times : m.now \in Int
  BY <1>5, <1>6 DEF EnvInv
<1>13. ASSUME NEW i \in DOMAIN tries'
       PROVE  /\ \A m \in tries'[i].times : m.now \in Int
              /\ req.readable =>
                   tries'[i].body.pieces
                     \in Rewritten(ProbeSection(cfg), req.body, Read(cfg, tries'[i].times))
  <2>1. CASE i = k
    BY <1>3, <1>11, <1>12, <2>1
  <2>2. CASE i \in DOMAIN tries
    BY <1>3, <2>2 DEF EnvInv
  <2> QED BY <1>3, <2>1, <2>2
<1>14. EnvInv'
  BY <1>2, <1>5, <1>13 DEF EnvInv, Rewritten, Read
<1>15. DayInv => DayInv'
  BY <1>2, <1>3, <1>5, <1>6 DEF DayInv, OfItsDay
<1> QED BY <1>14, <1>15

LEMMA EnvKept ==
  ASSUME Inv, EnvInv, [Next]_vars
  PROVE  EnvInv' /\ (DayInv => DayInv')
<1>1. CASE UNCHANGED vars
  BY <1>1 DEF vars, proxy, clock, outgoing, EnvInv, DayInv, OfItsDay, Moment, Rewritten, Read
<1>2. CASE Next
  BY <1>2, ProxyEnv, BeginEnv, AttemptEnv DEF Next
<1> QED BY <1>1, <1>2

LEMMA EnvIsSet == Inv /\ EnvInv => EnvironmentIsAsSet
<1> SUFFICES ASSUME Inv, EnvInv, phase = "sent"
             PROVE  /\ ~req.readable => body = req.body
                    /\ ChangesOnlyWhatIsSet(cfg.section, req.body, body)
                    /\ \A when \in [DOMAIN req.body -> {m.now : m \in Read(cfg, times)}] :
                         Settles(cfg.section, req.body, when)
  BY DEF EnvironmentIsAsSet, Sent
<1>1. cfg \in Configs /\ req \in Clients
  BY DEF Inv, ProxyInv, StateOK
<1>2. IsSection(cfg.section) /\ IsBody(req.body)
  BY <1>1, HeadersAssumption
<1>3. IF req.readable /\ IsActive(cfg.section)
        THEN body \in Rewritten(cfg.section, req.body, Read(cfg, times))
        ELSE body = req.body
  BY DEF EnvInv
<1>4. \A after \in Rewritten(cfg.section, req.body, Read(cfg, times)) :
        ChangesOnlyWhatIsSet(cfg.section, req.body, after)
  BY <1>2, OnlyWhatIsSet DEF Rewritten
<1>5. ChangesOnlyWhatIsSet(cfg.section, req.body, req.body)
  BY DEF ChangesOnlyWhatIsSet
<1>6. ChangesOnlyWhatIsSet(cfg.section, req.body, body)
  BY <1>3, <1>4, <1>5
<1>7. \A when : Settles(cfg.section, req.body, when)
  BY <1>2, ItSettles
<1> QED BY <1>3, <1>6, <1>7

\* The rewrite of the environment changes only what is configured, makes
\* nothing up, leaves an unreadable body alone, and has nothing left to do
\* when the body comes by again, but for the two cases that Settles names.
THEOREM EnvironmentIsSet == Spec => []EnvironmentIsAsSet
<1>1. Init => EnvInv
  BY InitEnv
<1>2. Inv /\ EnvInv /\ [Next]_vars => EnvInv'
  BY EnvKept
<1> QED BY <1>1, <1>2, Invariance, EnvIsSet, PTL DEF Spec

\* The dates of a rewrite are those of the moments it read.
LEMMA LocalIfRead ==
  ASSUME NEW section, IsSection(section), NEW pieces, IsBody(pieces), cfg \in Configs,
         NEW moments, \A m \in moments : m.now \in Int /\ OfItsDay(m),
         cfg.pinned # Absent => OfItsDay(cfg.pinned[1]),
         NEW after \in Rewritten(section, pieces, Read(cfg, moments))
  PROVE  DatesAreLocal(section, pieces, after, Read(cfg, moments))
<1>1. \A m \in Read(cfg, moments) : m.now \in Int /\ m.date = CivilFromDays(m.now \div Day)
  BY HeadersAssumption DEF Read, OfItsDay
<1>2. PICK when \in [DOMAIN pieces -> {m.now : m \in Read(cfg, moments)}] :
        after = ApplyEnv(section, pieces, when)
  BY DEF Rewritten
<1> DEFINE read == Read(cfg, moments)
<1>3. \A i \in DOMAIN pieces : when[i] \in {m.now : m \in read}
  BY <1>2
<1> HIDE DEF read
<1> QED BY <1>1, <1>2, <1>3, DatesLocal DEF read

LEMMA LocalWhenSent == Inv /\ EnvInv /\ DayInv => LocalDates
<1> SUFFICES ASSUME Inv, EnvInv, DayInv, req # Absent, req.readable
             PROVE  /\ Sent => DatesAreLocal(cfg.section, req.body, body, Read(cfg, times))
                    /\ \A k \in DOMAIN tries :
                         DatesAreLocal(ProbeSection(cfg), req.body, tries[k].body.pieces,
                                       Read(cfg, tries[k].times))
  BY DEF LocalDates
<1>1. cfg \in Configs /\ (phase # "idle" => req \in Clients)
  BY DEF Inv, ProxyInv, StateOK
<1>2. IsSection(cfg.section) /\ (phase # "idle" => IsBody(req.body))
  BY <1>1, HeadersAssumption
<1>3. cfg.pinned # Absent => OfItsDay(cfg.pinned[1])
  BY DEF DayInv
<1>4. ASSUME Sent PROVE DatesAreLocal(cfg.section, req.body, body, Read(cfg, times))
  <2>1. \A m \in times : m.now \in Int /\ OfItsDay(m)
    BY DEF EnvInv, DayInv
  <2>2. CASE IsActive(cfg.section)
    <3>1. body \in Rewritten(cfg.section, req.body, Read(cfg, times))
      BY <1>4, <2>2 DEF Sent, EnvInv
    <3>2. IsBody(req.body)
      BY <1>2, <1>4 DEF Sent
    <3> QED BY <1>1, <1>2, <1>3, <2>1, <3>1, <3>2, LocalIfRead
  <2>3. CASE ~IsActive(cfg.section)
    <3>1. cfg.section.current_date = Absent
      BY <2>3 DEF IsActive, Elements
    <3>2. Absent # <<"auto">>
      BY DEF Absent
    <3> QED BY <3>1, <3>2 DEF DatesAreLocal
  <2> QED BY <2>2, <2>3
<1>5. ASSUME NEW k \in DOMAIN tries
      PROVE  DatesAreLocal(ProbeSection(cfg), req.body, tries[k].body.pieces,
                           Read(cfg, tries[k].times))
  <2>1. phase = "probing"
    BY <1>5 DEF Inv, ProbeInv
  <2>2. IsBody(req.body)
    BY <1>2, <2>1
  <2>3. IsSection(ProbeSection(cfg))
    BY <1>2 DEF ProbeSection, IsSection, Elements
  <2>4. /\ tries[k].body.pieces
             \in Rewritten(ProbeSection(cfg), req.body, Read(cfg, tries[k].times))
        /\ \A m \in tries[k].times : m.now \in Int /\ OfItsDay(m)
    BY DEF EnvInv, DayInv
  <2> QED BY <1>1, <1>3, <2>2, <2>3, <2>4, LocalIfRead
<1> QED BY <1>4, <1>5

\* From a day of the calendar on, the date that civil_from_days computes is
\* the date of the day, however long the clock runs.
THEOREM DatesOfTheCalendar ==
  ASSUME OnCalendar
  PROVE  Spec => []CivilDates
<1>1. Init => EnvInv /\ DayInv
  BY InitEnv
<1>2. Inv /\ EnvInv /\ DayInv /\ [Next]_vars => EnvInv' /\ DayInv'
  BY EnvKept
<1>3. DayInv => CivilDates
  BY DEF DayInv, OfItsDay, Moment, CivilDates
<1> QED BY <1>1, <1>2, <1>3, Invariance, PTL DEF Spec

\* Each automatic date of what is sent, by the proxy and by a probe, is that of
\* a moment between its coming and its going out, or the pinned one, in the zone
\* of the section or in the first one that the body tells.
THEOREM DatesAreOfTheZone ==
  ASSUME OnCalendar
  PROVE  Spec => []LocalDates
<1>1. Init => EnvInv /\ DayInv
  BY InitEnv
<1>2. Inv /\ EnvInv /\ DayInv /\ [Next]_vars => EnvInv' /\ DayInv'
  BY EnvKept
<1> QED BY <1>1, <1>2, LocalWhenSent, Invariance, PTL DEF Spec

=============================================================================
