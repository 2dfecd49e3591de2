---------------------------- MODULE CalendarProofs ----------------------------
(***************************************************************************)
(* The two conversions of wallclock.rs are right on every day from 1970    *)
(* on, for every last year and every time of day: the walk of Calendar has *)
(* the inductive invariant that the day counted so far is the one          *)
(* unix_from_ymdhms computes, and fmt_rfc3339 inverts that computation.    *)
(*                                                                         *)
(* Ranges are written as inequalities rather than as large intervals,      *)
(* which the solver would enumerate.                                       *)
(***************************************************************************)
EXTENDS Calendar, TLAPS

-----------------------------------------------------------------------------
(* The parts of the arithmetic. *)

\* The year within an era of 400, from the day within it (fmt_rfc3339's yoe):
\* c centuries, q cycles of four years, r years.  The 366th day of a year
\* exists only where the calendar has a leap day.
LEMMA YearOfEra ==
  ASSUME NEW c \in Nat, c <= 3, NEW q \in Nat, q <= 24, NEW r \in Nat, r <= 3,
         NEW doy \in Nat, doy <= 365,
         doy = 365 => r = 3 /\ (q = 24 => c = 3),
         NEW doe \in Nat, doe = 36524 * c + 1461 * q + 365 * r + doy
  PROVE  /\ doe <= 146096
         /\ (doe - doe \div 1460 + doe \div 36524 - doe \div 146096) \div 365
              = 100 * c + 4 * q + r
  <1>1. doe <= 146096
    OBVIOUS
  <1>2. doe \div 36524 - doe \div 146096 = c
    <2>1. CASE doe = 146096
      <3>1. c = 3
        BY <2>1
      <3>2. doe \div 36524 = 4 /\ doe \div 146096 = 1
        BY <2>1
      <3> QED
        BY <3>1, <3>2
    <2>2. CASE doe < 146096
      <3>1. 36524 * c <= doe /\ doe < 36524 * (c + 1)
        BY <2>2
      <3>2. doe \div 36524 = c /\ doe \div 146096 = 0
        BY <3>1, <2>2
      <3> QED
        BY <3>2
    <2> QED
      BY <1>1, <2>1, <2>2
  <1>3. \E late \in {0, 1} :
          /\ doe \div 1460 = 25 * c + q + late
          /\ 0 <= doy - late /\ doy - late < 365
    <2>1. CASE 24 * c + q + 365 * r + doy < 1460
      <3>1. doe \div 1460 = 25 * c + q + 0 /\ doy < 365
        BY <2>1
      <3> QED
        BY <3>1
    <2>2. CASE 24 * c + q + 365 * r + doy >= 1460
      <3>1. doe \div 1460 = 25 * c + q + 1 /\ 1 <= doy
        BY <2>2
      <3> QED
        BY <3>1
    <2> QED
      BY <2>1, <2>2
  <1>4. PICK late \in {0, 1} :
          /\ doe \div 1460 = 25 * c + q + late
          /\ 0 <= doy - late /\ doy - late < 365
    BY <1>3
  <1> DEFINE x == doe - doe \div 1460 + doe \div 36524 - doe \div 146096
             k == 100 * c + 4 * q + r
  <1>5. x - 365 * k = doy - late
    BY <1>2, <1>4
  <1>6. x \in Nat /\ k \in Nat /\ 365 * k <= x /\ x < 365 * k + 365
    BY <1>5, <1>4
  <1>7. x \div 365 = k
    <2> HIDE DEF x, k
    <2> QED BY <1>6
  <1> QED
    BY <1>1, <1>7

\* Every year of an era is so many centuries, cycles and years.
LEMMA CenturyAndCycle ==
  ASSUME NEW yoe \in Nat, yoe < 400
  PROVE  \E c \in Nat, q \in Nat, r \in Nat :
           /\ c <= 3 /\ q <= 24 /\ r <= 3
           /\ yoe = 100 * c + 4 * q + r
           /\ yoe \div 4 = 25 * c + q /\ yoe \div 100 = c
  <1>1. PICK c \in Nat : c = yoe \div 100
    BY Z3
  <1>2. PICK q \in Nat : q = (yoe - 100 * c) \div 4
    BY <1>1, Z3
  <1>3. PICK r \in Nat : r = yoe - 100 * c - 4 * q
    BY <1>1, <1>2, Z3
  <1> QED
    BY <1>1, <1>2, <1>3, Z3T(20)

\* The day of a year that begins in March, as both conversions count it
DayOfYear(mo, d) ==
  (153 * (IF mo > 2 THEN mo - 3 ELSE mo + 9) + 2) \div 5 + d - 1

\* The 153 days of five months: the month of a day of the year is found again,
\* and only the 29th of February is the 366th day.
LEMMA MonthOfYear ==
  ASSUME NEW y \in Nat, NEW mo \in 1 .. 12, NEW d \in 1 .. 31,
         d <= MonthLength(y, mo)
  PROVE  \E mp \in 0 .. 11, doy \in Nat :
           /\ mp = IF mo > 2 THEN mo - 3 ELSE mo + 9
           /\ doy = DayOfYear(mo, d)
           /\ doy = (153 * mp + 2) \div 5 + d - 1
           /\ doy <= 365 /\ (5 * doy + 2) \div 153 = mp
           /\ doy = 365 => mo = 2 /\ d = 29
  <1>1. PICK mp \in 0 .. 11 : mp = IF mo > 2 THEN mo - 3 ELSE mo + 9
    OBVIOUS
  <1>2. (mp \in {1, 3, 6, 8} => d <= 30) /\ (mp = 11 => d <= 29 /\ mo = 2)
    BY <1>1 DEF MonthLength
  <1>3. PICK doy \in Nat : doy = (153 * mp + 2) \div 5 + d - 1
    BY Z3
  <1>4. doy = DayOfYear(mo, d)
    BY <1>1, <1>3 DEF DayOfYear
  <1>5. doy <= 365 /\ (5 * doy + 2) \div 153 = mp /\ (doy = 365 => mo = 2 /\ d = 29)
    BY <1>1, <1>2, <1>3, Z3T(30)
  <1> QED
    BY <1>1, <1>3, <1>4, <1>5

\* The day, since the first of March of the year 0, on which a year begins
Start(y) ==
  LET era == y \div 400
      yoe == y - era * 400
  IN  era * 146097 + (yoe * 365 + yoe \div 4 - yoe \div 100)

\* January and February belong to the year before.
MarchYear(y, mo) == IF mo <= 2 THEN y - 1 ELSE y

\* unix_from_ymdhms counts the days before the year and the days in it.
LEMMA DaysFromStart ==
  ASSUME NEW y \in Nat, NEW mo \in 1 .. 12, NEW d \in 1 .. 31, y >= 1
  PROVE  days_from_ymd(y, mo, d)
           = Start(MarchYear(y, mo)) + DayOfYear(mo, d) - 719468
  BY Z3T(30) DEF days_from_ymd, Start, DayOfYear, MarchYear

\* A year, from March to March, has 366 days if its February is a leap one.
LEMMA YearLength ==
  ASSUME NEW y \in Nat, y >= 1
  PROVE  Start(y) - Start(y - 1) = IF Leap(y) THEN 366 ELSE 365
  BY Z3T(30) DEF Start, Leap

-----------------------------------------------------------------------------
(* The two conversions. *)

\* unix_from_ymdhms of the next day is one more: within a month, at its end,
\* at the end of the year.
LEMMA CountsOn ==
  ASSUME NEW y \in Nat, y >= 1970, NEW mo \in 1 .. 12, NEW d \in 1 .. 31
  PROVE  /\ d < MonthLength(y, mo) =>
              days_from_ymd(y, mo, d + 1) = days_from_ymd(y, mo, d) + 1
         /\ d = MonthLength(y, mo) /\ mo < 12 =>
              days_from_ymd(y, mo + 1, 1) = days_from_ymd(y, mo, d) + 1
         /\ d = 31 /\ mo = 12 =>
              days_from_ymd(y + 1, 1, 1) = days_from_ymd(y, mo, d) + 1
  <1>1. PICK Y \in Nat, S \in Int : Y = MarchYear(y, mo) /\ S = Start(Y)
    BY Z3 DEF MarchYear, Start
  <1>2. PICK D \in Int : D = DayOfYear(mo, d)
    BY Z3 DEF DayOfYear
  <1>3. days_from_ymd(y, mo, d) = S + D - 719468
    BY <1>1, <1>2, DaysFromStart, Z3
  <1>4. ASSUME d < MonthLength(y, mo)
        PROVE  days_from_ymd(y, mo, d + 1) = days_from_ymd(y, mo, d) + 1
    <2>1. d + 1 \in 1 .. 31
      BY <1>4, Z3 DEF MonthLength
    <2>2. DayOfYear(mo, d + 1) = D + 1
      BY <1>2, Z3 DEF DayOfYear
    <2>3. days_from_ymd(y, mo, d + 1) = S + (D + 1) - 719468
      BY <1>1, <2>1, <2>2, DaysFromStart, Z3
    <2> QED
      BY <1>3, <2>3, Z3
  <1>5. ASSUME d = MonthLength(y, mo), mo < 12, mo # 2
        PROVE  days_from_ymd(y, mo + 1, 1) = days_from_ymd(y, mo, d) + 1
    <2>1. mo + 1 \in 1 .. 12 /\ MarchYear(y, mo + 1) = Y
      BY <1>1, <1>5, Z3 DEF MarchYear
    <2>2. DayOfYear(mo + 1, 1) = D + 1
      BY <1>2, <1>5, Z3T(30) DEF DayOfYear, MonthLength
    <2>3. days_from_ymd(y, mo + 1, 1) = S + (D + 1) - 719468
      BY <1>1, <2>1, <2>2, DaysFromStart, Z3
    <2> QED
      BY <1>3, <2>3, Z3
  <1>6. ASSUME d = 31, mo = 12
        PROVE  days_from_ymd(y + 1, 1, 1) = days_from_ymd(y, mo, d) + 1
    <2>1. y + 1 \in Nat /\ MarchYear(y + 1, 1) = Y
      BY <1>1, <1>6, Z3 DEF MarchYear
    <2>2. DayOfYear(1, 1) = D + 1
      BY <1>2, <1>6, Z3 DEF DayOfYear
    <2>3. days_from_ymd(y + 1, 1, 1) = S + (D + 1) - 719468
      BY <1>1, <2>1, <2>2, DaysFromStart, Z3
    <2> QED
      BY <1>3, <2>3, Z3
  <1>7. ASSUME d = MonthLength(y, mo), mo = 2
        PROVE  days_from_ymd(y, mo + 1, 1) = days_from_ymd(y, mo, d) + 1
    <2>1. MarchYear(y, mo + 1) = y /\ Y = y - 1
      BY <1>1, <1>7, Z3 DEF MarchYear
    <2>2. DayOfYear(mo + 1, 1) = 0 /\ D = IF Leap(y) THEN 365 ELSE 364
      BY <1>2, <1>7, Z3 DEF DayOfYear, MonthLength
    <2>3. PICK N \in Int : N = Start(y)
      BY Z3 DEF Start
    <2>4. N - S = IF Leap(y) THEN 366 ELSE 365
      BY <1>1, <2>1, <2>3, YearLength, Z3
    <2>5. days_from_ymd(y, mo + 1, 1) = N + 0 - 719468
      BY <1>7, <2>1, <2>2, <2>3, DaysFromStart, Z3
    <2> QED
      BY <1>3, <2>2, <2>4, <2>5, Z3
  <1> QED
    BY <1>4, <1>5, <1>6, <1>7, Z3

\* fmt_rfc3339 shows the date that unix_from_ymdhms was given.
LEMMA ReadsBack ==
  ASSUME NEW y \in Nat, y >= 1970, NEW mo \in 1 .. 12, NEW d \in 1 .. 31,
         d <= MonthLength(y, mo)
  PROVE  ymd_from_days(days_from_ymd(y, mo, d)) = [y |-> y, mo |-> mo, d |-> d]
  <1> DEFINE days == days_from_ymd(y, mo, d)
  <1>1. PICK Y \in Nat : /\ Y = IF mo <= 2 THEN y - 1 ELSE y
                         /\ y = IF mo <= 2 THEN Y + 1 ELSE Y
    BY Z3
  <1>2. PICK era \in Nat, yoe \in Nat :
          era = Y \div 400 /\ yoe = Y - era * 400 /\ yoe < 400
    BY <1>1, Z3
  <1>3. PICK c \in Nat, q \in Nat, r \in Nat :
          /\ c <= 3 /\ q <= 24 /\ r <= 3
          /\ yoe = 100 * c + 4 * q + r
          /\ yoe \div 4 = 25 * c + q /\ yoe \div 100 = c
    BY <1>2, CenturyAndCycle, Z3
  <1>4. PICK mp \in 0 .. 11, doy \in Nat :
          /\ mp = IF mo > 2 THEN mo - 3 ELSE mo + 9
          /\ doy = DayOfYear(mo, d)
          /\ doy = (153 * mp + 2) \div 5 + d - 1
          /\ doy <= 365 /\ (5 * doy + 2) \div 153 = mp
          /\ doy = 365 => mo = 2 /\ d = 29
    BY MonthOfYear, Z3
  <1>5. doy = 365 => r = 3 /\ (q = 24 => c = 3)
    <2> SUFFICES ASSUME doy = 365 PROVE r = 3 /\ (q = 24 => c = 3)
      OBVIOUS
    <2>1. Leap(Y + 1)
      BY <1>1, <1>4, Z3 DEF MonthLength
    <2>2. Y + 1 = 400 * era + 100 * c + 4 * q + r + 1
      BY <1>2, <1>3, Z3
    <2> QED
      BY <2>1, <2>2, <1>3, Z3T(30) DEF Leap
  <1>6. PICK doe \in Nat :
          /\ doe = yoe * 365 + yoe \div 4 - yoe \div 100 + doy
          /\ doe = 36524 * c + 1461 * q + 365 * r + doy
    BY <1>3, Z3
  <1>7. /\ doe <= 146096
        /\ (doe - doe \div 1460 + doe \div 36524 - doe \div 146096) \div 365 = yoe
    BY <1>3, <1>4, <1>5, <1>6, YearOfEra, Z3
  <1>8. doy = (153 * (IF mo > 2 THEN mo - 3 ELSE mo + 9) + 2) \div 5 + d - 1
    BY <1>4, Z3
  <1>9. days = era * 146097 + doe - 719468
    <2>1. /\ y >= 1
          /\ Y = IF mo <= 2 THEN y - 1 ELSE y
          /\ era = Y \div 400
          /\ yoe = Y - era * 400
          /\ doe = yoe * 365 + yoe \div 4 - yoe \div 100 + doy
      BY <1>1, <1>2, <1>6, Z3
    <2> QED
      BY <2>1, <1>8, Z3T(30) DEF days_from_ymd
  <1>10. PICK z \in Int : z = days + 719468 /\ z \div 146097 = era
                          /\ doe = z - era * 146097
    BY <1>7, <1>9, Z3
  <1>11. doy = doe - (365 * yoe + yoe \div 4 - yoe \div 100)
    BY <1>6, Z3
  <1>12. ymd_from_days(days) = civil(era, yoe, doy)
    <2>1. year_of_era(doe) = yoe
      BY <1>7, Z3 DEF year_of_era
    <2>2. day_of_year(doe) = doy
      BY <1>11, <2>1, Z3 DEF day_of_year
    <2>3. ymd_from_days(days) = civil(z \div 146097, year_of_era(doe), day_of_year(doe))
      <3> HIDE DEF days
      <3> QED
        BY <1>10, Z3 DEF ymd_from_days
    <2> QED
      BY <1>10, <2>1, <2>2, <2>3, Z3
  <1>13. (IF mp < 10 THEN mp + 3 ELSE mp - 9) = mo
    BY <1>4, Z3
  <1>14. yoe + era * 400 = Y
    BY <1>2, Z3
  <1>15. doy - (153 * mp + 2) \div 5 + 1 = d
    BY <1>4, Z3
  <1> QED
    BY <1>1, <1>4, <1>12, <1>13, <1>14, <1>15, Z3 DEF civil

\* Hours, minutes and seconds of a time of day make up that time.
LEMMA TimeOfDay ==
  ASSUME NEW t \in Nat, t < 86400
  PROVE  /\ secs_from_hms(t \div 3600, (t % 3600) \div 60, t % 60) = t
         /\ t \div 3600 < 24 /\ (t % 3600) \div 60 < 60 /\ t % 60 < 60
  BY Z3T(30) DEF secs_from_hms

\* The month names parse_http_date knows are the twelve months.
LEMMA Months ==
  /\ \A mo \in 1 .. 12 : NameOf(mo) \in DOMAIN MonthNames
                         /\ MonthNames[NameOf(mo)] = mo
  /\ "Wat" \notin DOMAIN MonthNames
  <1>1. \A mo \in 1 .. 12 : \E n \in DOMAIN MonthNames : MonthNames[n] = mo
    BY DEF MonthNames
  <1>2. "Wat" \notin DOMAIN MonthNames
    BY DEF MonthNames
  <1> QED
    BY <1>1, <1>2 DEF NameOf

-----------------------------------------------------------------------------
(* The inductive invariant, and what follows from it. *)

CountedAs(y, mo, d) ==
  /\ y >= 1970 /\ d <= MonthLength(y, mo)
  /\ date = [y |-> y, mo |-> mo, d |-> d]
  /\ day = days_from_ymd(y, mo, d)

Counted ==
  \E y \in Nat, mo \in 1 .. 12, d \in 1 .. 31 : CountedAs(y, mo, d)

\* The first of January 1970 is day 0.
LEMMA Start1970 == Init => Counted
  <1> SUFFICES ASSUME Init PROVE Counted
    OBVIOUS
  <1>1. days_from_ymd(1970, 1, 1) = 0
    BY Z3 DEF days_from_ymd
  <1>2. 1 <= MonthLength(1970, 1)
    BY Z3 DEF MonthLength
  <1>3. CountedAs(1970, 1, 1)
    BY <1>1, <1>2, Z3 DEF Init, CountedAs
  <1>4. 1970 \in Nat /\ 1 \in 1 .. 12 /\ 1 \in 1 .. 31
    BY Z3
  <1> QED
    BY <1>3, <1>4, Z3 DEF Counted

\* The walk keeps the count.
LEMMA NextDay == Counted /\ [Next]_vars => Counted'
  <1> SUFFICES ASSUME Counted, [Next]_vars PROVE Counted'
    OBVIOUS
  <1>0. PICK y \in Nat, mo \in 1 .. 12, d \in 1 .. 31 : CountedAs(y, mo, d)
    BY DEF Counted
  <1>1. /\ y >= 1970 /\ d <= MonthLength(y, mo)
        /\ date = [y |-> y, mo |-> mo, d |-> d]
        /\ day = days_from_ymd(y, mo, d)
    BY <1>0, Z3 DEF CountedAs
  <1>2. CASE Next /\ d < MonthLength(y, mo)
    <2>1. date' = [y |-> y, mo |-> mo, d |-> d + 1]
      BY <1>1, <1>2, Z3 DEF Next, Tomorrow
    <2>2. d + 1 \in 1 .. 31 /\ d + 1 <= MonthLength(y, mo)
      BY <1>2, Z3 DEF MonthLength
    <2>3. day' = days_from_ymd(y, mo, d + 1)
      BY <1>1, <1>2, CountsOn, Z3 DEF Next
    <2>4. CountedAs(y, mo, d + 1)'
      BY <1>1, <2>1, <2>2, <2>3, Z3 DEF CountedAs
    <2> QED
      BY <2>2, <2>4, Z3 DEF Counted
  <1>3. CASE Next /\ d = MonthLength(y, mo) /\ mo < 12
    <2>1. date' = [y |-> y, mo |-> mo + 1, d |-> 1]
      BY <1>1, <1>3, Z3 DEF Next, Tomorrow
    <2>2. mo + 1 \in 1 .. 12 /\ 1 \in 1 .. 31 /\ 1 <= MonthLength(y, mo + 1)
      BY <1>3, Z3 DEF MonthLength
    <2>3. day' = days_from_ymd(y, mo + 1, 1)
      BY <1>1, <1>3, CountsOn, Z3 DEF Next
    <2>4. CountedAs(y, mo + 1, 1)'
      BY <1>1, <2>1, <2>2, <2>3, Z3 DEF CountedAs
    <2> QED
      BY <2>2, <2>4, Z3 DEF Counted
  <1>4. CASE Next /\ d = MonthLength(y, mo) /\ mo = 12
    <2>1. date' = [y |-> y + 1, mo |-> 1, d |-> 1] /\ d = 31
      BY <1>1, <1>4, Z3 DEF Next, Tomorrow, MonthLength
    <2>2. y + 1 \in Nat /\ y + 1 >= 1970 /\ 1 <= MonthLength(y + 1, 1)
          /\ 1 \in 1 .. 12 /\ 1 \in 1 .. 31
      BY <1>1, Z3 DEF MonthLength
    <2>3. day' = days_from_ymd(y + 1, 1, 1)
      BY <1>1, <1>4, <2>1, CountsOn, Z3 DEF Next
    <2>4. CountedAs(y + 1, 1, 1)'
      BY <2>1, <2>2, <2>3, Z3 DEF CountedAs
    <2> QED
      BY <2>2, <2>4, Z3 DEF Counted
  <1>5. CASE UNCHANGED vars
    <2>1. CountedAs(y, mo, d)'
      BY <1>1, <1>5, Z3 DEF CountedAs, vars
    <2> QED
      BY <2>1, Z3 DEF Counted
  <1>6. MonthLength(y, mo) \in Nat
    BY Z3 DEF MonthLength
  <1>7. d < MonthLength(y, mo) \/ d = MonthLength(y, mo)
    BY <1>1, <1>6, Z3
  <1>8. mo < 12 \/ mo = 12
    BY Z3
  <1> QED
    BY <1>2, <1>3, <1>4, <1>5, <1>7, <1>8, Z3

\* parse_http_date and unix_from_ymdhms turn the Date header into the server's
\* time, on every day from 1970 on and at every time of day, and reject a
\* header that is no date.
THEOREM AnchorIsCorrect == Spec => []AnchorIsServerTime
  <1>1. Counted => AnchorIsServerTime
    <2> SUFFICES ASSUME Counted, NEW t \in TimesOfDay
                 PROVE  /\ parse_http_date(Header(t)) = [day |-> day, sec |-> t]
                        /\ parse_http_date([Header(t) EXCEPT !.month = "Wat"]) = None
      BY Z3 DEF AnchorIsServerTime
    <2>1. t \in Nat /\ t < 86400
      BY CalendarAssumption
    <2>0. PICK y \in Nat, mo \in 1 .. 12, d \in 1 .. 31 : CountedAs(y, mo, d)
      BY DEF Counted
    <2>2. date = [y |-> y, mo |-> mo, d |-> d] /\ day = days_from_ymd(y, mo, d)
      BY <2>0 DEF CountedAs
    <2>3. NameOf(date.mo) \in DOMAIN MonthNames /\ MonthNames[NameOf(date.mo)] = mo
      BY <2>2, Months
    <2>4. secs_from_hms(t \div 3600, (t % 3600) \div 60, t % 60) = t
      BY <2>1, TimeOfDay, Z3
    <2>5. parse_http_date(Header(t)) = [day |-> day, sec |-> t]
      BY <2>2, <2>3, <2>4 DEF parse_http_date, Header
    <2>6. parse_http_date([Header(t) EXCEPT !.month = "Wat"]) = None
      BY Months DEF parse_http_date, Header
    <2> QED
      BY <2>5, <2>6
  <1> QED
    BY <1>1, Start1970, NextDay, PTL DEF Spec

\* fmt_rfc3339 shows the date and the time of day it is given, on every day
\* from 1970 on.
THEOREM TimestampIsCorrect == Spec => []TimestampIsDate
  <1>1. Counted => TimestampIsDate
    <2> SUFFICES ASSUME Counted PROVE TimestampIsDate
      OBVIOUS
    <2>1. ymd_from_days(day) = date
      <3>1. PICK y \in Nat, mo \in 1 .. 12, d \in 1 .. 31 : CountedAs(y, mo, d)
        BY DEF Counted
      <3>2. ymd_from_days(days_from_ymd(y, mo, d)) = [y |-> y, mo |-> mo, d |-> d]
        <4>1. y >= 1970 /\ d <= MonthLength(y, mo)
          BY <3>1, Z3 DEF CountedAs
        <4> QED
          BY <4>1, ReadsBack, ZenonT(20)
      <3> QED
        BY <3>1, <3>2, Z3 DEF CountedAs
    <2>2. ASSUME NEW t \in TimesOfDay
          PROVE  LET p == hms_from_secs(t)
                 IN  secs_from_hms(p.h, p.mi, p.s) = t
                     /\ p.h < 24 /\ p.mi < 60 /\ p.s < 60
      <3>1. t \in Nat /\ t < 86400
        BY CalendarAssumption
      <3> QED
        BY <3>1, TimeOfDay, Z3 DEF hms_from_secs
    <2> QED
      BY <2>1, <2>2 DEF TimestampIsDate
  <1> QED
    BY <1>1, Start1970, NextDay, PTL DEF Spec
=============================================================================
