------------------------------- MODULE Calendar -------------------------------
(***************************************************************************)
(* The calendar arithmetic of wallclock.rs: from the Date header of the    *)
(* server to unix seconds and from those to an RFC 3339 timestamp.  The    *)
(* module walks through the Gregorian calendar a day at a time, from the   *)
(* first of January 1970 to the end of LastYear.                           *)
(*                                                                         *)
(* A unix time u is kept as its day u / 86400 and its second u % 86400,    *)
(* the split that fmt_rfc3339 begins with: u itself outgrows TLC's         *)
(* integers in 2038.  CalendarProofs covers every later year.              *)
(***************************************************************************)
EXTENDS Integers

CONSTANTS
  LastYear,
  TimesOfDay          \* seconds after midnight to check each day with

ASSUME CalendarAssumption ==
  /\ LastYear \in Nat
  /\ \A t \in TimesOfDay : t \in Nat /\ t < 86400

VARIABLES date, day

vars == <<date, day>>

None == [day |-> -1, sec |-> -1]

-----------------------------------------------------------------------------
(* The code. *)

\* Slip: centuries are leap years.
days_from_ymd_julian(y0, mo, d) ==
  LET y == IF mo <= 2 THEN y0 - 1 ELSE y0
      era == y \div 400
      yoe == y - era * 400
      doy == (153 * (IF mo > 2 THEN mo - 3 ELSE mo + 9) + 2) \div 5 + d - 1
      doe == yoe * 365 + yoe \div 4 + doy
  IN  era * 146097 + doe - 719468

\* unix_from_ymdhms, the day: years begin in March, so that the leap day is
\* the last of a year
days_from_ymd(y0, mo, d) ==
  LET y == IF mo <= 2 THEN y0 - 1 ELSE y0
      era == y \div 400
      yoe == y - era * 400
      doy == (153 * (IF mo > 2 THEN mo - 3 ELSE mo + 9) + 2) \div 5 + d - 1
      doe == yoe * 365 + yoe \div 4 - yoe \div 100 + doy
  IN  era * 146097 + doe - 719468

secs_from_hms(h, mi, s) == h * 3600 + mi * 60 + s

MonthNames == [Jan |-> 1, Feb |-> 2, Mar |-> 3, Apr |-> 4, May |-> 5, Jun |-> 6,
               Jul |-> 7, Aug |-> 8, Sep |-> 9, Oct |-> 10, Nov |-> 11,
               Dec |-> 12]

\* A header in which a part is missing or not a number fails the same way as
\* one with an unknown month.
parse_http_date(header) ==
  IF header.month \notin DOMAIN MonthNames THEN None
  ELSE [day |-> days_from_ymd(header.year, MonthNames[header.month], header.day),
        sec |-> secs_from_hms(header.h, header.m, header.s)]

\* fmt_rfc3339, the date: the year of the era, from the day of the era
year_of_era(doe) ==
  (doe - doe \div 1460 + doe \div 36524 - doe \div 146096) \div 365

\* the date, from the era, the year in it and the day in that
civil(era, yoe, doy) ==
  LET mp == (5 * doy + 2) \div 153
      mo == IF mp < 10 THEN mp + 3 ELSE mp - 9
      y == yoe + era * 400
  IN  [y |-> IF mo <= 2 THEN y + 1 ELSE y, mo |-> mo,
       d |-> doy - (153 * mp + 2) \div 5 + 1]

\* the day of the year, from the day of the era
day_of_year(doe) ==
  LET yoe == year_of_era(doe)
  IN  doe - (365 * yoe + yoe \div 4 - yoe \div 100)

\* Slip: the last day of an era belongs to the next one.
ymd_from_days_short_era(days) ==
  LET z == days + 719468
      era == z \div 146096
      doe == z - era * 146096
  IN  civil(era, year_of_era(doe), day_of_year(doe))

ymd_from_days(days) ==
  LET z == days + 719468
      era == z \div 146097
      doe == z - era * 146097
  IN  civil(era, year_of_era(doe), day_of_year(doe))

\* fmt_rfc3339, the time
hms_from_secs(secs_today) ==
  [h |-> secs_today \div 3600, mi |-> (secs_today % 3600) \div 60,
   s |-> secs_today % 60]

-----------------------------------------------------------------------------
(* The calendar, as Kubernetes and the server have it. *)

Leap(y) == y % 4 = 0 /\ (y % 100 # 0 \/ y % 400 = 0)

MonthLength(y, mo) ==
  IF mo = 2 THEN IF Leap(y) THEN 29 ELSE 28
  ELSE IF mo \in {4, 6, 9, 11} THEN 30 ELSE 31

Tomorrow(t) ==
  IF t.d < MonthLength(t.y, t.mo) THEN [y |-> t.y, mo |-> t.mo, d |-> t.d + 1]
  ELSE IF t.mo < 12 THEN [y |-> t.y, mo |-> t.mo + 1, d |-> 1]
  ELSE [y |-> t.y + 1, mo |-> 1, d |-> 1]

Init == date = [y |-> 1970, mo |-> 1, d |-> 1] /\ day = 0

Next ==
  /\ Tomorrow(date).y <= LastYear
  /\ date' = Tomorrow(date)
  /\ day' = day + 1

Spec == Init /\ [][Next]_vars

-----------------------------------------------------------------------------
(* Correctness. *)

NameOf(mo) == CHOOSE n \in DOMAIN MonthNames : MonthNames[n] = mo

\* The Date header of second t of the day
Header(t) ==
  [day |-> date.d, month |-> NameOf(date.mo), year |-> date.y,
   h |-> t \div 3600, m |-> (t % 3600) \div 60, s |-> t % 60]

\* The anchor is the server's time: the days since 1970 in the Gregorian
\* calendar, and the second of the day.  A header that is no RFC 1123 date
\* anchors nothing.
AnchorIsServerTime ==
  \A t \in TimesOfDay :
    /\ parse_http_date(Header(t)) = [day |-> day, sec |-> t]
    /\ parse_http_date([Header(t) EXCEPT !.month = "Wat"]) = None

\* A timestamp shows the date and the time it was taken at.
TimestampIsDate ==
  /\ ymd_from_days(day) = date
  /\ \A t \in TimesOfDay :
       LET p == hms_from_secs(t) IN secs_from_hms(p.h, p.mi, p.s) = t
                                    /\ p.h < 24 /\ p.mi < 60 /\ p.s < 60
=============================================================================
