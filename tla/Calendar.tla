------------------------------ MODULE Calendar ------------------------------
(***************************************************************************)
(* The calendar of r3_stdlib_mktime.c: localtime_r turns days since 1970   *)
(* into a date of the Gregorian calendar, _mktime a date into days by the  *)
(* simpler rule of a leap day every four years (LULIAN_CALENDAR), which    *)
(* holds until the end of February 2100.                                   *)
(*                                                                         *)
(* The multiplications of div5 to div146097 are taken for the divisions    *)
(* they stand for (proved for every word: MultiplicationsDivide); the time *)
(* of the day and the time zone, which are taken off and put back, are     *)
(* left out.  The calendar goes on day by day, and the date that keeps the *)
(* books is a calendar on the wall: it turns a leaf.                       *)
(***************************************************************************)
EXTENDS Integers

CONSTANTS
  FirstDay, LastDay   \* bound: the days looked at, from 1970-01-01

ASSUME CalendarAssumption == FirstDay \in Nat /\ LastDay \in Nat

VARIABLES
  days,         \* the days since 1970-01-01
  wall          \* history: the date on the wall, months from 0 as in struct tm

calendarVars == <<days, wall>>

Date(y, m, p, w) == [year |-> y, mon |-> m, mday |-> p, wday |-> w]
DateType == [year : Nat, mon : 0 .. 11, mday : 1 .. 31, wday : 0 .. 6]

(* g_days_to_dmy and the day of the week of localtime_r. *)
LocalTime(n) ==
  LET a == n + 2440587 + 32045
      b == (4 * a + 3) \div 146097
      c == a - (146097 * b) \div 4
      d == (4 * c + 3) \div 1461
      e == c - (1461 * d) \div 4
      m == (5 * e + 2) \div 153
  IN Date(100 * b + d - 4800 + m \div 10, m + 2 - 12 * (m \div 10),
          e - (153 * m + 2) \div 5 + 1, (n + 4) % 7)

(* The days before a month in a year that starts in March; January and     *)
(* February belong to the year before.                                     *)
Before == <<306, 337, 0, 31, 61, 92, 122, 153, 184, 214, 245, 275>>

SlipYearOf(date) == date.year + 4800 - (IF date.mon < 1 THEN 1 ELSE 0)
YearOf(date) == date.year + 4800 - (IF date.mon < 2 THEN 1 ELSE 0)

(* _mktime. *)
MkTime(date) ==
  date.mday + Before[date.mon + 1] + 365 * YearOf(date) + YearOf(date) \div 4
    - (32097 + 2440587)

(* g_date_is_leap_year. *)
IsLeapYear(year) ==
  (IF year % 100 # 0 THEN year ELSE year \div 100) % 4 = 0

CalendarInit ==
  days = FirstDay /\ wall = LocalTime(FirstDay)

MonthLength(date) ==
  IF date.mon = 1 THEN (IF IsLeapYear(date.year) THEN 29 ELSE 28)
  ELSE IF date.mon \in {3, 5, 8, 10} THEN 30 ELSE 31
Leaf(date) ==
  LET week == (date.wday + 1) % 7 IN
  IF date.mday < MonthLength(date)
  THEN Date(date.year, date.mon, date.mday + 1, week)
  ELSE IF date.mon < 11
  THEN Date(date.year, date.mon + 1, 1, week)
  ELSE Date(date.year + 1, 0, 1, week)

(* Midnight. *)
Midnight ==
  /\ days < LastDay
  /\ days' = days + 1 /\ wall' = Leaf(wall)

CalendarSpec == CalendarInit /\ [][Midnight]_calendarVars

-----------------------------------------------------------------------------
(* The first of March 2100, from which _mktime is a day late. *)
JulianEnds == 47541

(* localtime_r gives every day the date and the day of the week the        *)
(* calendar on the wall has, through every leap year and turn of the       *)
(* century, and _mktime gives that date its day back until March 2100.     *)
CalendarAgrees ==
  /\ wall \in DateType
  /\ LocalTime(days) = wall
  /\ days < JulianEnds => MkTime(wall) = days
=============================================================================
