---------------------------- MODULE CivilCalendar ----------------------------
(***************************************************************************)
(* The calendar functions the churn notebooks take from Spark SQL.  A day   *)
(* is a number; day 0 is the first of January 1901, and from there to 2099  *)
(* every fourth year is a leap year.                                        *)
(***************************************************************************)
EXTENDS Integers

IsLeap(year) == year % 4 = 0
YearStart(year) == 365 * (year - 1901) + (year - 1901) \div 4

\* Days of the year before each month.
MonthStart(year, month) ==
  <<0, 31, 59, 90, 120, 151, 181, 212, 243, 273, 304, 334>>[month]
    + (IF month > 2 /\ IsLeap(year) THEN 1 ELSE 0)

YearOf(day) == 1901 + (4 * day + 3) \div 1461

DateOf(day) ==
  LET year == YearOf(day)
      inYear == day - YearStart(year)
      month == CHOOSE m \in 1 .. 12 :
                 /\ MonthStart(year, m) <= inYear
                 /\ m = 12 \/ inYear < MonthStart(year, m + 1)
  IN [year |-> year, month |-> month, day |-> 1 + inYear - MonthStart(year, month)]

\* Months since year 0.
MonthOf(day) == 12 * DateOf(day).year + DateOf(day).month - 1

\* add_months by whole years: the 29th of February becomes the 28th.
AddYears(date, years) ==
  [date EXCEPT !.year = @ + years,
               !.day = IF date.month = 2 /\ @ = 29 /\ ~IsLeap(date.year + years) THEN 28 ELSE @]

Before(d, e) ==
  \/ d.year < e.year
  \/ d.year = e.year /\ d.month < e.month
  \/ d.year = e.year /\ d.month = e.month /\ d.day < e.day
=============================================================================
