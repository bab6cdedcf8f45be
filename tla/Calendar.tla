------------------------------- MODULE Calendar -------------------------------
(***************************************************************************)
(* The dates of periods and instalments, and cents.  A date is <<year,     *)
(* month, day>> and exists in the Gregorian calendar.                      *)
(***************************************************************************)
LOCAL INSTANCE Integers

Leap(year) == year % 4 = 0 /\ (year % 100 = 0 => year % 400 = 0)

LastDay(year, month) ==
  CASE month = 2              -> IF Leap(year) THEN 29 ELSE 28
    [] month \in {4, 6, 9, 11} -> 30
    [] OTHER                  -> 31

IsDate(date) ==
  /\ date \in Nat \X (1..12) \X (1..31)
  /\ date[3] <= LastDay(date[1], date[2])

\* Days are compared as time.Time values are, by year, month and day.
Ordinal(date)    == (date[1] * 10000) + (date[2] * 100) + date[3]
Before(one, two) == Ordinal(one) < Ordinal(two)
Later(one, two)  == IF Before(one, two) THEN two ELSE one
Earlier(one, two) == IF Before(one, two) THEN one ELSE two

\* Months counted from year 0, so that month arithmetic is addition.
MonthIndex(date)  == (date[1] * 12) + date[2] - 1
InMonth(index, day) == <<index \div 12, (index % 12) + 1, day>>

addMonthsClamped_Rolling(date, months) ==   \* 31 January and a month is 3 March
  LET index == MonthIndex(date) + months
      last  == LastDay(index \div 12, (index % 12) + 1)
  IN IF date[3] <= last THEN InMonth(index, date[3])
                        ELSE InMonth(index + 1, date[3] - last)

addMonthsClamped(date, months) ==
  LET index == MonthIndex(date) + months
      last  == LastDay(index \div 12, (index % 12) + 1)
  IN InMonth(index, IF date[3] <= last THEN date[3] ELSE last)

monthsBetween(start, end) == MonthIndex(end) - MonthIndex(start)

DayBefore(date) ==
  IF date[3] > 1 THEN <<date[1], date[2], date[3] - 1>>
  ELSE LET index == MonthIndex(date) - 1
       IN InMonth(index, LastDay(index \div 12, (index % 12) + 1))

\* numerator/denominator cents to the nearest cent, halves upwards, as
\* truncating division and the remainder make it: a negative amount is cut.
roundRatToCents(numerator, denominator) ==
  IF numerator >= 0 THEN ((2 * numerator) + denominator) \div (2 * denominator)
                    ELSE -((-numerator) \div denominator)
===============================================================================
