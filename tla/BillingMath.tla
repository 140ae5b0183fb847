---------------------------- MODULE BillingMath ----------------------------
(***************************************************************************)
(* The pure arithmetic of billing: calendar intervals, rounded division,   *)
(* the value of a price for a period and the proration of a change.        *)
(*                                                                         *)
(* An instant is a day, numbered from the first day of a calendar that the *)
(* constant FirstDay describes; an amount of money is an integer count of  *)
(* minor units.  The code works in milliseconds, which divides the same    *)
(* way: a period's length and what remains of it enter only as a ratio.    *)
(***************************************************************************)
EXTENDS Integers, Sequences

CONSTANT FirstDay   \* the first day of each month, and of the month after the last

ASSUME CalendarAssumption ==
  /\ FirstDay \in Seq(Nat)
  /\ Len(FirstDay) > 1
  /\ \A m, n \in 1..Len(FirstDay) : m < n => FirstDay[m] < FirstDay[n]

Months == 1..(Len(FirstDay) - 1)
Days == {d \in Nat : FirstDay[1] <= d /\ d < FirstDay[Len(FirstDay)]}

Lesser(a, b) == IF a <= b THEN a ELSE b
Greater(a, b) == IF a <= b THEN b ELSE a

---------------------------------------------------------------------------
(* Intervals. *)

\* DAY stands for DAY and WEEK, which add days; MONTH for MONTH and YEAR.
Interval == [unit : {"DAY", "MONTH"}, count : Nat \ {0}]

DaysInMonth(m) == FirstDay[m + 1] - FirstDay[m]
MonthOf(d) == CHOOSE m \in Months : FirstDay[m] <= d /\ d < FirstDay[m + 1]
DayOf(d) == d - FirstDay[MonthOf(d)] + 1

\* The anchor's day of month m, or its last day when the month is shorter.
AnchorDay(m, anchor) == FirstDay[m] + Lesser(anchor, DaysInMonth(m)) - 1

\* A mutant: months counted from nought.
AddMonthsFromNought(d, months, anchor) == AnchorDay(MonthOf(d) + months - 1, anchor)

AddMonths(d, months, anchor) == AnchorDay(MonthOf(d) + months, anchor)

AddInterval(d, interval, anchor) ==
  IF interval.unit = "DAY" THEN d + interval.count
                           ELSE AddMonths(d, interval.count, anchor)

\* Bound: whether the calendar reaches that far.
WithinCalendar(d, interval) ==
  IF interval.unit = "DAY" THEN d + interval.count \in Days
                           ELSE MonthOf(d) + interval.count \in Months

---------------------------------------------------------------------------
(* Money. *)

\* divideRounded, HALF_UP, of a non-negative amount.
DivideRounded(n, d) ==
  LET quotient == n \div d
  IN IF 2 * (n % d) >= d THEN quotient + 1 ELSE quotient

ScaleMoney(amount, numerator, denominator) ==
  DivideRounded(amount * numerator, denominator)

\* The recurring value of a price for one full period.
RecurringAmount(price, quantity) ==
  IF price.model = "PER_SEAT" THEN price.amount * quantity ELSE price.amount

---------------------------------------------------------------------------
(* Proration. *)

\* A mutant: a change before the period begins counts the days until it does.
RemainingUncapped(start, end, changeAt) == Greater(end - changeAt, 0)

\* What is left of a period, whether the change comes before, in or after it.
Remaining(start, end, changeAt) ==
  Lesser(Greater(end - changeAt, 0), end - start)

\* The unused part of the old arrangement is credited and the same part of the
\* new one charged, each rounded on its own.
Prorated(start, end, changeAt, current, new) ==
  LET remaining == Remaining(start, end, changeAt)
  IN ScaleMoney(new, remaining, end - start)
       - ScaleMoney(current, remaining, end - start)

\* Added seats alone are charged for; the seats there were are left as they are.
SeatsProrated(start, end, changeAt, unitAmount, from, to) ==
  Prorated(start, end, changeAt, 0, unitAmount * (to - from))
=============================================================================
