---------------------------- MODULE PlansProofs ----------------------------
(***************************************************************************)
(* What Plans keeps for every calendar, price list and number of changes,  *)
(* and the lemmas about calendars and rounding it rests on.                *)
(***************************************************************************)
EXTENDS Plans, FiniteSetTheorems, TLAPS

(* The calendar.                                                           *)

\* Every set of naturals has a least member: the intervals below its members
\* are finite sets, and strict inclusion of finite sets is well founded.
LEMMA LeastNatural ==
  ASSUME NEW T, T \subseteq Nat, T # {}
  PROVE  \E x \in T : \A y \in T : x <= y
<1> DEFINE Below == {0..n : n \in T}
<1>1. Below \subseteq FiniteSubsetsOf(Nat)
  <2>1. ASSUME NEW n \in T PROVE 0..n \subseteq Nat /\ IsFiniteSet(0..n)
    BY FS_Interval
  <2> QED BY <2>1 DEF FiniteSubsetsOf
<1>2. Below # {}
  OBVIOUS
<1>3. \E x \in Below : \A y \in Below : <<y, x>> \notin StrictSubsetOrdering(Nat)
  <2> HIDE DEF Below
  <2> QED BY <1>1, <1>2, FS_StrictSubsetOrderingWellFounded, WFMin
<1>4. PICK x \in T : \A y \in T : <<0..y, 0..x>> \notin StrictSubsetOrdering(Nat)
  BY <1>3
<1>5. ASSUME NEW y \in T, y < x PROVE FALSE
  <2>1. x \in 0..x /\ x \notin 0..y
    BY <1>5
  <2>2. 0..y \subseteq 0..x /\ 0..y # 0..x /\ 0..y \subseteq Nat /\ 0..x \subseteq Nat
    BY <1>5, <2>1
  <2> QED BY <2>2, <1>4 DEF StrictSubsetOrdering
<1> QED BY <1>4, <1>5

LEMMA FirstDayIsDay == \A m \in 1..Len(FirstDay) : FirstDay[m] \in Nat
  BY CalendarAssumption

LEMMA MonthsBound ==
  /\ Len(FirstDay) \in Nat
  /\ \A m \in Months : /\ m \in 1..Len(FirstDay) /\ m + 1 \in 1..Len(FirstDay)
                       /\ FirstDay[m] \in Nat /\ FirstDay[m + 1] \in Nat
                       /\ FirstDay[m] < FirstDay[m + 1]
<1>1. Len(FirstDay) \in Nat
  BY CalendarAssumption
<1>2. ASSUME NEW m \in Months
      PROVE  /\ m \in 1..Len(FirstDay) /\ m + 1 \in 1..Len(FirstDay)
             /\ FirstDay[m] < FirstDay[m + 1]
  <2>1. m \in 1..Len(FirstDay) /\ m + 1 \in 1..Len(FirstDay) /\ m < m + 1
    BY <1>1 DEF Months
  <2> QED BY <2>1, CalendarAssumption
<1> QED BY <1>1, <1>2, FirstDayIsDay

\* Every day of the calendar is in one of its months.
LEMMA DayHasMonth ==
  ASSUME NEW d \in Days
  PROVE  \E m \in Months : FirstDay[m] <= d /\ d < FirstDay[m + 1]
<1> DEFINE Later == {m \in 1..Len(FirstDay) : d < FirstDay[m]}
<1>1. Later \subseteq Nat /\ Len(FirstDay) \in Later
  BY MonthsBound, CalendarAssumption DEF Days
<1>2. PICK x \in Later : \A y \in Later : x <= y
  <2> HIDE DEF Later
  <2> QED BY <1>1, LeastNatural
<1>3. x \in 1..Len(FirstDay) /\ x # 1 /\ d < FirstDay[x]
  BY <1>2, MonthsBound, FirstDayIsDay DEF Days
<1>4. x - 1 \in Months /\ (x - 1) + 1 = x /\ x - 1 \in 1..Len(FirstDay)
  BY <1>3, MonthsBound DEF Months
<1>5. x - 1 \notin Later
  <2> HIDE DEF Later
  <2> QED BY <1>2, <1>3, <1>4
<1>6. FirstDay[x - 1] <= d
  BY <1>4, <1>5, FirstDayIsDay DEF Days
<1> QED BY <1>3, <1>4, <1>6

LEMMA MonthOfDay ==
  ASSUME NEW d \in Days
  PROVE  MonthOf(d) \in Months /\ FirstDay[MonthOf(d)] <= d /\ d < FirstDay[MonthOf(d) + 1]
  BY DayHasMonth DEF MonthOf

\* And in no other.
LEMMA MonthIsUnique ==
  ASSUME NEW d \in Days, NEW m \in Months, FirstDay[m] <= d, d < FirstDay[m + 1]
  PROVE  MonthOf(d) = m
<1> DEFINE n == MonthOf(d)
<1>1. n \in Months /\ FirstDay[n] <= d /\ d < FirstDay[n + 1]
  BY MonthOfDay
<1> HIDE DEF n
<1>2. \A i, j \in 1..Len(FirstDay) : i < j => FirstDay[i] < FirstDay[j]
  BY CalendarAssumption
<1>3. \A i, j \in 1..Len(FirstDay) : i <= j => FirstDay[i] <= FirstDay[j]
  BY <1>2, FirstDayIsDay, MonthsBound
<1>4. d \in Nat /\ m \in Int /\ n \in Int
  BY <1>1 DEF Days, Months
<1>5. ASSUME n < m PROVE FALSE
  <2>1. FirstDay[n + 1] <= FirstDay[m]
    BY <1>1, <1>3, <1>4, <1>5, MonthsBound
  <2> QED BY <2>1, <1>1, <1>4, MonthsBound
<1>6. ASSUME m < n PROVE FALSE
  <2>1. FirstDay[m + 1] <= FirstDay[n]
    BY <1>1, <1>3, <1>4, <1>6, MonthsBound
  <2> QED BY <2>1, <1>1, <1>4, MonthsBound
<1>7. n = m
  BY <1>4, <1>5, <1>6
<1> QED BY <1>7 DEF n

-----------------------------------------------------------------------------
(* Billing days.                                                           *)

\* d is the billing day of its month, or the month's last day for want of one.
OnAnchor(d, anchor) == d = AnchorDay(MonthOf(d), anchor)

\* The anchor's day of a month is a day of that month.
LEMMA AnchorInMonth ==
  ASSUME NEW m \in Months, NEW a \in Nat \ {0}
  PROVE  /\ AnchorDay(m, a) \in Days /\ MonthOf(AnchorDay(m, a)) = m
         /\ FirstDay[m] <= AnchorDay(m, a) /\ AnchorDay(m, a) < FirstDay[m + 1]
<1> DEFINE d == AnchorDay(m, a)
<1>1. d \in Nat /\ FirstDay[m] <= d /\ d < FirstDay[m + 1]
  BY MonthsBound DEF AnchorDay, DaysInMonth, Lesser
<1>2. 1 \in 1..Len(FirstDay) /\ Len(FirstDay) \in 1..Len(FirstDay)
  BY CalendarAssumption, MonthsBound
<1>3. FirstDay[1] <= FirstDay[m] /\ FirstDay[m + 1] <= FirstDay[Len(FirstDay)]
  <2>1. /\ m \in 1..Len(FirstDay) /\ (1 = m \/ 1 < m)
        /\ m + 1 \in 1..Len(FirstDay) /\ (m + 1 = Len(FirstDay) \/ m + 1 < Len(FirstDay))
    BY MonthsBound DEF Months
  <2>2. \A i, j \in 1..Len(FirstDay) : i < j => FirstDay[i] < FirstDay[j]
    BY CalendarAssumption
  <2>3. \A i, j \in 1..Len(FirstDay) : i = j \/ i < j => FirstDay[i] <= FirstDay[j]
    BY <2>2, FirstDayIsDay
  <2> QED BY <1>2, <2>1, <2>3
<1>4. d \in Days
  BY <1>1, <1>2, <1>3, MonthsBound, FirstDayIsDay DEF Days
<1> HIDE DEF d
<1>5. MonthOf(d) = m
  BY <1>1, <1>4, MonthIsUnique
<1> QED BY <1>1, <1>4, <1>5 DEF d

LEMMA OwnDay ==
  ASSUME NEW d \in Days
  PROVE  DayOf(d) \in Nat \ {0} /\ OnAnchor(d, DayOf(d))
<1> DEFINE m == MonthOf(d)
<1>1. m \in Months /\ FirstDay[m] <= d /\ d < FirstDay[m + 1]
  BY MonthOfDay
<1> HIDE DEF m
<1>2. d - FirstDay[m] + 1 \in Nat \ {0} /\ d = AnchorDay(m, d - FirstDay[m] + 1)
  BY <1>1, MonthsBound DEF Days, AnchorDay, DaysInMonth, Lesser
<1> QED BY <1>2 DEF m, DayOf, OnAnchor

\* An interval leads to a later day of the calendar, and a monthly one to the
\* billing day (addInterval, addMonths).
THEOREM IntervalAdvances ==
  ASSUME NEW d \in Days, NEW i \in Interval, NEW a \in Nat \ {0}, WithinCalendar(d, i)
  PROVE  /\ AddInterval(d, i, a) \in Days /\ d < AddInterval(d, i, a)
         /\ i.unit = "MONTH" => OnAnchor(AddInterval(d, i, a), a)
<1>1. i.count \in Nat \ {0} /\ i.unit \in {"DAY", "MONTH"} /\ d \in Nat
  BY DEF Interval, Days
<1>2. CASE i.unit = "DAY"
  BY <1>1, <1>2 DEF AddInterval, WithinCalendar, Days
<1>3. CASE i.unit = "MONTH"
  <2> DEFINE m == MonthOf(d)
             n == m + i.count
             e == AnchorDay(n, a)
  <2>1. m \in Months /\ FirstDay[m] <= d /\ d < FirstDay[m + 1]
    BY MonthOfDay
  <2>2. n \in Months
    BY <1>3 DEF WithinCalendar
  <2>3. AddInterval(d, i, a) = e
    BY <1>3 DEF AddInterval, AddMonths
  <2> HIDE DEF m
  <2>4. n \in Months /\ m + 1 <= n
    BY <1>1, <2>1, <2>2 DEF Months
  <2> HIDE DEF n
  <2>5. e \in Days /\ MonthOf(e) = n /\ FirstDay[n] <= e
    BY <2>4, AnchorInMonth
  <2>6. FirstDay[m + 1] <= FirstDay[n]
    <3>1. m + 1 \in 1..Len(FirstDay) /\ n \in 1..Len(FirstDay) /\ (m + 1 = n \/ m + 1 < n)
      BY <2>1, <2>4, MonthsBound DEF Months
    <3>2. \A k, l \in 1..Len(FirstDay) : k < l => FirstDay[k] < FirstDay[l]
      BY CalendarAssumption
    <3> QED BY <3>1, <3>2, FirstDayIsDay
  <2>7. d < e
    BY <1>1, <2>1, <2>4, <2>5, <2>6, MonthsBound DEF Days
  <2>8. OnAnchor(e, a)
    BY <2>5 DEF OnAnchor
  <2> QED BY <2>3, <2>5, <2>7, <2>8
<1> QED BY <1>1, <1>2, <1>3

\* Months add up: however a stretch is divided into periods, it ends on the same day,
\* short months on the way or not, as long as the anchor is kept (addMonths).
THEOREM MonthsAddUp ==
  ASSUME NEW d \in Days, NEW m \in Nat \ {0}, NEW n \in Nat \ {0}, NEW a \in Nat \ {0},
         MonthOf(d) + m \in Months
  PROVE  AddMonths(AddMonths(d, m, a), n, a) = AddMonths(d, m + n, a)
<1>1. MonthOf(AddMonths(d, m, a)) = MonthOf(d) + m
  BY AnchorInMonth DEF AddMonths
<1>2. MonthOf(d) \in Int
  BY MonthOfDay DEF Months
<1>3. (MonthOf(d) + m) + n = MonthOf(d) + (m + n)
  BY <1>2
<1> QED BY <1>1, <1>3 DEF AddMonths

-----------------------------------------------------------------------------
(* Money.                                                                  *)

\* Rounding to the nearest unit is off by half a unit at most (divideRounded).
LEMMA RoundingError ==
  ASSUME NEW n \in Nat, NEW d \in Nat \ {0}
  PROVE  /\ DivideRounded(n, d) \in Nat
         /\ 2 * (DivideRounded(n, d) * d - n) <= d
         /\ -d < 2 * (DivideRounded(n, d) * d - n)
<1> DEFINE q == n \div d
           r == n % d
<1>1. q \in Nat /\ r \in Nat /\ r < d /\ n = d * q + r
  OBVIOUS
<1> HIDE DEF q, r
<1>2. DivideRounded(n, d) = IF 2 * r >= d THEN q + 1 ELSE q
  BY DEF DivideRounded, q, r
<1>3. (q + 1) * d = d * q + d /\ q * d = d * q /\ d * q \in Nat
  BY <1>1
<1>4. CASE 2 * r >= d
  <2>1. DivideRounded(n, d) * d - n = d - r
    BY <1>1, <1>2, <1>3, <1>4
  <2> QED BY <1>1, <1>2, <1>4, <2>1
<1>5. CASE ~(2 * r >= d)
  <2>1. DivideRounded(n, d) * d - n = -r
    BY <1>1, <1>2, <1>3, <1>5
  <2> QED BY <1>1, <1>2, <1>5, <2>1
<1> QED BY <1>4, <1>5

LEMMA RemainingBound ==
  ASSUME NEW s \in Nat, NEW e \in Nat, NEW t \in Nat, s < e
  PROVE  Remaining(s, e, t) \in 0..(e - s)
  BY DEF Remaining, Lesser, Greater

\* A proration is what the new arrangement is worth over the rest of the period,
\* less what the old one is, to within a unit.
THEOREM ProrationIsExact ==
  ASSUME NEW s \in Nat, NEW e \in Nat, NEW t \in Nat, s < e,
         NEW current \in Nat, NEW new \in Nat
  PROVE  LET net == Prorated(s, e, t, current, new)
             length == e - s
             error == net * length - (new - current) * Remaining(s, e, t)
         IN net \in Int /\ -length <= error /\ error <= length
<1> DEFINE length == e - s
           rest == Remaining(s, e, t)
           charge == DivideRounded(new * rest, length)
           credit == DivideRounded(current * rest, length)
<1>1. length \in Nat \ {0} /\ rest \in Nat
  BY RemainingBound
<1>2. Prorated(s, e, t, current, new) = charge - credit
  BY DEF Prorated, ScaleMoney
<1> HIDE DEF length, rest
<1>3. new * rest \in Nat /\ current * rest \in Nat
  BY <1>1
<1>4. /\ charge \in Nat /\ 2 * (charge * length - new * rest) <= length
      /\ -length <= 2 * (charge * length - new * rest)
  BY <1>1, <1>3, RoundingError
<1>5. /\ credit \in Nat /\ 2 * (credit * length - current * rest) <= length
      /\ -length <= 2 * (credit * length - current * rest)
  BY <1>1, <1>3, RoundingError
<1> HIDE DEF charge, credit
<1>6. /\ (charge - credit) * length = charge * length - credit * length
      /\ (new - current) * rest = new * rest - current * rest
  BY <1>1, <1>4, <1>5
<1>7. charge * length \in Int /\ credit * length \in Int
  BY <1>1, <1>4, <1>5
<1>8. LET error == (charge - credit) * length - (new - current) * rest
      IN -length <= error /\ error <= length
  BY <1>1, <1>3, <1>4, <1>5, <1>6, <1>7
<1> QED BY <1>2, <1>4, <1>5, <1>8 DEF length, rest

\* Rounding keeps order, so an upgrade is never paid out for.
LEMMA RoundingKeepsOrder ==
  ASSUME NEW n \in Nat, NEW m \in Nat, NEW d \in Nat \ {0}, n <= m
  PROVE  DivideRounded(n, d) <= DivideRounded(m, d)
<1> DEFINE p == DivideRounded(n, d)
           q == DivideRounded(m, d)
<1>1. p \in Nat /\ 2 * (p * d - n) <= d
  BY RoundingError
<1>2. q \in Nat /\ -d < 2 * (q * d - m)
  BY RoundingError
<1> HIDE DEF p, q
<1>3. ASSUME q + 1 <= p PROVE FALSE
  <2>1. p * d = (q + 1) * d + (p - (q + 1)) * d /\ (q + 1) * d = q * d + d
    BY <1>1, <1>2
  <2>2. (p - (q + 1)) * d \in Nat
    <3>1. p - (q + 1) \in Nat
      BY <1>1, <1>2, <1>3
    <3> QED BY <3>1
  <2>3. q * d \in Nat /\ p * d \in Nat
    BY <1>1, <1>2
  <2> QED BY <1>1, <1>2, <2>1, <2>2, <2>3
<1>4. p <= q
  BY <1>1, <1>2, <1>3
<1> QED BY <1>4 DEF p, q

\* A change to what costs more is never paid out for, and to what costs less never
\* charged for, on any day of any period (calculateProration).
THEOREM UpgradesAreNeverCredited ==
  ASSUME NEW s \in Nat, NEW e \in Nat, NEW t \in Nat, s < e,
         NEW low \in Nat, NEW high \in Nat, low <= high
  PROVE  0 <= Prorated(s, e, t, low, high) /\ Prorated(s, e, t, high, low) <= 0
<1> DEFINE length == e - s
           rest == Remaining(s, e, t)
<1>1. length \in Nat \ {0} /\ rest \in Nat
  BY RemainingBound
<1>2. /\ Prorated(s, e, t, low, high)
           = DivideRounded(high * rest, length) - DivideRounded(low * rest, length)
      /\ Prorated(s, e, t, high, low)
           = DivideRounded(low * rest, length) - DivideRounded(high * rest, length)
  BY DEF Prorated, ScaleMoney
<1> HIDE DEF length, rest
<1>3. high * rest \in Nat /\ low * rest \in Nat /\ low * rest <= high * rest
  <2>1. high * rest = low * rest + (high - low) * rest
    BY <1>1
  <2>2. high - low \in Nat
    OBVIOUS
  <2>3. (high - low) * rest \in Nat /\ low * rest \in Nat
    BY <1>1, <2>2
  <2> QED BY <2>1, <2>3
<1>4. /\ DivideRounded(low * rest, length) <= DivideRounded(high * rest, length)
      /\ DivideRounded(low * rest, length) \in Nat
      /\ DivideRounded(high * rest, length) \in Nat
  BY <1>1, <1>3, RoundingKeepsOrder, RoundingError
<1> QED BY <1>2, <1>4

\* A change on the first day of a period or before it exchanges one full price for
\* the other, and one on its last instant or after it costs nothing.
THEOREM ProrationAtTheEdges ==
  ASSUME NEW s \in Nat, NEW e \in Nat, NEW t \in Nat, s < e,
         NEW current \in Nat, NEW new \in Nat
  PROVE  /\ t <= s => Prorated(s, e, t, current, new) = new - current
         /\ e <= t => Prorated(s, e, t, current, new) = 0
<1>1. ASSUME NEW n \in Nat, NEW d \in Nat \ {0}
      PROVE  DivideRounded(n * d, d) = n /\ DivideRounded(n * 0, d) = 0
  <2> DEFINE p == DivideRounded(n * d, d)
  <2>1. n * d \in Nat
    BY <1>1
  <2>2. p \in Nat /\ 2 * (p * d - n * d) <= d /\ -d < 2 * (p * d - n * d)
    BY <1>1, <2>1, RoundingError
  <2> HIDE DEF p
  <2>3. p * d - n * d = (p - n) * d /\ p - n \in Int
    BY <1>1, <2>2
  <2>4. ASSUME p - n >= 1 PROVE FALSE
    <3>1. (p - n) * d = d + (p - n - 1) * d
      BY <1>1, <2>3
    <3>2. p - n - 1 \in Nat
      BY <2>3, <2>4
    <3>3. (p - n - 1) * d \in Nat
      BY <1>1, <3>2
    <3> QED BY <1>1, <2>2, <2>3, <3>1, <3>3
  <2>5. ASSUME p - n <= -1 PROVE FALSE
    <3>1. (n - p) * d = d + (n - p - 1) * d /\ (p - n) * d = -((n - p) * d)
      BY <1>1, <2>2
    <3>2. n - p - 1 \in Nat
      BY <1>1, <2>2, <2>5
    <3>3. (n - p - 1) * d \in Nat
      BY <1>1, <3>2
    <3> QED BY <1>1, <2>2, <2>3, <3>1, <3>3
  <2>6. p = n
    BY <1>1, <2>2, <2>3, <2>4, <2>5
  <2>7. DivideRounded(n * 0, d) = 0
    BY <1>1 DEF DivideRounded
  <2> QED BY <2>6, <2>7 DEF p
<1>2. e - s \in Nat \ {0}
  OBVIOUS
<1>3. ASSUME t <= s PROVE Prorated(s, e, t, current, new) = new - current
  <2>1. Remaining(s, e, t) = e - s
    BY <1>3 DEF Remaining, Lesser, Greater
  <2> QED BY <1>1, <1>2, <2>1 DEF Prorated, ScaleMoney
<1>4. ASSUME e <= t PROVE Prorated(s, e, t, current, new) = 0
  <2>1. Remaining(s, e, t) = 0
    BY <1>4 DEF Remaining, Lesser, Greater
  <2>2. DivideRounded(current * 0, e - s) = 0 /\ DivideRounded(new * 0, e - s) = 0
    BY <1>1, <1>2
  <2> QED BY <2>1, <2>2 DEF Prorated, ScaleMoney
<1> QED BY <1>3, <1>4

-----------------------------------------------------------------------------
(* The inductive invariant, in parts.                                      *)

Spendings == [changes : 0..MaxChanges, edits : 0..MaxEdits, lapses : 0..MaxLapses]

\* What the rows and the transactions in flight hold beyond their types.
RowsOK ==
  /\ sub.start \in Days /\ sub.end \in Days /\ sub.anchor # 0
  /\ change.doing # "idle" => spent.changes > 0
  /\ change.doing = "plan" => change.price \in 1..made
  /\ renewal.doing = "renew" =>
       /\ renewal.start \in Days /\ renewal.end \in Days /\ renewal.start < renewal.end
       /\ renewal.overtaken \/ renewal.start = sub.end
       /\ renewal.price <= made
  /\ recovery.doing = "recover" =>
       /\ recovery.start \in Days /\ recovery.end \in Days
       /\ recovery.start < recovery.end /\ recovery.anchor # 0
  /\ edit.doing # "idle" => edit.price \in 1..made
  /\ edit.doing = "version" => made < MaxPrices

\* What the subscription will hold once the transactions in flight commit.
AnchorAhead == IF renewal.anchor = 0 THEN sub.anchor ELSE renewal.anchor
PriceAhead == IF renewal.price = 0 THEN sub.price ELSE renewal.price

\* The row keeps the billing day, and either end of the period is where the trial
\* ended or on it.
RowOnDay ==
  day # 0 =>
    /\ sub.anchor = day
    /\ sub.start = sub.trialEnd \/ OnAnchor(sub.start, day)
    /\ sub.end = sub.trialEnd \/ OnAnchor(sub.end, day)

\* A renewal in flight ends its period on the day it brings, or else on the row's.
RenewalOnDay ==
  renewal.doing = "renew" /\ ~renewal.overtaken =>
    /\ renewal.anchor # 0 => /\ OnAnchor(renewal.end, renewal.anchor)
                             /\ renewal.anchor = DayOf(renewal.start)
    /\ renewal.anchor = 0 /\ day # 0 => OnAnchor(renewal.end, day)

RecoveryOnDay ==
  recovery.doing = "recover" =>
    OnAnchor(recovery.start, recovery.anchor) /\ OnAnchor(recovery.end, recovery.anchor)

\* While every price has been monthly.
BillingDayOK ==
  monthly => /\ price[sub.price].interval.unit = "MONTH"
             /\ RowOnDay /\ RenewalOnDay /\ RecoveryOnDay

\* Transactions that never overlapped are at most one.
OneAtATime ==
  /\ change.doing = "idle" \/ renewal.doing = "idle"
  /\ change.doing = "idle" \/ edit.doing = "idle"
  /\ renewal.doing = "idle" \/ edit.doing = "idle"
  /\ recovery.doing = "idle"
       \/ (change.doing = "idle" /\ renewal.doing = "idle" /\ edit.doing = "idle")

\* An edit in place is of a price nobody is bound to, and a renewal moves to a
\* version of the same interval.
IntervalOK ==
  ~overlapped =>
    /\ OneAtATime
    /\ sub.status # "CANCELED" => price[sub.price].interval = agreed
    /\ edit.doing = "in_place" => ~Bound(edit.price)
    /\ renewal.doing = "renew" =>
         price[PriceAhead].interval = price[sub.price].interval

\* What the change in flight makes of the rate.
PriceChosen == IF change.doing = "plan" THEN change.price ELSE sub.price
RateAhead == RecurringAmount(price[PriceChosen], change.quantity)

Length == sub.end - sub.start
Uninvoiced == IF change.doing = "idle" THEN 0 ELSE 1
Difference == ledger.invoiced * Length - (ledger.held + Rate * DaysLeft(sub))

\* The period's account is right to within a unit for each change committed, and
\* what is in flight is worth what it will invoice.
AccountOK ==
  ~overlapped =>
    /\ sub.status = "CANCELED" => ledger.mixed /\ renewal.doing = "idle"
    /\ ~ledger.mixed =>
         LET changes == spent.changes - Uninvoiced
         IN -(changes * Length) <= Difference /\ Difference <= changes * Length
    /\ change.doing # "idle" =>
         LET error == change.net * Length - (RateAhead - Rate) * DaysLeft(sub)
         IN -Length <= error /\ error <= Length
    /\ renewal.doing = "renew" =>
         renewal.amount = RecurringAmount(price[PriceAhead], sub.quantity)

IInv == TypeOK /\ RowsOK /\ BillingDayOK /\ IntervalOK /\ AccountOK

-----------------------------------------------------------------------------
(* Helpers.                                                                *)

LEMMA DaysAreNat == \A d \in Days : d \in Nat
  BY DEF Days

LEMMA CatalogueOK ==
  /\ MaxPrices \in Nat /\ 1 \in Prices /\ Len(Catalogue) \in Prices
  /\ Len(Catalogue) \in Nat /\ Len(Catalogue) > 0
  /\ \A p \in 1..Len(Catalogue) : p \in Prices /\ Catalogue[p] \in PriceRow
  /\ Catalogue[1].interval \in Interval /\ NoPrice \in PriceRow
<1>1. /\ MaxPrices \in Nat /\ 1 \in Prices /\ Len(Catalogue) \in Prices
      /\ Len(Catalogue) \in Nat /\ Len(Catalogue) > 0
      /\ \A p \in 1..Len(Catalogue) : p \in Prices
  BY PlansAssumption DEF Prices
<1>2. \A p \in 1..Len(Catalogue) : Catalogue[p] \in PriceRow
  BY CatalogueAssumption
<1>3. Catalogue[1].interval \in Interval
  BY <1>1, <1>2 DEF PriceRow
<1>4. NoPrice \in PriceRow
  BY <1>1, <1>3 DEF NoPrice, PriceRow, OptionalPrice
<1> QED BY <1>1, <1>2, <1>3, <1>4

LEMMA RecurringIsNat ==
  ASSUME NEW row \in PriceRow, NEW q \in Nat
  PROVE  RecurringAmount(row, q) \in Nat
<1>1. row.amount \in Nat
  BY DEF PriceRow
<1>2. row.amount * q \in Nat
  BY <1>1
<1> QED BY <1>1, <1>2 DEF RecurringAmount

\* Every field of the rows, once and for all.
LEMMA FieldsOK ==
  ASSUME TypeOK, RowsOK
  PROVE  /\ today \in Nat /\ made \in Nat /\ made > 0 /\ made <= MaxPrices
         /\ sub.price \in Prices /\ sub.price \in 1..made /\ sub.quantity \in Nat
         /\ sub.start \in Nat /\ sub.end \in Nat /\ sub.anchor \in Nat \ {0}
         /\ sub.start < sub.end
         /\ \A p \in 1..made : p \in Prices
         /\ \A p \in Prices : /\ price[p] \in PriceRow /\ price[p].interval \in Interval
                              /\ price[p].amount \in Nat
<1>1. /\ today \in Nat /\ made \in Nat /\ made > 0 /\ made <= MaxPrices
      /\ sub.price \in Prices /\ sub.price \in 1..made /\ sub.quantity \in Nat
      /\ sub.start \in Nat /\ sub.end \in Nat /\ sub.anchor \in Nat \ {0}
      /\ sub.start < sub.end
      /\ \A p \in 1..made : p \in Prices
  BY CatalogueOK DEF TypeOK, RowsOK, SubscriptionRow, Prices, Days
<1>2. \A p \in Prices : price[p] \in PriceRow
  BY DEF TypeOK
<1> QED BY <1>1, <1>2 DEF PriceRow

\* The price a renewal bills at is on the list, and is paid as often.
LEMMA BillingPricesOK ==
  ASSUME TypeOK, RowsOK, NEW p \in BillingPrices
  PROVE  /\ p \in 1..made /\ p \in Prices /\ price[p] \in PriceRow
         /\ price[p].interval \in Interval
         /\ price[p].interval = price[sub.price].interval
<1>1. p = sub.price \/ (p \in 1..made /\ CanRollForward(sub.price, p))
  BY DEF BillingPrices, CurrentPrices
<1> QED BY <1>1, FieldsOK DEF CanRollForward

LEMMA NextAnchorOK ==
  ASSUME TypeOK, RowsOK
  PROVE  NextAnchor \in Nat \ {0}
  BY FieldsOK, OwnDay DEF NextAnchor, RowsOK

LEMMA RevisedOK ==
  ASSUME TypeOK, NEW row \in PriceRow
  PROVE  /\ Revised(row) \in PriceRow
         /\ \A b \in BOOLEAN, p \in OptionalPrice :
              [Revised(row) EXCEPT !.active = b, !.supersedes = p] \in PriceRow
<1>1. edit.amount \in Nat /\ edit.interval \in Interval
  BY DEF TypeOK
<1>2. Revised(row) \in PriceRow
  BY <1>1 DEF Revised, PriceRow
<1> QED BY <1>2 DEF PriceRow

-----------------------------------------------------------------------------
(* Typing.                                                                 *)

LEMMA InitTyped == Init => TypeOK /\ RowsOK
<1> SUFFICES ASSUME Init PROVE TypeOK /\ RowsOK
  OBVIOUS
<1>1. PICK p \in 1..Len(Catalogue), q \in Quantities, trial \in TrialLengths :
        LET row == Catalogue[p]
            end == IF trial > 0 THEN SignUp + trial
                   ELSE AddInterval(SignUp, row.interval, DayOf(SignUp))
        IN /\ sub = [status |-> IF trial > 0 THEN "TRIALING" ELSE "ACTIVE",
                     price |-> p, quantity |-> q, start |-> SignUp, end |-> end,
                     anchor |-> DayOf(SignUp),
                     trialEnd |-> IF trial > 0 THEN end ELSE 0, pinned |-> FALSE,
                     scheduled |-> FALSE]
           /\ ledger = Opened(sub, RecurringAmount(row, q))
           /\ agreed = row.interval /\ day = DayOf(SignUp)
           /\ monthly = (row.interval.unit = "MONTH")
  BY DEF Init
<1> DEFINE row == Catalogue[p]
           end == IF trial > 0 THEN SignUp + trial
                  ELSE AddInterval(SignUp, row.interval, DayOf(SignUp))
<1>2. SignUp \in Days /\ SignUp \in Nat /\ q \in Nat /\ trial \in Nat /\ SignUp + trial \in Days
  BY PlansAssumption DEF Days
<1>3. row \in PriceRow /\ row.interval \in Interval /\ WithinCalendar(SignUp, row.interval)
  BY CatalogueOK, CatalogueAssumption DEF PriceRow
<1>4. DayOf(SignUp) \in Nat \ {0}
  BY <1>2, OwnDay
<1>5. end \in Days /\ SignUp < end
  <2>1. CASE trial > 0
    BY <1>2, <2>1
  <2>2. CASE ~(trial > 0)
    <3>1. end = AddInterval(SignUp, row.interval, DayOf(SignUp))
      BY <2>2
    <3> HIDE DEF end, row
    <3> QED BY <1>2, <1>3, <1>4, <3>1, IntervalAdvances
  <2> QED BY <2>1, <2>2
<1>6. sub = [status |-> IF trial > 0 THEN "TRIALING" ELSE "ACTIVE",
             price |-> p, quantity |-> q, start |-> SignUp, end |-> end,
             anchor |-> DayOf(SignUp),
             trialEnd |-> IF trial > 0 THEN end ELSE 0, pinned |-> FALSE,
             scheduled |-> FALSE]
  BY <1>1
<1>7. ledger = Opened(sub, RecurringAmount(row, q)) /\ agreed = row.interval
      /\ monthly = (row.interval.unit = "MONTH") /\ day = DayOf(SignUp)
  BY <1>1
<1>8. p \in Prices /\ p <= Len(Catalogue)
  BY CatalogueOK
<1> HIDE DEF end, row
<1>9. sub \in SubscriptionRow
  BY <1>2, <1>4, <1>5, <1>6, <1>8, DaysAreNat DEF SubscriptionRow
<1>10. today \in Days /\ today = SignUp
  BY <1>2 DEF Init
<1>11. ledger \in [invoiced : Int, held : Nat, mixed : BOOLEAN]
  <2>1. RecurringAmount(row, q) \in Nat
    BY <1>2, <1>3, RecurringIsNat
  <2>2. DaysGone(sub) \in Nat
    BY <1>2, <1>5, <1>6, <1>10, DaysAreNat DEF DaysGone, Lesser, Greater
  <2>3. RecurringAmount(row, q) * DaysGone(sub) \in Nat
    BY <2>1, <2>2
  <2> QED BY <1>7, <2>1, <2>3 DEF Opened
<1>12. price \in [Prices -> PriceRow]
  BY CatalogueOK DEF Init, Prices
<1>13. made \in Prices /\ sub.price <= made /\ sub.start < sub.end
  BY CatalogueOK, <1>5, <1>6, <1>8 DEF Init
<1>14. /\ owed \in BOOLEAN /\ overlapped \in BOOLEAN /\ monthly \in BOOLEAN
       /\ spent \in Spendings
       /\ agreed \in Interval /\ day \in Nat
  <2>1. owed \in BOOLEAN /\ overlapped \in BOOLEAN
    BY DEF Init
  <2>2. monthly \in BOOLEAN
    BY <1>7
  <2>3. spent \in Spendings
    BY PlansAssumption DEF Init, Spendings
  <2> QED BY <1>3, <1>4, <1>7, <2>1, <2>2, <2>3
<1>15. /\ change \in [doing : {"idle", "plan", "seats"}, price : OptionalPrice,
                      quantity : Nat, net : Int]
       /\ renewal \in [doing : {"idle", "renew"}, start : Nat, end : Nat, anchor : Nat,
                       price : OptionalPrice, amount : Nat, overtaken : BOOLEAN]
       /\ recovery \in [doing : {"idle", "recover"}, start : Nat, end : Nat, anchor : Nat]
       /\ edit \in [doing : {"idle", "in_place", "version"}, price : OptionalPrice,
                    amount : Nat, interval : Interval]
  BY CatalogueOK DEF Init, NoChange, NoRenewal, NoRecovery, NoEdit, OptionalPrice
<1>16. TypeOK
  BY <1>9, <1>10, <1>11, <1>12, <1>13, <1>14, <1>15 DEF TypeOK, Spendings
<1>17. RowsOK
  BY <1>2, <1>4, <1>5, <1>6 DEF Init, RowsOK, NoChange, NoRenewal, NoRecovery, NoEdit
<1> QED BY <1>16, <1>17

LEMMA SpentCounts ==
  ASSUME TypeOK
  PROVE  /\ spent.changes < MaxChanges =>
              LET more == [spent EXCEPT !.changes = @ + 1]
              IN /\ more \in Spendings
                 /\ more.changes = spent.changes + 1 /\ more.changes > 0
         /\ spent.edits < MaxEdits =>
              LET more == [spent EXCEPT !.edits = @ + 1]
              IN /\ more \in Spendings
                 /\ more.changes = spent.changes
         /\ spent.lapses < MaxLapses =>
              LET more == [spent EXCEPT !.lapses = @ + 1]
              IN /\ more \in Spendings
                 /\ more.changes = spent.changes
<1>1. spent \in Spendings
  BY DEF TypeOK, Spendings
<1>2. /\ spent.changes \in Nat /\ spent.edits \in Nat /\ spent.lapses \in Nat
      /\ MaxChanges \in Nat /\ MaxEdits \in Nat /\ MaxLapses \in Nat
  BY <1>1, PlansAssumption DEF Spendings
<1> QED BY <1>1, <1>2 DEF Spendings

\* A change is read under the types it will be committed under.
LEMMA BeginChangeTyped ==
  ASSUME TypeOK, RowsOK, NEW c, BeginChange(c),
         c \in [doing : {"plan", "seats"}, price : OptionalPrice, quantity : Nat, net : Int],
         c.doing = "plan" => c.price \in 1..made
  PROVE  TypeOK' /\ RowsOK'
<1>1. spent' \in Spendings /\ spent'.changes > 0
  BY SpentCounts DEF BeginChange
<1>2. overlapped' \in BOOLEAN
  BY DEF BeginChange, Begins, TypeOK, Idle
<1>3. TypeOK'
  BY <1>1, <1>2 DEF TypeOK, Spendings, BeginChange, rows, history
<1>4. RowsOK'
  BY <1>1 DEF RowsOK, BeginChange, rows, history
<1> QED BY <1>3, <1>4

LEMMA PlanChangeTyped ==
  ASSUME TypeOK, RowsOK, BeginPlanChange
  PROVE  TypeOK' /\ RowsOK'
<1>1. PICK p \in 1..made, q \in Quantities :
        BeginChange([doing |-> "plan", price |-> p, quantity |-> q,
                     net |-> Prorated(sub.start, sub.end, today, Rate,
                                      RecurringAmount(price[p], q))])
  BY DEF BeginPlanChange
<1>2. q \in Nat /\ p \in OptionalPrice
  BY PlansAssumption, FieldsOK DEF OptionalPrice, Prices
<1>3. Rate \in Nat /\ RecurringAmount(price[p], q) \in Nat
  BY <1>2, FieldsOK, RecurringIsNat DEF Rate
<1>4. Prorated(sub.start, sub.end, today, Rate, RecurringAmount(price[p], q)) \in Int
  BY <1>3, FieldsOK, ProrationIsExact
<1> DEFINE c == [doing |-> "plan", price |-> p, quantity |-> q,
                 net |-> Prorated(sub.start, sub.end, today, Rate,
                                  RecurringAmount(price[p], q))]
<1>5. /\ c \in [doing : {"plan", "seats"}, price : OptionalPrice, quantity : Nat, net : Int]
      /\ c.doing = "plan" => c.price \in 1..made
  BY <1>2, <1>4
<1>6. BeginChange(c)
  BY <1>1
<1> HIDE DEF c
<1> QED BY <1>5, <1>6, BeginChangeTyped

\* What added seats cost is a proration from nothing.
LEMMA SeatsAreProrated ==
  ASSUME TypeOK, RowsOK, NEW q \in Quantities, q > sub.quantity
  PROVE  LET unit == price[sub.price].amount
             new == unit * (q - sub.quantity)
         IN /\ new \in Nat
            /\ SeatsProrated(sub.start, sub.end, today, unit, sub.quantity, q)
                 = Prorated(sub.start, sub.end, today, 0, new)
            /\ SeatsProrated(sub.start, sub.end, today, unit, sub.quantity, q) \in Int
<1> DEFINE unit == price[sub.price].amount
           new == unit * (q - sub.quantity)
<1>1. unit \in Nat /\ q - sub.quantity \in Nat
  BY FieldsOK, PlansAssumption
<1>2. new \in Nat
  BY <1>1
<1>3. SeatsProrated(sub.start, sub.end, today, unit, sub.quantity, q)
        = Prorated(sub.start, sub.end, today, 0, new)
  BY DEF SeatsProrated
<1> HIDE DEF unit, new
<1>4. Prorated(sub.start, sub.end, today, 0, new) \in Int
  BY <1>2, FieldsOK, ProrationIsExact
<1> QED BY <1>2, <1>3, <1>4 DEF unit, new

LEMMA SeatChangeTyped ==
  ASSUME TypeOK, RowsOK, BeginSeatChange
  PROVE  TypeOK' /\ RowsOK'
<1>1. PICK q \in Quantities :
        /\ q > sub.quantity
        /\ BeginChange([doing |-> "seats", price |-> 0, quantity |-> q,
                        net |-> SeatsProrated(sub.start, sub.end, today,
                                  price[sub.price].amount, sub.quantity, q)])
  BY DEF BeginSeatChange
<1> DEFINE c == [doing |-> "seats", price |-> 0, quantity |-> q,
                 net |-> SeatsProrated(sub.start, sub.end, today,
                           price[sub.price].amount, sub.quantity, q)]
<1>2. q \in Nat /\ 0 \in OptionalPrice
  BY PlansAssumption, CatalogueOK DEF OptionalPrice
<1>3. /\ c \in [doing : {"plan", "seats"}, price : OptionalPrice, quantity : Nat, net : Int]
      /\ c.doing # "plan"
  BY <1>1, <1>2, SeatsAreProrated
<1>4. BeginChange(c)
  BY <1>1
<1> HIDE DEF c
<1> QED BY <1>3, <1>4, BeginChangeTyped

LEMMA ChangedTyped ==
  ASSUME TypeOK, RowsOK, change.doing # "idle"
  PROVE  Changed \in SubscriptionRow /\ Changed.price \in 1..made /\ Changed.price \in Prices
         /\ Changed.start = sub.start /\ Changed.end = sub.end /\ Changed.anchor = sub.anchor
         /\ Changed.trialEnd = sub.trialEnd /\ Changed.status = sub.status
         /\ Changed.quantity = change.quantity
         /\ Changed.price = IF change.doing = "plan" THEN change.price ELSE sub.price
<1>1. /\ change.quantity \in Nat
      /\ change.doing = "plan" => change.price \in 1..made /\ change.price \in Prices
      /\ sub.price \in 1..made /\ sub.price \in Prices
  BY FieldsOK DEF TypeOK, RowsOK
<1>2. sub \in SubscriptionRow
  BY DEF TypeOK
<1>3. CASE change.doing = "plan"
  BY <1>1, <1>2, <1>3 DEF Changed, SubscriptionRow
<1>4. CASE change.doing # "plan"
  BY <1>1, <1>2, <1>4 DEF Changed, SubscriptionRow
<1> QED BY <1>3, <1>4

LEMMA CommitChangeTyped ==
  ASSUME TypeOK, RowsOK, CommitChange
  PROVE  TypeOK' /\ RowsOK'
<1>1. /\ Changed \in SubscriptionRow /\ Changed.price \in 1..made /\ Changed.price \in Prices
      /\ Changed.start = sub.start /\ Changed.end = sub.end /\ Changed.anchor = sub.anchor
  BY ChangedTyped DEF CommitChange
<1>2. sub' = Changed /\ change' = NoChange
      /\ UNCHANGED <<today, price, made, renewal, recovery, edit, day, overlapped, spent>>
  BY DEF CommitChange
<1>3. sub' \in SubscriptionRow /\ sub'.price <= made' /\ sub'.start < sub'.end
  BY <1>1, <1>2, FieldsOK
<1>4. owed' \in BOOLEAN /\ agreed' \in Interval /\ monthly' \in BOOLEAN
  <2>1. ChosenInterval \in Interval
    BY FieldsOK DEF ChosenInterval, CommitChange, RowsOK, TypeOK
  <2>2. owed' \in BOOLEAN
    BY DEF TypeOK, CommitChange
  <2>3. monthly' \in BOOLEAN
    BY DEF TypeOK, CommitChange
  <2> QED BY <2>1, <2>2, <2>3 DEF CommitChange
<1>5. ledger' \in [invoiced : Int, held : Nat, mixed : BOOLEAN]
  <2>1. ledger \in [invoiced : Int, held : Nat, mixed : BOOLEAN] /\ change.net \in Int
    BY DEF TypeOK
  <2>2. Closed \in [invoiced : Int, held : Nat, mixed : BOOLEAN]
    BY DEF Closed
  <2>3. \A i \in Int, b \in BOOLEAN : [ledger EXCEPT !.invoiced = i, !.mixed = b]
                                        \in [invoiced : Int, held : Nat, mixed : BOOLEAN]
    BY <2>1
  <2>4. CASE overlapped
    BY <2>2, <2>4 DEF CommitChange
  <2>5. CASE ~overlapped
    <3> DEFINE i == ledger.invoiced + change.net
               b == ledger.mixed \/ ChosenInterval # price[sub.price].interval
    <3>1. i \in Int
      BY <2>1
    <3>2. b \in BOOLEAN
      OBVIOUS
    <3>3. ledger' = [ledger EXCEPT !.invoiced = i, !.mixed = b]
      BY <2>5 DEF CommitChange
    <3> HIDE DEF i, b
    <3> QED BY <2>3, <3>1, <3>2, <3>3
  <2> QED BY <2>4, <2>5
<1>6. change' \in [doing : {"idle", "plan", "seats"}, price : OptionalPrice,
                   quantity : Nat, net : Int]
  BY <1>2, CatalogueOK DEF NoChange, OptionalPrice
<1>7. TypeOK'
  BY <1>2, <1>3, <1>4, <1>5, <1>6 DEF TypeOK
<1>8. RowsOK'
  BY <1>1, <1>2 DEF RowsOK, NoChange
<1> QED BY <1>7, <1>8

\* What BeginRenewal puts in flight.
LEMMA RenewalBegun ==
  ASSUME TypeOK, RowsOK, BeginRenewal
  PROVE  \E p \in BillingPrices :
           /\ p \in 1..made /\ p \in Prices /\ price[p] \in PriceRow
           /\ price[p].interval = price[sub.price].interval
           /\ sub.end < AddInterval(sub.end, price[p].interval, NextAnchor)
           /\ AddInterval(sub.end, price[p].interval, NextAnchor) \in Days
           /\ price[p].interval.unit = "MONTH" =>
                OnAnchor(AddInterval(sub.end, price[p].interval, NextAnchor), NextAnchor)
           /\ NextAnchor \in Nat \ {0}
           /\ renewal' = [doing |-> "renew", start |-> sub.end,
                          end |-> AddInterval(sub.end, price[p].interval, NextAnchor),
                          anchor |-> IF sub.status = "TRIALING" THEN NextAnchor ELSE 0,
                          price |-> IF p = sub.price THEN 0 ELSE p,
                          amount |-> RecurringAmount(price[p], sub.quantity),
                          overtaken |-> FALSE]
<1>1. PICK p \in BillingPrices :
        /\ WithinCalendar(sub.end, price[p].interval)
        /\ renewal' = [doing |-> "renew", start |-> sub.end,
                       end |-> AddInterval(sub.end, price[p].interval, NextAnchor),
                       anchor |-> IF sub.status = "TRIALING" THEN NextAnchor ELSE 0,
                       price |-> IF p = sub.price THEN 0 ELSE p,
                       amount |-> RecurringAmount(price[p], sub.quantity),
                          overtaken |-> FALSE]
  BY DEF BeginRenewal
<1>2. /\ p \in 1..made /\ p \in Prices /\ price[p] \in PriceRow
      /\ price[p].interval \in Interval
      /\ price[p].interval = price[sub.price].interval
  BY BillingPricesOK
<1>3. NextAnchor \in Nat \ {0} /\ sub.end \in Days
  BY NextAnchorOK DEF RowsOK
<1>4. /\ sub.end < AddInterval(sub.end, price[p].interval, NextAnchor)
      /\ AddInterval(sub.end, price[p].interval, NextAnchor) \in Days
      /\ price[p].interval.unit = "MONTH" =>
           OnAnchor(AddInterval(sub.end, price[p].interval, NextAnchor), NextAnchor)
  <2> DEFINE i == price[p].interval
             a == NextAnchor
             d == sub.end
  <2>1. i \in Interval /\ a \in Nat \ {0} /\ d \in Days /\ WithinCalendar(d, i)
    BY <1>1, <1>2, <1>3
  <2> HIDE DEF i, a, d
  <2>2. /\ AddInterval(d, i, a) \in Days /\ d < AddInterval(d, i, a)
        /\ i.unit = "MONTH" => OnAnchor(AddInterval(d, i, a), a)
    BY <2>1, IntervalAdvances
  <2> QED BY <2>2 DEF i, a, d
<1> QED BY <1>1, <1>2, <1>3, <1>4

LEMMA BeginRenewalTyped ==
  ASSUME TypeOK, RowsOK, BeginRenewal
  PROVE  TypeOK' /\ RowsOK'
<1>1. PICK p \in BillingPrices :
           /\ p \in 1..made /\ p \in Prices /\ price[p] \in PriceRow
           /\ sub.end < AddInterval(sub.end, price[p].interval, NextAnchor)
           /\ AddInterval(sub.end, price[p].interval, NextAnchor) \in Days
           /\ NextAnchor \in Nat \ {0}
           /\ renewal' = [doing |-> "renew", start |-> sub.end,
                          end |-> AddInterval(sub.end, price[p].interval, NextAnchor),
                          anchor |-> IF sub.status = "TRIALING" THEN NextAnchor ELSE 0,
                          price |-> IF p = sub.price THEN 0 ELSE p,
                          amount |-> RecurringAmount(price[p], sub.quantity),
                          overtaken |-> FALSE]
  BY RenewalBegun
<1> DEFINE end == AddInterval(sub.end, price[p].interval, NextAnchor)
           amount == RecurringAmount(price[p], sub.quantity)
<1>2. amount \in Nat /\ end \in Nat /\ sub.end \in Nat /\ end \in Days /\ sub.end < end
  BY <1>1, FieldsOK, RecurringIsNat, DaysAreNat
<1>3. /\ renewal' \in [doing : {"idle", "renew"}, start : Nat, end : Nat, anchor : Nat,
                       price : OptionalPrice, amount : Nat, overtaken : BOOLEAN]
      /\ renewal'.start = sub.end /\ renewal'.end = end /\ renewal'.price <= made
      /\ ~renewal'.overtaken
  <2> HIDE DEF end, amount
  <2>1. renewal' = [doing |-> "renew", start |-> sub.end, end |-> end,
                    anchor |-> IF sub.status = "TRIALING" THEN NextAnchor ELSE 0,
                    price |-> IF p = sub.price THEN 0 ELSE p, amount |-> amount,
                    overtaken |-> FALSE]
    BY <1>1 DEF end, amount
  <2>2. p \in OptionalPrice /\ 0 \in OptionalPrice /\ made \in Nat /\ p <= made /\ 0 <= made
    BY <1>1, FieldsOK, CatalogueOK DEF OptionalPrice, Prices
  <2> QED BY <1>1, <1>2, <2>1, <2>2
<1>4. overlapped' \in BOOLEAN
  BY DEF BeginRenewal, Begins, TypeOK, Idle
<1> HIDE DEF end, amount
<1>5. TypeOK'
  BY <1>3, <1>4 DEF TypeOK, BeginRenewal, rows, history
<1>6. RowsOK'
  BY <1>2, <1>3 DEF RowsOK, BeginRenewal, rows, history
<1> QED BY <1>5, <1>6

\* What CommitRenewal leaves on the row.
LEMMA RenewedRow ==
  ASSUME TypeOK, RowsOK, CommitRenewal
  PROVE  /\ sub' \in SubscriptionRow
         /\ sub'.status = "CANCELED" <=> sub.status = "CANCELED"
         /\ sub'.start = renewal.start /\ sub'.end = renewal.end /\ sub'.start < sub'.end
         /\ sub'.anchor = AnchorAhead /\ sub'.anchor # 0 /\ sub'.price = PriceAhead
         /\ sub'.price \in 1..made /\ sub'.price \in Prices
         /\ sub'.quantity = sub.quantity /\ sub'.trialEnd = sub.trialEnd
<1>1. /\ sub \in SubscriptionRow /\ renewal.start \in Nat /\ renewal.end \in Nat
      /\ renewal.anchor \in Nat /\ renewal.price \in OptionalPrice
      /\ renewal.start < renewal.end /\ renewal.price <= made
  BY DEF TypeOK, RowsOK, CommitRenewal
<1>2. AnchorAhead \in Nat \ {0}
  BY <1>1, FieldsOK DEF AnchorAhead
<1>3. PriceAhead \in Prices /\ PriceAhead \in 1..made
  BY <1>1, FieldsOK DEF PriceAhead, OptionalPrice, Prices
<1>4. ASSUME NEW a \in Nat, NEW p \in Prices, NEW s \in Nat, NEW e \in Nat,
             NEW x \in {sub.status, "ACTIVE"}, x = sub.status \/ sub.status = "TRIALING",
             sub' = [sub EXCEPT !.start = s, !.end = e, !.anchor = a, !.price = p,
                                !.status = x]
      PROVE  /\ sub' \in SubscriptionRow /\ sub'.status = x
             /\ sub'.start = s /\ sub'.end = e /\ sub'.anchor = a /\ sub'.price = p
             /\ sub'.quantity = sub.quantity /\ sub'.trialEnd = sub.trialEnd
  <2>1. sub' \in SubscriptionRow
    BY <1>1, <1>4 DEF SubscriptionRow
  <2>2. sub'.start = s /\ sub'.end = e /\ sub'.anchor = a /\ sub'.price = p
    BY <1>1, <1>4 DEF SubscriptionRow
  <2>3. /\ sub'.status = x /\ sub'.quantity = sub.quantity
        /\ sub'.trialEnd = sub.trialEnd
    BY <1>1, <1>4 DEF SubscriptionRow
  <2> QED BY <2>1, <2>2, <2>3
<1>5. \E x \in {sub.status, "ACTIVE"} :
        /\ x = sub.status \/ sub.status = "TRIALING"
        /\ sub' = [sub EXCEPT !.start = renewal.start, !.end = renewal.end,
                              !.anchor = AnchorAhead, !.price = PriceAhead, !.status = x]
  <2>1. PICK collectable \in BOOLEAN :
          /\ renewal.anchor # 0 /\ ~collectable => sub.status = "TRIALING"
          /\ sub' = [sub EXCEPT !.start = renewal.start, !.end = renewal.end,
                                !.anchor = IF renewal.anchor = 0 THEN @ ELSE renewal.anchor,
                                !.price = IF renewal.price = 0 THEN @ ELSE renewal.price,
                                !.status = IF renewal.anchor # 0 /\ ~collectable
                                           THEN "ACTIVE" ELSE @]
    BY DEF CommitRenewal
  <2> QED BY <2>1 DEF AnchorAhead, PriceAhead
<1>6. /\ sub' \in SubscriptionRow /\ (sub'.status = "CANCELED" <=> sub.status = "CANCELED")
      /\ sub'.start = renewal.start /\ sub'.end = renewal.end
      /\ sub'.anchor = AnchorAhead /\ sub'.price = PriceAhead
      /\ sub'.quantity = sub.quantity /\ sub'.trialEnd = sub.trialEnd
  <2>1. PICK x \in {sub.status, "ACTIVE"} :
          /\ x = sub.status \/ sub.status = "TRIALING"
          /\ sub' = [sub EXCEPT !.start = renewal.start, !.end = renewal.end,
                                !.anchor = AnchorAhead, !.price = PriceAhead, !.status = x]
    BY <1>5
  <2>2. AnchorAhead \in Nat
    BY <1>2
  <2>3. /\ sub' \in SubscriptionRow /\ sub'.status = x
        /\ sub'.start = renewal.start /\ sub'.end = renewal.end
        /\ sub'.anchor = AnchorAhead /\ sub'.price = PriceAhead
        /\ sub'.quantity = sub.quantity /\ sub'.trialEnd = sub.trialEnd
    BY <1>1, <1>3, <1>4, <2>1, <2>2
  <2>4. x = "CANCELED" <=> sub.status = "CANCELED"
    BY <2>1
  <2> QED BY <2>3, <2>4
<1> QED BY <1>1, <1>2, <1>3, <1>6

LEMMA CommitRenewalTyped ==
  ASSUME TypeOK, RowsOK, CommitRenewal
  PROVE  TypeOK' /\ RowsOK'
<1>1. /\ sub' \in SubscriptionRow
      /\ sub'.start = renewal.start /\ sub'.end = renewal.end /\ sub'.start < sub'.end
      /\ sub'.anchor # 0 /\ sub'.price \in 1..made /\ sub'.price \in Prices
  BY RenewedRow
<1>2. /\ renewal' = NoRenewal
      /\ UNCHANGED <<today, price, made, change, recovery, edit, agreed, overlapped, spent>>
  BY DEF CommitRenewal
<1>3. ledger' \in [invoiced : Int, held : Nat, mixed : BOOLEAN]
  <2>1. renewal.amount \in Nat /\ today \in Nat /\ sub'.start \in Nat /\ sub'.end \in Nat
    BY <1>1, FieldsOK DEF TypeOK, SubscriptionRow
  <2>2. DaysGone(sub') \in Nat
    BY <1>1, <2>1 DEF DaysGone, Lesser, Greater
  <2>3. renewal.amount * DaysGone(sub') \in Nat
    BY <2>1, <2>2
  <2>4. Opened(sub', renewal.amount) \in [invoiced : Int, held : Nat, mixed : BOOLEAN]
    BY <2>1, <2>3 DEF Opened
  <2>5. Closed \in [invoiced : Int, held : Nat, mixed : BOOLEAN]
    BY DEF Closed
  <2> QED BY <2>4, <2>5 DEF CommitRenewal
<1>4. owed' \in BOOLEAN
  BY DEF TypeOK, CommitRenewal
<1>5. monthly' \in BOOLEAN /\ day' \in Nat
  BY DEF TypeOK, CommitRenewal, DayKept
<1>6. renewal' \in [doing : {"idle", "renew"}, start : Nat, end : Nat, anchor : Nat,
                    price : OptionalPrice, amount : Nat, overtaken : BOOLEAN]
  BY <1>2, CatalogueOK DEF NoRenewal, OptionalPrice
<1>7. sub'.price <= made'
  BY <1>1, <1>2, FieldsOK
<1>8. TypeOK'
  BY <1>1, <1>2, <1>3, <1>4, <1>5, <1>6, <1>7 DEF TypeOK
<1>9. RowsOK'
  BY <1>1, <1>2 DEF RowsOK, NoRenewal, CommitRenewal
<1> QED BY <1>8, <1>9

\* The other operations leave the subscription's terms alone.
SameTerms ==
  /\ sub' \in SubscriptionRow /\ sub'.price = sub.price /\ sub'.quantity = sub.quantity
  /\ sub'.start = sub.start /\ sub'.end = sub.end /\ sub'.anchor = sub.anchor
  /\ sub'.trialEnd = sub.trialEnd

LEMMA TermsKept ==
  ASSUME TypeOK, ScheduleChange \/ PinPrice \/ TrialEnds \/ Lapse \/ Cancel
  PROVE  SameTerms
<1>1. sub \in SubscriptionRow
  BY DEF TypeOK
<1>2. CASE ScheduleChange
  BY <1>1, <1>2 DEF ScheduleChange, SameTerms, SubscriptionRow
<1>3. CASE PinPrice
  <2> DEFINE row == [sub EXCEPT !.pinned = ~sub.pinned]
  <2>1. /\ row \in SubscriptionRow /\ row.price = sub.price /\ row.quantity = sub.quantity
        /\ row.start = sub.start /\ row.end = sub.end /\ row.anchor = sub.anchor
        /\ row.trialEnd = sub.trialEnd
    BY <1>1 DEF SubscriptionRow
  <2>2. sub' = row
    BY <1>3 DEF PinPrice
  <2> HIDE DEF row
  <2> QED BY <2>1, <2>2 DEF SameTerms
<1>4. CASE TrialEnds
  BY <1>1, <1>4 DEF TrialEnds, SameTerms, SubscriptionRow
<1>5. CASE Lapse
  BY <1>1, <1>5 DEF Lapse, SameTerms, SubscriptionRow
<1>6. CASE Cancel
  BY <1>1, <1>6 DEF Cancel, SameTerms, SubscriptionRow
<1> QED BY <1>2, <1>3, <1>4, <1>5, <1>6

LEMMA TermsTyped ==
  ASSUME TypeOK, RowsOK, ScheduleChange \/ PinPrice \/ TrialEnds \/ Lapse \/ Cancel
  PROVE  TypeOK' /\ RowsOK'
<1>1. SameTerms
  BY TermsKept
<1>2. UNCHANGED <<today, price, made, change, renewal, recovery, edit>>
  BY DEF ScheduleChange, PinPrice, TrialEnds, Lapse, Cancel
<1>3. owed' \in BOOLEAN /\ overlapped' \in BOOLEAN
  BY DEF ScheduleChange, PinPrice, TrialEnds, Lapse, Cancel, Begins, Idle, TypeOK
<1>4. agreed' \in Interval /\ monthly' \in BOOLEAN /\ day' \in Nat
  BY DEF ScheduleChange, PinPrice, TrialEnds, Lapse, Cancel, TypeOK, history
<1>5. ledger' \in [invoiced : Int, held : Nat, mixed : BOOLEAN]
  <2>1. ledger' = ledger \/ ledger' = Closed
    BY DEF ScheduleChange, PinPrice, TrialEnds, Lapse, Cancel, history
  <2>2. ledger \in [invoiced : Int, held : Nat, mixed : BOOLEAN]
    BY DEF TypeOK
  <2>3. Closed \in [invoiced : Int, held : Nat, mixed : BOOLEAN]
    BY DEF Closed
  <2> QED BY <2>1, <2>2, <2>3
<1>6. spent' \in Spendings /\ spent'.changes >= spent.changes
  <2>1. spent.changes \in Nat /\ spent \in Spendings
    BY DEF TypeOK, Spendings
  <2>2. CASE ScheduleChange
    BY <2>1, <2>2, SpentCounts DEF ScheduleChange
  <2>3. CASE PinPrice
    BY <2>1, <2>3, SpentCounts DEF PinPrice
  <2>4. CASE Lapse
    BY <2>1, <2>4, SpentCounts DEF Lapse
  <2>5. CASE TrialEnds \/ Cancel
    BY <2>1, <2>5 DEF TrialEnds, Cancel
  <2> QED BY <2>2, <2>3, <2>4, <2>5
<1>7. TypeOK'
  BY <1>1, <1>2, <1>3, <1>4, <1>5, <1>6 DEF TypeOK, Spendings, SameTerms
<1>8. RowsOK'
  <2>1. spent.changes \in Nat /\ spent'.changes \in Nat
    BY <1>6 DEF TypeOK, Spendings
  <2> QED BY <1>1, <1>2, <1>6, <2>1 DEF RowsOK, SameTerms
<1> QED BY <1>7, <1>8

LEMMA BeginEditTyped ==
  ASSUME TypeOK, RowsOK, BeginEdit
  PROVE  TypeOK' /\ RowsOK'
<1>1. PICK p \in 1..made, a \in Amounts, i \in Intervals, others \in BOOLEAN :
        /\ edit' = [doing |-> IF others \/ Bound(p) THEN "version" ELSE "in_place",
                    price |-> p, amount |-> a, interval |-> i]
        /\ others \/ Bound(p) => made < MaxPrices
  BY DEF BeginEdit
<1>2. p \in OptionalPrice /\ a \in Nat /\ i \in Interval
  BY FieldsOK, PlansAssumption DEF OptionalPrice, Prices
<1>3. /\ edit' \in [doing : {"idle", "in_place", "version"}, price : OptionalPrice,
                    amount : Nat, interval : Interval]
      /\ edit'.price \in 1..made
      /\ edit'.doing = "version" => made < MaxPrices
  BY <1>1, <1>2
<1>4. spent' \in Spendings /\ spent'.changes = spent.changes
  BY SpentCounts DEF BeginEdit
<1>5. overlapped' \in BOOLEAN
  BY DEF BeginEdit, Begins, TypeOK, Idle
<1>6. UNCHANGED <<today, price, made, sub, owed, change, renewal, recovery, ledger, agreed,
                  day, monthly>>
  BY DEF BeginEdit, rows, history
<1>7. TypeOK'
  BY <1>3, <1>4, <1>5, <1>6 DEF TypeOK, Spendings
<1>8. RowsOK'
  BY <1>3, <1>4, <1>6 DEF RowsOK
<1> QED BY <1>7, <1>8

\* A price is billed as before.
SameBilling(p) ==
  /\ price'[p].model = price[p].model /\ price'[p].amount = price[p].amount
  /\ price'[p].interval = price[p].interval

\* An edit changes what a price bills in place, or adds a version of it.
LEMMA ListEdited ==
  ASSUME TypeOK, RowsOK, CommitEdit
  PROVE  /\ price' \in [Prices -> PriceRow] /\ made' \in Prices /\ made <= made'
         /\ \A p \in 1..made : SameBilling(p) \/ (edit.doing = "in_place" /\ p = edit.price)
<1>1. /\ made \in Nat /\ made > 0 /\ made <= MaxPrices /\ MaxPrices \in Nat
      /\ price \in [Prices -> PriceRow]
      /\ \A p \in 1..made : p \in Prices
  BY FieldsOK, CatalogueOK DEF TypeOK
<1>2. edit.price \in 1..made /\ edit.price \in Prices /\ edit.price \in OptionalPrice
      /\ price[edit.price] \in PriceRow
  <2>1. edit.price \in 1..made
    BY DEF CommitEdit, RowsOK
  <2> QED BY <1>1, <2>1 DEF TypeOK
<1>3. Revised(price[edit.price]) \in PriceRow
  BY <1>2, RevisedOK
<1>4. CASE edit.doing = "in_place" /\ made' = made
           /\ price' = [price EXCEPT ![edit.price] = Revised(@)]
  <2>1. price' \in [Prices -> PriceRow]
    BY <1>1, <1>2, <1>3, <1>4
  <2>2. \A p \in 1..made : p # edit.price => price'[p] = price[p]
    BY <1>1, <1>4
  <2>3. made' \in Prices /\ made <= made'
    BY <1>1, <1>4
  <2> QED BY <1>4, <2>1, <2>2, <2>3 DEF SameBilling
<1>5. CASE /\ edit.doing = "version" /\ made' = made + 1
           /\ price' = [price EXCEPT ![edit.price].active = FALSE,
                                     ![made + 1] = [Revised(price[edit.price])
                                       EXCEPT !.active = TRUE, !.supersedes = edit.price]]
  <2> DEFINE version == [Revised(price[edit.price])
                           EXCEPT !.active = TRUE, !.supersedes = edit.price]
             retired == [price[edit.price] EXCEPT !.active = FALSE]
  <2>1. made < MaxPrices
    BY <1>5 DEF RowsOK
  <2>2. made + 1 \in Prices /\ made + 1 # edit.price
    BY <1>1, <1>2, <2>1 DEF Prices
  <2>3. version \in PriceRow
    BY <1>2, RevisedOK
  <2>4. /\ retired \in PriceRow /\ retired.model = price[edit.price].model
        /\ retired.amount = price[edit.price].amount
        /\ retired.interval = price[edit.price].interval
    BY <1>2 DEF PriceRow
  <2>5. price' = [[price EXCEPT ![edit.price] = retired] EXCEPT ![made + 1] = version]
    BY <1>5
  <2> HIDE DEF version, retired
  <2>6. price' \in [Prices -> PriceRow]
    BY <1>1, <1>2, <2>2, <2>3, <2>4, <2>5
  <2>7. ASSUME NEW p \in 1..made PROVE SameBilling(p)
    <3>1. p \in Prices /\ p # made + 1
      BY <1>1
    <3>2. price'[p] = IF p = edit.price THEN retired ELSE price[p]
      BY <1>1, <1>2, <2>2, <2>5, <3>1
    <3> QED BY <2>4, <3>2 DEF SameBilling
  <2>8. made' \in Prices /\ made <= made'
    BY <1>1, <1>5, <2>2
  <2> QED BY <2>6, <2>7, <2>8
<1> QED BY <1>4, <1>5 DEF CommitEdit

LEMMA CommitEditTyped ==
  ASSUME TypeOK, RowsOK, CommitEdit
  PROVE  TypeOK' /\ RowsOK'
<1>1. price' \in [Prices -> PriceRow] /\ made' \in Prices /\ made <= made'
  BY ListEdited
<1>2. /\ edit' = NoEdit
      /\ UNCHANGED <<today, sub, owed, change, renewal, recovery, agreed, day, overlapped,
                     spent>>
  BY DEF CommitEdit
<1>3. ledger' \in [invoiced : Int, held : Nat, mixed : BOOLEAN]
  BY DEF CommitEdit, TypeOK, Closed
<1>4. monthly' \in BOOLEAN
  BY DEF CommitEdit, TypeOK
<1>5. edit' \in [doing : {"idle", "in_place", "version"}, price : OptionalPrice,
                 amount : Nat, interval : Interval]
  BY <1>2, CatalogueOK DEF NoEdit, OptionalPrice
<1>6. made \in Nat /\ made' \in Nat
  BY <1>1, FieldsOK DEF Prices
<1>7. sub'.price <= made'
  BY <1>1, <1>2, <1>6, FieldsOK
<1>8. TypeOK'
  BY <1>1, <1>2, <1>3, <1>4, <1>5, <1>7 DEF TypeOK
<1>9. RowsOK'
  <2>1. renewal.price \in Nat
    BY DEF TypeOK, OptionalPrice
  <2> QED BY <1>1, <1>2, <1>6, <2>1 DEF RowsOK, NoEdit
<1> QED BY <1>8, <1>9

LEMMA ActiveFlagAlone ==
  ASSUME TypeOK, RowsOK, SetActive
  PROVE  price' \in [Prices -> PriceRow] /\ \A p \in Prices : SameBilling(p)
<1>1. PICK p \in 1..made : price' = [price EXCEPT ![p].active = ~@]
  BY DEF SetActive
<1>2. p \in Prices /\ price \in [Prices -> PriceRow] /\ price[p] \in PriceRow
  BY FieldsOK DEF TypeOK
<1> DEFINE row == [price[p] EXCEPT !.active = ~price[p].active]
<1>3. /\ row \in PriceRow /\ row.model = price[p].model
      /\ row.amount = price[p].amount /\ row.interval = price[p].interval
  BY <1>2 DEF PriceRow
<1>4. price' = [price EXCEPT ![p] = row]
  BY <1>1, <1>2
<1> HIDE DEF row
<1> QED BY <1>2, <1>3, <1>4 DEF SameBilling

LEMMA SetActiveTyped ==
  ASSUME TypeOK, RowsOK, SetActive
  PROVE  TypeOK' /\ RowsOK'
<1>1. price' \in [Prices -> PriceRow]
  BY ActiveFlagAlone
<1>2. spent' \in Spendings /\ spent'.changes = spent.changes
  BY SpentCounts DEF SetActive
<1>3. UNCHANGED <<today, made, sub, owed, change, renewal, recovery, edit, ledger, agreed,
                  day, monthly, overlapped>>
  BY DEF SetActive, history
<1>4. TypeOK'
  BY <1>1, <1>2, <1>3 DEF TypeOK, Spendings
<1>5. RowsOK'
  BY <1>2, <1>3 DEF RowsOK
<1> QED BY <1>4, <1>5

LEMMA TickTyped ==
  ASSUME TypeOK, RowsOK, Tick
  PROVE  TypeOK' /\ RowsOK'
<1>1. today' \in Days
  BY DEF Tick
<1>2. ledger' \in [invoiced : Int, held : Nat, mixed : BOOLEAN]
  <2>1. Rate \in Nat
    BY FieldsOK, RecurringIsNat DEF Rate
  <2> QED BY <2>1 DEF Tick, TypeOK
<1>3. UNCHANGED <<price, made, sub, owed, change, renewal, recovery, edit, agreed, day,
                  monthly, overlapped, spent>>
  BY DEF Tick
<1>4. TypeOK'
  BY <1>1, <1>2, <1>3 DEF TypeOK
<1>5. RowsOK'
  BY <1>3 DEF RowsOK
<1> QED BY <1>4, <1>5

\* A renewal or a recovery that has lost to another status is rolled back.
LEMMA LostTyped ==
  ASSUME TypeOK, RowsOK, RenewalLost \/ RecoveryLost
  PROVE  TypeOK' /\ RowsOK'
<1>1. UNCHANGED <<rows, change, edit, history, overlapped, spent>>
  BY DEF RenewalLost, RecoveryLost
<1>2. /\ renewal' \in {renewal, NoRenewal}
      /\ recovery' \in {recovery, NoRecovery}
  BY DEF RenewalLost, RecoveryLost
<1>3. /\ renewal' \in [doing : {"idle", "renew"}, start : Nat, end : Nat, anchor : Nat,
                       price : OptionalPrice, amount : Nat, overtaken : BOOLEAN]
      /\ recovery' \in [doing : {"idle", "recover"}, start : Nat, end : Nat, anchor : Nat]
  <2>1. /\ NoRenewal \in [doing : {"idle", "renew"}, start : Nat, end : Nat, anchor : Nat,
                          price : OptionalPrice, amount : Nat, overtaken : BOOLEAN]
        /\ NoRecovery \in [doing : {"idle", "recover"}, start : Nat, end : Nat, anchor : Nat]
    BY CatalogueOK DEF NoRenewal, NoRecovery, OptionalPrice
  <2> QED BY <1>2, <2>1 DEF TypeOK
<1>4. TypeOK'
  BY <1>1, <1>3 DEF TypeOK, rows, history
<1>5. RowsOK'
  BY <1>1, <1>2 DEF RowsOK, NoRenewal, NoRecovery, rows, history
<1> QED BY <1>4, <1>5

\* What BeginRecovery puts in flight.
LEMMA RecoveryBegun ==
  ASSUME TypeOK, RowsOK, BeginRecovery
  PROVE  /\ recovery' \in [doing : {"idle", "recover"}, start : Nat, end : Nat, anchor : Nat]
         /\ recovery'.start \in Days /\ recovery'.end \in Days
         /\ recovery'.start < recovery'.end /\ recovery'.anchor # 0
         /\ price[sub.price].interval.unit = "MONTH" =>
              /\ OnAnchor(recovery'.start, recovery'.anchor)
              /\ OnAnchor(recovery'.end, recovery'.anchor)
<1> DEFINE i == price[sub.price].interval
<1>1. PICK lateness \in 0..MaxLateness :
        /\ SignUp <= today - lateness
        /\ WithinCalendar(today - lateness, i)
        /\ recovery' = [doing |-> "recover", start |-> today - lateness,
                        end |-> AddInterval(today - lateness, i,
                                  IF i.unit = "MONTH" THEN DayOf(today - lateness)
                                                      ELSE sub.anchor),
                        anchor |-> IF i.unit = "MONTH" THEN DayOf(today - lateness)
                                                      ELSE sub.anchor]
  BY DEF BeginRecovery
<1> DEFINE d == today - lateness
           a == IF i.unit = "MONTH" THEN DayOf(d) ELSE sub.anchor
<1>2. d \in Days
  <2>1. today \in Days /\ SignUp \in Days /\ MaxLateness \in Nat
    BY PlansAssumption DEF TypeOK
  <2>2. /\ today \in Nat /\ SignUp \in Nat /\ lateness \in Nat /\ SignUp <= d /\ d <= today
        /\ FirstDay[1] <= SignUp /\ today < FirstDay[Len(FirstDay)]
    BY <1>1, <2>1 DEF Days
  <2>3. FirstDay[1] \in Nat /\ FirstDay[Len(FirstDay)] \in Nat
    BY MonthsBound, FirstDayIsDay, CalendarAssumption
  <2> HIDE DEF d
  <2>4. d \in Nat
    BY <2>2 DEF d
  <2> QED BY <2>2, <2>3, <2>4 DEF Days
<1>3. i \in Interval /\ sub.anchor \in Nat \ {0}
  BY FieldsOK
<1>4. a \in Nat \ {0} /\ (i.unit = "MONTH" => OnAnchor(d, a))
  BY <1>2, <1>3, OwnDay
<1>5. /\ recovery' = [doing |-> "recover", start |-> d, end |-> AddInterval(d, i, a),
                      anchor |-> a]
      /\ WithinCalendar(d, i)
  BY <1>1
<1> HIDE DEF i, d, a
<1>6. /\ AddInterval(d, i, a) \in Days /\ d < AddInterval(d, i, a)
      /\ i.unit = "MONTH" => OnAnchor(AddInterval(d, i, a), a)
  BY <1>2, <1>3, <1>4, <1>5, IntervalAdvances
<1> QED BY <1>2, <1>4, <1>5, <1>6, DaysAreNat DEF i

LEMMA BeginRecoveryTyped ==
  ASSUME TypeOK, RowsOK, BeginRecovery
  PROVE  TypeOK' /\ RowsOK'
<1>1. overlapped' \in BOOLEAN
  BY DEF BeginRecovery, Begins, TypeOK, Idle
<1>2. UNCHANGED <<rows, change, renewal, edit, history, spent>>
  BY DEF BeginRecovery
<1>3. TypeOK'
  BY <1>1, <1>2, RecoveryBegun DEF TypeOK, rows, history
<1>4. RowsOK'
  BY <1>2, RecoveryBegun DEF RowsOK, rows, history
<1> QED BY <1>3, <1>4

\* What CommitRecovery leaves on the row and of a renewal in flight.
LEMMA RecoveredRow ==
  ASSUME TypeOK, RowsOK, CommitRecovery
  PROVE  /\ sub' \in SubscriptionRow /\ sub'.status # "CANCELED" /\ sub.status # "CANCELED"
         /\ sub'.start = recovery.start /\ sub'.end = recovery.end
         /\ sub'.anchor = recovery.anchor /\ recovery.anchor # 0
         /\ sub'.price = sub.price /\ sub'.quantity = sub.quantity
         /\ sub'.trialEnd = sub.trialEnd
         /\ renewal' \in [doing : {"idle", "renew"}, start : Nat, end : Nat, anchor : Nat,
                          price : OptionalPrice, amount : Nat, overtaken : BOOLEAN]
         /\ renewal.doing = "idle" => renewal' = renewal
         /\ renewal.doing # "idle" => renewal'.overtaken
         /\ renewal'.doing = renewal.doing
         /\ renewal'.start = renewal.start /\ renewal'.end = renewal.end
         /\ renewal'.price = renewal.price
<1>1. /\ sub \in SubscriptionRow /\ recovery.start \in Nat /\ recovery.end \in Nat
      /\ recovery.anchor \in Nat \ {0}
      /\ renewal \in [doing : {"idle", "renew"}, start : Nat, end : Nat, anchor : Nat,
                      price : OptionalPrice, amount : Nat, overtaken : BOOLEAN]
  BY DEF TypeOK, RowsOK, CommitRecovery
<1>2. sub' = [sub EXCEPT !.status = "ACTIVE", !.start = recovery.start,
                         !.end = recovery.end, !.anchor = recovery.anchor]
      /\ sub.status = "UNPAID"
  BY DEF CommitRecovery
<1>3. /\ sub' \in SubscriptionRow /\ sub'.status # "CANCELED" /\ sub.status # "CANCELED"
      /\ sub'.start = recovery.start /\ sub'.end = recovery.end
      /\ sub'.anchor = recovery.anchor
      /\ sub'.price = sub.price /\ sub'.quantity = sub.quantity
      /\ sub'.trialEnd = sub.trialEnd
  BY <1>1, <1>2 DEF SubscriptionRow
<1>4. renewal' = IF renewal.doing = "idle" THEN renewal ELSE [renewal EXCEPT !.overtaken = TRUE]
  BY DEF CommitRecovery
<1> QED BY <1>1, <1>3, <1>4

LEMMA CommitRecoveryTyped ==
  ASSUME TypeOK, RowsOK, CommitRecovery
  PROVE  TypeOK' /\ RowsOK'
<1>1. /\ UNCHANGED <<today, price, made, owed, change, edit, agreed, monthly, overlapped,
                     spent>>
      /\ recovery' = NoRecovery /\ ledger' = Closed /\ day' = recovery.anchor
      /\ recovery.doing = "recover"
  BY DEF CommitRecovery
<1>2. day' \in Nat /\ ledger' \in [invoiced : Int, held : Nat, mixed : BOOLEAN]
  BY <1>1 DEF Closed, TypeOK
<1>3. recovery' \in [doing : {"idle", "recover"}, start : Nat, end : Nat, anchor : Nat]
  BY <1>1 DEF NoRecovery
<1>4. sub'.start < sub'.end /\ sub'.start \in Days /\ sub'.end \in Days
  BY <1>1, RecoveredRow DEF RowsOK
<1>5. TypeOK'
  BY <1>1, <1>2, <1>3, <1>4, RecoveredRow DEF TypeOK
<1>6. RowsOK'
  BY <1>1, <1>4, RecoveredRow DEF RowsOK, NoRecovery
<1> QED BY <1>5, <1>6

LEMMA NextTyped ==
  ASSUME TypeOK, RowsOK, [Next]_vars
  PROVE  TypeOK' /\ RowsOK'
<1>1. CASE UNCHANGED vars
  BY <1>1 DEF vars, TypeOK, RowsOK
<1>2. CASE SweepRenews \/ RequestRenews
  BY <1>2, BeginRenewalTyped DEF SweepRenews, RequestRenews
<1> QED BY <1>1, <1>2, PlanChangeTyped, SeatChangeTyped, CommitChangeTyped, TermsTyped,
           CommitRenewalTyped, LostTyped, BeginRecoveryTyped, CommitRecoveryTyped,
           BeginEditTyped, CommitEditTyped, SetActiveTyped, TickTyped
        DEF Next

\* Every row, transaction in flight and account stays what its type says, whatever
\* the calendar, the price list and the changes; in particular every renewal's
\* period has a length and lies in the calendar.
THEOREM TypeCorrect == Spec => []TypeOK
<1>1. Init => TypeOK /\ RowsOK
  BY InitTyped
<1>2. TypeOK /\ RowsOK /\ [Next]_vars => TypeOK' /\ RowsOK'
  BY NextTyped
<1> QED BY <1>1, <1>2, PTL DEF Spec

-----------------------------------------------------------------------------
(* The billing day.                                                        *)

\* What the first period is: its terms, with the row of the price list it bills.
LEMMA Created ==
  ASSUME Init
  PROVE  \E p \in 1..Len(Catalogue), q \in Quantities, trial \in TrialLengths :
           LET row == Catalogue[p]
               end == IF trial > 0 THEN SignUp + trial
                      ELSE AddInterval(SignUp, row.interval, DayOf(SignUp))
           IN /\ sub = [status |-> IF trial > 0 THEN "TRIALING" ELSE "ACTIVE",
                        price |-> p, quantity |-> q, start |-> SignUp, end |-> end,
                        anchor |-> DayOf(SignUp),
                        trialEnd |-> IF trial > 0 THEN end ELSE 0, pinned |-> FALSE,
                        scheduled |-> FALSE]
              /\ ledger = Opened(sub, RecurringAmount(row, q))
              /\ agreed = row.interval /\ day = DayOf(SignUp)
              /\ monthly = (row.interval.unit = "MONTH")
              /\ price[p] = row
<1>1. \A p \in 1..Len(Catalogue) : price[p] = Catalogue[p]
  BY CatalogueOK DEF Init, Prices
<1> QED BY <1>1 DEF Init

LEMMA InitBillingDay == Init => BillingDayOK
<1> SUFFICES ASSUME Init, monthly PROVE BillingDayOK
  BY DEF BillingDayOK
<1>1. PICK p \in 1..Len(Catalogue), q \in Quantities, trial \in TrialLengths :
        LET row == Catalogue[p]
            end == IF trial > 0 THEN SignUp + trial
                   ELSE AddInterval(SignUp, row.interval, DayOf(SignUp))
        IN /\ sub = [status |-> IF trial > 0 THEN "TRIALING" ELSE "ACTIVE",
                     price |-> p, quantity |-> q, start |-> SignUp, end |-> end,
                     anchor |-> DayOf(SignUp),
                     trialEnd |-> IF trial > 0 THEN end ELSE 0, pinned |-> FALSE,
                     scheduled |-> FALSE]
           /\ ledger = Opened(sub, RecurringAmount(row, q))
           /\ agreed = row.interval /\ day = DayOf(SignUp)
           /\ monthly = (row.interval.unit = "MONTH")
           /\ price[p] = row
  BY Created
<1> DEFINE i == Catalogue[p].interval
           a == DayOf(SignUp)
           end == IF trial > 0 THEN SignUp + trial ELSE AddInterval(SignUp, i, a)
<1>2. /\ i \in Interval /\ WithinCalendar(SignUp, i) /\ SignUp \in Days
      /\ a \in Nat \ {0} /\ OnAnchor(SignUp, a)
  BY CatalogueOK, CatalogueAssumption, PlansAssumption, OwnDay DEF PriceRow
<1>3. /\ sub.start = SignUp /\ sub.end = end /\ sub.anchor = a /\ sub.price = p /\ day = a
      /\ sub.trialEnd = IF trial > 0 THEN end ELSE 0
      /\ price[sub.price].interval = i /\ i.unit = "MONTH"
  BY <1>1
<1> HIDE DEF i, a
<1>4. ~(trial > 0) => OnAnchor(AddInterval(SignUp, i, a), a)
  BY <1>2, <1>3, IntervalAdvances
<1>5. RowOnDay
  BY <1>2, <1>3, <1>4 DEF RowOnDay
<1>6. RenewalOnDay /\ RecoveryOnDay
  BY DEF Init, NoRenewal, NoRecovery, RenewalOnDay, RecoveryOnDay
<1> QED BY <1>3, <1>5, <1>6 DEF BillingDayOK

\* A step that leaves the terms, the billing and the dates in flight alone.
LEMMA SameBillingDay ==
  ASSUME BillingDayOK, SameTerms, SameBilling(sub.price),
         UNCHANGED <<renewal, recovery, day>>, monthly' => monthly
  PROVE  BillingDayOK'
<1> SUFFICES ASSUME monthly' PROVE BillingDayOK'
  BY DEF BillingDayOK
<1>1. RowOnDay' /\ RenewalOnDay' /\ RecoveryOnDay'
  BY DEF BillingDayOK, RowOnDay, RenewalOnDay, RecoveryOnDay, SameTerms, OnAnchor, DayOf
<1> QED BY <1>1 DEF BillingDayOK, SameTerms, SameBilling

LEMMA Unedited ==
  ASSUME price' = price
  PROVE  \A p \in Prices : SameBilling(p)
  BY DEF SameBilling

LEMMA Untouched ==
  ASSUME TypeOK, sub' = sub
  PROVE  SameTerms
  BY DEF SameTerms, TypeOK

\* A change of the price or of what it bills touches no date.
LEMMA CommitsKeepDay ==
  ASSUME TypeOK, RowsOK, BillingDayOK, CommitChange \/ CommitEdit
  PROVE  BillingDayOK'
<1> SUFFICES ASSUME monthly' PROVE BillingDayOK'
  BY DEF BillingDayOK
<1>1. /\ sub'.start = sub.start /\ sub'.end = sub.end /\ sub'.anchor = sub.anchor
      /\ sub'.trialEnd = sub.trialEnd /\ UNCHANGED <<renewal, recovery, day>>
  BY ChangedTyped DEF CommitChange, CommitEdit
<1>2. monthly /\ price'[sub'.price].interval.unit = "MONTH"
  BY DEF CommitChange, CommitEdit
<1>3. RowOnDay' /\ RenewalOnDay' /\ RecoveryOnDay'
  BY <1>1, <1>2 DEF BillingDayOK, RowOnDay, RenewalOnDay, RecoveryOnDay, OnAnchor, DayOf
<1> QED BY <1>2, <1>3 DEF BillingDayOK

LEMMA BeginRenewalKeepsDay ==
  ASSUME TypeOK, RowsOK, BillingDayOK, BeginRenewal
  PROVE  BillingDayOK'
<1>1. PICK p \in BillingPrices :
         /\ price[p].interval = price[sub.price].interval
         /\ price[p].interval.unit = "MONTH" =>
              OnAnchor(AddInterval(sub.end, price[p].interval, NextAnchor), NextAnchor)
         /\ NextAnchor \in Nat \ {0}
         /\ renewal' = [doing |-> "renew", start |-> sub.end,
                        end |-> AddInterval(sub.end, price[p].interval, NextAnchor),
                        anchor |-> IF sub.status = "TRIALING" THEN NextAnchor ELSE 0,
                        price |-> IF p = sub.price THEN 0 ELSE p,
                        amount |-> RecurringAmount(price[p], sub.quantity),
                        overtaken |-> FALSE]
  BY RenewalBegun
<1>2. UNCHANGED <<sub, price, monthly, recovery, day>>
  BY DEF BeginRenewal, rows, history
<1> DEFINE end == AddInterval(sub.end, price[p].interval, NextAnchor)
<1>3. /\ renewal'.start = sub.end /\ renewal'.end = end
      /\ renewal'.anchor = IF sub.status = "TRIALING" THEN NextAnchor ELSE 0
  BY <1>1
<1> SUFFICES ASSUME monthly PROVE BillingDayOK'
  BY <1>2 DEF BillingDayOK
<1>4. OnAnchor(end, NextAnchor)
  BY <1>1 DEF BillingDayOK
<1> HIDE DEF end
<1>5. RenewalOnDay'
  <2>1. CASE sub.status = "TRIALING"
    <3>1. NextAnchor = DayOf(sub.end) /\ renewal'.anchor = NextAnchor
      BY <1>3, <2>1 DEF NextAnchor
    <3>2. /\ OnAnchor(renewal'.end, renewal'.anchor) /\ renewal'.anchor = DayOf(renewal'.start)
          /\ renewal'.anchor # 0
      BY <1>1, <1>3, <1>4, <3>1
    <3> QED BY <3>2 DEF RenewalOnDay, OnAnchor, DayOf
  <2>2. CASE sub.status # "TRIALING"
    <3>1. NextAnchor = sub.anchor /\ renewal'.anchor = 0
      BY <1>3, <2>2 DEF NextAnchor
    <3>2. day # 0 => OnAnchor(renewal'.end, day)
      BY <1>3, <1>4, <3>1 DEF BillingDayOK, RowOnDay
    <3> QED BY <1>2, <3>1, <3>2 DEF RenewalOnDay, OnAnchor
  <2> QED BY <2>1, <2>2
<1>6. RowOnDay' /\ RecoveryOnDay'
  BY <1>2 DEF BillingDayOK, RowOnDay, RecoveryOnDay, OnAnchor
<1> QED BY <1>2, <1>5, <1>6 DEF BillingDayOK

\* What was the period's end becomes its start, on the same day; a renewal that was
\* overtaken loses the day.
LEMMA CommitRenewalKeepsDay ==
  ASSUME TypeOK, RowsOK, BillingDayOK, CommitRenewal
  PROVE  BillingDayOK'
<1> SUFFICES ASSUME monthly' PROVE BillingDayOK'
  BY DEF BillingDayOK
<1>1. /\ sub'.start = renewal.start /\ sub'.end = renewal.end /\ sub'.anchor = AnchorAhead
      /\ sub'.trialEnd = sub.trialEnd /\ renewal.doing = "renew" /\ renewal.start \in Days
      /\ renewal.overtaken \/ renewal.start = sub.end
  BY RenewedRow DEF CommitRenewal, RowsOK
<1>2. /\ renewal' = NoRenewal /\ recovery' = recovery /\ day' = DayKept
      /\ monthly /\ price'[sub'.price].interval.unit = "MONTH"
  BY DEF CommitRenewal
<1>3. RowOnDay'
  <2>1. CASE renewal.overtaken
    BY <1>2, <2>1 DEF DayKept, RowOnDay
  <2>2. CASE ~renewal.overtaken /\ renewal.anchor = 0
    <3>1. /\ sub'.anchor = sub.anchor /\ day' = day /\ sub'.start = sub.end
          /\ day # 0 => OnAnchor(renewal.end, day)
      BY <1>1, <1>2, <2>2 DEF DayKept, AnchorAhead, BillingDayOK, RenewalOnDay
    <3> QED BY <1>1, <1>2, <3>1 DEF RowOnDay, BillingDayOK, OnAnchor
  <2>3. CASE ~renewal.overtaken /\ renewal.anchor # 0
    <3>1. /\ sub'.anchor = renewal.anchor /\ day' \in {0, renewal.anchor}
          /\ OnAnchor(renewal.end, renewal.anchor) /\ renewal.anchor = DayOf(renewal.start)
      BY <1>1, <1>2, <2>3 DEF DayKept, AnchorAhead, BillingDayOK, RenewalOnDay
    <3>2. OnAnchor(renewal.start, renewal.anchor)
      BY <1>1, <3>1, OwnDay
    <3> QED BY <1>1, <3>1, <3>2 DEF RowOnDay, OnAnchor
  <2> QED BY <2>1, <2>2, <2>3 DEF TypeOK
<1>4. RenewalOnDay' /\ RecoveryOnDay'
  BY <1>2 DEF NoRenewal, RenewalOnDay, RecoveryOnDay, BillingDayOK, OnAnchor
<1> QED BY <1>2, <1>3, <1>4 DEF BillingDayOK

\* A recovery gives a day of its own, and takes away the renewal's that it overtakes.
LEMMA RecoveryKeepsDay ==
  ASSUME TypeOK, RowsOK, BillingDayOK,
         RenewalLost \/ RecoveryLost \/ BeginRecovery \/ CommitRecovery
  PROVE  BillingDayOK'
<1> SUFFICES ASSUME monthly PROVE BillingDayOK'
  BY DEF BillingDayOK, RenewalLost, RecoveryLost, BeginRecovery, CommitRecovery, history
<1>1. CASE RenewalLost
  <2>1. UNCHANGED <<price, sub, recovery, day>> /\ renewal' = NoRenewal
    BY <1>1 DEF RenewalLost, rows, history
  <2>2. RowOnDay' /\ RenewalOnDay' /\ RecoveryOnDay'
    BY <2>1 DEF BillingDayOK, RowOnDay, RenewalOnDay, RecoveryOnDay, OnAnchor, NoRenewal
  <2> QED BY <2>1, <2>2 DEF BillingDayOK
<1>2. CASE RecoveryLost
  <2>1. UNCHANGED <<price, sub, renewal, day>> /\ recovery' = NoRecovery
    BY <1>2 DEF RecoveryLost, rows, history
  <2>2. RowOnDay' /\ RenewalOnDay' /\ RecoveryOnDay'
    BY <2>1 DEF BillingDayOK, RowOnDay, RenewalOnDay, RecoveryOnDay, OnAnchor, DayOf,
                NoRecovery
  <2> QED BY <2>1, <2>2 DEF BillingDayOK
<1>3. CASE BeginRecovery
  <2>1. UNCHANGED <<price, sub, renewal, day>>
    BY <1>3 DEF BeginRecovery, rows, history
  <2>2. RecoveryOnDay'
    BY <1>3, RecoveryBegun DEF BillingDayOK, RecoveryOnDay, OnAnchor
  <2>3. RowOnDay' /\ RenewalOnDay'
    BY <2>1 DEF BillingDayOK, RowOnDay, RenewalOnDay, OnAnchor, DayOf
  <2> QED BY <2>1, <2>2, <2>3 DEF BillingDayOK
<1>4. CASE CommitRecovery
  <2>1. /\ price' = price /\ day' = recovery.anchor /\ recovery' = NoRecovery
        /\ recovery.doing = "recover"
    BY <1>4 DEF CommitRecovery
  <2>2. RowOnDay'
    BY <1>4, <2>1, RecoveredRow DEF BillingDayOK, RowOnDay, RecoveryOnDay, OnAnchor
  <2>3. RenewalOnDay' /\ RecoveryOnDay'
    BY <1>4, <2>1, RecoveredRow DEF RenewalOnDay, RecoveryOnDay, NoRecovery, TypeOK
  <2> QED BY <1>4, <2>1, <2>2, <2>3, RecoveredRow DEF BillingDayOK
<1> QED BY <1>1, <1>2, <1>3, <1>4

LEMMA BillingDayKept ==
  ASSUME TypeOK, RowsOK, BillingDayOK, [Next]_vars
  PROVE  BillingDayOK'
<1>1. sub.price \in Prices
  BY FieldsOK
<1>2. CASE UNCHANGED vars
  BY <1>1, <1>2, Unedited, Untouched, SameBillingDay DEF vars
<1>3. CASE BeginPlanChange \/ BeginSeatChange
  BY <1>1, <1>3, Unedited, Untouched, SameBillingDay
     DEF BeginPlanChange, BeginSeatChange, BeginChange, rows, history
<1>4. CASE ScheduleChange \/ PinPrice \/ TrialEnds \/ Lapse \/ Cancel
  <2>1. UNCHANGED <<price, renewal, recovery, day, monthly>>
    BY <1>4 DEF ScheduleChange, PinPrice, TrialEnds, Lapse, Cancel, history
  <2>2. SameTerms
    BY <1>4, TermsKept
  <2> QED BY <1>1, <2>1, <2>2, Unedited, SameBillingDay
<1>5. CASE BeginEdit
  BY <1>1, <1>5, Unedited, Untouched, SameBillingDay DEF BeginEdit, rows, history
<1>6. CASE SetActive
  BY <1>1, <1>6, ActiveFlagAlone, Untouched, SameBillingDay DEF SetActive, history
<1>7. CASE Tick
  BY <1>1, <1>7, Unedited, Untouched, SameBillingDay DEF Tick
<1> QED BY <1>2, <1>3, <1>4, <1>5, <1>6, <1>7, CommitsKeepDay, BeginRenewalKeepsDay,
           CommitRenewalKeepsDay, RecoveryKeepsDay
        DEF Next, SweepRenews, RequestRenews

\* A monthly subscription is billed on the day it was last given for as long as the
\* calendar goes on, whatever the lengths of its months, whoever renews it, whatever
\* changes of plan, seats, prices or status come in between or overlap, and however
\* often it goes UNPAID and is recovered.
THEOREM BillingDayIsKept == Spec => []BillingDayNeverDrifts
<1>1. Init => TypeOK /\ RowsOK /\ BillingDayOK
  BY InitTyped, InitBillingDay
<1>2. TypeOK /\ RowsOK /\ BillingDayOK /\ [Next]_vars => (TypeOK /\ RowsOK /\ BillingDayOK)'
  BY NextTyped, BillingDayKept
<1>3. BillingDayOK => BillingDayNeverDrifts
  BY DEF BillingDayOK, RowOnDay, BillingDayNeverDrifts, OnAnchor
<1> QED BY <1>1, <1>2, <1>3, PTL DEF Spec

-----------------------------------------------------------------------------
(* The interval.                                                           *)

LEMMA InitInterval == Init => IntervalOK
<1> SUFFICES ASSUME Init PROVE IntervalOK
  OBVIOUS
<1>1. \E p \in 1..Len(Catalogue) : sub.price = p /\ agreed = price[p].interval
  BY Created
<1>2. OneAtATime /\ edit.doing = "idle" /\ renewal.doing = "idle"
  BY DEF Init, OneAtATime, NoChange, NoRenewal, NoEdit
<1> QED BY <1>1, <1>2 DEF IntervalOK

\* A transaction that begins without overlapping another is alone.
LEMMA BeginsAlone ==
  ASSUME TypeOK, Begins, ~overlapped'
  PROVE  /\ ~overlapped /\ change.doing = "idle" /\ renewal.doing = "idle"
         /\ recovery.doing = "idle" /\ edit.doing = "idle"
  BY DEF Begins, Idle

LEMMA BeginEditInterval ==
  ASSUME TypeOK, RowsOK, IntervalOK, BeginEdit
  PROVE  IntervalOK'
<1> SUFFICES ASSUME ~overlapped' PROVE IntervalOK'
  BY DEF IntervalOK
<1>1. ~overlapped /\ change.doing = "idle" /\ renewal.doing = "idle" /\ recovery.doing = "idle"
  BY BeginsAlone DEF BeginEdit
<1>2. UNCHANGED <<price, sub, change, renewal, recovery, agreed>>
  BY DEF BeginEdit, rows, history
<1>3. edit'.doing = "in_place" => ~Bound(edit'.price)
  <2>1. PICK p \in 1..made, a \in Amounts, i \in Intervals, others \in BOOLEAN :
          edit' = [doing |-> IF others \/ Bound(p) THEN "version" ELSE "in_place",
                   price |-> p, amount |-> a, interval |-> i]
    BY DEF BeginEdit
  <2> QED BY <2>1
<1> QED BY <1>1, <1>2, <1>3 DEF IntervalOK, OneAtATime, Bound

LEMMA BeginRenewalInterval ==
  ASSUME TypeOK, RowsOK, IntervalOK, BeginRenewal
  PROVE  IntervalOK'
<1> SUFFICES ASSUME ~overlapped' PROVE IntervalOK'
  BY DEF IntervalOK
<1>1. ~overlapped /\ change.doing = "idle" /\ edit.doing = "idle" /\ recovery.doing = "idle"
  BY BeginsAlone DEF BeginRenewal
<1>2. UNCHANGED <<price, sub, change, recovery, edit, agreed>>
  BY DEF BeginRenewal, rows, history
<1>3. price[PriceAhead'].interval = price[sub.price].interval
  <2>1. PICK p \in BillingPrices :
          /\ p \in 1..made
          /\ price[p].interval = price[sub.price].interval
          /\ renewal' = [doing |-> "renew", start |-> sub.end,
                         end |-> AddInterval(sub.end, price[p].interval, NextAnchor),
                         anchor |-> IF sub.status = "TRIALING" THEN NextAnchor ELSE 0,
                         price |-> IF p = sub.price THEN 0 ELSE p,
                         amount |-> RecurringAmount(price[p], sub.quantity),
                          overtaken |-> FALSE]
    BY RenewalBegun
  <2>2. renewal'.price = IF p = sub.price THEN 0 ELSE p
    BY <2>1
  <2>3. PriceAhead' = p
    BY <1>2, <2>1, <2>2 DEF PriceAhead
  <2> QED BY <2>1, <2>3
<1> QED BY <1>1, <1>2, <1>3 DEF IntervalOK, OneAtATime, PriceAhead

LEMMA CommitChangeInterval ==
  ASSUME TypeOK, RowsOK, IntervalOK, CommitChange
  PROVE  IntervalOK'
<1> SUFFICES ASSUME ~overlapped' PROVE IntervalOK'
  BY DEF IntervalOK
<1>1. /\ UNCHANGED <<price, renewal, recovery, edit, overlapped>> /\ change'.doing = "idle"
      /\ agreed' = ChosenInterval /\ sub' = Changed /\ change.doing # "idle"
  BY DEF CommitChange, NoChange
<1>2. renewal.doing = "idle" /\ edit.doing = "idle" /\ recovery.doing = "idle"
  BY <1>1 DEF IntervalOK, OneAtATime, TypeOK
<1>3. /\ sub'.status = sub.status
      /\ sub'.price = IF change.doing = "plan" THEN change.price ELSE sub.price
  BY <1>1, ChangedTyped
<1>4. sub.status # "CANCELED" => price[sub'.price].interval = ChosenInterval
  BY <1>1, <1>3 DEF IntervalOK, ChosenInterval
<1> QED BY <1>1, <1>2, <1>3, <1>4 DEF IntervalOK, OneAtATime

LEMMA CommitRenewalInterval ==
  ASSUME TypeOK, RowsOK, IntervalOK, CommitRenewal
  PROVE  IntervalOK'
<1> SUFFICES ASSUME ~overlapped' PROVE IntervalOK'
  BY DEF IntervalOK
<1>1. /\ UNCHANGED <<price, change, recovery, edit, overlapped, agreed>>
      /\ renewal'.doing = "idle" /\ renewal.doing = "renew"
  BY DEF CommitRenewal, NoRenewal
<1>2. change.doing = "idle" /\ edit.doing = "idle" /\ recovery.doing = "idle"
  BY <1>1 DEF IntervalOK, OneAtATime, TypeOK
<1>3. (sub'.status = "CANCELED" <=> sub.status = "CANCELED") /\ sub'.price = PriceAhead
  BY RenewedRow
<1>4. sub'.status # "CANCELED" => price[sub'.price].interval = agreed
  <2>1. /\ price[PriceAhead].interval = price[sub.price].interval
        /\ sub.status # "CANCELED" => price[sub.price].interval = agreed
    BY <1>1 DEF IntervalOK
  <2> QED BY <1>3, <2>1
<1> QED BY <1>1, <1>2, <1>4 DEF IntervalOK, OneAtATime

LEMMA CommitEditInterval ==
  ASSUME TypeOK, RowsOK, IntervalOK, CommitEdit
  PROVE  IntervalOK'
<1> SUFFICES ASSUME ~overlapped' PROVE IntervalOK'
  BY DEF IntervalOK
<1>1. /\ UNCHANGED <<sub, change, renewal, recovery, overlapped, agreed>>
      /\ edit'.doing = "idle" /\ edit.doing # "idle"
  BY DEF CommitEdit, NoEdit
<1>2. change.doing = "idle" /\ renewal.doing = "idle" /\ recovery.doing = "idle"
  BY <1>1 DEF IntervalOK, OneAtATime, TypeOK
<1>3. sub.status # "CANCELED" => SameBilling(sub.price)
  <2>1. SameBilling(sub.price) \/ (edit.doing = "in_place" /\ sub.price = edit.price)
    BY FieldsOK, ListEdited
  <2> QED BY <1>1, <2>1 DEF IntervalOK, Bound
<1> QED BY <1>1, <1>2, <1>3 DEF IntervalOK, OneAtATime, SameBilling

\* The steps that leave the terms and the billing alone.
LEMMA SameInterval ==
  ASSUME TypeOK, RowsOK, IntervalOK, SameTerms, \A p \in Prices : SameBilling(p),
         UNCHANGED <<renewal, recovery, edit, agreed>>,
         ~overlapped' => ~overlapped /\ (change' = change \/ Idle),
         sub'.status = sub.status \/ sub.status # "CANCELED"
  PROVE  IntervalOK'
<1> SUFFICES ASSUME ~overlapped' PROVE IntervalOK'
  BY DEF IntervalOK
<1>1. /\ ~overlapped
      /\ \/ change' = change
         \/ renewal.doing = "idle" /\ recovery.doing = "idle" /\ edit.doing = "idle"
  BY DEF Idle
<1>2. OneAtATime'
  BY <1>1 DEF OneAtATime, IntervalOK
<1>3. SameBilling(sub.price)
  BY FieldsOK
<1>4. sub'.status # "CANCELED" => price'[sub'.price].interval = agreed'
  BY <1>1, <1>3 DEF IntervalOK, SameTerms, SameBilling
<1>5. (edit.doing = "in_place" => ~Bound(edit.price))'
  BY <1>1 DEF IntervalOK, SameTerms, Bound
<1>6. ASSUME renewal.doing = "renew"
      PROVE  price'[PriceAhead'].interval = price'[sub'.price].interval
  <2>1. PriceAhead \in Prices /\ PriceAhead' = PriceAhead
    BY <1>6, FieldsOK DEF PriceAhead, RowsOK, TypeOK, OptionalPrice, Prices, SameTerms
  <2>2. SameBilling(PriceAhead)
    BY <2>1
  <2> QED BY <1>1, <1>3, <1>6, <2>1, <2>2 DEF IntervalOK, SameBilling, SameTerms
<1> QED BY <1>2, <1>4, <1>5, <1>6 DEF IntervalOK, Bound

\* A recovery, and a renewal that is lost, leave the price alone.
LEMMA RecoveryInterval ==
  ASSUME TypeOK, RowsOK, IntervalOK,
         RenewalLost \/ RecoveryLost \/ BeginRecovery \/ CommitRecovery
  PROVE  IntervalOK'
<1> SUFFICES ASSUME ~overlapped' PROVE IntervalOK'
  BY DEF IntervalOK
<1>1. /\ UNCHANGED <<price, change, edit, agreed>> /\ ~overlapped
      /\ sub'.price = sub.price
      /\ sub'.status # "CANCELED" => sub.status # "CANCELED"
  <2>1. CASE RenewalLost \/ RecoveryLost
    BY <2>1 DEF RenewalLost, RecoveryLost, rows, history
  <2>2. CASE BeginRecovery
    BY <2>2 DEF BeginRecovery, Begins, rows, history
  <2>3. CASE CommitRecovery
    BY <2>3, RecoveredRow DEF CommitRecovery
  <2> QED BY <2>1, <2>2, <2>3
<1>2. edit.doing = "in_place" => ~(sub'.price = edit.price /\ sub'.status # "CANCELED")
  BY <1>1 DEF IntervalOK, Bound
<1>3. CASE RenewalLost \/ RecoveryLost
  <2>1. renewal' \in {renewal, NoRenewal} /\ recovery' \in {recovery, NoRecovery}
    BY <1>3 DEF RenewalLost, RecoveryLost
  <2> QED BY <1>1, <1>2, <2>1
         DEF IntervalOK, OneAtATime, NoRenewal, NoRecovery, PriceAhead, Bound
<1>4. CASE BeginRecovery
  <2>1. renewal' = renewal /\ renewal.doing = "idle" /\ change.doing = "idle"
        /\ edit.doing = "idle"
    BY <1>4, BeginsAlone DEF BeginRecovery
  <2> QED BY <1>1, <1>2, <2>1 DEF IntervalOK, OneAtATime, Bound
<1>5. CASE CommitRecovery
  <2>1. /\ renewal.doing = "idle" /\ change.doing = "idle" /\ edit.doing = "idle"
    BY <1>1, <1>5 DEF CommitRecovery, IntervalOK, OneAtATime
  <2>2. renewal' = renewal /\ recovery'.doing = "idle"
    BY <1>5, <2>1 DEF CommitRecovery, NoRecovery
  <2> QED BY <1>1, <1>2, <2>1, <2>2 DEF IntervalOK, OneAtATime, Bound
<1> QED BY <1>3, <1>4, <1>5

LEMMA IntervalKept ==
  ASSUME TypeOK, RowsOK, IntervalOK, [Next]_vars
  PROVE  IntervalOK'
<1>1. CASE UNCHANGED vars
  BY <1>1, Unedited, Untouched, SameInterval DEF vars
<1>2. CASE BeginPlanChange \/ BeginSeatChange
  <2>1. \E c : BeginChange(c)
    BY <1>2 DEF BeginPlanChange, BeginSeatChange
  <2>2. UNCHANGED <<price, sub, renewal, recovery, edit, agreed>> /\ Begins
    BY <2>1 DEF BeginChange, rows, history
  <2>3. SameTerms /\ \A p \in Prices : SameBilling(p)
    BY <2>2, Unedited, Untouched
  <2>4. ~overlapped' => ~overlapped /\ Idle
    BY <2>2, BeginsAlone DEF Idle
  <2> QED BY <2>2, <2>3, <2>4, SameInterval
<1>3. CASE ScheduleChange \/ PinPrice \/ TrialEnds \/ Lapse \/ Cancel
  <2>1. /\ UNCHANGED <<price, renewal, recovery, edit, agreed, change>>
        /\ sub'.status = sub.status \/ sub.status # "CANCELED"
    BY <1>3 DEF ScheduleChange, PinPrice, TrialEnds, Lapse, Cancel, history, TypeOK,
                SubscriptionRow
  <2>2. SameTerms /\ \A p \in Prices : SameBilling(p)
    BY <1>3, <2>1, TermsKept, Unedited
  <2>3. ~overlapped' => ~overlapped
    BY <1>3 DEF ScheduleChange, PinPrice, TrialEnds, Lapse, Cancel, Begins
  <2> QED BY <2>1, <2>2, <2>3, SameInterval
<1>4. CASE SetActive
  BY <1>4, ActiveFlagAlone, Untouched, SameInterval DEF SetActive, history
<1>5. CASE Tick
  BY <1>5, Unedited, Untouched, SameInterval DEF Tick
<1> QED BY <1>1, <1>2, <1>3, <1>4, <1>5, BeginEditInterval, BeginRenewalInterval,
           CommitChangeInterval, CommitRenewalInterval, CommitEditInterval,
           RecoveryInterval
        DEF Next, SweepRenews, RequestRenews

\* Only the customer's change of plan changes how often a subscription is billed,
\* whatever prices are edited in place, versioned, pinned and rolled forward to.
THEOREM IntervalIsKept == Spec => []IntervalIsTheCustomersChoice
<1>1. Init => TypeOK /\ RowsOK /\ IntervalOK
  BY InitTyped, InitInterval
<1>2. TypeOK /\ RowsOK /\ IntervalOK /\ [Next]_vars => (TypeOK /\ RowsOK /\ IntervalOK)'
  BY NextTyped, IntervalKept
<1>3. IntervalOK => IntervalIsTheCustomersChoice
  BY DEF IntervalOK, IntervalIsTheCustomersChoice
<1> QED BY <1>1, <1>2, <1>3, PTL DEF Spec

-----------------------------------------------------------------------------
(* The account of a period.                                                *)

LEMMA RatesAreNat ==
  ASSUME TypeOK, RowsOK
  PROVE  /\ Rate \in Nat /\ Length \in Nat \ {0}
         /\ DaysLeft(sub) \in 0..Length
         /\ ledger.invoiced \in Int /\ ledger.held \in Nat
         /\ spent.changes \in Nat /\ Uninvoiced \in {0, 1}
         /\ change.doing # "idle" => RateAhead \in Nat /\ change.net \in Int
<1>1. Rate \in Nat
  BY FieldsOK, RecurringIsNat DEF Rate
<1>2. Length \in Nat \ {0} /\ DaysLeft(sub) \in 0..Length
  <2>1. /\ sub.start \in Nat /\ sub.end \in Nat /\ today \in Nat /\ sub.start < sub.end
    BY FieldsOK
  <2>2. Remaining(sub.start, sub.end, today) \in 0..(sub.end - sub.start)
    BY <2>1, RemainingBound
  <2> QED BY <2>1, <2>2 DEF Length, DaysLeft
<1>3. ASSUME change.doing # "idle" PROVE RateAhead \in Nat
  <2>1. PriceChosen \in Prices /\ change.quantity \in Nat
    BY <1>3, FieldsOK DEF PriceChosen, RowsOK, TypeOK
  <2> QED BY <2>1, FieldsOK, RecurringIsNat DEF RateAhead
<1>4. ledger.invoiced \in Int /\ ledger.held \in Nat /\ spent.changes \in Nat
      /\ change.net \in Int
  BY DEF TypeOK
<1> QED BY <1>1, <1>2, <1>3, <1>4 DEF Uninvoiced

\* A period that opens with its price invoiced balances, whenever it is opened.
LEMMA OpenedBalances ==
  ASSUME NEW start \in Nat, NEW end \in Nat, NEW t \in Nat, start < end, NEW amount \in Nat
  PROVE  LET gone == Greater(Lesser(t, end) - start, 0)
         IN amount * (end - start) - (amount * gone + amount * Remaining(start, end, t)) = 0
<1> DEFINE gone == Greater(Lesser(t, end) - start, 0)
           left == Remaining(start, end, t)
           length == end - start
<1>1. gone \in Nat /\ left \in Nat /\ length = gone + left
  BY DEF Greater, Lesser, Remaining
<1> HIDE DEF gone, left, length
<1>2. amount * (gone + left) = amount * gone + amount * left
  BY <1>1
<1>3. amount * gone \in Nat /\ amount * left \in Nat
  BY <1>1
<1>4. amount * length - (amount * gone + amount * left) = 0
  BY <1>1, <1>2, <1>3
<1> QED BY <1>4 DEF gone, left, length

\* A day of the period gone by moves its rate from what is left to what was held.
LEMMA DayGoesBy ==
  ASSUME NEW start \in Nat, NEW end \in Nat, NEW t \in Nat, start < end
  PROVE  Remaining(start, end, t + 1)
           = IF t \in start..(end - 1) THEN Remaining(start, end, t) - 1
                                       ELSE Remaining(start, end, t)
  BY DEF Remaining, Lesser, Greater

LEMMA HeldMoves ==
  ASSUME NEW rate \in Nat, NEW left \in Int, NEW held \in Nat
  PROVE  (held + rate) + rate * (left - 1) = held + rate * left
<1>1. rate * (left - 1) = rate * left - rate /\ rate * left \in Int
  OBVIOUS
<1> QED BY <1>1

\* A change that is worth what it invoices, to within a unit, keeps the account to
\* within one unit more.
LEMMA ChangeBalances ==
  ASSUME NEW invoiced \in Int, NEW net \in Int, NEW held \in Nat, NEW rate \in Nat,
         NEW new \in Nat, NEW left \in Nat, NEW length \in Nat, NEW changes \in Int,
         -(changes * length) <= invoiced * length - (held + rate * left),
         invoiced * length - (held + rate * left) <= changes * length,
         -length <= net * length - (new - rate) * left,
         net * length - (new - rate) * left <= length
  PROVE  LET more == (changes + 1) * length
             difference == (invoiced + net) * length - (held + new * left)
         IN -more <= difference /\ difference <= more
<1>1. /\ (changes + 1) * length = changes * length + length
      /\ (invoiced + net) * length = invoiced * length + net * length
      /\ (new - rate) * left = new * left - rate * left
  OBVIOUS
<1>2. /\ changes * length \in Int /\ invoiced * length \in Int /\ net * length \in Int
      /\ new * left \in Int /\ rate * left \in Int
  OBVIOUS
<1> QED BY <1>1, <1>2

LEMMA BoundGrows ==
  ASSUME NEW k \in Int, NEW n \in Int, NEW length \in Nat, k <= n
  PROVE  k * length <= n * length /\ k * length \in Int /\ n * length \in Int
<1>1. n * length = k * length + (n - k) * length
  OBVIOUS
<1>2. (n - k) * length \in Nat /\ k * length \in Int
  <2>1. n - k \in Nat
    OBVIOUS
  <2> QED BY <2>1
<1> QED BY <1>1, <1>2

LEMMA SameRate ==
  ASSUME NEW p \in Prices, SameBilling(p), NEW q
  PROVE  RecurringAmount(price'[p], q) = RecurringAmount(price[p], q)
  BY DEF SameBilling, RecurringAmount

LEMMA InitAccount == Init => AccountOK
<1> SUFFICES ASSUME Init PROVE AccountOK
  OBVIOUS
<1>1. PICK p \in 1..Len(Catalogue), q \in Quantities :
        /\ sub.price = p /\ sub.quantity = q /\ sub.status # "CANCELED"
        /\ ledger = Opened(sub, RecurringAmount(price[p], q))
  BY Created
<1>2. TypeOK /\ RowsOK
  BY InitTyped
<1>3. Rate = RecurringAmount(price[p], q)
  BY <1>1 DEF Rate
<1>4. /\ ledger.invoiced = Rate /\ ledger.held = Rate * DaysGone(sub)
      /\ spent.changes = 0 /\ change.doing = "idle" /\ renewal.doing = "idle"
  BY <1>1, <1>3 DEF Init, Opened, NoChange, NoRenewal
<1>5. Difference = 0
  <2>1. Rate \in Nat
    BY <1>2, RatesAreNat
  <2> DEFINE amount == Rate
  <2>2. amount * (sub.end - sub.start)
          - (amount * DaysGone(sub) + amount * Remaining(sub.start, sub.end, today)) = 0
    BY <1>2, <2>1, FieldsOK, OpenedBalances DEF DaysGone
  <2> QED BY <1>4, <2>2 DEF Difference, Length, DaysLeft
<1>6. 0 * Length = 0
  BY <1>2, RatesAreNat
<1> QED BY <1>1, <1>4, <1>5, <1>6 DEF AccountOK, Uninvoiced

\* The steps that leave the terms, the bill and the account alone.
LEMMA SameAccount ==
  ASSUME TypeOK, RowsOK, AccountOK, SameTerms, SameBilling(sub.price),
         PriceAhead \in Prices => SameBilling(PriceAhead),
         PriceChosen \in Prices => SameBilling(PriceChosen),
         UNCHANGED <<today, change, ledger>>, renewal' \in {renewal, NoRenewal},
         spent'.changes \in Nat, spent'.changes >= spent.changes,
         ~overlapped' => ~overlapped,
         sub'.status = "CANCELED" => sub.status = "CANCELED"
  PROVE  AccountOK'
<1> SUFFICES ASSUME ~overlapped' PROVE AccountOK'
  BY DEF AccountOK
<1>1. ~overlapped
  OBVIOUS
<1>2. /\ Rate \in Nat /\ Length \in Nat \ {0} /\ spent.changes \in Nat /\ Uninvoiced \in {0, 1}
  BY RatesAreNat
<1>3. /\ Length' = Length /\ DaysLeft(sub)' = DaysLeft(sub) /\ Uninvoiced' = Uninvoiced
      /\ renewal' = renewal => PriceAhead' = PriceAhead
      /\ PriceChosen' = PriceChosen
  BY DEF SameTerms, Length, DaysLeft, Uninvoiced, PriceAhead, PriceChosen
<1>4. Rate' = Rate
  BY FieldsOK, SameRate DEF Rate, SameTerms
<1>5. Difference' = Difference
  BY <1>3, <1>4 DEF Difference
<1>6. ASSUME ~ledger'.mixed
      PROVE  LET changes == spent'.changes - Uninvoiced'
             IN -(changes * Length') <= Difference' /\ Difference' <= changes * Length'
  <2> DEFINE k == spent.changes - Uninvoiced
             n == spent'.changes - Uninvoiced
  <2>1. k \in Int /\ n \in Int /\ k <= n
    BY <1>2
  <2>2. -(k * Length) <= Difference /\ Difference <= k * Length
    BY <1>1, <1>6 DEF AccountOK
  <2>3. Difference \in Int
    <3>1. /\ ledger.invoiced \in Int /\ ledger.held \in Nat /\ DaysLeft(sub) \in Int
      BY RatesAreNat
    <3>2. ledger.invoiced * Length \in Int /\ Rate * DaysLeft(sub) \in Int
      BY <1>2, <3>1
    <3> QED BY <3>1, <3>2 DEF Difference
  <2> HIDE DEF k, n
  <2>4. k * Length <= n * Length /\ k * Length \in Int /\ n * Length \in Int
    BY <1>2, <2>1, BoundGrows
  <2>5. -(n * Length) <= Difference /\ Difference <= n * Length
    BY <2>2, <2>3, <2>4
  <2> QED BY <1>3, <1>5, <2>5 DEF n
<1>7. ASSUME change.doing # "idle"
      PROVE  RateAhead' = RateAhead
  <2>1. PriceChosen \in Prices
    BY <1>7, FieldsOK DEF PriceChosen, RowsOK
  <2> QED BY <1>3, <2>1, SameRate DEF RateAhead
<1>8. ASSUME renewal.doing = "renew", renewal' = renewal
      PROVE  RecurringAmount(price'[PriceAhead'], sub'.quantity)
               = RecurringAmount(price[PriceAhead], sub.quantity)
  <2>1. PriceAhead \in Prices
    BY <1>8, FieldsOK DEF PriceAhead, RowsOK, TypeOK, OptionalPrice, Prices
  <2>2. SameBilling(PriceAhead) /\ PriceAhead' = PriceAhead
    BY <1>3, <1>8, <2>1
  <2> QED BY <2>1, <2>2, SameRate DEF SameTerms
<1> QED BY <1>1, <1>3, <1>4, <1>6, <1>7, <1>8 DEF AccountOK, NoRenewal

\* A transaction that begins alone leaves the account as it is and is worth what it
\* will invoice.
LEMMA BeginChangeAccount ==
  ASSUME TypeOK, RowsOK, AccountOK, NEW c, BeginChange(c), c.doing # "idle",
         LET new == RecurringAmount(price[IF c.doing = "plan" THEN c.price ELSE sub.price],
                                    c.quantity)
             error == c.net * Length - (new - Rate) * DaysLeft(sub)
         IN -Length <= error /\ error <= Length
  PROVE  AccountOK'
<1> SUFFICES ASSUME ~overlapped' PROVE AccountOK'
  BY DEF AccountOK
<1>1. ~overlapped /\ change.doing = "idle" /\ renewal.doing = "idle"
  BY BeginsAlone DEF BeginChange
<1>2. UNCHANGED <<today, price, sub, renewal, ledger>> /\ change' = c
  BY DEF BeginChange, rows, history
<1>3. spent'.changes = spent.changes + 1 /\ spent.changes \in Nat
  BY SpentCounts, RatesAreNat DEF BeginChange
<1>4. /\ Uninvoiced' = 1 /\ Uninvoiced = 0 /\ Length' = Length
      /\ DaysLeft(sub)' = DaysLeft(sub) /\ Rate' = Rate /\ Difference' = Difference
  BY <1>1, <1>2 DEF Uninvoiced, Length, DaysLeft, Rate, Difference
<1>5. spent'.changes - Uninvoiced' = spent.changes - Uninvoiced
  BY <1>3, <1>4
<1>6. RateAhead' = RecurringAmount(price[IF c.doing = "plan" THEN c.price ELSE sub.price],
                                   c.quantity)
  BY <1>2 DEF RateAhead, PriceChosen
<1> QED BY <1>1, <1>2, <1>4, <1>5, <1>6 DEF AccountOK

LEMMA PlanChangeAccount ==
  ASSUME TypeOK, RowsOK, AccountOK, BeginPlanChange
  PROVE  AccountOK'
<1>1. PICK p \in 1..made, q \in Quantities :
        BeginChange([doing |-> "plan", price |-> p, quantity |-> q,
                     net |-> Prorated(sub.start, sub.end, today, Rate,
                                      RecurringAmount(price[p], q))])
  BY DEF BeginPlanChange
<1> DEFINE new == RecurringAmount(price[p], q)
           net == Prorated(sub.start, sub.end, today, Rate, new)
           c == [doing |-> "plan", price |-> p, quantity |-> q, net |-> net]
<1>2. Rate \in Nat /\ new \in Nat
  BY FieldsOK, RatesAreNat, RecurringIsNat, PlansAssumption
<1>3. LET error == net * Length - (new - Rate) * DaysLeft(sub)
      IN -Length <= error /\ error <= Length
  <2> HIDE DEF new
  <2> QED BY <1>2, FieldsOK, ProrationIsExact DEF Length, DaysLeft
<1>4. BeginChange(c)
  BY <1>1
<1>5. c.doing = "plan" /\ c.price = p /\ c.quantity = q /\ c.net = net
  OBVIOUS
<1> HIDE DEF c, net
<1> QED BY <1>3, <1>4, <1>5, BeginChangeAccount

LEMMA SeatChangeAccount ==
  ASSUME TypeOK, RowsOK, AccountOK, BeginSeatChange
  PROVE  AccountOK'
<1>1. PICK q \in Quantities :
        /\ q > sub.quantity
        /\ BeginChange([doing |-> "seats", price |-> 0, quantity |-> q,
                        net |-> SeatsProrated(sub.start, sub.end, today,
                                  price[sub.price].amount, sub.quantity, q)])
  BY DEF BeginSeatChange
<1> DEFINE unit == price[sub.price].amount
           added == unit * (q - sub.quantity)
           net == SeatsProrated(sub.start, sub.end, today, unit, sub.quantity, q)
           c == [doing |-> "seats", price |-> 0, quantity |-> q, net |-> net]
<1>2. /\ added \in Nat /\ net = Prorated(sub.start, sub.end, today, 0, added) /\ net \in Int
      /\ unit \in Nat /\ q \in Nat /\ sub.quantity \in Nat
  BY <1>1, SeatsAreProrated, FieldsOK, PlansAssumption
<1>3. price[sub.price].model = "PER_SEAT"
  BY DEF BeginSeatChange
<1>4. Rate = unit * sub.quantity /\ RecurringAmount(price[sub.price], q) = unit * q
  BY <1>3 DEF Rate, RecurringAmount
<1>5. unit * q - unit * sub.quantity = added
  BY <1>2
<1>6. LET error == net * Length - (added - 0) * DaysLeft(sub)
      IN -Length <= error /\ error <= Length
  <2> HIDE DEF added, net
  <2> QED BY <1>2, FieldsOK, ProrationIsExact DEF Length, DaysLeft
<1>7. BeginChange(c)
  BY <1>1
<1>8. c.doing = "seats" /\ c.quantity = q /\ c.net = net
  OBVIOUS
<1>9. RecurringAmount(price[sub.price], q) - Rate = added - 0
  BY <1>2, <1>4, <1>5
<1> HIDE DEF c, net, added, unit
<1> QED BY <1>6, <1>7, <1>8, <1>9, BeginChangeAccount

LEMMA CommitChangeAccount ==
  ASSUME TypeOK, RowsOK, IntervalOK, AccountOK, CommitChange
  PROVE  AccountOK'
<1> SUFFICES ASSUME ~overlapped' PROVE AccountOK'
  BY DEF AccountOK
<1>1. /\ UNCHANGED <<today, price, renewal, overlapped, spent>> /\ ~overlapped
      /\ change'.doing = "idle" /\ change.doing # "idle" /\ sub' = Changed
  BY DEF CommitChange, NoChange
<1>2. renewal.doing = "idle"
  BY <1>1 DEF IntervalOK, OneAtATime, TypeOK
<1>3. /\ sub'.start = sub.start /\ sub'.end = sub.end /\ sub'.status = sub.status
      /\ sub'.price = PriceChosen /\ sub'.quantity = change.quantity
  BY <1>1, ChangedTyped DEF PriceChosen
<1>4. /\ ledger'.invoiced = ledger.invoiced + change.net /\ ledger'.held = ledger.held
      /\ ledger.mixed => ledger'.mixed
  BY <1>1 DEF CommitChange, TypeOK
<1>5. /\ Length' = Length /\ DaysLeft(sub)' = DaysLeft(sub) /\ Rate' = RateAhead
      /\ Uninvoiced = 1 /\ Uninvoiced' = 0
  BY <1>1, <1>3 DEF Length, DaysLeft, Rate, RateAhead, Uninvoiced
<1>6. ASSUME ~ledger'.mixed
      PROVE  /\ -(spent.changes * Length) <= Difference'
             /\ Difference' <= spent.changes * Length
  <2> DEFINE invoiced == ledger.invoiced
             net == change.net
             held == ledger.held
             rate == Rate
             new == RateAhead
             left == DaysLeft(sub)
             length == Length
             changes == spent.changes - 1
  <2>1. /\ invoiced \in Int /\ net \in Int /\ held \in Nat /\ rate \in Nat /\ new \in Nat
        /\ left \in Nat /\ length \in Nat /\ changes \in Int /\ changes + 1 = spent.changes
    BY <1>1, RatesAreNat
  <2>2. /\ -(changes * length) <= invoiced * length - (held + rate * left)
        /\ invoiced * length - (held + rate * left) <= changes * length
    BY <1>1, <1>4, <1>5, <1>6 DEF AccountOK, Difference
  <2>3. /\ -length <= net * length - (new - rate) * left
        /\ net * length - (new - rate) * left <= length
    BY <1>1 DEF AccountOK
  <2>4. Difference' = (invoiced + net) * length - (held + new * left)
    BY <1>4, <1>5 DEF Difference
  <2> HIDE DEF invoiced, net, held, rate, new, left, length, changes
  <2>5. /\ -((changes + 1) * length) <= (invoiced + net) * length - (held + new * left)
        /\ (invoiced + net) * length - (held + new * left) <= (changes + 1) * length
    BY <2>1, <2>2, <2>3, ChangeBalances
  <2> QED BY <2>1, <2>4, <2>5 DEF length
<1>7. spent'.changes - Uninvoiced' = spent.changes
  BY <1>1, <1>5, RatesAreNat
<1> QED BY <1>1, <1>2, <1>3, <1>4, <1>5, <1>6, <1>7 DEF AccountOK

LEMMA BeginRenewalAccount ==
  ASSUME TypeOK, RowsOK, AccountOK, BeginRenewal
  PROVE  AccountOK'
<1> SUFFICES ASSUME ~overlapped' PROVE AccountOK'
  BY DEF AccountOK
<1>1. ~overlapped /\ change.doing = "idle"
  BY BeginsAlone DEF BeginRenewal
<1>2. /\ UNCHANGED <<today, price, sub, change, ledger, spent>> /\ sub.status # "CANCELED"
  BY DEF BeginRenewal, rows, history
<1>3. renewal'.amount = RecurringAmount(price[PriceAhead'], sub.quantity)
  <2>1. PICK p \in BillingPrices :
          /\ p \in 1..made
          /\ renewal' = [doing |-> "renew", start |-> sub.end,
                         end |-> AddInterval(sub.end, price[p].interval, NextAnchor),
                         anchor |-> IF sub.status = "TRIALING" THEN NextAnchor ELSE 0,
                         price |-> IF p = sub.price THEN 0 ELSE p,
                         amount |-> RecurringAmount(price[p], sub.quantity),
                          overtaken |-> FALSE]
    BY RenewalBegun
  <2>2. /\ renewal'.price = IF p = sub.price THEN 0 ELSE p
        /\ renewal'.amount = RecurringAmount(price[p], sub.quantity)
    BY <2>1
  <2>3. PriceAhead' = p
    BY <1>2, <2>1, <2>2 DEF PriceAhead
  <2> QED BY <2>2, <2>3
<1>4. /\ Uninvoiced' = Uninvoiced /\ Length' = Length
      /\ DaysLeft(sub)' = DaysLeft(sub) /\ Rate' = Rate /\ Difference' = Difference
  BY <1>2 DEF Uninvoiced, Length, DaysLeft, Rate, Difference
<1> QED BY <1>1, <1>2, <1>3, <1>4 DEF AccountOK

LEMMA CommitRenewalAccount ==
  ASSUME TypeOK, RowsOK, IntervalOK, AccountOK, CommitRenewal
  PROVE  AccountOK'
<1> SUFFICES ASSUME ~overlapped' PROVE AccountOK'
  BY DEF AccountOK
<1>1. /\ UNCHANGED <<today, price, change, overlapped, spent>> /\ ~overlapped
      /\ renewal'.doing = "idle" /\ renewal.doing = "renew"
  BY DEF CommitRenewal, NoRenewal
<1>2. change.doing = "idle" /\ sub.status # "CANCELED"
  BY <1>1 DEF IntervalOK, OneAtATime, AccountOK, TypeOK
<1>3. /\ sub' \in SubscriptionRow /\ sub'.start < sub'.end
      /\ sub'.status = "CANCELED" => sub.status = "CANCELED"
      /\ sub'.price = PriceAhead /\ sub'.quantity = sub.quantity
  BY RenewedRow
<1>4. ledger'.invoiced = renewal.amount /\ ledger'.held = renewal.amount * DaysGone(sub')
  BY <1>1 DEF CommitRenewal, Opened
<1>5. Rate' = renewal.amount /\ renewal.amount \in Nat
  BY <1>1, <1>3 DEF AccountOK, Rate, TypeOK
<1>6. Difference' = 0
  <2>1. sub'.start \in Nat /\ sub'.end \in Nat /\ today \in Nat
    BY <1>3, FieldsOK DEF SubscriptionRow
  <2> DEFINE amount == renewal.amount
  <2>2. amount * (sub'.end - sub'.start)
          - (amount * DaysGone(sub') + amount * Remaining(sub'.start, sub'.end, today)) = 0
    <3>1. amount \in Nat
      BY <1>5
    <3> HIDE DEF amount
    <3> QED BY <1>3, <2>1, <3>1, OpenedBalances DEF DaysGone
  <2>3. Difference' = amount * (sub'.end - sub'.start)
          - (amount * DaysGone(sub') + amount * Remaining(sub'.start, sub'.end, today))
    BY <1>1, <1>4, <1>5 DEF Difference, Length, DaysLeft
  <2> QED BY <2>2, <2>3
<1>7. 0 <= spent.changes * Length' /\ -(spent.changes * Length') <= 0
      /\ spent'.changes - Uninvoiced' = spent.changes
  <2>1. spent.changes \in Nat /\ Length' \in Nat /\ Uninvoiced' = 0
    BY <1>1, <1>2, <1>3, RatesAreNat DEF Length, SubscriptionRow, Uninvoiced
  <2> DEFINE l == Length'
  <2>2. l \in Nat
    BY <2>1
  <2> HIDE DEF l
  <2>3. 0 * l <= spent.changes * l /\ spent.changes * l \in Int /\ 0 * l = 0
    BY <2>1, <2>2, BoundGrows
  <2> QED BY <1>1, <2>1, <2>3 DEF l
<1> QED BY <1>1, <1>2, <1>3, <1>6, <1>7 DEF AccountOK

LEMMA CommitEditAccount ==
  ASSUME TypeOK, RowsOK, IntervalOK, AccountOK, CommitEdit
  PROVE  AccountOK'
<1> SUFFICES ASSUME ~overlapped' PROVE AccountOK'
  BY DEF AccountOK
<1>1. /\ UNCHANGED <<today, sub, change, renewal, overlapped, spent>> /\ ~overlapped
      /\ edit.doing # "idle" /\ ledger' = ledger
  BY DEF CommitEdit
<1>2. change.doing = "idle" /\ renewal.doing = "idle"
  BY <1>1 DEF IntervalOK, OneAtATime, TypeOK
<1>3. CASE sub.status = "CANCELED"
  BY <1>1, <1>2, <1>3 DEF AccountOK
<1>4. CASE sub.status # "CANCELED"
  <2>1. SameBilling(sub.price) \/ (edit.doing = "in_place" /\ sub.price = edit.price)
    BY FieldsOK, ListEdited
  <2>2. Rate' = Rate
    BY <1>1, <1>4, <2>1, FieldsOK, SameRate DEF IntervalOK, Bound, Rate
  <2>3. /\ Uninvoiced' = Uninvoiced /\ Length' = Length /\ Difference' = Difference
    BY <1>1, <2>2 DEF Uninvoiced, Length, DaysLeft, Difference
  <2> QED BY <1>1, <1>2, <1>4, <2>3 DEF AccountOK
<1> QED BY <1>3, <1>4

LEMMA TickAccount ==
  ASSUME TypeOK, RowsOK, AccountOK, Tick
  PROVE  AccountOK'
<1> SUFFICES ASSUME ~overlapped' PROVE AccountOK'
  BY DEF AccountOK
<1>1. /\ UNCHANGED <<price, sub, change, renewal, overlapped, spent>> /\ ~overlapped
      /\ change.doing = "idle" /\ renewal.doing = "idle" /\ today' = today + 1
  BY DEF Tick, Idle
<1>2. /\ Rate' = Rate /\ Length' = Length /\ Uninvoiced' = Uninvoiced
  BY <1>1 DEF Rate, Length, Uninvoiced
<1>3. ledger'.mixed = ledger.mixed /\ ledger'.invoiced = ledger.invoiced
  BY DEF Tick, TypeOK
<1>4. ledger'.held + Rate * DaysLeft(sub)' = ledger.held + Rate * DaysLeft(sub)
  <2> DEFINE left == DaysLeft(sub)
             held == ledger.held
             rate == Rate
  <2>1. rate \in Nat /\ left \in Int /\ held \in Nat
    BY RatesAreNat
  <2>2. DaysLeft(sub)' = IF today \in sub.start..(sub.end - 1) THEN left - 1 ELSE left
    <3>1. sub.start \in Nat /\ sub.end \in Nat /\ today \in Nat /\ sub.start < sub.end
      BY FieldsOK
    <3> QED BY <1>1, <3>1, DayGoesBy DEF DaysLeft
  <2>3. ledger'.held = IF today \in sub.start..(sub.end - 1) THEN held + rate ELSE held
    BY <1>1 DEF Tick, TypeOK
  <2> HIDE DEF left, held, rate
  <2>4. (held + rate) + rate * (left - 1) = held + rate * left
    BY <2>1, HeldMoves
  <2>5. CASE today \in sub.start..(sub.end - 1)
    BY <2>2, <2>3, <2>4, <2>5 DEF left, held, rate
  <2>6. CASE today \notin sub.start..(sub.end - 1)
    BY <2>2, <2>3, <2>6 DEF left, held, rate
  <2> QED BY <2>5, <2>6
<1>5. Difference' = Difference
  BY <1>2, <1>3, <1>4 DEF Difference
<1> QED BY <1>1, <1>2, <1>3, <1>5 DEF AccountOK

LEMMA AccountKept ==
  ASSUME TypeOK, RowsOK, IntervalOK, AccountOK, [Next]_vars
  PROVE  AccountOK'
<1>1. sub.price \in Prices /\ spent.changes \in Nat
  BY FieldsOK, RatesAreNat
<1>2. CASE UNCHANGED vars
  BY <1>1, <1>2, Unedited, Untouched, SameAccount DEF vars
<1>3. CASE ScheduleChange \/ PinPrice \/ TrialEnds \/ Lapse
  <2>1. UNCHANGED <<today, price, change, renewal, ledger, overlapped>>
    BY <1>3 DEF ScheduleChange, PinPrice, TrialEnds, Lapse, history
  <2>2. sub'.status = "CANCELED" => sub.status = "CANCELED"
    BY <1>3 DEF ScheduleChange, PinPrice, TrialEnds, Lapse, TypeOK, SubscriptionRow
  <2>3. spent'.changes \in Nat /\ spent'.changes >= spent.changes
    BY <1>1, <1>3, SpentCounts DEF ScheduleChange, PinPrice, TrialEnds, Lapse, TypeOK
  <2>4. SameTerms
    BY <1>3, TermsKept
  <2> QED BY <1>1, <2>1, <2>2, <2>3, <2>4, Unedited, SameAccount
<1>4. CASE Cancel
  <2>1. UNCHANGED <<change, renewal>> /\ ledger'.mixed
    BY <1>4 DEF Cancel, Closed
  <2>2. ~overlapped' => change.doing = "idle" /\ renewal.doing = "idle"
    BY <1>4, BeginsAlone DEF Cancel
  <2> QED BY <2>1, <2>2 DEF AccountOK
<1>5. CASE BeginEdit
  <2>1. UNCHANGED <<today, price, sub, change, renewal, ledger>>
    BY <1>5 DEF BeginEdit, rows, history
  <2>2. spent'.changes = spent.changes
    BY <1>5, SpentCounts DEF BeginEdit
  <2>3. ~overlapped' => ~overlapped
    BY <1>5 DEF BeginEdit, Begins
  <2> QED BY <1>1, <2>1, <2>2, <2>3, Unedited, Untouched, SameAccount
<1>6. CASE SetActive
  <2>1. UNCHANGED <<today, sub, change, renewal, ledger, overlapped>>
    BY <1>6 DEF SetActive, history
  <2>2. spent'.changes = spent.changes
    BY <1>6, SpentCounts DEF SetActive
  <2> QED BY <1>1, <1>6, <2>1, <2>2, ActiveFlagAlone, Untouched, SameAccount
<1>7. CASE RenewalLost \/ RecoveryLost \/ BeginRecovery
  <2>1. /\ UNCHANGED <<today, price, sub, change, ledger, spent>>
        /\ renewal' \in {renewal, NoRenewal}
        /\ ~overlapped' => ~overlapped
    <3>1. CASE RenewalLost \/ RecoveryLost
      BY <3>1 DEF RenewalLost, RecoveryLost, rows, history
    <3>2. CASE BeginRecovery
      BY <3>2 DEF BeginRecovery, Begins, rows, history
    <3> QED BY <1>7, <3>1, <3>2
  <2> QED BY <1>1, <2>1, Unedited, Untouched, SameAccount
<1>8. CASE CommitRecovery
  <2>1. UNCHANGED <<change, overlapped>> /\ ledger'.mixed /\ recovery.doing = "recover"
    BY <1>8 DEF CommitRecovery, Closed
  <2>2. ~overlapped => change.doing = "idle" /\ renewal.doing = "idle" /\ renewal' = renewal
    BY <1>8, <2>1 DEF CommitRecovery, IntervalOK, OneAtATime
  <2> QED BY <2>1, <2>2 DEF AccountOK
<1> QED BY <1>2, <1>3, <1>4, <1>5, <1>6, <1>7, <1>8, PlanChangeAccount, SeatChangeAccount,
           CommitChangeAccount, BeginRenewalAccount, CommitRenewalAccount,
           CommitEditAccount, TickAccount
        DEF Next, SweepRenews, RequestRenews

-----------------------------------------------------------------------------

LEMMA AccountMeaning ==
  ASSUME TypeOK, RowsOK, AccountOK
  PROVE  PeriodPaysForWhatWasHeld
<1> SUFFICES ASSUME ~overlapped, ~ledger.mixed
             PROVE  Difference \in (-spent.changes * Length)..(spent.changes * Length)
  BY DEF PeriodPaysForWhatWasHeld, Difference, Length
<1> DEFINE k == spent.changes - Uninvoiced
           n == spent.changes
<1>1. Length \in Nat /\ n \in Nat /\ k \in Int /\ k <= n
  BY RatesAreNat
<1>2. -(k * Length) <= Difference /\ Difference <= k * Length
  BY DEF AccountOK
<1>3. Difference \in Int
  <2>1. /\ ledger.invoiced \in Int /\ ledger.held \in Nat /\ Rate \in Nat /\ DaysLeft(sub) \in Int
    BY RatesAreNat
  <2>2. ledger.invoiced * Length \in Int /\ Rate * DaysLeft(sub) \in Int
    BY <1>1, <2>1
  <2> QED BY <2>1, <2>2 DEF Difference
<1> HIDE DEF k, n
<1>4. k * Length <= n * Length /\ k * Length \in Int /\ n * Length \in Int
  BY <1>1, BoundGrows
<1>5. Difference \in (-(n * Length))..(n * Length)
  BY <1>2, <1>3, <1>4
<1> QED BY <1>5 DEF n

\* The invoices of a period come to what was held in it, to within a unit for each
\* change: for every calendar, price list, number of changes and edits and every
\* order of them that does not overlap.
THEOREM PeriodsArePaidFor == Spec => []PeriodPaysForWhatWasHeld
<1>1. Init => IInv
  BY InitTyped, InitBillingDay, InitInterval, InitAccount DEF IInv
<1>2. IInv /\ [Next]_vars => IInv'
  BY NextTyped, BillingDayKept, IntervalKept, AccountKept DEF IInv
<1>3. IInv => PeriodPaysForWhatWasHeld
  BY AccountMeaning DEF IInv
<1> QED BY <1>1, <1>2, <1>3, PTL DEF Spec
=============================================================================
