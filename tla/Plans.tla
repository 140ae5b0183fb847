------------------------------- MODULE Plans -------------------------------
(***************************************************************************)
(* What one subscription is charged, and for how long: the price it is on, *)
(* its seats, its billing day, and the price list the merchant edits under *)
(* it.  changePlan and changeQuantity by the customer, renewSubscription   *)
(* by the sweep or by hand, updatePrice by the merchant, and the payment   *)
(* that recovers an UNPAID subscription onto a period of its own.          *)
(*                                                                         *)
(* Each of the four is one READ COMMITTED transaction that reads rows and  *)
(* writes them later, and none of them excludes the others (the advisory   *)
(* lock of a renewal only holds off another renewal), so each is a Begin   *)
(* and a Commit.  A transaction lasts less than a day.                     *)
(***************************************************************************)
EXTENDS BillingMath, FiniteSets

CONSTANTS
  Catalogue,     \* the price rows on sale at the start
  MaxPrices,     \* bound: rows the price list ever has
  Amounts,       \* what an edit may set a price's amount to
  Intervals,     \* and its interval
  Quantities,    \* the seats a customer may ask for
  SignUp,        \* the day the subscription starts
  TrialLengths,  \* in days; 0 is no trial
  MaxLateness,   \* bound: days between a payment and its being heard of
  MaxLapses,     \* bound: times the subscription goes UNPAID
  MaxChanges,    \* bound: changes of plan or seats
  MaxEdits       \* bound: edits of the price list or of the pin

ASSUME PlansAssumption ==
  /\ MaxPrices \in Nat /\ Len(Catalogue) \in 1..MaxPrices
  /\ Amounts \subseteq Nat /\ Intervals \subseteq Interval
  /\ Quantities \subseteq Nat \ {0}
  /\ SignUp \in Days /\ TrialLengths \subseteq Nat
  /\ \A t \in TrialLengths : SignUp + t \in Days
  /\ MaxLateness \in Nat /\ MaxLapses \in Nat
  /\ MaxChanges \in Nat /\ MaxEdits \in Nat

Prices == 1..MaxPrices
OptionalPrice == 0..MaxPrices        \* 0 is none

\* FLAT stands for FLAT_RECURRING and the base of HYBRID and, with nothing for an
\* amount, for USAGE_METERED.
PriceRow == [model : {"FLAT", "PER_SEAT"}, amount : Nat, interval : Interval,
             active : BOOLEAN, supersedes : OptionalPrice]

ASSUME CatalogueAssumption ==
  \A p \in 1..Len(Catalogue) :
    Catalogue[p] \in PriceRow /\ WithinCalendar(SignUp, Catalogue[p].interval)

VARIABLES
  today,
  price,       \* the Price rows
  made,        \* how many of them exist
  sub,         \* the Subscription row
  owed,        \* whether a subscription on trial has an open invoice
  change,      \* the customer's transaction in flight
  renewal,     \* the renewal in flight
  recovery,    \* the recovery in flight
  edit,        \* the merchant's transaction in flight
  ledger,      \* what the current period was invoiced, and what was held in it
  agreed,      \* the interval the customer last chose
  day,         \* the billing day the subscription was last given; 0 when it is lost
  monthly,     \* whether the subscription has only ever been on monthly prices
  overlapped,  \* whether two transactions have ever been in flight together
  spent        \* how much of the bounds is used up

vars == <<today, price, made, sub, owed, change, renewal, recovery, edit, ledger, agreed,
          day, monthly, overlapped, spent>>

rows == <<today, price, made, sub, owed>>
history == <<ledger, agreed, day, monthly>>

\* ACTIVE stands for PAST_DUE and GRACE_PERIOD too, which keep their access.
\* scheduled stands for pendingPriceId and pendingQuantity in the metadata, which
\* the code writes and never reads.
SubscriptionRow ==
  [status : {"TRIALING", "ACTIVE", "UNPAID", "CANCELED"}, price : Prices, quantity : Nat,
   start : Nat, end : Nat, anchor : Nat, trialEnd : Nat, pinned : BOOLEAN,
   scheduled : BOOLEAN]

NoChange == [doing |-> "idle", price |-> 0, quantity |-> 0, net |-> 0]
NoRenewal == [doing |-> "idle", start |-> 0, end |-> 0, anchor |-> 0, price |-> 0,
              amount |-> 0, overtaken |-> FALSE]
NoRecovery == [doing |-> "idle", start |-> 0, end |-> 0, anchor |-> 0]
NoEdit == [doing |-> "idle", price |-> 0, amount |-> 0, interval |-> Catalogue[1].interval]
NoPrice == [model |-> "FLAT", amount |-> 0, interval |-> Catalogue[1].interval,
            active |-> FALSE, supersedes |-> 0]

TypeOK ==
  /\ today \in Days
  /\ price \in [Prices -> PriceRow]
  /\ made \in Prices
  /\ sub \in SubscriptionRow /\ sub.price <= made /\ sub.start < sub.end
  /\ owed \in BOOLEAN
  /\ change \in [doing : {"idle", "plan", "seats"}, price : OptionalPrice,
                 quantity : Nat, net : Int]
  /\ renewal \in [doing : {"idle", "renew"}, start : Nat, end : Nat, anchor : Nat,
                  price : OptionalPrice, amount : Nat, overtaken : BOOLEAN]
  /\ recovery \in [doing : {"idle", "recover"}, start : Nat, end : Nat, anchor : Nat]
  /\ edit \in [doing : {"idle", "in_place", "version"}, price : OptionalPrice,
               amount : Nat, interval : Interval]
  /\ ledger \in [invoiced : Int, held : Nat, mixed : BOOLEAN]
  /\ agreed \in Interval /\ day \in Nat
  /\ monthly \in BOOLEAN /\ overlapped \in BOOLEAN
  /\ spent \in [changes : 0..MaxChanges, edits : 0..MaxEdits, lapses : 0..MaxLapses]

Idle ==
  /\ change.doing = "idle" /\ renewal.doing = "idle"
  /\ recovery.doing = "idle" /\ edit.doing = "idle"

---------------------------------------------------------------------------
(* The ledger of a period: invoiced is the sum of its invoices' totals; held *)
(* adds, for each day of it gone by, the recurring value the subscription   *)
(* then had.  It is kept while no two transactions have overlapped.         *)

Rate == RecurringAmount(price[sub.price], sub.quantity)

DaysGone(s) == Greater(Lesser(today, s.end) - s.start, 0)
DaysLeft(s) == Remaining(s.start, s.end, today)

Closed == [invoiced |-> 0, held |-> 0, mixed |-> TRUE]

Opened(s, amount) ==
  [invoiced |-> amount, held |-> amount * DaysGone(s), mixed |-> FALSE]

\* A transaction begins: from here on it may overlap another.
Begins == overlapped' = (overlapped \/ ~Idle)

---------------------------------------------------------------------------
(* createSubscription, and the first payment when there is no trial. *)

Init ==
  /\ today = SignUp
  /\ price = [p \in Prices |-> IF p <= Len(Catalogue) THEN Catalogue[p] ELSE NoPrice]
  /\ made = Len(Catalogue)
  /\ \E p \in 1..Len(Catalogue), q \in Quantities, trial \in TrialLengths :
       LET row == Catalogue[p]
           end == IF trial > 0 THEN SignUp + trial
                  ELSE AddInterval(SignUp, row.interval, DayOf(SignUp))
       IN /\ row.active
          /\ row.model = "PER_SEAT" \/ q = 1
          /\ sub = [status |-> IF trial > 0 THEN "TRIALING" ELSE "ACTIVE",
                    price |-> p, quantity |-> q, start |-> SignUp, end |-> end,
                    anchor |-> DayOf(SignUp),
                    trialEnd |-> IF trial > 0 THEN end ELSE 0, pinned |-> FALSE,
                    scheduled |-> FALSE]
          /\ ledger = Opened(sub, RecurringAmount(row, q))
          /\ agreed = row.interval /\ day = DayOf(SignUp)
          /\ monthly = (row.interval.unit = "MONTH")
  /\ owed = FALSE /\ overlapped = FALSE /\ spent = [changes |-> 0, edits |-> 0, lapses |-> 0]
  /\ change = NoChange /\ renewal = NoRenewal /\ recovery = NoRecovery /\ edit = NoEdit

---------------------------------------------------------------------------
(* changePlan and changeQuantity. *)

\* Every proration reads the price, the seats and the period as they are now.
BeginChange(c) ==
  /\ change.doing = "idle" /\ spent.changes < MaxChanges
  /\ change' = c
  /\ spent' = [spent EXCEPT !.changes = @ + 1]
  /\ Begins
  /\ UNCHANGED <<rows, renewal, recovery, edit, history>>

\* To any price on sale, at once.
BeginPlanChange ==
  /\ sub.status # "CANCELED"
  /\ \E p \in 1..made, q \in Quantities :
       /\ price[p].active
       /\ BeginChange([doing |-> "plan", price |-> p, quantity |-> q,
                       net |-> Prorated(sub.start, sub.end, today, Rate,
                                        RecurringAmount(price[p], q))])

\* More seats, charged for at once.  The status is not looked at.
BeginSeatChange ==
  /\ price[sub.price].model = "PER_SEAT"
  /\ \E q \in Quantities :
       /\ q > sub.quantity
       /\ BeginChange([doing |-> "seats", price |-> 0, quantity |-> q,
                       net |-> SeatsProrated(sub.start, sub.end, today,
                                 price[sub.price].amount, sub.quantity, q)])

\* A plan change or a reduction of seats for the next period.
ScheduleChange ==
  /\ change.doing = "idle" /\ spent.changes < MaxChanges
  /\ \/ sub.status # "CANCELED" /\ \E p \in 1..made : price[p].active
     \/ price[sub.price].model = "PER_SEAT" /\ \E q \in Quantities : q < sub.quantity
  /\ sub' = [sub EXCEPT !.scheduled = TRUE]
  /\ spent' = [spent EXCEPT !.changes = @ + 1]
  /\ UNCHANGED <<today, price, made, owed, change, renewal, recovery, edit, history, overlapped>>

Changed ==
  IF change.doing = "plan"
  THEN [sub EXCEPT !.price = change.price, !.quantity = change.quantity]
  ELSE [sub EXCEPT !.quantity = change.quantity]

ChosenInterval == IF change.doing = "plan" THEN price[change.price].interval ELSE agreed

\* finalizeInvoice: an invoice that comes to nothing or less is PAID as it is
\* issued, any other is open; what an open one means for a trial, TrialEnds
\* says.
CommitChange ==
  /\ change.doing # "idle"
  /\ sub' = Changed
  /\ owed' = (owed \/ (sub.status = "TRIALING" /\ change.net > 0))
  /\ agreed' = ChosenInterval
  /\ monthly' = (monthly /\ price[sub'.price].interval.unit = "MONTH")
  /\ ledger' = IF overlapped THEN Closed
               ELSE [ledger EXCEPT !.invoiced = @ + change.net,
                                   !.mixed = @ \/ ChosenInterval # price[sub.price].interval]
  /\ change' = NoChange
  /\ UNCHANGED <<today, price, made, renewal, recovery, edit, day, overlapped, spent>>

\* POST /pin-price.
PinPrice ==
  /\ spent.edits < MaxEdits
  /\ sub' = [sub EXCEPT !.pinned = ~@]
  /\ spent' = [spent EXCEPT !.edits = @ + 1]
  /\ UNCHANGED <<today, price, made, owed, change, renewal, recovery, edit, history, overlapped>>

---------------------------------------------------------------------------
(* renewSubscription. *)

\* The versions that supersede a price, directly or through others.
Supersedes[p \in Prices] ==
  IF price[p].supersedes \in 1..(p - 1)
  THEN {price[p].supersedes} \cup Supersedes[price[p].supersedes]
  ELSE {}

\* resolveCurrentPrice: where following the versions can end.  A price edited
\* twice has two that supersede it, and the query picks either.
CurrentPrices(p) ==
  {q \in 1..made : p \in Supersedes[q] /\ \A r \in 1..made : price[r].supersedes # q}

\* A mutant: any newer version will do.
CanRollForwardAlways(from, to) == TRUE

CanRollForward(from, to) == price[from].interval = price[to].interval

\* The price the next period is billed at.
BillingPrices ==
  IF sub.pinned \/ CurrentPrices(sub.price) = {} THEN {sub.price}
  ELSE {IF CanRollForward(sub.price, q) THEN q ELSE sub.price :
          q \in CurrentPrices(sub.price)}

\* A mutant: the billing day is where the last period happened to end.
NextAnchorRetaken == DayOf(sub.end)

\* A trial's end is the billing day from then on.
NextAnchor == IF sub.status = "TRIALING" THEN DayOf(sub.end) ELSE sub.anchor

BeginRenewal ==
  /\ renewal.doing = "idle"
  /\ sub.status # "CANCELED"
  /\ \E p \in BillingPrices :
       /\ WithinCalendar(sub.end, price[p].interval)
       /\ renewal' = [doing |-> "renew", start |-> sub.end,
                      end |-> AddInterval(sub.end, price[p].interval, NextAnchor),
                      anchor |-> IF sub.status = "TRIALING" THEN NextAnchor ELSE 0,
                      price |-> IF p = sub.price THEN 0 ELSE p,
                      amount |-> RecurringAmount(price[p], sub.quantity),
                      overtaken |-> FALSE]
  /\ Begins
  /\ UNCHANGED <<rows, change, recovery, edit, history, spent>>

\* The renewals sweep asks for what is due, POST /renew for the next period.
SweepRenews == sub.status # "UNPAID" /\ sub.end <= today /\ BeginRenewal
RequestRenews == BeginRenewal

\* The billing day once the renewal is written: a trial's end gives one, and the end
\* of a period that was cut short by a short month takes it away again.
DayKept ==
  IF renewal.overtaken THEN 0
  ELSE IF renewal.anchor = 0 THEN day
  ELSE IF renewal.start = sub.trialEnd \/ renewal.anchor = day THEN renewal.anchor ELSE 0

\* A trial with nothing to charge lapses in the same transaction, and if its status
\* is no longer the one that was read, all of it is rolled back.
CommitRenewal ==
  /\ renewal.doing = "renew"
  /\ \E collectable \in BOOLEAN :
       LET lapses == renewal.anchor # 0 /\ ~collectable
       IN /\ lapses => sub.status = "TRIALING"
          /\ sub' = [sub EXCEPT !.start = renewal.start, !.end = renewal.end,
                                !.anchor = IF renewal.anchor = 0 THEN @ ELSE renewal.anchor,
                                !.price = IF renewal.price = 0 THEN @ ELSE renewal.price,
                                !.status = IF lapses THEN "ACTIVE" ELSE @]
          /\ owed' = (~lapses /\ (owed \/ (sub.status = "TRIALING" /\ renewal.amount > 0)))
  /\ ledger' = IF overlapped THEN Closed ELSE Opened(sub', renewal.amount)
  /\ day' = DayKept
  /\ monthly' = (monthly /\ price[sub'.price].interval.unit = "MONTH")
  /\ renewal' = NoRenewal
  /\ UNCHANGED <<today, price, made, change, recovery, edit, agreed, overlapped, spent>>

RenewalLost ==
  /\ renewal.doing = "renew" /\ renewal.anchor # 0 /\ sub.status # "TRIALING"
  /\ renewal' = NoRenewal
  /\ UNCHANGED <<rows, change, recovery, edit, history, overlapped, spent>>

---------------------------------------------------------------------------
(* applyPaymentResult, and what becomes of an invoice that is not paid. *)

\* Any invoice that is paid makes a trial ACTIVE, and one whose charge fails makes
\* it PAST_DUE.
TrialEnds ==
  /\ sub.status = "TRIALING" /\ owed
  /\ sub' = [sub EXCEPT !.status = "ACTIVE"]
  /\ owed' = FALSE
  /\ UNCHANGED <<today, price, made, change, renewal, recovery, edit, history, overlapped, spent>>

\* The grace period is over.
Lapse ==
  /\ sub.status = "ACTIVE" /\ spent.lapses < MaxLapses
  /\ sub' = [sub EXCEPT !.status = "UNPAID"]
  /\ spent' = [spent EXCEPT !.lapses = @ + 1]
  /\ UNCHANGED <<today, price, made, owed, change, renewal, recovery, edit, history, overlapped>>

\* planPaymentRecovery: the period starts on the day of the payment.
BeginRecovery ==
  /\ recovery.doing = "idle" /\ sub.status = "UNPAID"
  /\ \E lateness \in 0..MaxLateness :
       LET paidAt == today - lateness
           interval == price[sub.price].interval
           anchor == IF interval.unit = "MONTH" THEN DayOf(paidAt) ELSE sub.anchor
       IN /\ SignUp <= paidAt
          /\ WithinCalendar(paidAt, interval)
          /\ recovery' = [doing |-> "recover", start |-> paidAt,
                          end |-> AddInterval(paidAt, interval, anchor), anchor |-> anchor]
  /\ Begins
  /\ UNCHANGED <<rows, change, renewal, edit, history, spent>>

\* It does not take the renewal's lock: one in flight goes by the dates it has read.
CommitRecovery ==
  /\ recovery.doing = "recover" /\ sub.status = "UNPAID"
  /\ sub' = [sub EXCEPT !.status = "ACTIVE", !.start = recovery.start, !.end = recovery.end,
                        !.anchor = recovery.anchor]
  /\ ledger' = Closed
  /\ day' = recovery.anchor
  /\ renewal' = IF renewal.doing = "idle" THEN renewal ELSE [renewal EXCEPT !.overtaken = TRUE]
  /\ recovery' = NoRecovery
  /\ UNCHANGED <<today, price, made, owed, change, edit, agreed, monthly, overlapped, spent>>

RecoveryLost ==
  /\ recovery.doing = "recover" /\ sub.status # "UNPAID"
  /\ recovery' = NoRecovery
  /\ UNCHANGED <<rows, change, renewal, edit, history, overlapped, spent>>

\* cancelSubscription, at once.
Cancel ==
  /\ sub.status # "CANCELED"
  /\ sub' = [sub EXCEPT !.status = "CANCELED"]
  /\ owed' = FALSE
  /\ ledger' = Closed
  /\ Begins
  /\ UNCHANGED <<today, price, made, change, renewal, recovery, edit, agreed, day, monthly,
                 spent>>

---------------------------------------------------------------------------
(* updatePrice. *)

\* A subscription that is not over holds its price.
Bound(p) == sub.price = p /\ sub.status # "CANCELED"

\* A new amount or interval: in place while nobody is bound, this subscription or
\* others, else as a version.
BeginEdit ==
  /\ edit.doing = "idle" /\ spent.edits < MaxEdits
  /\ \E p \in 1..made, a \in Amounts, i \in Intervals, others \in BOOLEAN :
       LET bound == others \/ Bound(p)
       IN /\ <<a, i>> # <<price[p].amount, price[p].interval>>
          /\ edit' = [doing |-> IF bound THEN "version" ELSE "in_place",
                      price |-> p, amount |-> a, interval |-> i]
          /\ bound => made < MaxPrices
  /\ spent' = [spent EXCEPT !.edits = @ + 1]
  /\ Begins
  /\ UNCHANGED <<rows, change, renewal, recovery, history>>

Revised(row) == [row EXCEPT !.amount = edit.amount, !.interval = edit.interval]

CommitEdit ==
  /\ \/ /\ edit.doing = "in_place"
        /\ price' = [price EXCEPT ![edit.price] = Revised(@)]
        /\ UNCHANGED made
     \/ /\ edit.doing = "version"
        /\ made' = made + 1
        /\ price' = [price EXCEPT ![edit.price].active = FALSE,
                                  ![made + 1] = [Revised(price[edit.price])
                                    EXCEPT !.active = TRUE, !.supersedes = edit.price]]
  /\ edit' = NoEdit
  /\ ledger' = IF overlapped THEN Closed ELSE ledger
  /\ monthly' = (monthly /\ price'[sub.price].interval.unit = "MONTH")
  /\ UNCHANGED <<today, sub, owed, change, renewal, recovery, agreed, day, overlapped, spent>>

\* An edit of the active flag alone.
SetActive ==
  /\ edit.doing = "idle" /\ spent.edits < MaxEdits
  /\ \E p \in 1..made : price' = [price EXCEPT ![p].active = ~@]
  /\ spent' = [spent EXCEPT !.edits = @ + 1]
  /\ UNCHANGED <<today, made, sub, owed, change, renewal, recovery, edit, history, overlapped>>

---------------------------------------------------------------------------

Tick ==
  /\ Idle
  /\ today + 1 \in Days
  /\ today' = today + 1
  /\ ledger' = IF overlapped \/ today \notin sub.start..(sub.end - 1) THEN ledger
               ELSE [ledger EXCEPT !.held = @ + Rate]
  /\ UNCHANGED <<price, made, sub, owed, change, renewal, recovery, edit, agreed, day,
                 monthly, overlapped, spent>>

Next ==
  \/ BeginPlanChange \/ BeginSeatChange \/ ScheduleChange \/ CommitChange \/ PinPrice
  \/ SweepRenews \/ RequestRenews \/ CommitRenewal \/ RenewalLost
  \/ TrialEnds \/ Lapse \/ BeginRecovery \/ CommitRecovery \/ RecoveryLost \/ Cancel
  \/ BeginEdit \/ CommitEdit \/ SetActive
  \/ Tick

Spec == Init /\ [][Next]_vars

---------------------------------------------------------------------------
(* Properties. *)

\* A monthly subscription is billed on its billing day, or on the last day of a
\* month without one, however many short months it has been through and whoever
\* changed, paid or renewed what meanwhile: the day it signed up on, its trial
\* ended on or a recovery was paid on (addMonths, renewSubscription,
\* planPaymentRecovery).  A trial's own end is on no billing day; and the day is
\* lost to a renewal that a recovery overtook, and to one that takes a trial's
\* end from a period after it.
BillingDayNeverDrifts ==
  monthly /\ day # 0
    => \A d \in {sub.start, sub.end} \ {sub.trialEnd} : d = AnchorDay(MonthOf(d), day)

\* The invoices of a period come to what the subscription held in it, day by
\* day, to within a unit for each change so far: a change credits exactly what it takes
\* away and charges exactly what it brings, an edited price reaches nobody in
\* the middle of a period, and a renewal bills what it leaves on the row
\* (changePlan, changeQuantity, updatePrice, renewSubscription).  It is said of
\* transactions that do not overlap, of prices of one interval and of time that
\* is paid for.
PeriodPaysForWhatWasHeld ==
  LET length == sub.end - sub.start
      difference == ledger.invoiced * length - (ledger.held + Rate * DaysLeft(sub))
  IN ~overlapped /\ ~ledger.mixed /\ sub.start >= sub.trialEnd
       => difference \in (-spent.changes * length)..(spent.changes * length)

\* Only the customer's own change of plan changes how often a subscription is
\* billed, however its price and the versions of it are edited (canRollForward,
\* updatePrice), when transactions do not overlap.
IntervalIsTheCustomersChoice ==
  ~overlapped /\ sub.status # "CANCELED" => price[sub.price].interval = agreed

=============================================================================
