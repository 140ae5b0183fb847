CONSTANTS
  FirstDay <- Calendar
  Catalogue <- PriceList
  MaxPrices = 3
  Amounts = {5}
  Intervals <- EditedIntervals
  Quantities = {1, 2}
  SignUp = 1
  TrialLengths = {0, 2}
  MaxLateness = 1
  MaxLapses = 1
  MaxChanges = 2
  MaxEdits = 1
SPECIFICATION Spec
INVARIANTS TypeOK BillingDayNeverDrifts PeriodPaysForWhatWasHeld IntervalIsTheCustomersChoice
\* The calendar and the price list are where the story ends.
CHECK_DEADLOCK FALSE
