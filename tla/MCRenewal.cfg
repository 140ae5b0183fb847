CONSTANTS
  w1 = w1
  r1 = r1
  s1 = s1
  Interval = 1
  TrialLength = 1
  Horizon = 2
  MaxInvoices = 2
  Sweeps = {w1}
  Requests = {r1}
  Settlers = {s1}
  MaxCrashes = 1
SPECIFICATION FairSpec
INVARIANTS TypeOK PeriodsAreBilledOnce InvoicedTrialAwaitsACharge
PROPERTIES SweepActsWhenDue SweepCatchesUp
\* The bounds on time and invoices are where a subscription's story ends.
CHECK_DEADLOCK FALSE
