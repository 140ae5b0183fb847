CONSTANTS
  i1 = i1
  i2 = i2
  c1 = c1
  c2 = c2
  s1 = s1
  s2 = s2
  m1 = m1
  Invoices = {i1}
  NoInvoice = NoInvoice
  FirstInvoice = i1
  MaxAttempts = 2
  Callers = {c1, c2}
  Settlers = {s1}
  Movers = {}
  Rails = 2
  FailureActions = {"CANCEL", "PAUSE"}
SPECIFICATION Spec
INVARIANTS TypeOK OneChargeInFlight
PROPERTIES GraceRunsItsCourse
SYMMETRY CallerSymmetry
CHECK_DEADLOCK FALSE
