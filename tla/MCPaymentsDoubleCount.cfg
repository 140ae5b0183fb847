CONSTANTS
  i1 = i1
  i2 = i2
  c1 = c1
  c2 = c2
  s1 = s1
  s2 = s2
  m1 = m1
  Invoices = {i1, i2}
  NoInvoice = NoInvoice
  FirstInvoice = i1
  MaxAttempts = 1
  Callers = {c1}
  Settlers = {s1, s2}
  Movers = {}
  Rails = 1
  FailureActions = {"MARK_UNPAID"}
SPECIFICATION Spec
INVARIANTS NoDoubleCount
CHECK_DEADLOCK FALSE
