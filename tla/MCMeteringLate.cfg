CONSTANTS
  p1 = p1
  e1 = e1
  volume = volume
  newer = newer
  other = other
  Payments = {p1}
  Tracked = {}
  Units <- MCUnits
  Foreign = {}
  MaxUnits = 3
  Enrolments = {1}
  MetersOf <- MCMetersOf
  FirstMeter <- MCFirstMeter
  Rating <- MCRating
  MeterOf <- MCMeterOf
  PeriodLength = 2
  Lookback = 1
  Horizon = 3
  MaxUpsets = 0
SPECIFICATION Spec
INVARIANT NothingLandsInABilledPeriod
\* Time is where a subscription's story ends.
CHECK_DEADLOCK FALSE
