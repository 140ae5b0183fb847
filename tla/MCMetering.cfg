CONSTANTS
  p1 = p1
  e1 = e1
  volume = volume
  newer = newer
  other = other
  Payments = {p1}
  Tracked = {e1}
  Units <- MCUnits
  Foreign = {}
  MaxUnits = 3
  Enrolments = {1, 2}
  MetersOf <- MCMetersOf
  FirstMeter <- MCFirstMeter
  Rating <- MCRating
  MeterOf <- MCMeterOf
  PeriodLength = 2
  Lookback = 1
  Horizon = 3
  MaxUpsets = 2
SPECIFICATION FairSpec
INVARIANTS TypeOK VolumeIsBilledOnce FlushMissesNothing
PROPERTY SettledIsMetered
\* The bounds on time and on upsets are where the story ends.
CHECK_DEADLOCK FALSE
