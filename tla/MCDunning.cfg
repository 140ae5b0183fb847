SPECIFICATION FairSpec
CONSTANTS
  d1 = d1
  m1 = m1
  Keys = {"dunning_exhausted"}
  Mailers = {m1}
  MaxEmailAttempts = 1
  MaxClaims = 3
  MaxDeaths = 1
  MaxRetryAttempts = 2
  RetryIntervals <- Intervals
  GracePeriodDays = 1
  FinalStatuses = {"CANCELED"}
  InitialStatuses = {"ACTIVE", "INCOMPLETE"}
  Cards = {FALSE}
  Sweeps = {d1}
  Horizon = 1
  MaxAsked = 1
  MaxCharges = 3
INVARIANTS
  TypeOK
  CountsOnlyFailures
  SentAgainOnlyInDoubt
CHECK_DEADLOCK FALSE
PROPERTIES
  LadderEnds
  GraceEnds
  CustomerIsTold
