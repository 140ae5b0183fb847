CONSTANTS
  never = never
  k1 = k1
  Checks = {k1}
  Statuses = {"ACTIVE", "GRACE_PERIOD"}
  Settings = {"unset", "RESTRICTED_ACCESS"}
  PlanRules <- MCPlanRules
  Overrides <- MCOverrides
  Used = {1}
  TTL = 2
  Horizon = 4
  MaxChanges = 2
  MaxFaults = 1
SPECIFICATION Spec
INVARIANTS TypeOK StaleOnlyForAWhile  ExpiredIsNotHonoured
\* The bounds on time and on changes are where the story ends.
CHECK_DEADLOCK FALSE
