CONSTANTS
  c1 = c1
  c2 = c2
  c3 = c3
  b1 = b1
  b2 = b2
  Calls = {c1, c2, c3}
  NoCall = NoCall
  Bodies = {b1, b2}
  Body <- MCBody
  StaleAfter = 1
  Ttl = 3
  MaxFaults = 2
SPECIFICATION FairSpec
INVARIANTS TypeOK OneHolderAtATime ReplayFitsTheBody
PROPERTIES CompletedIsKept EveryCallIsAnswered
