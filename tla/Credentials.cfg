CONSTANTS
  s1 = s1
  s2 = s2
  Sessions = {s1, s2}
  Browsers = {s1}
  Ttl = 6
  Reuse = 3
  Lead = 2
  Delay = 1
  Skew <- MCSkew
  ClockSteps = TRUE
  MaxTime = 10
  MaxIssued = 5
  MaxAsks = 1
SPECIFICATION Spec
INVARIANTS
  AtMostTwo
  BrowserCovered
PROPERTIES
  KeptUntilExpiry
CHECK_DEADLOCK FALSE
