CONSTANTS
  c1 = c1
  c2 = c2
  g1 = g1
  g2 = g2
  g3 = g3
  Conns = {c1}
  Gens = {g1}
  ConnOf <- MCConnOf
  NoGen = NoGen
  MaxConnections = 1
  DirectCallers = FALSE
  Stops = FALSE
SPECIFICATION Spec
INVARIANTS
  NoVoiceAfterTeardown
