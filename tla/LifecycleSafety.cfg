CONSTANTS
  c1 = c1
  c2 = c2
  g1 = g1
  g2 = g2
  g3 = g3
  Conns = {c1}
  Gens = {g1, g2}
  ConnOf <- MCConnOf
  NoGen = NoGen
  MaxConnections = 2
  DirectCallers = TRUE
  Stops = FALSE
SPECIFICATION Spec
SYMMETRY Sym
INVARIANTS
  TerminalAfterRelease
  RegisteredIsServed
  CredentialHasRevoker
PROPERTIES
  EntryRemovedByOwner
