CONSTANTS
  u1 = u1
  u2 = u2
  Speakers = {u1, u2}
  MaxPending = 1
  PeerFails = TRUE
  MaxMoves = 2
  MaxRestarts = 1
  MaxCandidates = 2
SPECIFICATION FairSpec
INVARIANTS
  RestartRemembered
  OneNegotiation
  SpeakersTracked
PROPERTIES
  CandidatesInTime
  RestartsServed
  SpeakersHeard
  CandidatesDrained
CHECK_DEADLOCK FALSE
