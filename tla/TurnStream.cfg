SPECIFICATION Spec
CONSTANTS
  p1 = p1
  p2 = p2
  Senders = {p1, p2}
  NoSender = NoSender
  Kinds <- MCKinds
  Mtu = 20
  Pieces = {3}
  MaxFrames = 2
INVARIANTS FramesIntact
PROPERTIES FramesArrive FailedStreamEnds
CHECK_DEADLOCK FALSE
