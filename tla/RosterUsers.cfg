CONSTANTS
  Ids = {1, 2}
  Me = 1
  Fields = {"name", "channel"}
  Values = {0, 1}
  Default = 0
  Channels = {0}
  MaxPackets = 5
SPECIFICATION Spec
INVARIANTS
  UsersDelivered
  SpeakersAreOthers
  ChatNamed
CHECK_DEADLOCK FALSE
