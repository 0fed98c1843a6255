CONSTANTS
  Ids = {1}
  Me = 1
  Fields = {"name"}
  Values = {0}
  Default = 0
  Channels = {0, 1}
  MaxPackets = 5
SPECIFICATION Spec
INVARIANTS
  ChannelsKept
CHECK_DEADLOCK FALSE
