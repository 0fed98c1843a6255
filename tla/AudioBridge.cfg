SPECIFICATION Spec
CONSTANTS
  u1 = u1
  SeqMod = 8
  TsMod = 131072
  FirstSeq = 5
  FirstTs <- MCFirstTs
  Capacity = 1
  Payloads <- MCPayloads
  Gaps <- MCGaps
  MaxPackets = 3
  RtpSeqMod = 4
  RtpTsMod = 131072
  Speakers = {u1}
  NoTrack = NoTrack
  VoicePackets <- MCVoicePackets
  FrameGaps <- MCFrameGaps
  Elapsed <- MCElapsed
  VoiceCapacity = 1
  MaxSpoken = 2
  MaxReceived = 4
  MaxTracks = 2
CONSTRAINT OneDirection
INVARIANTS
  TakesNewer
  GapsPreserved
  NumbersAdvance
  TalkEnds
PROPERTIES
  TrackInSequence
  NoOverlap
  SpacingKept
  UplinkEndsAll
CHECK_DEADLOCK FALSE
