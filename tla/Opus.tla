-------------------------------- MODULE Opus --------------------------------
(***************************************************************************)
(* How long an Opus packet lasts, read from its first bytes, as bridge.rs  *)
(* reads it.  A packet is the sequence of its first one or two bytes, or   *)
(* <<>> for an empty payload.  Both directions of the audio bridge use it. *)
(***************************************************************************)
EXTENDS Integers, Sequences

SampleRate == 48000
FrameSize == 480          \* samples in the 10 ms a Mumble frame number counts

\* opus_packet_frame_count; 0 where the code returns an error.
FrameCount(packet) ==
  IF packet = <<>> THEN 0
  ELSE CASE packet[1] % 4 = 0 -> 1
         [] packet[1] % 4 \in {1, 2} -> 2
         [] packet[1] % 4 = 3 -> IF Len(packet) < 2 THEN 0 ELSE packet[2] % 64

\* opus_packet_samples_per_frame: CELT, hybrid, and SILK with its 60 ms.
SamplesPerFrame(packet) ==
  LET config == packet[1] \div 8 IN
  CASE config >= 16 -> (SampleRate * 2 ^ (config % 4)) \div 400
    [] config \in 12 .. 15 -> (SampleRate * 2 ^ (config % 2)) \div 100
    [] config < 12 /\ config % 4 = 3 -> (SampleRate * 60) \div 1000
    [] config < 12 /\ config % 4 # 3 -> (SampleRate * 2 ^ (config % 4)) \div 100

\* opus_packet_total_samples, at most 120 ms; 0 where it returns an error.
TotalSamples(packet) ==
  IF FrameCount(packet) = 0 THEN 0
  ELSE LET total == FrameCount(packet) * SamplesPerFrame(packet)
       IN IF total > (SampleRate \div 1000) * 120 THEN 0 ELSE total
=============================================================================
