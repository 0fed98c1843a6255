---------------------------- MODULE MCAudioBridge ----------------------------
(***************************************************************************)
(* AudioBridge for TLC.  Real Opus packets and the real 480-sample frame;  *)
(* the ranges of sequence numbers and timestamps are small, start close to *)
(* the wrap and, as 2^32 is, RTP's is no multiple of 480.                  *)
(***************************************************************************)
EXTENDS AudioBridge

CONSTANT u1

\* 20 ms of hybrid audio, and an RTP packet without audio.
MCPayloads == {<<8 * 15>>, <<>>}
MCGaps == {0, 960}
MCFirstTs == TsMod - 960

\* 10 ms hybrid, the last 40 ms of a talk in two frames, and an empty end.
MCVoicePackets == {[opus_data |-> <<8 * 14>>, last_frame |-> FALSE],
                   [opus_data |-> <<8 * 15 + 3, 2>>, last_frame |-> TRUE],
                   [opus_data |-> <<>>, last_frame |-> TRUE]}
MCFrameGaps == {0, 2}
\* Within a talk, and a long pause.
MCElapsed == {480, 60000}

\* The directions share no data: one of them talks at a time.
OneDirection == sent = <<>> \/ (rtp = <<>> /\ \A s \in Speakers : spoken[s] = <<>>)

\* Reference: the frame durations of RFC 6716, table 2, in samples.
RfcDuration ==
  [c \in 0 .. 31 |-> CASE c < 12 -> <<480, 960, 1920, 2880>>[(c % 4) + 1]
                       [] c \in 12 .. 15 -> <<480, 960>>[(c % 2) + 1]
                       [] c >= 16 -> <<120, 240, 480, 960>>[(c % 4) + 1]]

\* The code's arithmetic agrees with the table for every first byte, and a
\* packet of known duration lasts at most 120 ms.
ASSUME OpusAgrees ==
  \A toc \in 0 .. 255, count \in 0 .. 255 :
    LET p == <<toc, count>> IN
    /\ SamplesPerFrame(p) = RfcDuration[toc \div 8]
    /\ TotalSamples(p) \in 0 .. 5760
    /\ toc % 4 = 0 => TotalSamples(<<toc>>) = RfcDuration[toc \div 8]
=============================================================================
