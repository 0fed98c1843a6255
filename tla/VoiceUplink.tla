----------------------------- MODULE VoiceUplink -----------------------------
(***************************************************************************)
(* Voice from the browser to Mumble: RTP packets, the track reader, the    *)
(* uplink task of AudioBridge with its UplinkClock and end-of-talk timer,  *)
(* and the sending half of MumbleVoice.                                    *)
(*                                                                         *)
(* sent is the stream as the microphone made it: a packet's place in it    *)
(* and its media time are the true, unbounded values of which RTP carries  *)
(* the remainders.  The network loses, repeats and reorders.  Time is left *)
(* out: a packet is stale (120 ms) or 200 ms have passed whenever the      *)
(* model chooses.                                                          *)
(***************************************************************************)
EXTENDS Opus

CONSTANTS SeqMod,      \* 2^16, values of an RTP sequence number
          TsMod,       \* 2^32, values of an RTP timestamp
          FirstSeq, FirstTs,  \* where the browser starts counting
          Capacity,    \* 6, of the channels to and from the uplink task
          Payloads,    \* Opus packets the browser sends
          Gaps,        \* pauses between packets (DTX), in samples
          MaxPackets   \* bound on the instance

ASSUME ModAssumption == SeqMod \in Nat \ {0} /\ TsMod \in Nat \ {0}
ASSUME StartAssumption == FirstSeq \in Nat /\ FirstTs \in Nat
ASSUME CapacityAssumption == Capacity \in Nat \ {0}
\* Audio comes in multiples of 10 ms, an RTP packet without audio in no time.
ASSUME MediaAssumption ==
  /\ \A p \in Payloads : TotalSamples(p) \in Nat /\ TotalSamples(p) % FrameSize = 0
  /\ \A g \in Gaps : g \in Nat /\ g % FrameSize = 0
ASSUME BoundAssumption == MaxPackets \in Nat

VARIABLES sent,         \* packets sent by the browser: opus_data and media time
          audio,        \* webrtc_audio_rx: places in sent
          clock,        \* UplinkClock; started: its Options are Some
          last_packet,  \* last_packet.is_some()
          outgoing,     \* the channel to MumbleVoice
          wire,         \* what MumbleVoice sent last
          uplink, voice,  \* are the uplink task and MumbleVoice::run alive?
          newest,       \* the last packet the clock took (its place, or 0)
          endLost       \* the last end of talk found the channel full

uplinkVars == <<sent, audio, clock, last_packet, outgoing, wire, uplink, voice,
                newest, endLost>>

\* WebrtcVoiceData; opus_data is a place in sent, 0 for an empty payload.
Silence == [seq_num |-> 0, opus_data |-> 0, last_frame |-> TRUE]

UplinkInit ==
  /\ sent = <<>> /\ audio = <<>> /\ outgoing = <<>> /\ wire = Silence
  /\ clock = [started |-> FALSE, last_timestamp |-> 0, last_sequence |-> 0,
              frame |-> 0, samples |-> 0]
  /\ last_packet = FALSE /\ uplink = TRUE /\ voice = TRUE
  /\ newest = 0 /\ endLost = FALSE

-----------------------------------------------------------------------------
(* The browser and the network.                                            *)

At(i) == sent[i].at
Samples(i) == TotalSamples(sent[i].opus_data)
EndOf(i) == At(i) + Samples(i)
Timestamp(i) == At(i) % TsMod
SeqNum(i) == (FirstSeq + i) % SeqMod

\* What is said when nobody listens any more is left out.
Speak(payload, gap) ==
  /\ uplink /\ Len(sent) < MaxPackets
  /\ sent' = Append(sent, [opus_data |-> payload,
                           at |-> gap + IF sent = <<>> THEN FirstTs
                                        ELSE EndOf(Len(sent))])
  /\ UNCHANGED <<audio, clock, last_packet, outgoing, wire, uplink, voice,
                 newest, endLost>>

\* try_send: a full channel drops the item.
TrySend(channel, item) ==
  IF Len(channel) < Capacity THEN Append(channel, item) ELSE channel

\* setup_incoming_audio_handler: read_rtp returns a packet, for the first
\* time or again, late or in order; the reader ends when the channel is closed.
Arrive(i) ==
  /\ uplink
  /\ audio' = TrySend(audio, i)
  /\ UNCHANGED <<sent, clock, last_packet, outgoing, wire, uplink, voice,
                 newest, endLost>>

-----------------------------------------------------------------------------
(* UplinkClock.                                                            *)

SeqDelta(i) == (SeqNum(i) - clock.last_sequence) % SeqMod
TsDelta(i) == (Timestamp(i) - clock.last_timestamp) % TsMod

\* Mutant: timestamps are compared without wrapping.
TsGrows(i) ==
  clock.started =>
    /\ SeqDelta(i) # 0 /\ SeqDelta(i) < SeqMod \div 2
    /\ Timestamp(i) > clock.last_timestamp

\* UplinkClock::packet does not return None.
Admits(i) ==
  clock.started =>
    /\ SeqDelta(i) # 0 /\ SeqDelta(i) < SeqMod \div 2
    /\ TsDelta(i) # 0 /\ TsDelta(i) < TsMod \div 2 /\ TsDelta(i) % FrameSize = 0

\* Mutant: packets are counted, not media time.
CountedFrame(i) == IF clock.started THEN clock.frame + 1 ELSE clock.frame

\* The frame number UplinkClock::packet returns.
FrameOf(i) ==
  IF clock.started THEN clock.frame + TsDelta(i) \div FrameSize ELSE clock.frame

\* Mutant: the end of talk is numbered as if the last packet took 40 ms.
LongEndFrame == clock.frame + 4

EndFrame == clock.frame + clock.samples \div FrameSize

-----------------------------------------------------------------------------
(* The uplink task of AudioBridge.                                         *)

Received == uplink /\ audio # <<>>

\* Sequence numbers and timestamps tell two packets apart when they are less
\* than half their range away from each other.  The 120 ms limit sees to that
\* for late packets; that no 2^15 packets are lost in a row and no pause
\* lasts 12 hours is assumed.
Near(i) ==
  newest # 0 =>
    /\ i - newest < SeqMod \div 2 /\ newest - i < SeqMod \div 2
    /\ At(i) - At(newest) < TsMod \div 2 /\ At(newest) - At(i) < TsMod \div 2

\* A stale packet, one that is no Opus audio of whole 10 ms, or one that the
\* clock refuses.
Skip ==
  /\ Received /\ audio' = Tail(audio)
  /\ UNCHANGED <<sent, clock, last_packet, outgoing, wire, uplink, voice,
                 newest, endLost>>

\* A fresh packet goes through the clock to MumbleVoice; without it the task
\* ends.
Forward ==
  /\ Received
  /\ LET i == Head(audio) IN
       /\ Samples(i) # 0 /\ Samples(i) % FrameSize = 0
       /\ Near(i) /\ Admits(i)
       /\ clock' = [started |-> TRUE, last_timestamp |-> Timestamp(i),
                    last_sequence |-> SeqNum(i), frame |-> FrameOf(i),
                    samples |-> Samples(i)]
       /\ newest' = i
       /\ outgoing' = IF voice
                      THEN TrySend(outgoing, [seq_num |-> FrameOf(i), opus_data |-> i,
                                              last_frame |-> FALSE])
                      ELSE outgoing
  /\ last_packet' = TRUE /\ endLost' = FALSE /\ uplink' = voice
  /\ audio' = IF voice THEN Tail(audio) ELSE <<>>
  /\ UNCHANGED <<sent, wire, voice>>

\* Mutant: the timer only forgets the packet.
ForgetTalk ==
  /\ uplink /\ last_packet
  /\ last_packet' = FALSE
  /\ UNCHANGED <<sent, audio, clock, outgoing, wire, uplink, voice, newest, endLost>>

\* The 50 ms tick finds the last packet 200 ms old.
EndTalk ==
  /\ uplink /\ last_packet
  /\ outgoing' = IF voice
                 THEN TrySend(outgoing, [seq_num |-> EndFrame, opus_data |-> 0,
                                         last_frame |-> TRUE])
                 ELSE outgoing
  /\ endLost' = (Len(outgoing) >= Capacity)
  /\ last_packet' = FALSE
  /\ UNCHANGED <<sent, audio, clock, wire, uplink, voice, newest>>

-----------------------------------------------------------------------------
(* MumbleVoice::run, the sending half.                                     *)

\* sink.send; a failure loses the packet.
SendVoice ==
  /\ voice /\ outgoing # <<>>
  /\ outgoing' = Tail(outgoing)
  /\ wire' = Head(outgoing)
  /\ UNCHANGED <<sent, audio, clock, last_packet, uplink, voice, newest, endLost>>

\* The first ping failed, the stream or the channel ended, or the task was
\* aborted: the channel is closed with what it held.
VoiceEnds ==
  /\ voice /\ voice' = FALSE /\ outgoing' = <<>>
  /\ UNCHANGED <<sent, audio, clock, last_packet, wire, uplink, newest, endLost>>

UplinkNext ==
  \/ \E p \in Payloads, g \in Gaps : Speak(p, g)
  \/ \E i \in 1 .. Len(sent) : Arrive(i)
  \/ Skip \/ Forward \/ EndTalk \/ SendVoice \/ VoiceEnds

-----------------------------------------------------------------------------
(* Properties.                                                             *)

\* What Mumble was sent last and what is queued behind it.
Stream == <<wire>> \o outgoing
Audio == {n \in 1 .. Len(Stream) : Stream[n].opus_data # 0}

Packet == [opus_data : Payloads, at : Nat]
VoiceData == [seq_num : Nat, opus_data : 0 .. Len(sent), last_frame : BOOLEAN]
Clock == [started : BOOLEAN, last_timestamp : 0 .. TsMod - 1,
          last_sequence : 0 .. SeqMod - 1, frame : Nat, samples : Nat]

\* Type invariant of the uplink's variables.
UplinkTypeOK ==
  /\ sent \in Seq(Packet) /\ newest \in 0 .. Len(sent)
  /\ audio \in Seq(1 .. Len(sent)) /\ Len(audio) <= Capacity
  /\ outgoing \in Seq(VoiceData) /\ Len(outgoing) <= Capacity
  /\ wire \in VoiceData /\ clock \in Clock
  /\ last_packet \in BOOLEAN /\ uplink \in BOOLEAN /\ voice \in BOOLEAN
  /\ endLost \in BOOLEAN

\* The clock takes a packet if and only if it is later in the browser's stream
\* than all it took before, however sequence numbers and timestamps wrap:
\* late and repeated packets are dropped, and no loss or pause makes it refuse
\* fresh audio.
TakesNewer ==
  \A i \in 1 .. Len(sent) : Samples(i) # 0 /\ Near(i) => (Admits(i) <=> i > newest)

\* Frame numbers sent to Mumble are media time: two packets are as far apart
\* as the browser recorded them, across lost packets, full channels, pauses
\* and ends of talk ("The bridge preserves packet gaps").
GapsPreserved ==
  \A m, n \in Audio :
    (Stream[n].seq_num - Stream[m].seq_num) * FrameSize
      = At(Stream[n].opus_data) - At(Stream[m].opus_data)

\* Numbers never go back: audio follows audio by at least its duration, an end
\* of talk is not numbered before the end of the audio it closes, nor after
\* the audio that follows it.
NumbersAdvance ==
  \A m, n \in 1 .. Len(Stream) : m < n =>
    Stream[m].seq_num + (IF m \in Audio THEN Samples(Stream[m].opus_data) \div FrameSize
                         ELSE 0) <= Stream[n].seq_num

\* When the timer has run out, the last thing on its way to Mumble is the end
\* of the talk, unless the channel was full just then: that end is lost for
\* good, since the timer is not set again.
TalkEnds ==
  newest # 0 /\ ~last_packet /\ voice /\ ~endLost => Stream[Len(Stream)].last_frame
=============================================================================
