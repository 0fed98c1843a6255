---------------------------- MODULE VoiceDownlink ----------------------------
(***************************************************************************)
(* Voice from Mumble to the browser: the receiving half of MumbleVoice,    *)
(* the downlink task of AudioBridge, and SpeakerTracks with a MediaClock   *)
(* and an RTP track per speaker.  process_events adds and removes          *)
(* speakers while the downlink task writes; SpeakerTracks.write stamps a   *)
(* packet under the lock and writes it to the track after releasing it.    *)
(*                                                                         *)
(* UDP loses, repeats and reorders.  Time is left out: a packet is stale   *)
(* (120 ms) whenever the model chooses, and the time since the clock's     *)
(* last packet is a member of Elapsed.                                     *)
(***************************************************************************)
EXTENDS Opus, FiniteSets

CONSTANTS RtpSeqMod,   \* 2^16, values of an RTP sequence number
          RtpTsMod,    \* 2^32, values of an RTP timestamp
          Speakers,    \* Mumble sessions that may talk
          NoTrack,     \* no entry in SpeakerTracks.speakers
          VoicePackets,   \* what they send: an Opus packet, or <<>>, and is it the last?
          FrameGaps,   \* frame numbers they skip
          Elapsed,     \* times between two packets, in samples
          VoiceCapacity,  \* 128, of the channel to the downlink task
          MaxSpoken, MaxReceived, MaxTracks  \* bounds on the instance

PauseLimit == 24000    \* 500 ms, in samples

\* A receiver of RTP cannot tell a pause of half the range (12 hours).
ASSUME ElapsedAssumption == \A e \in Elapsed : e \in Nat /\ e < RtpTsMod \div 2
\* RTP's counters tell forward from backward, over the longest Opus packet
\* (120 ms) at least.
ASSUME RtpAssumption ==
  RtpSeqMod \in Nat /\ RtpSeqMod >= 4 /\ RtpTsMod \in Nat /\ RtpTsMod \div 2 > 5760
\* Mumble clients send audio in multiples of 10 ms, which they number, up to the
\* longest Opus packet.
WholeFrames(samples) == samples \in Nat /\ samples <= 5760 /\ samples % FrameSize = 0
ASSUME VoiceAssumption == \A p \in VoicePackets : WholeFrames(TotalSamples(p.opus_data))
ASSUME GapAssumption == \A g \in FrameGaps : g \in Nat
ASSUME LastFrameAssumption == \A p \in VoicePackets : p.last_frame \in BOOLEAN
ASSUME VoiceCapacityAssumption == VoiceCapacity \in Nat

VARIABLES spoken,     \* per speaker, the packets sent
          incoming,   \* voice_rx: speaker and place in spoken
          speakers,   \* SpeakerTracks.speakers: track and clock, or NoTrack
          writing,    \* the packet stamped and not yet written
          rtp,        \* per track, the last packet written to it
          downlink,   \* is the downlink task alive?
          received    \* packets received, for the bound

downlinkVars == <<spoken, incoming, speakers, writing, rtp, downlink, received>>

\* MediaClock::default(); heard is the place of the packet that set the clock,
\* 0 where last_frame is None.
DefaultClock == [last_frame |-> 0, timestamp |-> 0, sequence |-> 0, samples |-> 0,
                 ended |-> FALSE, heard |-> 0]

DownlinkInit ==
  /\ spoken = [s \in Speakers |-> <<>>] /\ incoming = <<>>
  /\ speakers = [s \in Speakers |-> NoTrack]
  /\ writing = {} /\ rtp = <<>> /\ downlink = TRUE /\ received = 0

-----------------------------------------------------------------------------
(* The speakers and the network.                                           *)

LastSpoken(s) == spoken[s][Len(spoken[s])]
Duration(s, n) == TotalSamples(spoken[s][n].opus_data)

\* The next packet continues the numbering, or starts over: a Mumble client
\* does that after five seconds of silence, and before its numbers reach half
\* the range of RTP's timestamps (12 hours).
Talk(s, packet, gap) ==
  /\ downlink /\ Len(spoken[s]) < MaxSpoken
  /\ LET talk == IF spoken[s] = <<>> THEN 1 ELSE LastSpoken(s).talk
         frame == IF spoken[s] = <<>> THEN 0
                  ELSE LastSpoken(s).seq_num + Duration(s, Len(spoken[s])) \div FrameSize
         Say(number, t) ==
           spoken' = [spoken EXCEPT ![s] = Append(@, [opus_data |-> packet.opus_data,
             last_frame |-> packet.last_frame, seq_num |-> number, talk |-> t])]
     IN \/ (frame + gap) * FrameSize < RtpTsMod \div 2 /\ Say(frame + gap, talk)
        \/ spoken[s] # <<>> /\ Say(0, talk + 1)
  /\ UNCHANGED <<incoming, speakers, writing, rtp, downlink, received>>

\* No packet outlives those five seconds.
Recent(s, n) == spoken[s][n].talk = LastSpoken(s).talk

\* MumbleVoice::run receives audio; a full or closed channel drops it.
ReceiveVoice(s, n) ==
  /\ Recent(s, n) /\ received < MaxReceived /\ received' = received + 1
  /\ downlink /\ Len(incoming) < VoiceCapacity
  /\ incoming' = Append(incoming, [session_id |-> s, place |-> n])
  /\ UNCHANGED <<spoken, speakers, writing, rtp, downlink>>

-----------------------------------------------------------------------------
(* SpeakerTracks.                                                          *)

\* add: nothing changes for a session that has a track.
Add(s) ==
  /\ speakers[s] = NoTrack /\ Len(rtp) < MaxTracks
  /\ rtp' = Append(rtp, [session_id |-> s, place |-> 0, sequence |-> 0,
                         timestamp |-> 0, marker |-> FALSE])
  /\ speakers' = [speakers EXCEPT ![s] = [track |-> Len(rtp'), clock |-> DefaultClock]]
  /\ UNCHANGED <<spoken, incoming, writing, downlink, received>>

Remove(s) ==
  /\ speakers[s] # NoTrack
  /\ speakers' = [speakers EXCEPT ![s] = NoTrack]
  /\ UNCHANGED <<spoken, incoming, writing, rtp, downlink, received>>

-----------------------------------------------------------------------------
(* MediaClock::packet.                                                     *)

NewTalk(clock, e) == clock.heard = 0 \/ clock.ended \/ e > PauseLimit

\* Mutant: the duration of the packet before is ignored.
ElapsedPause(clock, e) == e

\* What a new talk adds to the timestamp; the cast to u32 saturates.
Pause(clock, e) ==
  LET elapsed == IF e >= RtpTsMod THEN RtpTsMod - 1 ELSE e
  IN IF elapsed >= clock.samples THEN elapsed ELSE clock.samples

InOrder(clock, frame, e) == NewTalk(clock, e) \/ frame > clock.last_frame

\* Mutant: packets of a talk follow each other without a gap.
GaplessTime(clock, frame, e) ==
  LET step == IF clock.heard = 0 THEN 0
              ELSE IF NewTalk(clock, e) THEN Pause(clock, e)
              ELSE clock.samples
  IN (clock.timestamp + step) % RtpTsMod

StampTime(clock, frame, e) ==
  LET step == IF clock.heard = 0 THEN 0
              ELSE IF NewTalk(clock, e) THEN Pause(clock, e)
              ELSE (frame - clock.last_frame) * FrameSize
  IN (clock.timestamp + step) % RtpTsMod

\* The clock after the packet at place n.
Advanced(clock, s, n, e) ==
  [last_frame |-> spoken[s][n].seq_num, timestamp |-> StampTime(clock, spoken[s][n].seq_num, e),
   sequence |-> (clock.sequence + 1) % RtpSeqMod, samples |-> Duration(s, n),
   ended |-> spoken[s][n].last_frame, heard |-> n]

-----------------------------------------------------------------------------
(* SpeakerTracks.write, called by the downlink task.                       *)

Taken == downlink /\ writing = {} /\ incoming # <<>> /\ incoming' = Tail(incoming)

\* A stale packet, an unknown speaker, no Opus, or late in its talk.
DropVoice ==
  /\ Taken
  /\ UNCHANGED <<spoken, speakers, writing, rtp, downlink, received>>

\* An empty payload only ends the talk.
MarkEnd ==
  /\ Taken
  /\ LET s == Head(incoming).session_id
         n == Head(incoming).place
     IN /\ Recent(s, n) /\ speakers[s] # NoTrack
        /\ spoken[s][n].opus_data = <<>> /\ spoken[s][n].last_frame
        /\ speakers' = [speakers EXCEPT ![s].clock.ended = TRUE]
  /\ UNCHANGED <<spoken, writing, rtp, downlink, received>>

\* The clock stamps the packet, under the lock.
Stamp(e) ==
  /\ Taken
  /\ LET s == Head(incoming).session_id
         n == Head(incoming).place
         clock == speakers[s].clock
         stamped == Advanced(clock, s, n, e)
     IN /\ Recent(s, n) /\ speakers[s] # NoTrack /\ Duration(s, n) # 0
        /\ clock.heard # 0 /\ ~Recent(s, clock.heard) => e > PauseLimit
        /\ InOrder(clock, stamped.last_frame, e)
        /\ speakers' = [speakers EXCEPT ![s].clock = stamped]
        /\ writing' = {[session_id |-> s, place |-> n, sequence |-> stamped.sequence,
                        timestamp |-> stamped.timestamp, marker |-> NewTalk(clock, e),
                        track |-> speakers[s].track]}
  /\ UNCHANGED <<spoken, rtp, downlink, received>>

RtpOf(w) == [session_id |-> w.session_id, place |-> w.place, sequence |-> w.sequence,
             timestamp |-> w.timestamp, marker |-> w.marker]

\* Mutant: the track is looked up again after the lock was released.
WriteToCurrent ==
  /\ \E w \in writing :
       /\ speakers[w.session_id] # NoTrack
       /\ rtp' = [rtp EXCEPT ![speakers[w.session_id].track] = RtpOf(w)]
  /\ writing' = {}
  /\ UNCHANGED <<spoken, incoming, speakers, downlink, received>>

\* write_rtp on the track cloned under the lock; it fails on a closed peer only.
WriteRtp ==
  /\ \E w \in writing : rtp' = [rtp EXCEPT ![w.track] = RtpOf(w)]
  /\ writing' = {}
  /\ UNCHANGED <<spoken, incoming, speakers, downlink, received>>

VoiceArrives == \E s \in Speakers : \E n \in 1 .. Len(spoken[s]) : ReceiveVoice(s, n)

DownlinkNext ==
  \/ \E s \in Speakers : \/ \E p \in VoicePackets, g \in FrameGaps : Talk(s, p, g)
                         \/ Add(s) \/ Remove(s)
  \/ \E e \in Elapsed : Stamp(e)
  \/ DropVoice \/ MarkEnd \/ WriteRtp

-----------------------------------------------------------------------------
(* Properties: what a step may write to the track t.                       *)

\* VoiceData as it was sent, MediaClock, Speaker, and RTP packets.
Utterance == [opus_data : {p.opus_data : p \in VoicePackets}, last_frame : BOOLEAN,
              seq_num : Nat, talk : Nat]
MediaClock == [last_frame : Nat, timestamp : 0 .. RtpTsMod - 1,
               sequence : 0 .. RtpSeqMod - 1, samples : Nat, ended : BOOLEAN, heard : Nat]
Track == [track : Nat, clock : MediaClock]
Rtp == [session_id : Speakers, place : Nat, sequence : 0 .. RtpSeqMod - 1,
        timestamp : 0 .. RtpTsMod - 1, marker : BOOLEAN]
Stamped == [session_id : Speakers, place : Nat, sequence : 0 .. RtpSeqMod - 1,
            timestamp : 0 .. RtpTsMod - 1, marker : BOOLEAN, track : Nat]

DownlinkTypeOK ==
  /\ spoken \in [Speakers -> Seq(Utterance)]
  /\ incoming \in Seq([session_id : Speakers, place : Nat]) /\ Len(incoming) <= VoiceCapacity
  /\ speakers \in [Speakers -> Track \cup {NoTrack}]
  /\ writing \subseteq Stamped /\ rtp \in Seq(Rtp)
  /\ downlink \in BOOLEAN /\ received \in Nat

Written(t) == t \in 1 .. Len(rtp) /\ rtp'[t] # rtp[t]

\* Every track is stamped by its own clock: its sequence numbers only go
\* forward, also when a speaker leaves and comes back between the stamp and the
\* write.
TrackInSequence ==
  [][\A t \in 1 .. Len(rtp) : Written(t) =>
       (rtp'[t].sequence - rtp[t].sequence) % RtpSeqMod \in 1 .. RtpSeqMod \div 2 - 1
    ]_downlinkVars

\* The audio of a track never overlaps: the next packet is stamped at or after
\* the end of the one before, within a talk, over a pause and when a new talk
\* starts its numbers anew ("talk_restart_uses_a_continuous_rtp_clock").
NoOverlap ==
  [][\A t \in 1 .. Len(rtp) : Written(t) /\ rtp[t].place # 0 =>
       (rtp'[t].timestamp - rtp[t].timestamp) % RtpTsMod
         \in Duration(rtp[t].session_id, rtp[t].place) .. RtpTsMod \div 2 - 1
    ]_downlinkVars

\* A packet without the marker is later than the one before it and as far from
\* it as its speaker recorded it: a packet that arrives late is heard only if
\* the clock took it for a new talk.
SpacingKept ==
  [][\A t \in 1 .. Len(rtp) : Written(t) /\ ~rtp'[t].marker =>
       LET s == rtp[t].session_id
           m == rtp[t].place
           n == rtp'[t].place
       IN /\ m < n /\ m # 0
          /\ (rtp'[t].timestamp - rtp[t].timestamp) % RtpTsMod
               = ((spoken[s][n].seq_num - spoken[s][m].seq_num) * FrameSize) % RtpTsMod
    ]_downlinkVars
=============================================================================
