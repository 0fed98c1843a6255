----------------------------- MODULE AudioBridge -----------------------------
(***************************************************************************)
(* AudioBridge and MumbleVoice together: the uplink and the downlink task  *)
(* of one voice connection and the UDP task that both talk to.  The tasks  *)
(* share no data, but each one's end closes a channel of the next:         *)
(* uplink -> MumbleVoice::run -> downlink.                                 *)
(***************************************************************************)
EXTENDS VoiceUplink, VoiceDownlink

vars == <<uplinkVars, downlinkVars>>

\* AudioBridge::start
Init == UplinkInit /\ DownlinkInit

\* webrtc_audio_rx.recv() returns None: the track readers are gone.
UplinkStops ==
  /\ uplink /\ audio = <<>> /\ uplink' = FALSE
  /\ UNCHANGED <<sent, audio, clock, last_packet, outgoing, wire, voice, newest,
                 endLost, downlinkVars>>

\* Mutant: a sender to MumbleVoice outlives the uplink task.
NeverClosed == FALSE

\* outgoing_rx.recv() returns None: the uplink task owned the only sender.
OutgoingClosed == ~uplink /\ outgoing = <<>>

\* mumble_voice_rx.recv() returns None.
DownlinkStops ==
  /\ downlink /\ ~voice /\ incoming = <<>> /\ writing = {}
  /\ downlink' = FALSE
  /\ UNCHANGED <<spoken, incoming, speakers, writing, rtp, received, uplinkVars>>

\* shutdown, or drop: both tasks are aborted, wherever they wait.
Shutdown ==
  /\ uplink \/ downlink
  /\ uplink' = FALSE /\ audio' = <<>>
  /\ downlink' = FALSE /\ writing' = {} /\ incoming' = <<>>
  /\ UNCHANGED <<sent, clock, last_packet, outgoing, wire, voice, newest, endLost,
                 spoken, speakers, rtp, received>>

Next ==
  \/ UplinkNext /\ UNCHANGED downlinkVars
  \/ DownlinkNext /\ UNCHANGED uplinkVars
  \/ voice /\ VoiceArrives /\ UNCHANGED uplinkVars
  \/ UplinkStops \/ DownlinkStops \/ Shutdown

\* The three tasks run while they can; nobody makes a client talk or a packet
\* arrive.
Fairness ==
  /\ WF_vars(SendVoice /\ UNCHANGED downlinkVars)
  /\ WF_vars(OutgoingClosed /\ VoiceEnds /\ UNCHANGED downlinkVars)
  /\ WF_vars(((\E e \in Elapsed : Stamp(e)) \/ DropVoice \/ MarkEnd \/ WriteRtp)
             /\ UNCHANGED uplinkVars)
  /\ WF_vars(DownlinkStops)

Spec == Init /\ [][Next]_vars /\ Fairness

-----------------------------------------------------------------------------
\* When the uplink ends, for whatever reason, so do MumbleVoice::run and the
\* downlink, each after it has emptied its channel: no task is left behind
\* waiting for another.
UplinkEndsAll == ~uplink ~> ~voice /\ ~downlink
=============================================================================
