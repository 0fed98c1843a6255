----------------------------- MODULE Negotiation -----------------------------
(***************************************************************************)
(* WebRTC signalling of one authenticated session: WebrtcSession's offers, *)
(* answers and candidates, the handler and the event task that call it     *)
(* under the session mutex (so each call is one step), the peer connection *)
(* and the browser.                                                        *)
(*                                                                         *)
(* An offer is its number, with the speakers whose tracks it describes.    *)
(* An answer and a candidate carry the number of the offer that the        *)
(* browser had applied when it made them.                                  *)
(***************************************************************************)
EXTENDS Naturals, Sequences

CONSTANTS Speakers,       \* Mumble users other than this one
          MaxPending,     \* 128 queued candidates
          PeerFails,      \* may calls of the peer connection fail?
          MaxMoves, MaxRestarts, MaxCandidates  \* bounds on the instance

ASSUME LimitsAssumption ==
  /\ MaxPending \in Nat /\ PeerFails \in BOOLEAN
  /\ MaxMoves \in Nat /\ MaxRestarts \in Nat /\ MaxCandidates \in Nat

VARIABLES
  \* UserSession and WebrtcSession
  known_speakers, started, needs_offer, restart_pending, pending_candidates,
  \* SpeakerTracks
  tracks,
  \* the peer connection: signalling state, number of offers made, speakers
  \* described by the last one, the offer whose answer is the remote
  \* description (0: none), candidates added, is_negotiation_needed
  signaling, offers, described, remote, added, announced,
  \* NegotiationNeeded events in event_rx, Mumble's joins and leaves so far
  events, moves,
  \* the WebSocket, one queue per direction
  toBrowser, toServer,
  \* the browser: what it is doing, the offer it applied and the speakers in
  \* it, candidates sent
  browser, applied, heard, sent,
  \* ice_restart requests: sent, handled, and covered by an applied offer
  asked, handled, served

sessionVars == <<known_speakers, started, tracks>>
offerVars == <<needs_offer, restart_pending, signaling, offers, described>>
candidateVars == <<pending_candidates, remote, added>>
mumbleVars == <<events, moves>>
browserVars == <<browser, applied, heard, sent, asked, served>>
vars == <<sessionVars, offerVars, candidateVars, announced, mumbleVars, toBrowser,
          toServer, browserVars, handled>>

Init ==
  /\ known_speakers \in SUBSET Speakers /\ started = FALSE /\ tracks = {}
  /\ needs_offer = FALSE /\ restart_pending = FALSE
  /\ signaling = "stable" /\ offers = 0 /\ described = {}
  /\ pending_candidates = <<>> /\ remote = 0 /\ added = <<>>
  /\ announced = FALSE /\ events = 0 /\ moves = 0
  /\ toBrowser = <<>> /\ toServer = <<>>
  /\ browser = "new" /\ applied = 0 /\ heard = {} /\ sent = 0
  /\ asked = 0 /\ handled = 0 /\ served = 0

-----------------------------------------------------------------------------
(* WebrtcSession, called with the session mutex held.                      *)

VoiceError == [type |-> "voice_error"]
OfferMessage(n, restart, speakers, covers) ==
  [type |-> "offer", offer |-> n, restart |-> restart, speakers |-> speakers,
   covers |-> covers]

\* offer(restart), with the peer connection in the given signalling state.
\* Before start_voice it is only noted whether to restart ICE, ...
OfferIdle(restart, state) ==
  /\ ~started'
  /\ restart_pending' = (restart_pending \/ restart)
  /\ signaling' = state
  /\ UNCHANGED <<needs_offer, offers, described, toBrowser>>

\* Mutant: a request to restart ICE that has to wait is forgotten.
DeferredForgets(restart, state) ==
  /\ started' /\ state # "stable"
  /\ needs_offer' = TRUE
  /\ signaling' = state
  /\ UNCHANGED <<restart_pending, offers, described, toBrowser>>

\* ... while an offer is unanswered the next one waits for the answer, ...
OfferDeferred(restart, state) ==
  /\ started' /\ state # "stable"
  /\ restart_pending' = (restart_pending \/ restart)
  /\ needs_offer' = TRUE
  /\ signaling' = state
  /\ UNCHANGED <<offers, described, toBrowser>>

\* Mutant: the signalling state is not looked at.
MadeAnyway(restart, state) ==
  /\ started'
  /\ restart_pending' = FALSE /\ needs_offer' = FALSE
  /\ offers' = offers + 1 /\ described' = tracks'
  /\ signaling' = "have-local-offer"
  /\ toBrowser' = Append(toBrowser,
       OfferMessage(offers + 1, restart_pending \/ restart, tracks', handled'))

\* ... otherwise it is made, applied and sent, ...
OfferMade(restart, state) ==
  /\ started' /\ state = "stable"
  /\ restart_pending' = FALSE /\ needs_offer' = FALSE
  /\ offers' = offers + 1 /\ described' = tracks'
  /\ signaling' = "have-local-offer"
  /\ toBrowser' = Append(toBrowser,
       OfferMessage(offers + 1, restart_pending \/ restart, tracks', handled'))

\* ... unless create_offer fails, or set_local_description after it.
OfferFails(restart, state) ==
  /\ PeerFails /\ started' /\ state = "stable"
  /\ \/ restart_pending' = (restart_pending \/ restart) /\ UNCHANGED needs_offer
     \/ restart_pending' = FALSE /\ needs_offer' = FALSE
  /\ signaling' = state
  /\ toBrowser' = Append(toBrowser, VoiceError)
  /\ UNCHANGED <<offers, described>>

Offer(restart, state) ==
  \/ OfferIdle(restart, state) \/ OfferDeferred(restart, state)
  \/ OfferMade(restart, state) \/ OfferFails(restart, state)

-----------------------------------------------------------------------------
(* The handler.                                                            *)

Request(type) ==
  /\ browser # "left" /\ toServer # <<>> /\ Head(toServer).type = type
  /\ toServer' = Tail(toServer)

\* start_voice(restart): the first one makes the tracks of the known speakers.
StartVoice(restart) ==
  /\ Request(IF restart THEN "ice_restart" ELSE "start_voice")
  /\ tracks' = IF started THEN tracks ELSE tracks \cup known_speakers
  /\ started' = TRUE
  /\ handled' = IF restart THEN handled + 1 ELSE handled
  /\ Offer(restart, signaling)
  /\ UNCHANGED <<known_speakers, candidateVars, announced, mumbleVars,
                 browserVars>>

\* A track could not be added; those before it stay.
StartVoiceFails(restart) ==
  /\ PeerFails /\ ~started
  /\ Request(IF restart THEN "ice_restart" ELSE "start_voice")
  /\ \E some \in SUBSET known_speakers :
       some # known_speakers /\ tracks' = tracks \cup some
  /\ toBrowser' = Append(toBrowser, VoiceError)
  /\ UNCHANGED <<known_speakers, started, offerVars, candidateVars, announced,
                 mumbleVars, browserVars, handled>>

\* Mutant: the queued candidates stay queued.
AnswerKeeps ==
  /\ Request("answer") /\ signaling = "have-local-offer"
  /\ remote' = Head(toServer).offer
  /\ announced' = FALSE
  /\ UNCHANGED <<sessionVars, added, pending_candidates, mumbleVars, browserVars,
                 handled>>
  /\ IF needs_offer THEN Offer(FALSE, "stable")
     ELSE /\ signaling' = "stable"
          /\ UNCHANGED <<needs_offer, restart_pending, offers, described, toBrowser>>

\* answer: the remote description is set, which ends the exchange, the queued
\* candidates follow it, and an offer that had to wait is made.
Answer ==
  /\ Request("answer") /\ signaling = "have-local-offer"
  /\ remote' = Head(toServer).offer
  /\ added' = added \o pending_candidates /\ pending_candidates' = <<>>
  /\ announced' = FALSE
  /\ UNCHANGED <<sessionVars, mumbleVars, browserVars, handled>>
  /\ IF needs_offer THEN Offer(FALSE, "stable")
     ELSE /\ signaling' = "stable"
          /\ UNCHANGED <<needs_offer, restart_pending, offers, described, toBrowser>>

\* set_remote_description fails, as it does when no answer is expected.
AnswerFails ==
  /\ Request("answer") /\ (PeerFails \/ signaling # "have-local-offer")
  /\ toBrowser' = Append(toBrowser, VoiceError)
  /\ UNCHANGED <<sessionVars, offerVars, candidateVars, announced, mumbleVars,
                 browserVars, handled>>

\* A queued candidate is refused: the drain drops those behind it, and the
\* offer that had to wait is not made.
DrainFails ==
  /\ PeerFails /\ Request("answer") /\ signaling = "have-local-offer"
  /\ remote' = Head(toServer).offer
  /\ \E n \in 1 .. Len(pending_candidates) :
       added' = added \o SubSeq(pending_candidates, 1, n - 1)
  /\ pending_candidates' = <<>>
  /\ announced' = FALSE /\ signaling' = "stable"
  /\ toBrowser' = Append(toBrowser, VoiceError)
  /\ UNCHANGED <<sessionVars, needs_offer, restart_pending, offers, described,
                 mumbleVars, browserVars, handled>>

\* Mutant: only the very first remote description is waited for.
QueuedAtFirst == remote = 0

\* add_ice_candidate queues a candidate that is early: ...
Queued == remote = 0 \/ signaling = "have-local-offer"

Candidate ==
  /\ Request("ice_candidate") /\ ~Queued
  /\ \/ added' = Append(added, Head(toServer).offer)
     \/ PeerFails /\ UNCHANGED added    \* ice_failed, which ends nothing
  /\ UNCHANGED <<sessionVars, offerVars, pending_candidates, remote, announced,
                 mumbleVars, toBrowser, browserVars, handled>>

\* ... up to a limit, beyond which it is refused (ice_failed).
CandidateQueued ==
  /\ Request("ice_candidate") /\ Queued
  /\ pending_candidates' = IF Len(pending_candidates) < MaxPending
                           THEN Append(pending_candidates, Head(toServer).offer)
                           ELSE pending_candidates
  /\ UNCHANGED <<sessionVars, offerVars, remote, added, announced, mumbleVars,
                 toBrowser, browserVars, handled>>

-----------------------------------------------------------------------------
(* The event task.                                                         *)

\* UserJoined: once voice is started the user gets a track.
UserJoined(u) ==
  /\ u \notin known_speakers /\ moves < MaxMoves /\ moves' = moves + 1
  /\ known_speakers' = known_speakers \cup {u}
  /\ \/ /\ tracks' = IF started THEN tracks \cup {u} ELSE tracks
        /\ UNCHANGED toBrowser
     \/ /\ PeerFails /\ started /\ toBrowser' = Append(toBrowser, VoiceError)
        /\ UNCHANGED tracks
  /\ UNCHANGED <<started, offerVars, candidateVars, announced, events, toServer,
                 browserVars, handled>>

\* Mutant: the track of a user who left stays.
LeaveKeepsTrack(u) ==
  /\ u \in known_speakers /\ moves < MaxMoves /\ moves' = moves + 1
  /\ known_speakers' = known_speakers \ {u}
  /\ UNCHANGED <<started, tracks, offerVars, candidateVars, announced, events,
                 toBrowser, toServer, browserVars, handled>>

\* UserLeft: the track goes, even if remove_track then fails.
UserLeft(u) ==
  /\ u \in known_speakers /\ moves < MaxMoves /\ moves' = moves + 1
  /\ known_speakers' = known_speakers \ {u}
  /\ tracks' = tracks \ {u}
  /\ \/ UNCHANGED toBrowser
     \/ PeerFails /\ u \in tracks /\ toBrowser' = Append(toBrowser, VoiceError)
  /\ UNCHANGED <<started, offerVars, candidateVars, announced, events, toServer,
                 browserVars, handled>>

\* Mutant: the event is taken and nothing follows.
NegotiateNothing ==
  /\ events > 0 /\ events' = events - 1
  /\ UNCHANGED <<sessionVars, offerVars, candidateVars, announced, moves, toBrowser,
                 toServer, browserVars, handled>>

\* NegotiationNeeded
Negotiate ==
  /\ events > 0 /\ events' = events - 1
  /\ UNCHANGED <<sessionVars, candidateVars, announced, moves, toServer,
                 browserVars, handled>>
  /\ Offer(FALSE, signaling)

\* The peer connection calls on_negotiation_needed once per return to the
\* stable state, when its last offer does not describe its tracks.
NegotiationNeeded ==
  /\ signaling = "stable" /\ ~announced /\ (offers = 0 \/ described # tracks)
  /\ announced' = TRUE /\ events' = events + 1
  /\ UNCHANGED <<sessionVars, offerVars, candidateVars, moves, toBrowser,
                 toServer, browserVars, handled>>

-----------------------------------------------------------------------------
(* client.html, which handles one message at a time.                       *)

Send(message) == toServer' = Append(toServer, message)
BrowserOnly == UNCHANGED <<sessionVars, offerVars, candidateVars, announced,
                           mumbleVars, handled>>

\* setupWebRTC
SetupWebRTC ==
  /\ browser = "new" /\ browser' = "idle"
  /\ Send([type |-> "start_voice"])
  /\ BrowserOnly /\ UNCHANGED <<toBrowser, applied, heard, sent, asked, served>>

\* An offer is applied, and an answer to it made and applied.  Candidates may
\* be found before the answer is sent.
ReceiveOffer ==
  /\ browser = "idle" /\ toBrowser # <<>> /\ Head(toBrowser).type = "offer"
  /\ toBrowser' = Tail(toBrowser)
  /\ browser' = "answering"
  /\ applied' = Head(toBrowser).offer /\ heard' = Head(toBrowser).speakers
  /\ served' = IF Head(toBrowser).restart THEN Head(toBrowser).covers ELSE served
  /\ BrowserOnly /\ UNCHANGED <<toServer, sent, asked>>

SendAnswer ==
  /\ browser = "answering" /\ browser' = "idle"
  /\ Send([type |-> "answer", offer |-> applied])
  /\ BrowserOnly /\ UNCHANGED <<toBrowser, applied, heard, sent, asked, served>>

\* onicecandidate
SendCandidate ==
  /\ browser \in {"idle", "answering"} /\ applied > 0 /\ sent < MaxCandidates
  /\ sent' = sent + 1
  /\ Send([type |-> "ice_candidate", offer |-> applied])
  /\ BrowserOnly /\ UNCHANGED <<toBrowser, browser, applied, heard, asked, served>>

\* An ice_config arrived: ice_restart.
AskRestart ==
  /\ browser = "idle" /\ asked < MaxRestarts /\ asked' = asked + 1
  /\ Send([type |-> "ice_restart"])
  /\ BrowserOnly /\ UNCHANGED <<toBrowser, browser, applied, heard, sent, served>>

\* A voice_error makes it clean up and close the WebSocket.
ReceiveError ==
  /\ browser = "idle" /\ toBrowser # <<>> /\ Head(toBrowser).type = "voice_error"
  /\ browser' = "left"
  /\ BrowserOnly /\ UNCHANGED <<toBrowser, toServer, applied, heard, sent, asked, served>>

-----------------------------------------------------------------------------
HandlerStep ==
  \/ \E restart \in BOOLEAN : StartVoice(restart) \/ StartVoiceFails(restart)
  \/ Answer \/ AnswerFails \/ DrainFails \/ Candidate \/ CandidateQueued

MumbleStep == \E u \in Speakers : UserJoined(u) \/ UserLeft(u)

BrowserStep ==
  \/ SetupWebRTC \/ ReceiveOffer \/ SendAnswer \/ SendCandidate \/ AskRestart
  \/ ReceiveError

Next ==
  browser # "left" /\ (HandlerStep \/ MumbleStep \/ Negotiate
                       \/ NegotiationNeeded \/ BrowserStep)

Spec == Init /\ [][Next]_vars

\* Fairness: the server's tasks and the peer connection's callback run, and
\* client.html starts voice and handles every message, an offer to its answer
\* (or it gives up, after which there is nothing left to negotiate).
BrowserHandles == SetupWebRTC \/ ReceiveOffer \/ SendAnswer \/ ReceiveError
FairSpec ==
  /\ Spec
  /\ WF_vars(HandlerStep) /\ WF_vars(Negotiate) /\ WF_vars(NegotiationNeeded)
  /\ WF_vars(BrowserHandles)

-----------------------------------------------------------------------------
(* Properties.                                                             *)

ToServer ==
  [type : {"start_voice", "ice_restart"}] \cup
  [type : {"answer", "ice_candidate"}, offer : Nat]
ToBrowser ==
  [type : {"voice_error"}] \cup
  [type : {"offer"}, offer : Nat, restart : BOOLEAN, speakers : SUBSET Speakers,
   covers : Nat]
IsOffer(m) == m.type = "offer"
IsAnswer(m) == m.type = "answer"

\* Type invariant; candidates queued stay within the limit.
TypeOK ==
  /\ known_speakers \subseteq Speakers /\ tracks \subseteq Speakers
  /\ started \in BOOLEAN /\ needs_offer \in BOOLEAN /\ restart_pending \in BOOLEAN
  /\ signaling \in {"stable", "have-local-offer"} /\ offers \in Nat
  /\ described \subseteq Speakers /\ remote \in Nat /\ announced \in BOOLEAN
  /\ pending_candidates \in Seq(Nat) /\ added \in Seq(Nat)
  /\ Len(pending_candidates) <= MaxPending
  /\ events \in Nat /\ moves \in Nat
  /\ toBrowser \in Seq(ToBrowser) /\ toServer \in Seq(ToServer)
  /\ browser \in {"new", "idle", "answering", "left"} /\ applied \in Nat
  /\ heard \subseteq Speakers /\ sent \in Nat
  /\ asked \in Nat /\ handled \in Nat /\ served \in Nat

\* At most one offer is unanswered, whoever asks for one and when: an offer on
\* its way, an answer being made and an answer on its way exclude each other,
\* and an answer meets the very offer it was made for.  (docs/frontend-api.md:
\* the server queues negotiation.)
OneNegotiation ==
  /\ \A i \in 1 .. Len(toServer) : IsAnswer(toServer[i]) =>
       /\ signaling = "have-local-offer" /\ toServer[i].offer = offers
       /\ browser # "answering"
       /\ \A j \in 1 .. Len(toServer) : IsAnswer(toServer[j]) => i = j
  /\ \A i \in 1 .. Len(toBrowser) : IsOffer(toBrowser[i]) =>
       /\ signaling = "have-local-offer" /\ toBrowser[i].offer = offers
       /\ browser # "answering"
       /\ \A j \in 1 .. Len(toBrowser) : IsOffer(toBrowser[j]) => i = j
       /\ \A j \in 1 .. Len(toServer) : ~IsAnswer(toServer[j])

\* A candidate is not given to the peer connection before the answer that
\* belongs to the same offer: add_ice_candidate keeps it back, and answer sets
\* the remote description first.
NoEarlyCandidate ==
  \A i \in 1 .. Len(added') : i > Len(added) => added'[i] <= remote'
CandidatesInTime == [][NoEarlyCandidate]_vars

\* An ice_restart that was handled is never forgotten, whatever else asks for an
\* offer meanwhile: until an offer that restarts ICE and was made after it is
\* applied, it is noted and an answer will bring it up again, or such an offer
\* is on its way, or a voice_error is.
RestartRemembered ==
  handled > served =>
    \/ restart_pending /\ needs_offer /\ signaling = "have-local-offer"
    \/ \E i \in 1 .. Len(toBrowser) :
         \/ IsOffer(toBrowser[i]) /\ toBrowser[i].restart /\ toBrowser[i].covers = handled
         \/ toBrowser[i].type = "voice_error"

\* Once voice is started, the tracks are those of the users Mumble reported,
\* unless a voice_error is on its way to the browser.
SpeakersTracked ==
  started /\ tracks # known_speakers =>
    \E i \in 1 .. Len(toBrowser) : toBrowser[i].type = "voice_error"

\* Every ice_restart, also one that meets an unanswered offer, leads to an offer
\* with ice_restart that was made after it, or the browser gives up.
RestartsServed ==
  \A n \in 1 .. MaxRestarts : asked >= n ~> served >= n \/ browser = "left"

\* When joins and leaves cease, the browser ends up with an offer that
\* describes exactly the users there are, or it gives up.
SpeakersHeard == <>[](heard = known_speakers \/ browser = "left")

\* Queued candidates do not stay queued: the offer they wait for is answered.
CandidatesDrained ==
  pending_candidates # <<>> ~> pending_candidates = <<>> \/ browser = "left"
=============================================================================
