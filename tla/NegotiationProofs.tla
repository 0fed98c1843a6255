-------------------------- MODULE NegotiationProofs --------------------------
(***************************************************************************)
(* Negotiation, for any speakers and any number of moves, restarts and     *)
(* candidates: one exchange at a time, tracks for the users there are, no  *)
(* restart forgotten and no candidate early.  The invariant IInv has, with *)
(* the types, a conjunct per thread of the exchange: where the one offer   *)
(* or answer is (Exchange), what is numbered by it (Numbered), what the    *)
(* event task has to keep in step (Tracked), and which restarts an offer   *)
(* covers (Restarted).                                                     *)
(***************************************************************************)
EXTENDS Negotiation, SequenceTheorems, TLAPS

-----------------------------------------------------------------------------
(* Types.                                                                  *)

\* What is sent has its type.
LEMMA MessageTypes ==
  /\ VoiceError \in ToBrowser
  /\ \A n \in Nat, restart \in BOOLEAN, s \in SUBSET Speakers, c \in Nat :
       OfferMessage(n, restart, s, c) \in ToBrowser
  /\ [type |-> "start_voice"] \in ToServer /\ [type |-> "ice_restart"] \in ToServer
  /\ \A n \in Nat : /\ [type |-> "answer", offer |-> n] \in ToServer
                    /\ [type |-> "ice_candidate", offer |-> n] \in ToServer
BY DEF VoiceError, OfferMessage, ToBrowser, ToServer

\* What is received has the fields of its type.
LEMMA FieldTypes ==
  /\ \A m \in ToServer : m.type \in {"answer", "ice_candidate"} => m.offer \in Nat
  /\ \A m \in ToBrowser : m.type = "offer" =>
       m.offer \in Nat /\ m.restart \in BOOLEAN /\ m.speakers \subseteq Speakers
       /\ m.covers \in Nat
BY DEF ToBrowser, ToServer

\* A voice_error may be queued at any time.
LEMMA ErrorTypes == ASSUME TypeOK PROVE Append(toBrowser, VoiceError) \in Seq(ToBrowser)
BY MessageTypes, AppendProperties DEF TypeOK

\* offer(restart) keeps the types of what it changes.
LEMMA OfferTypes ==
  ASSUME TypeOK, NEW restart \in BOOLEAN, NEW state \in {"stable", "have-local-offer"},
         tracks' \subseteq Speakers, handled' \in Nat, Offer(restart, state)
  PROVE  /\ needs_offer' \in BOOLEAN /\ restart_pending' \in BOOLEAN
         /\ signaling' \in {"stable", "have-local-offer"} /\ offers' \in Nat
         /\ described' \subseteq Speakers /\ toBrowser' \in Seq(ToBrowser)
<1> USE DEF TypeOK
<1>1. CASE OfferIdle(restart, state)
  BY <1>1 DEF OfferIdle
<1>2. CASE OfferDeferred(restart, state)
  BY <1>2 DEF OfferDeferred
<1>3. CASE OfferMade(restart, state)
  <2>1. (restart_pending \/ restart) \in BOOLEAN /\ offers + 1 \in Nat
    OBVIOUS
  <2>2. OfferMessage(offers + 1, restart_pending \/ restart, tracks', handled') \in ToBrowser
    BY <2>1, MessageTypes
  <2>3. toBrowser' \in Seq(ToBrowser)
    BY <1>3, <2>2, AppendProperties DEF OfferMade
  <2> QED BY <1>3, <2>1, <2>3, Zenon DEF OfferMade
<1>4. CASE OfferFails(restart, state)
  BY <1>4, ErrorTypes, Zenon DEF OfferFails
<1> QED BY <1>1, <1>2, <1>3, <1>4 DEF Offer

\* A request is taken from the WebSocket.
LEMMA RequestTypes ==
  ASSUME TypeOK, NEW type, Request(type)
  PROVE  /\ toServer # <<>> /\ toServer' = Tail(toServer)
         /\ toServer' \in Seq(ToServer) /\ Head(toServer) \in ToServer
         /\ type \in {"answer", "ice_candidate"} => Head(toServer).offer \in Nat
<1>1. /\ toServer \in Seq(ToServer) /\ toServer # <<>> /\ toServer' = Tail(toServer)
      /\ Head(toServer).type = type
  BY DEF Request, TypeOK
<1> QED BY <1>1, HeadTailProperties, FieldTypes

\* The handler's steps keep the types.
LEMMA HandlerTypes == ASSUME TypeOK, HandlerStep PROVE TypeOK'
<1> USE LimitsAssumption DEF sessionVars, offerVars, candidateVars, mumbleVars, browserVars
<1>1. ASSUME NEW restart \in BOOLEAN, StartVoice(restart)
      PROVE  TypeOK'
  <2>1. toServer' \in Seq(ToServer)
    BY <1>1, RequestTypes DEF StartVoice
  <2>2. tracks' \subseteq Speakers /\ started' \in BOOLEAN /\ handled' \in Nat
    BY <1>1 DEF StartVoice, TypeOK
  <2>3. Offer(restart, signaling) /\ signaling \in {"stable", "have-local-offer"}
    BY <1>1 DEF StartVoice, TypeOK
  <2>4. UNCHANGED <<known_speakers, candidateVars, announced, mumbleVars, browserVars>>
    BY <1>1 DEF StartVoice
  <2> QED BY <2>1, <2>2, <2>3, <2>4, OfferTypes DEF TypeOK
<1>2. ASSUME NEW restart \in BOOLEAN, StartVoiceFails(restart)
      PROVE  TypeOK'
  <2>1. toServer' \in Seq(ToServer)
    BY <1>2, RequestTypes DEF StartVoiceFails
  <2>2. tracks' \subseteq Speakers
    BY <1>2 DEF StartVoiceFails, TypeOK
  <2>3. toBrowser' \in Seq(ToBrowser)
    BY <1>2, ErrorTypes DEF StartVoiceFails, TypeOK
  <2> QED BY <1>2, <2>1, <2>2, <2>3 DEF StartVoiceFails, TypeOK
<1>3. CASE Answer
  <2>1. toServer' \in Seq(ToServer) /\ remote' \in Nat
    BY <1>3, RequestTypes DEF Answer
  <2>2. added' \in Seq(Nat) /\ pending_candidates' \in Seq(Nat)
        /\ Len(pending_candidates') <= MaxPending /\ announced' \in BOOLEAN
    <3>1. added \o pending_candidates \in Seq(Nat)
      BY ConcatProperties DEF TypeOK
    <3>2. <<>> \in Seq(Nat) /\ Len(<<>>) <= MaxPending
      BY EmptySeq
    <3>3. /\ added' = added \o pending_candidates /\ pending_candidates' = <<>>
          /\ announced' = FALSE
      BY <1>3 DEF Answer
    <3> QED BY <3>1, <3>2, <3>3, Zenon
  <2>3. UNCHANGED <<sessionVars, mumbleVars, browserVars, handled>>
    BY <1>3 DEF Answer
  <2>4. tracks' \subseteq Speakers /\ handled' \in Nat
    BY <2>3 DEF TypeOK
  <2>5. CASE needs_offer
    <3>1. Offer(FALSE, "stable")
      BY <1>3, <2>5, Zenon DEF Answer
    <3> QED BY <2>1, <2>2, <2>3, <2>4, <3>1, OfferTypes, Zenon DEF TypeOK
  <2>6. CASE ~needs_offer
    <3>1. /\ signaling' = "stable"
          /\ UNCHANGED <<needs_offer, restart_pending, offers, described, toBrowser>>
      BY <1>3, <2>6 DEF Answer
    <3> QED BY <2>1, <2>2, <2>3, <3>1 DEF TypeOK
  <2> QED BY <2>5, <2>6
<1>4. CASE AnswerFails
  <2>1. toServer' \in Seq(ToServer)
    BY <1>4, RequestTypes DEF AnswerFails
  <2>2. toBrowser' \in Seq(ToBrowser)
    BY <1>4, ErrorTypes DEF AnswerFails, TypeOK
  <2> QED BY <1>4, <2>1, <2>2 DEF AnswerFails, TypeOK
<1>5. CASE DrainFails
  <2>1. toServer' \in Seq(ToServer) /\ remote' \in Nat
    BY <1>5, RequestTypes DEF DrainFails
  <2>2. toBrowser' \in Seq(ToBrowser)
    BY <1>5, ErrorTypes DEF DrainFails, TypeOK
  <2>3. added' \in Seq(Nat)
    <3>1. PICK n \in 1 .. Len(pending_candidates) :
            added' = added \o SubSeq(pending_candidates, 1, n - 1)
      BY <1>5, Zenon DEF DrainFails
    <3>2. pending_candidates \in Seq(Nat) /\ added \in Seq(Nat)
      BY DEF TypeOK
    <3>3. SubSeq(pending_candidates, 1, n - 1) \in Seq(Nat)
      BY <3>2, SubSeqProperties, ElementOfSeq, LenProperties
    <3> QED BY <3>1, <3>2, <3>3, ConcatProperties
  <2>4. pending_candidates' \in Seq(Nat) /\ Len(pending_candidates') <= MaxPending
    BY <1>5, EmptySeq DEF DrainFails
  <2> QED BY <1>5, <2>1, <2>2, <2>3, <2>4, Zenon DEF DrainFails, TypeOK
<1>6. CASE Candidate
  <2>1. toServer' \in Seq(ToServer) /\ Head(toServer).offer \in Nat
    BY <1>6, RequestTypes DEF Candidate
  <2>2. Append(added, Head(toServer).offer) \in Seq(Nat) /\ added \in Seq(Nat)
    BY <2>1, AppendProperties DEF TypeOK
  <2>3. added' \in Seq(Nat)
    BY <1>6, <2>2, Zenon DEF Candidate
  <2> QED BY <1>6, <2>1, <2>3 DEF Candidate, TypeOK
<1>7. CASE CandidateQueued
  <2>1. toServer' \in Seq(ToServer) /\ Head(toServer).offer \in Nat
    BY <1>7, RequestTypes DEF CandidateQueued
  <2>2. pending_candidates' \in Seq(Nat) /\ Len(pending_candidates') <= MaxPending
    <3>1. pending_candidates \in Seq(Nat) /\ Len(pending_candidates) <= MaxPending
      BY DEF TypeOK
    <3>2. Len(pending_candidates) \in Nat
      BY <3>1, LenProperties
    <3>3. CASE Len(pending_candidates) < MaxPending
      BY <1>7, <2>1, <3>1, <3>2, <3>3, AppendProperties DEF CandidateQueued
    <3>4. CASE ~(Len(pending_candidates) < MaxPending)
      BY <1>7, <3>1, <3>4 DEF CandidateQueued
    <3> QED BY <3>3, <3>4
  <2> QED BY <1>7, <2>1, <2>2 DEF CandidateQueued, TypeOK
<1> QED BY <1>1, <1>2, <1>3, <1>4, <1>5, <1>6, <1>7 DEF HandlerStep

\* So do the event task and the peer connection, ...
LEMMA EventTypes ==
  ASSUME TypeOK, MumbleStep \/ Negotiate \/ NegotiationNeeded
  PROVE  TypeOK'
<1> USE DEF sessionVars, offerVars, candidateVars, mumbleVars, browserVars
<1>1. ASSUME NEW u \in Speakers, UserJoined(u)
      PROVE  TypeOK'
  <2>1. toBrowser' \in Seq(ToBrowser)
    BY <1>1, ErrorTypes, Zenon DEF UserJoined, TypeOK
  <2>2. tracks' \subseteq Speakers /\ known_speakers' \subseteq Speakers
    BY <1>1 DEF UserJoined, TypeOK
  <2> QED BY <1>1, <2>1, <2>2 DEF UserJoined, TypeOK
<1>2. ASSUME NEW u \in Speakers, UserLeft(u)
      PROVE  TypeOK'
  <2>1. toBrowser' \in Seq(ToBrowser)
    BY <1>2, ErrorTypes, Zenon DEF UserLeft, TypeOK
  <2>2. tracks' \subseteq Speakers /\ known_speakers' \subseteq Speakers
    BY <1>2 DEF UserLeft, TypeOK
  <2> QED BY <1>2, <2>1, <2>2 DEF UserLeft, TypeOK
<1>3. CASE Negotiate
  <2>1. /\ events > 0 /\ events' = events - 1
        /\ UNCHANGED <<sessionVars, candidateVars, announced, moves, toServer,
                       browserVars, handled>>
        /\ Offer(FALSE, signaling)
    BY <1>3, Zenon DEF Negotiate
  <2>2. tracks' \subseteq Speakers /\ handled' \in Nat /\ events' \in Nat
        /\ signaling \in {"stable", "have-local-offer"}
    BY <2>1 DEF TypeOK
  <2> QED BY <2>1, <2>2, OfferTypes, Zenon DEF TypeOK
<1>4. CASE NegotiationNeeded
  BY <1>4 DEF NegotiationNeeded, TypeOK
<1> QED BY <1>1, <1>2, <1>3, <1>4 DEF MumbleStep

\* ... and the browser.
LEMMA BrowserTypes == ASSUME TypeOK, BrowserStep PROVE TypeOK'
<1> USE DEF sessionVars, offerVars, candidateVars, mumbleVars, browserVars, BrowserOnly
<1>1. CASE SetupWebRTC
  <2>1. toServer' \in Seq(ToServer)
    BY <1>1, MessageTypes, AppendProperties DEF SetupWebRTC, Send, TypeOK
  <2> QED BY <1>1, <2>1 DEF SetupWebRTC, TypeOK
<1>2. CASE ReceiveOffer
  <2>1. toBrowser \in Seq(ToBrowser) /\ toBrowser # <<>> /\ Head(toBrowser).type = "offer"
    BY <1>2 DEF ReceiveOffer, TypeOK
  <2>2. Head(toBrowser) \in ToBrowser /\ Tail(toBrowser) \in Seq(ToBrowser)
    BY <2>1, HeadTailProperties
  <2>3. Head(toBrowser).offer \in Nat /\ Head(toBrowser).speakers \subseteq Speakers
        /\ Head(toBrowser).covers \in Nat
    BY <2>1, <2>2, FieldTypes
  <2> QED BY <1>2, <2>2, <2>3, Zenon DEF ReceiveOffer, TypeOK
<1>3. CASE SendAnswer
  <2>1. toServer' \in Seq(ToServer)
    BY <1>3, MessageTypes, AppendProperties, Zenon DEF SendAnswer, Send, TypeOK
  <2> QED BY <1>3, <2>1 DEF SendAnswer, TypeOK
<1>4. CASE SendCandidate
  <2>1. toServer' \in Seq(ToServer)
    BY <1>4, MessageTypes, AppendProperties, Zenon DEF SendCandidate, Send, TypeOK
  <2> QED BY <1>4, <2>1 DEF SendCandidate, TypeOK
<1>5. CASE AskRestart
  <2>1. toServer' \in Seq(ToServer)
    BY <1>5, MessageTypes, AppendProperties DEF AskRestart, Send, TypeOK
  <2> QED BY <1>5, <2>1 DEF AskRestart, TypeOK
<1>6. CASE ReceiveError
  BY <1>6 DEF ReceiveError, TypeOK
<1> QED BY <1>1, <1>2, <1>3, <1>4, <1>5, <1>6 DEF BrowserStep

\* The session before start_voice.
LEMMA InitTypes == ASSUME Init PROVE TypeOK
<1>1. /\ <<>> \in Seq(Nat) /\ Len(<<>>) = 0
      /\ <<>> \in Seq(ToBrowser) /\ <<>> \in Seq(ToServer)
  BY EmptySeq
<1>2. /\ pending_candidates \in Seq(Nat) /\ added \in Seq(Nat)
      /\ Len(pending_candidates) <= MaxPending
      /\ toBrowser \in Seq(ToBrowser) /\ toServer \in Seq(ToServer)
  BY <1>1, LimitsAssumption DEF Init
<1>3. /\ started \in BOOLEAN /\ needs_offer \in BOOLEAN /\ restart_pending \in BOOLEAN
      /\ announced \in BOOLEAN
      /\ signaling \in {"stable", "have-local-offer"}
      /\ browser \in {"new", "idle", "answering", "left"}
  BY Zenon DEF Init
<1>4. /\ known_speakers \subseteq Speakers /\ tracks \subseteq Speakers
      /\ described \subseteq Speakers /\ heard \subseteq Speakers
  BY DEF Init
<1>5. /\ offers \in Nat /\ remote \in Nat /\ events \in Nat /\ moves \in Nat
      /\ applied \in Nat /\ sent \in Nat /\ asked \in Nat /\ handled \in Nat
      /\ served \in Nat
  BY DEF Init
<1> QED BY <1>2, <1>3, <1>4, <1>5 DEF TypeOK

\* The types, for every number of speakers, candidates and restarts; a queue of
\* candidates never grows beyond its limit.
THEOREM Typing == Spec => []TypeOK
<1>1. Init => TypeOK
  BY InitTypes
<1>2. TypeOK /\ [Next]_vars => TypeOK'
  <2> SUFFICES ASSUME TypeOK, [Next]_vars
               PROVE  TypeOK'
    OBVIOUS
  <2>1. CASE Next
    BY <2>1, HandlerTypes, EventTypes, BrowserTypes DEF Next
  <2>2. CASE UNCHANGED vars
    BY <2>2 DEF vars, sessionVars, offerVars, candidateVars, mumbleVars, browserVars, TypeOK
  <2> QED BY <2>1, <2>2
<1> QED BY <1>1, <1>2, PTL DEF Spec

-----------------------------------------------------------------------------
(* The inductive invariant.                                                *)

\* One exchange at a time, the browser's part of it included.
Exchange ==
  /\ OneNegotiation
  /\ browser = "answering" => signaling = "have-local-offer" /\ applied = offers

\* Nothing is numbered beyond the last offer, and between two exchanges the
\* remote description is that of the last offer.
Numbered ==
  /\ applied <= offers
  /\ \A i \in 1 .. Len(toServer) :
       toServer[i].type = "ice_candidate" => toServer[i].offer <= offers
  /\ \A i \in 1 .. Len(pending_candidates) : pending_candidates[i] <= offers
  /\ signaling = "stable" => remote = offers

\* Only users that are there have a track.
Tracked == tracks \subseteq known_speakers /\ SpeakersTracked

\* An offer covers the requests that were handled when it was made, and those
\* that are served were handled.
Restarted ==
  /\ RestartRemembered
  /\ signaling = "have-local-offer" => started
  /\ served <= handled
  /\ \A i \in 1 .. Len(toBrowser) : IsOffer(toBrowser[i]) =>
       served <= toBrowser[i].covers /\ toBrowser[i].covers <= handled

IInv == TypeOK /\ Exchange /\ Numbered /\ Tracked /\ Restarted

-----------------------------------------------------------------------------
(* The queues.                                                             *)

\* The messages of a queue after one was added, ...
LEMMA Pushed ==
  ASSUME NEW S, NEW q \in Seq(S), NEW m \in S
  PROVE  /\ Len(Append(q, m)) = Len(q) + 1 /\ Len(q) \in Nat
         /\ \A i \in 1 .. Len(q) : i \in 1 .. Len(Append(q, m)) /\ Append(q, m)[i] = q[i]
         /\ \A i \in 1 .. Len(Append(q, m)) :
              \/ i \in 1 .. Len(q) /\ Append(q, m)[i] = q[i]
              \/ i = Len(q) + 1 /\ Append(q, m)[i] = m
<1>1. Len(q) \in Nat
  BY LenProperties
<1> QED BY <1>1, AppendProperties

\* ... and after the first was taken.
LEMMA Popped ==
  ASSUME NEW S, NEW q \in Seq(S), q # <<>>
  PROVE  /\ Head(q) = q[1] /\ 1 \in 1 .. Len(q) /\ Len(q) \in Nat
         /\ Len(Tail(q)) = Len(q) - 1
         /\ \A i \in 1 .. Len(Tail(q)) : i + 1 \in 1 .. Len(q) /\ Tail(q)[i] = q[i + 1]
<1>1. Len(q) \in Nat /\ Len(q) # 0
  BY LenProperties, EmptySeq
<1>2. Head(q) = q[1]
  OBVIOUS
<1> QED BY <1>1, <1>2, HeadTailProperties

\* toServer loses at most its first message.
Dequeues == toServer' = toServer \/ (toServer # <<>> /\ toServer' = Tail(toServer))

\* toBrowser gets at most a voice_error.
Warns == toBrowser' = toBrowser \/ toBrowser' = Append(toBrowser, VoiceError)

NoAnswer(q) == \A i \in 1 .. Len(q) : ~IsAnswer(q[i])
NoOffer(q) == \A i \in 1 .. Len(q) : ~IsOffer(q[i])
Errored(q) == \E i \in 1 .. Len(q) : q[i].type = "voice_error"

-----------------------------------------------------------------------------
(* One exchange at a time.                                                 *)

\* Between two exchanges neither queue holds a part of one, nor the browser.
LEMMA StableIsQuiet ==
  ASSUME TypeOK, Exchange, signaling = "stable"
  PROVE  NoAnswer(toServer) /\ NoOffer(toBrowser) /\ browser # "answering"
BY DEF Exchange, OneNegotiation, NoAnswer, NoOffer

\* Taking a message from a queue without answers leaves it without answers.
LEMMA DequeueQuiet ==
  ASSUME TypeOK, Dequeues, NoAnswer(toServer)
  PROVE  NoAnswer(toServer')
<1>1. toServer \in Seq(ToServer)
  BY DEF TypeOK
<1> QED BY <1>1, Popped DEF Dequeues, NoAnswer

\* When an answer is taken, no other part of an exchange is left.
LEMMA AnswerIsLast ==
  ASSUME TypeOK, Exchange, toServer # <<>>, IsAnswer(Head(toServer)),
         toServer' = Tail(toServer)
  PROVE  /\ NoAnswer(toServer') /\ NoOffer(toBrowser) /\ browser # "answering"
         /\ Head(toServer).offer = offers /\ signaling = "have-local-offer"
<1>1. toServer \in Seq(ToServer)
  BY DEF TypeOK
<1>2. 1 \in 1 .. Len(toServer) /\ IsAnswer(toServer[1]) /\ Head(toServer) = toServer[1]
  BY <1>1, Popped
<1>3. /\ signaling = "have-local-offer" /\ toServer[1].offer = offers
      /\ browser # "answering"
      /\ \A j \in 1 .. Len(toServer) : IsAnswer(toServer[j]) => 1 = j
  BY <1>2 DEF Exchange, OneNegotiation
<1>4. NoOffer(toBrowser)
  BY <1>2 DEF Exchange, OneNegotiation, NoOffer
<1>5. NoAnswer(toServer')
  BY <1>1, <1>3, Popped DEF NoAnswer
<1> QED BY <1>2, <1>3, <1>4, <1>5

\* Requests that are taken and warnings that are sent are no part of an exchange.
LEMMA ExchangeKept ==
  ASSUME TypeOK, Exchange, Dequeues, Warns,
         UNCHANGED <<signaling, offers, browser, applied>>
  PROVE  Exchange'
<1>1. toServer \in Seq(ToServer) /\ toBrowser \in Seq(ToBrowser) /\ VoiceError \in ToBrowser
  BY MessageTypes DEF TypeOK
<1>2. ~IsOffer(VoiceError)
  BY DEF IsOffer, VoiceError
<1>3. ASSUME NEW i \in 1 .. Len(toServer'), IsAnswer(toServer'[i])
      PROVE  /\ signaling = "have-local-offer" /\ toServer'[i].offer = offers
             /\ browser # "answering" /\ NoOffer(toBrowser)
             /\ \A j \in 1 .. Len(toServer') : IsAnswer(toServer'[j]) => i = j
  <2>1. CASE toServer' = toServer
    BY <1>3, <2>1 DEF Exchange, OneNegotiation, NoOffer
  <2>2. CASE toServer # <<>> /\ toServer' = Tail(toServer)
    <3>1. \A j \in 1 .. Len(toServer') : j + 1 \in 1 .. Len(toServer)
                                         /\ toServer'[j] = toServer[j + 1]
      BY <1>1, <2>2, Popped
    <3>2. i + 1 \in 1 .. Len(toServer) /\ IsAnswer(toServer[i + 1])
      BY <1>3, <3>1
    <3>3. /\ signaling = "have-local-offer" /\ toServer[i + 1].offer = offers
          /\ browser # "answering" /\ NoOffer(toBrowser)
          /\ \A j \in 1 .. Len(toServer) : IsAnswer(toServer[j]) => i + 1 = j
      BY <3>2 DEF Exchange, OneNegotiation, NoOffer
    <3>4. ASSUME NEW j \in 1 .. Len(toServer'), IsAnswer(toServer'[j])
          PROVE  i = j
      BY <3>1, <3>3, <3>4
    <3> QED BY <3>1, <3>3, <3>4
  <2> QED BY <2>1, <2>2 DEF Dequeues
<1>4. \A i \in 1 .. Len(toBrowser') : IsOffer(toBrowser'[i]) =>
        i \in 1 .. Len(toBrowser) /\ toBrowser'[i] = toBrowser[i]
  BY <1>1, <1>2, Pushed DEF Warns
<1>5. ASSUME NEW i \in 1 .. Len(toBrowser'), IsOffer(toBrowser'[i])
      PROVE  /\ signaling = "have-local-offer" /\ toBrowser'[i].offer = offers
             /\ browser # "answering" /\ NoAnswer(toServer')
             /\ \A j \in 1 .. Len(toBrowser') : IsOffer(toBrowser'[j]) => i = j
  <2>1. i \in 1 .. Len(toBrowser) /\ toBrowser'[i] = toBrowser[i]
    BY <1>4, <1>5
  <2>2. /\ signaling = "have-local-offer" /\ toBrowser[i].offer = offers
        /\ browser # "answering" /\ NoAnswer(toServer)
        /\ \A j \in 1 .. Len(toBrowser) : IsOffer(toBrowser[j]) => i = j
    BY <1>5, <2>1 DEF Exchange, OneNegotiation, NoAnswer
  <2> QED BY <1>4, <2>1, <2>2, DequeueQuiet
<1> QED BY <1>3, <1>5 DEF Exchange, OneNegotiation, NoAnswer

\* An exchange ends, ...
LEMMA ExchangeEnds ==
  ASSUME TypeOK, NoAnswer(toServer'), NoOffer(toBrowser), browser # "answering", Warns,
         UNCHANGED <<browser, applied>>
  PROVE  Exchange'
<1>1. toBrowser \in Seq(ToBrowser) /\ VoiceError \in ToBrowser /\ ~IsOffer(VoiceError)
  BY MessageTypes DEF TypeOK, IsOffer, VoiceError
<1>2. NoOffer(toBrowser')
  BY <1>1, Pushed DEF Warns, NoOffer
<1> QED BY <1>2 DEF Exchange, OneNegotiation, NoAnswer, NoOffer

\* ... and one begins.
LEMMA ExchangeBegins ==
  ASSUME TypeOK, NoAnswer(toServer'), NoOffer(toBrowser), browser # "answering",
         UNCHANGED <<browser, applied>>, signaling' = "have-local-offer",
         NEW m \in ToBrowser, toBrowser' = Append(toBrowser, m), m.offer = offers'
  PROVE  Exchange'
<1>1. toBrowser \in Seq(ToBrowser)
  BY DEF TypeOK
<1>2. \A i \in 1 .. Len(toBrowser') : IsOffer(toBrowser'[i]) =>
        i = Len(toBrowser) + 1 /\ toBrowser'[i] = m
  BY <1>1, Pushed DEF NoOffer
<1> QED BY <1>2 DEF Exchange, OneNegotiation, NoAnswer, NoOffer

-----------------------------------------------------------------------------
(* offer(restart): with the exchange in the given state over, or still in  *)
(* the one it was in.                                                      *)

\* An offer that is made starts the exchange that is allowed then.
LEMMA OfferExchange ==
  ASSUME TypeOK, Exchange, TypeOK', Dequeues, UNCHANGED <<browser, applied>>,
         NEW restart \in BOOLEAN, NEW state, Offer(restart, state),
         \/ state = signaling
         \/ NoAnswer(toServer') /\ NoOffer(toBrowser) /\ browser # "answering"
  PROVE  Exchange'
<1>1. CASE OfferMade(restart, state)
  <2> DEFINE m == OfferMessage(offers + 1, restart_pending \/ restart, tracks', handled')
  <2>1. NoAnswer(toServer') /\ NoOffer(toBrowser) /\ browser # "answering"
    BY <1>1, StableIsQuiet, DequeueQuiet DEF OfferMade
  <2>2. signaling' = "have-local-offer" /\ offers' = offers + 1
        /\ toBrowser' = Append(toBrowser, m)
    BY <1>1 DEF OfferMade
  <2>3. (restart_pending \/ restart) \in BOOLEAN /\ offers + 1 \in Nat
        /\ tracks' \in SUBSET Speakers /\ handled' \in Nat
    BY SMTT(30) DEF TypeOK
  <2>4. m \in ToBrowser
    BY <2>3, MessageTypes, Zenon
  <2>5. m.offer = offers'
    BY <2>2 DEF OfferMessage
  <2> QED BY <2>1, <2>2, <2>4, <2>5, ExchangeBegins
<1>2. CASE ~OfferMade(restart, state)
  <2>1. Warns /\ offers' = offers /\ signaling' = state
    BY <1>2 DEF Offer, OfferIdle, OfferDeferred, OfferFails, Warns
  <2>2. CASE state = signaling
    BY <2>1, <2>2, ExchangeKept
  <2>3. CASE NoAnswer(toServer') /\ NoOffer(toBrowser) /\ browser # "answering"
    BY <2>1, <2>3, ExchangeEnds
  <2> QED BY <2>2, <2>3
<1> QED BY <1>1, <1>2

\* The numbers of what is under way stay within the offers made.
LEMMA NumberedKept ==
  ASSUME TypeOK, Numbered, Dequeues, UNCHANGED applied,
         offers' \in Nat, offers' >= offers,
         \A i \in 1 .. Len(pending_candidates') : pending_candidates'[i] <= offers,
         pending_candidates' \in Seq(Nat),
         signaling' = "stable" => remote' = offers'
  PROVE  Numbered'
<1>1. toServer \in Seq(ToServer) /\ offers \in Nat /\ applied \in Nat
  BY DEF TypeOK
<1>2. \A i \in 1 .. Len(toServer') : \E j \in 1 .. Len(toServer) : toServer'[i] = toServer[j]
  <2>1. CASE toServer' = toServer
    BY <2>1, Zenon
  <2>2. CASE toServer # <<>> /\ toServer' = Tail(toServer)
    <3>1. \A i \in 1 .. Len(Tail(toServer)) :
            i + 1 \in 1 .. Len(toServer) /\ Tail(toServer)[i] = toServer[i + 1]
      BY <1>1, <2>2, Popped, Zenon
    <3> QED BY <2>2, <3>1, Zenon
  <2> QED BY <2>1, <2>2, Zenon DEF Dequeues
<1>3. ASSUME NEW i \in 1 .. Len(toServer'), toServer'[i].type = "ice_candidate"
      PROVE  toServer'[i].offer <= offers'
  <2>1. PICK j \in 1 .. Len(toServer) : toServer'[i] = toServer[j]
    BY <1>2, Zenon
  <2>2. toServer[j].offer <= offers /\ toServer[j].offer \in Nat
    BY <1>1, <1>3, <2>1, ElementOfSeq, FieldTypes DEF Numbered
  <2> QED BY <1>1, <2>1, <2>2
<1>4. ASSUME NEW i \in 1 .. Len(pending_candidates')
      PROVE  pending_candidates'[i] <= offers'
  <2>1. pending_candidates'[i] \in Nat /\ pending_candidates'[i] <= offers
    BY ElementOfSeq
  <2> QED BY <1>1, <2>1
<1>5. applied' <= offers'
  BY <1>1 DEF Numbered
<1> QED BY <1>3, <1>4, <1>5 DEF Numbered

\* WebRTCSession::offer, whatever comes of it, numbers nothing beyond its offer.
LEMMA OfferNumbered ==
  ASSUME TypeOK, Numbered, TypeOK', Dequeues, UNCHANGED applied,
         NEW restart, NEW state, Offer(restart, state),
         state = "stable" => remote' = offers,
         \A i \in 1 .. Len(pending_candidates') : pending_candidates'[i] <= offers
  PROVE  Numbered'
<1>1. offers' \in Nat /\ pending_candidates' \in Seq(Nat) /\ offers \in Nat
  BY DEF TypeOK
<1>2. offers' >= offers /\ (signaling' = "stable" => remote' = offers')
  BY <1>1 DEF Offer, OfferIdle, OfferDeferred, OfferMade, OfferFails
<1> QED BY <1>1, <1>2, NumberedKept

\* What toBrowser held it still holds, or it loses an offer.
Extends(old, new) ==
  \A i \in 1 .. Len(old) : \E j \in 1 .. Len(new) : new[j] = old[i]

\* WebRTCSession::offer takes no message back from the browser's queue.
LEMMA OfferExtends ==
  ASSUME TypeOK, NEW restart \in BOOLEAN, NEW state, Offer(restart, state),
         tracks' \subseteq Speakers, handled' \in Nat
  PROVE  Extends(toBrowser, toBrowser')
<1>1. (restart_pending \/ restart) \in BOOLEAN /\ offers + 1 \in Nat
      /\ toBrowser \in Seq(ToBrowser)
  BY DEF TypeOK
<1>2. OfferMessage(offers + 1, restart_pending \/ restart, tracks', handled') \in ToBrowser
  BY <1>1, MessageTypes, Zenon
<1>3. \/ toBrowser' = toBrowser
      \/ \E m \in ToBrowser : toBrowser' = Append(toBrowser, m)
  BY <1>2, MessageTypes DEF Offer, OfferIdle, OfferDeferred, OfferMade, OfferFails
<1> QED BY SMTT(30), <1>1, <1>3, Pushed DEF Extends

\* A voice_error stays where it is.
LEMMA ErrorStays ==
  ASSUME Extends(toBrowser, toBrowser'), Errored(toBrowser)
  PROVE  Errored(toBrowser')
BY DEF Extends, Errored

\* A voice_error is queued.
LEMMA ErrorQueued ==
  ASSUME TypeOK, toBrowser' = Append(toBrowser, VoiceError)
  PROVE  Errored(toBrowser') /\ Extends(toBrowser, toBrowser')
<1>1. toBrowser \in Seq(ToBrowser) /\ VoiceError \in ToBrowser /\ VoiceError.type = "voice_error"
  BY MessageTypes DEF TypeOK, VoiceError
<1>2. /\ Len(toBrowser) + 1 \in 1 .. Len(toBrowser')
      /\ toBrowser'[Len(toBrowser) + 1] = VoiceError
  BY <1>1, AppendProperties, Pushed
<1> QED BY <1>1, <1>2, Pushed DEF Extends, Errored

\* The offers on their way cover requests that were handled, also after a
\* warning.
LEMMA CoversKept ==
  ASSUME TypeOK, Restarted, Warns, served' = served, handled' \in Nat, handled' >= handled
  PROVE  /\ served' <= handled'
         /\ \A i \in 1 .. Len(toBrowser') : IsOffer(toBrowser'[i]) =>
              served' <= toBrowser'[i].covers /\ toBrowser'[i].covers <= handled'
<1>1. toBrowser \in Seq(ToBrowser) /\ VoiceError \in ToBrowser /\ ~IsOffer(VoiceError)
      /\ served \in Nat /\ handled \in Nat
  BY MessageTypes DEF TypeOK, IsOffer, VoiceError
<1>2. \A i \in 1 .. Len(toBrowser') : IsOffer(toBrowser'[i]) =>
        i \in 1 .. Len(toBrowser) /\ toBrowser'[i] = toBrowser[i]
  BY <1>1, Pushed DEF Warns
<1>3. ASSUME NEW i \in 1 .. Len(toBrowser'), IsOffer(toBrowser'[i])
      PROVE  served' <= toBrowser'[i].covers /\ toBrowser'[i].covers <= handled'
  <2>1. i \in 1 .. Len(toBrowser) /\ toBrowser'[i] = toBrowser[i]
    BY <1>2, <1>3
  <2>2. served <= toBrowser[i].covers /\ toBrowser[i].covers <= handled
    BY <1>3, <2>1 DEF Restarted
  <2>3. toBrowser[i].covers \in Nat
    BY <1>1, <1>3, <2>1, ElementOfSeq, FieldTypes DEF IsOffer
  <2> QED BY <1>1, <2>1, <2>2, <2>3
<1>4. served' <= handled'
  BY <1>1 DEF Restarted
<1> QED BY <1>3, <1>4

\* A step that neither makes nor applies an offer keeps what is remembered, ...
LEMMA RestartedKept ==
  ASSUME TypeOK, Restarted, Warns, started => started',
         UNCHANGED <<served, handled, restart_pending, needs_offer, signaling>>
  PROVE  Restarted'
<1>1. handled \in Nat
  BY DEF TypeOK
<1>2. Extends(toBrowser, toBrowser')
  BY ErrorQueued DEF Warns, Extends
<1>3. RestartRemembered'
  BY <1>2 DEF Restarted, RestartRemembered, Extends
<1> QED BY <1>1, <1>3, CoversKept DEF Restarted

\* ... and a voice_error stands for all of it.
LEMMA ErrorRestarted ==
  ASSUME TypeOK, Restarted, toBrowser' = Append(toBrowser, VoiceError), served' = served,
         handled' \in Nat, handled' >= handled, signaling' = "have-local-offer" => started'
  PROVE  Restarted'
<1>1. RestartRemembered'
  BY ErrorQueued DEF RestartRemembered, Errored
<1> QED BY <1>1, CoversKept DEF Restarted, Warns

\* offer(restart) remembers the request, or serves all there are.
LEMMA OfferRestarted ==
  ASSUME TypeOK, Restarted, TypeOK', served' = served, started => started',
         NEW restart \in BOOLEAN, NEW state, Offer(restart, state),
         \/ handled' = handled
         \/ handled' = handled + 1 /\ restart /\ started',
         \/ state = signaling
         \/ state = "stable" /\ signaling = "have-local-offer"
  PROVE  Restarted'
<1>0. handled \in Nat /\ handled' \in Nat /\ handled' >= handled /\ served \in Nat
      /\ toBrowser \in Seq(ToBrowser) /\ signaling \in {"stable", "have-local-offer"}
  BY DEF TypeOK
<1>1. CASE OfferIdle(restart, state)
  <2>1. /\ ~started' /\ handled' = handled /\ signaling' = state
        /\ toBrowser' = toBrowser
    BY <1>1 DEF OfferIdle
  <2>2. signaling = "stable" /\ state = "stable"
    BY <1>0, <2>1 DEF Restarted
  <2>3. RestartRemembered'
    BY <2>1, <2>2 DEF Restarted, RestartRemembered
  <2> QED BY <1>0, <2>1, <2>2, <2>3, CoversKept DEF Restarted, Warns
<1>2. CASE OfferDeferred(restart, state)
  <2>1. /\ started' /\ state = "have-local-offer" /\ signaling' = state /\ needs_offer'
        /\ restart_pending' = (restart_pending \/ restart) /\ toBrowser' = toBrowser
    BY <1>0, <1>2 DEF OfferDeferred
  <2>2. RestartRemembered'
    BY <1>0, <2>1, Zenon DEF Restarted, RestartRemembered
  <2> QED BY <1>0, <2>1, <2>2, CoversKept DEF Restarted, Warns
<1>3. CASE OfferMade(restart, state)
  <2> DEFINE m == OfferMessage(offers + 1, restart_pending \/ restart, tracks', handled')
  <2>1. started' /\ toBrowser' = Append(toBrowser, m)
    BY <1>3 DEF OfferMade
  <2>2. (restart_pending \/ restart) \in BOOLEAN /\ offers + 1 \in Nat
        /\ tracks' \in SUBSET Speakers /\ handled' \in Nat
    BY SMTT(30) DEF TypeOK
  <2>3. m \in ToBrowser
    BY <2>2, MessageTypes, Zenon
  <2>4. IsOffer(m) /\ m.covers = handled' /\ m.restart = (restart_pending \/ restart)
    BY DEF IsOffer, OfferMessage
  <2>5. /\ Len(toBrowser) + 1 \in 1 .. Len(toBrowser') /\ toBrowser'[Len(toBrowser) + 1] = m
        /\ Extends(toBrowser, toBrowser')
        /\ \A i \in 1 .. Len(toBrowser') :
             \/ i \in 1 .. Len(toBrowser) /\ toBrowser'[i] = toBrowser[i]
             \/ toBrowser'[i] = m
    BY SMTT(30), <1>0, <2>1, <2>3, Pushed, AppendProperties DEF Extends
  <2> HIDE DEF m
  <2>6. RestartRemembered'
    <3>1. CASE restart_pending \/ restart
      BY <2>4, <2>5, <3>1, Zenon DEF RestartRemembered
    <3>2. CASE ~(restart_pending \/ restart)
      BY <2>5, <3>2 DEF Restarted, RestartRemembered, Extends
    <3> QED BY <3>1, <3>2
  <2>7. ASSUME NEW i \in 1 .. Len(toBrowser'), IsOffer(toBrowser'[i])
        PROVE  served' <= toBrowser'[i].covers /\ toBrowser'[i].covers <= handled'
    <3>1. CASE toBrowser'[i] = m
      BY <1>0, <2>4, <3>1 DEF Restarted
    <3>2. CASE i \in 1 .. Len(toBrowser) /\ toBrowser'[i] = toBrowser[i]
      <4>1. toBrowser[i].covers \in Nat
        BY <1>0, <2>7, <3>2, ElementOfSeq, FieldTypes DEF IsOffer
      <4>2. served <= toBrowser[i].covers /\ toBrowser[i].covers <= handled
        BY <2>7, <3>2 DEF Restarted
      <4> QED BY <1>0, <3>2, <4>1, <4>2
    <3> QED BY <2>5, <3>1, <3>2
  <2>8. served' <= handled'
    BY <1>0 DEF Restarted
  <2> QED BY <2>1, <2>6, <2>7, <2>8, Zenon DEF Restarted
<1>4. CASE OfferFails(restart, state)
  <2>1. toBrowser' = Append(toBrowser, VoiceError) /\ started'
    BY <1>4 DEF OfferFails
  <2> QED BY <1>0, <2>1, ErrorRestarted
<1> QED BY <1>1, <1>2, <1>3, <1>4 DEF Offer

-----------------------------------------------------------------------------
(* The handler.                                                            *)

\* A request is taken.
LEMMA RequestDequeues ==
  ASSUME NEW type, Request(type)
  PROVE  Dequeues /\ toServer # <<>> /\ toServer' = Tail(toServer)
         /\ Head(toServer).type = type
BY DEF Request, Dequeues

\* Steps of the handler that change nothing of an exchange but may fail.
LEMMA WarningKeeps ==
  ASSUME IInv, TypeOK', Dequeues, Warns, started => started',
         UNCHANGED <<signaling, offers, browser, applied, remote, served, handled,
                     restart_pending, needs_offer>>,
         \A i \in 1 .. Len(pending_candidates') : pending_candidates'[i] <= offers
  PROVE  Exchange' /\ Numbered' /\ Restarted'
<1>1. Exchange'
  BY ExchangeKept DEF IInv
<1>2. Numbered'
  <2>1. offers' \in Nat /\ offers' >= offers /\ pending_candidates' \in Seq(Nat)
    BY DEF IInv, TypeOK
  <2>2. signaling' = "stable" => remote' = offers'
    BY DEF IInv, Numbered
  <2> QED BY <2>1, <2>2, NumberedKept DEF IInv
<1>3. Restarted'
  BY RestartedKept DEF IInv
<1> QED BY <1>1, <1>2, <1>3

\* Steps that neither add nor remove users or tracks keep them in step, while the
\* browser is still to be told of what failed.
LEMMA TrackedKept ==
  ASSUME Tracked, Extends(toBrowser, toBrowser'),
         UNCHANGED <<tracks, known_speakers, started>>
  PROVE  Tracked'
BY DEF Tracked, SpeakersTracked, Extends

\* Every step of the handler preserves the invariant.
LEMMA HandlerKeeps == ASSUME IInv, HandlerStep PROVE IInv'
<1> USE DEF sessionVars, offerVars, candidateVars, mumbleVars, browserVars
<1>0. TypeOK /\ TypeOK'
  BY HandlerTypes DEF IInv
<1>1. /\ Extends(toBrowser, toBrowser)
      /\ \A i \in 1 .. Len(pending_candidates) : pending_candidates[i] <= offers
      /\ pending_candidates \in Seq(Nat) /\ signaling \in {"stable", "have-local-offer"}
      /\ signaling = "stable" => remote = offers
  BY <1>0, Zenon DEF Extends, IInv, Numbered, TypeOK
<1>2. ASSUME NEW restart \in BOOLEAN, StartVoice(restart)
      PROVE  IInv'
  <2>1. Dequeues
    BY <1>2, RequestDequeues DEF StartVoice
  <2>2. /\ tracks' = IF started THEN tracks ELSE tracks \cup known_speakers
        /\ started' = TRUE /\ handled' = IF restart THEN handled + 1 ELSE handled
        /\ Offer(restart, signaling)
        /\ UNCHANGED <<known_speakers, candidateVars, browserVars>>
    BY <1>2 DEF StartVoice
  <2>3. Exchange'
    BY <1>0, <2>1, <2>2, OfferExchange DEF IInv
  <2>4. Numbered'
    BY <1>0, <1>1, <2>1, <2>2, OfferNumbered DEF IInv
  <2>5. Tracked'
    <3>1. Extends(toBrowser, toBrowser')
      BY <1>0, <2>2, OfferExtends, Zenon DEF TypeOK
    <3>2. tracks' \subseteq known_speakers'
          /\ (tracks' # known_speakers' => started /\ tracks # known_speakers)
      BY <2>2 DEF IInv, Tracked
    <3> QED BY <2>2, <3>1, <3>2 DEF IInv, Tracked, SpeakersTracked, Extends
  <2>6. Restarted'
    BY <1>0, <2>2, OfferRestarted DEF IInv
  <2> QED BY <1>0, <2>3, <2>4, <2>5, <2>6 DEF IInv
<1>3. ASSUME NEW restart \in BOOLEAN, StartVoiceFails(restart)
      PROVE  IInv'
  <2>1. Dequeues
    BY <1>3, RequestDequeues DEF StartVoiceFails
  <2>2. /\ ~started /\ toBrowser' = Append(toBrowser, VoiceError)
        /\ \E some \in SUBSET known_speakers : tracks' = tracks \cup some
        /\ UNCHANGED <<known_speakers, started, offerVars, candidateVars, browserVars, handled>>
    BY <1>3, Zenon DEF StartVoiceFails
  <2>3. Exchange' /\ Numbered' /\ Restarted'
    BY <1>0, <1>1, <2>1, <2>2, WarningKeeps DEF Warns
  <2>4. Tracked'
    BY <2>2 DEF IInv, Tracked, SpeakersTracked
  <2> QED BY <1>0, <2>3, <2>4 DEF IInv
<1>4. ASSUME Request("answer"), signaling = "have-local-offer", remote' = Head(toServer).offer
      PROVE  /\ NoAnswer(toServer') /\ NoOffer(toBrowser) /\ browser # "answering"
             /\ remote' = offers /\ Dequeues
  <2>1. Dequeues /\ toServer # <<>> /\ toServer' = Tail(toServer)
        /\ IsAnswer(Head(toServer))
    BY <1>4, RequestDequeues DEF IsAnswer
  <2> QED BY <1>0, <1>4, <2>1, AnswerIsLast DEF IInv
<1>5. CASE Answer
  <2>1. /\ NoAnswer(toServer') /\ NoOffer(toBrowser) /\ browser # "answering"
        /\ remote' = offers /\ Dequeues
    BY <1>4, <1>5 DEF Answer
  <2>2. /\ signaling = "have-local-offer" /\ pending_candidates' = <<>>
        /\ UNCHANGED <<sessionVars, browserVars, handled>>
    BY <1>5 DEF Answer
  <2>3. \A i \in 1 .. Len(pending_candidates') : pending_candidates'[i] <= offers
    BY <2>2
  <2>4. CASE needs_offer
    <3>1. Offer(FALSE, "stable")
      BY <1>5, <2>4, Zenon DEF Answer
    <3>2. Exchange'
      BY <1>0, <2>1, <2>2, <3>1, OfferExchange, Zenon DEF IInv
    <3>3. Numbered'
      BY <1>0, <2>1, <2>2, <2>3, <3>1, OfferNumbered, Zenon DEF IInv
    <3>4. Extends(toBrowser, toBrowser')
      BY <1>0, <3>1, OfferExtends, Zenon DEF TypeOK
    <3>5. Tracked'
      BY <2>2, <3>4, TrackedKept DEF IInv
    <3>6. Restarted'
      BY <1>0, <2>2, <3>1, OfferRestarted, Zenon DEF IInv
    <3> QED BY <1>0, <3>2, <3>3, <3>5, <3>6 DEF IInv
  <2>5. CASE ~needs_offer
    <3>1. /\ signaling' = "stable"
          /\ UNCHANGED <<needs_offer, restart_pending, offers, toBrowser>>
      BY <1>5, <2>5 DEF Answer
    <3>2. Exchange'
      BY <1>0, <2>1, <2>2, <3>1, ExchangeEnds DEF Warns
    <3>3. offers' \in Nat /\ offers' >= offers /\ pending_candidates' \in Seq(Nat)
      BY <1>0, <3>1 DEF TypeOK
    <3>4. Numbered'
      BY <1>0, <2>1, <2>2, <2>3, <3>1, <3>3, NumberedKept DEF IInv
    <3>5. Tracked'
      BY <1>1, <2>2, <3>1, TrackedKept DEF IInv
    <3>6. RestartRemembered'
      BY <2>2, <2>5, <3>1, Zenon DEF IInv, Restarted, RestartRemembered
    <3>7. Restarted'
      BY <2>2, <3>1, <3>6, Zenon DEF IInv, Restarted
    <3> QED BY <1>0, <3>2, <3>4, <3>5, <3>7 DEF IInv
  <2> QED BY <2>4, <2>5
<1>6. CASE AnswerFails
  <2>1. Dequeues
    BY <1>6, RequestDequeues DEF AnswerFails
  <2>2. /\ toBrowser' = Append(toBrowser, VoiceError)
        /\ UNCHANGED <<sessionVars, offerVars, candidateVars, browserVars, handled>>
    BY <1>6 DEF AnswerFails
  <2>3. Exchange' /\ Numbered' /\ Restarted'
    BY <1>0, <1>1, <2>1, <2>2, WarningKeeps, Zenon DEF Warns
  <2>4. Tracked'
    BY <1>0, <2>2, ErrorQueued, TrackedKept DEF IInv
  <2> QED BY <1>0, <2>3, <2>4 DEF IInv
<1>7. CASE DrainFails
  <2>1. /\ NoAnswer(toServer') /\ NoOffer(toBrowser) /\ browser # "answering"
        /\ remote' = offers /\ Dequeues
    BY <1>4, <1>7 DEF DrainFails
  <2>2. /\ signaling = "have-local-offer" /\ pending_candidates' = <<>>
        /\ signaling' = "stable" /\ toBrowser' = Append(toBrowser, VoiceError)
        /\ UNCHANGED <<sessionVars, offers, browserVars, handled>>
    BY <1>7 DEF DrainFails
  <2>3. Exchange'
    BY <1>0, <2>1, <2>2, ExchangeEnds DEF Warns
  <2>4. offers' \in Nat /\ offers' >= offers /\ pending_candidates' \in Seq(Nat)
        /\ handled' \in Nat /\ handled' >= handled
        /\ \A i \in 1 .. Len(pending_candidates') : pending_candidates'[i] <= offers
    BY <1>0, <2>2 DEF TypeOK
  <2>5. Numbered'
    BY <1>0, <2>1, <2>2, <2>4, NumberedKept DEF IInv
  <2>6. Tracked'
    BY <1>0, <2>2, ErrorQueued, TrackedKept DEF IInv
  <2>7. Restarted'
    BY <1>0, <2>2, <2>4, ErrorRestarted DEF IInv
  <2> QED BY <1>0, <2>3, <2>5, <2>6, <2>7 DEF IInv
<1>8. CASE Candidate
  <2>1. Dequeues
    BY <1>8, RequestDequeues DEF Candidate
  <2>2. UNCHANGED <<sessionVars, offerVars, pending_candidates, remote, toBrowser,
                    browserVars, handled>>
    BY <1>8 DEF Candidate
  <2>3. Exchange' /\ Numbered' /\ Restarted'
    BY <1>0, <1>1, <2>1, <2>2, WarningKeeps DEF Warns
  <2>4. Tracked'
    BY <1>1, <2>2, TrackedKept DEF IInv
  <2> QED BY <1>0, <2>3, <2>4 DEF IInv
<1>9. CASE CandidateQueued
  <2>1. /\ Dequeues /\ toServer # <<>> /\ Head(toServer).type = "ice_candidate"
    BY <1>9, RequestDequeues DEF CandidateQueued
  <2>2. UNCHANGED <<sessionVars, offerVars, remote, toBrowser, browserVars, handled>>
    BY <1>9 DEF CandidateQueued
  <2>3. Head(toServer).offer <= offers /\ Head(toServer).offer \in Nat
    <3>1. toServer \in Seq(ToServer)
      BY <1>0 DEF TypeOK
    <3>2. 1 \in 1 .. Len(toServer) /\ Head(toServer) = toServer[1]
      BY <2>1, <3>1, Popped
    <3> QED BY <2>1, <3>1, <3>2, ElementOfSeq, FieldTypes DEF IInv, Numbered
  <2>4. \A i \in 1 .. Len(pending_candidates') : pending_candidates'[i] <= offers
    <3>1. CASE Len(pending_candidates) < MaxPending
      <4>1. pending_candidates' = Append(pending_candidates, Head(toServer).offer)
        BY <1>9, <3>1 DEF CandidateQueued
      <4> QED BY <1>1, <2>3, <4>1, Pushed
    <3>2. CASE ~(Len(pending_candidates) < MaxPending)
      BY <1>1, <1>9, <3>2 DEF CandidateQueued
    <3> QED BY <3>1, <3>2
  <2>5. Exchange' /\ Numbered' /\ Restarted'
    BY <1>0, <2>1, <2>2, <2>4, WarningKeeps DEF Warns
  <2>6. Tracked'
    BY <1>1, <2>2, TrackedKept DEF IInv
  <2> QED BY <1>0, <2>5, <2>6 DEF IInv
<1> QED BY <1>2, <1>3, <1>5, <1>6, <1>7, <1>8, <1>9 DEF HandlerStep

-----------------------------------------------------------------------------
(* The event task, the peer connection and the browser.                    *)

\* Joins, leaves and negotiation_needed, in process_events, preserve the
\* invariant.
LEMMA EventKeeps ==
  ASSUME IInv, MumbleStep \/ Negotiate \/ NegotiationNeeded
  PROVE  IInv'
<1> USE DEF sessionVars, offerVars, candidateVars, mumbleVars, browserVars
<1>0. TypeOK /\ TypeOK'
  BY EventTypes DEF IInv
<1>1. /\ Extends(toBrowser, toBrowser)
      /\ \A i \in 1 .. Len(pending_candidates) : pending_candidates[i] <= offers
      /\ signaling \in {"stable", "have-local-offer"}
      /\ signaling = "stable" => remote = offers
  BY <1>0, Zenon DEF Extends, IInv, Numbered, TypeOK
<1>2. ASSUME NEW u \in Speakers, UserJoined(u)
      PROVE  IInv'
  <2>1. /\ known_speakers' = known_speakers \cup {u}
        /\ \/ /\ tracks' = IF started THEN tracks \cup {u} ELSE tracks
              /\ toBrowser' = toBrowser
           \/ tracks' = tracks /\ toBrowser' = Append(toBrowser, VoiceError)
        /\ UNCHANGED <<started, offerVars, candidateVars, toServer, browserVars, handled>>
    BY <1>2 DEF UserJoined
  <2>2. Exchange' /\ Numbered' /\ Restarted'
    BY <1>0, <1>1, <2>1, WarningKeeps, Zenon DEF Warns, Dequeues
  <2>3. tracks' \subseteq known_speakers'
    BY <2>1 DEF IInv, Tracked
  <2>4. CASE toBrowser' = Append(toBrowser, VoiceError)
    BY <1>0, <2>2, <2>3, <2>4, ErrorQueued, Zenon DEF IInv, Tracked, SpeakersTracked, Errored
  <2>5. CASE toBrowser' = toBrowser /\ tracks' = IF started THEN tracks \cup {u} ELSE tracks
    <3>1. started' /\ tracks' # known_speakers' => started /\ tracks # known_speakers
      BY <2>1, <2>5
    <3>2. SpeakersTracked'
      BY <2>5, <3>1 DEF IInv, Tracked, SpeakersTracked
    <3> QED BY <1>0, <2>2, <2>3, <3>2 DEF IInv, Tracked
  <2> QED BY <2>1, <2>4, <2>5
<1>3. ASSUME NEW u \in Speakers, UserLeft(u)
      PROVE  IInv'
  <2>1. /\ known_speakers' = known_speakers \ {u} /\ tracks' = tracks \ {u} /\ Warns
        /\ UNCHANGED <<started, offerVars, candidateVars, toServer, browserVars, handled>>
    BY <1>3, Zenon DEF UserLeft, Warns
  <2>2. Exchange' /\ Numbered' /\ Restarted'
    BY <1>0, <1>1, <2>1, WarningKeeps DEF Dequeues
  <2>3. tracks' \subseteq known_speakers'
    BY <2>1 DEF IInv, Tracked
  <2>4. Extends(toBrowser, toBrowser')
    BY <1>0, <1>1, <2>1, ErrorQueued DEF Warns
  <2>5. started' /\ tracks' # known_speakers' => started /\ tracks # known_speakers
    BY <2>1
  <2>6. SpeakersTracked'
    BY <2>4, <2>5 DEF IInv, Tracked, SpeakersTracked, Extends
  <2> QED BY <1>0, <2>2, <2>3, <2>6 DEF IInv, Tracked
<1>4. CASE Negotiate
  <2>1. /\ UNCHANGED <<sessionVars, candidateVars, toServer, browserVars, handled>>
        /\ Offer(FALSE, signaling)
    BY <1>4, Zenon DEF Negotiate
  <2>2. Exchange'
    BY <1>0, <2>1, OfferExchange, Zenon DEF IInv, Dequeues
  <2>3. Numbered'
    BY <1>0, <1>1, <2>1, OfferNumbered, Zenon DEF IInv, Dequeues
  <2>4. Extends(toBrowser, toBrowser')
    BY <1>0, <2>1, OfferExtends, Zenon DEF TypeOK
  <2>5. Tracked'
    BY <2>1, <2>4, TrackedKept DEF IInv
  <2>6. Restarted'
    BY <1>0, <2>1, OfferRestarted, Zenon DEF IInv
  <2> QED BY <1>0, <2>2, <2>3, <2>5, <2>6 DEF IInv
<1>5. CASE NegotiationNeeded
  <2>1. UNCHANGED <<sessionVars, offerVars, candidateVars, toBrowser, toServer,
                    browserVars, handled>>
    BY <1>5 DEF NegotiationNeeded
  <2>2. Exchange' /\ Numbered' /\ Restarted'
    BY <1>0, <1>1, <2>1, WarningKeeps DEF Warns, Dequeues
  <2>3. Tracked'
    BY <1>1, <2>1, TrackedKept DEF IInv
  <2> QED BY <1>0, <2>2, <2>3 DEF IInv
<1> QED BY <1>2, <1>3, <1>4, <1>5 DEF MumbleStep

\* The browser sends something: an answer only to the offer it has just applied.
LEMMA SendKeeps ==
  ASSUME IInv, TypeOK', BrowserOnly, NEW m \in ToServer, Send(m),
         UNCHANGED <<toBrowser, applied, served>>, browser' # "answering" \/ browser' = browser,
         m.type = "ice_candidate" => m.offer = applied,
         IsAnswer(m) => browser = "answering" /\ browser' # "answering" /\ m.offer = applied
  PROVE  IInv'
<1> USE DEF sessionVars, offerVars, candidateVars, mumbleVars, BrowserOnly
<1>0. TypeOK /\ toServer \in Seq(ToServer) /\ toServer' = Append(toServer, m)
      /\ applied \in Nat /\ offers \in Nat
  BY Zenon DEF IInv, TypeOK, Send
<1>1. \A i \in 1 .. Len(toServer') :
        \/ i \in 1 .. Len(toServer) /\ toServer'[i] = toServer[i]
        \/ i = Len(toServer) + 1 /\ toServer'[i] = m
  BY <1>0, Pushed
<1>2. UNCHANGED <<sessionVars, offerVars, candidateVars, handled>>
  OBVIOUS
<1>3. Exchange'
  <2>1. CASE IsAnswer(m)
    <3>1. NoAnswer(toServer) /\ NoOffer(toBrowser)
      BY <2>1, Zenon DEF IInv, Exchange, OneNegotiation, NoAnswer, NoOffer
    <3>2. signaling = "have-local-offer" /\ m.offer = offers
      BY <2>1 DEF IInv, Exchange
    <3>3. \A i \in 1 .. Len(toServer') : IsAnswer(toServer'[i]) =>
            i = Len(toServer) + 1 /\ toServer'[i] = m
      BY <1>1, <3>1, Zenon DEF NoAnswer
    <3> QED BY <1>2, <2>1, <3>1, <3>2, <3>3, Zenon DEF Exchange, OneNegotiation, NoOffer
  <2>2. CASE ~IsAnswer(m)
    <3>1. \A i \in 1 .. Len(toServer') : IsAnswer(toServer'[i]) =>
            i \in 1 .. Len(toServer) /\ toServer'[i] = toServer[i]
      BY <1>1, <2>2, Zenon
    <3>2. browser' = "answering" => browser = "answering"
      OBVIOUS
    <3> QED BY <1>2, <3>1, <3>2, Zenon DEF IInv, Exchange, OneNegotiation
  <2> QED BY <2>1, <2>2
<1>4. Numbered'
  <2>1. ASSUME NEW i \in 1 .. Len(toServer'), toServer'[i].type = "ice_candidate"
        PROVE  toServer'[i].offer <= offers
    BY <1>1, <2>1, Zenon DEF IInv, Numbered
  <2> QED BY <1>2, <2>1, Zenon DEF IInv, Numbered
<1>5. Tracked'
  BY <1>2, TrackedKept DEF IInv, Extends
<1>6. Restarted'
  BY <1>0, <1>2, RestartedKept DEF IInv, Warns
<1> QED BY <1>3, <1>4, <1>5, <1>6 DEF IInv

\* The browser applies the only offer there is.
LEMMA ReceiveOfferKeeps == ASSUME IInv, TypeOK', ReceiveOffer PROVE IInv'
<1> USE DEF sessionVars, offerVars, candidateVars, mumbleVars, BrowserOnly
<1>0. /\ TypeOK /\ toBrowser \in Seq(ToBrowser) /\ toBrowser # <<>>
      /\ toBrowser' = Tail(toBrowser) /\ IsOffer(Head(toBrowser))
      /\ browser' = "answering" /\ applied' = Head(toBrowser).offer
      /\ served' = IF Head(toBrowser).restart THEN Head(toBrowser).covers ELSE served
      /\ UNCHANGED <<sessionVars, offerVars, candidateVars, handled, toServer>>
  BY Zenon DEF IInv, TypeOK, ReceiveOffer, IsOffer
<1>1. /\ Head(toBrowser) = toBrowser[1] /\ 1 \in 1 .. Len(toBrowser)
      /\ \A i \in 1 .. Len(toBrowser') : i + 1 \in 1 .. Len(toBrowser)
                                         /\ toBrowser'[i] = toBrowser[i + 1]
  BY <1>0, Popped
<1>2. /\ signaling = "have-local-offer" /\ Head(toBrowser).offer = offers
      /\ NoAnswer(toServer)
      /\ \A j \in 1 .. Len(toBrowser) : IsOffer(toBrowser[j]) => 1 = j
  BY <1>0, <1>1, Zenon DEF IInv, Exchange, OneNegotiation, NoAnswer
<1>3. NoOffer(toBrowser')
  BY <1>1, <1>2 DEF NoOffer
<1>4. Exchange'
  BY <1>0, <1>2, <1>3, Zenon DEF Exchange, OneNegotiation, NoAnswer, NoOffer
<1>5. Numbered'
  <2>1. applied' <= offers'
    BY SMTT(30), <1>0, <1>2 DEF TypeOK
  <2> QED BY <1>0, <2>1, Zenon DEF IInv, Numbered
<1>6. \A i \in 1 .. Len(toBrowser) : toBrowser[i].type = "voice_error" =>
        \E j \in 1 .. Len(toBrowser') : toBrowser'[j] = toBrowser[i]
  <2> SUFFICES ASSUME NEW i \in 1 .. Len(toBrowser), toBrowser[i].type = "voice_error"
               PROVE  \E j \in 1 .. Len(toBrowser') : toBrowser'[j] = toBrowser[i]
    OBVIOUS
  <2>1. i # 1 /\ Len(toBrowser') = Len(toBrowser) - 1 /\ Len(toBrowser) \in Nat
    BY <1>0, <1>1, Popped, Zenon DEF IsOffer
  <2>2. i - 1 \in 1 .. Len(toBrowser') /\ toBrowser'[i - 1] = toBrowser[i]
    BY <1>1, <2>1
  <2> QED BY <2>2
<1>7. Tracked'
  BY <1>0, <1>6, Zenon DEF IInv, Tracked, SpeakersTracked
<1>8. Restarted'
  <2>1. /\ served \in Nat /\ handled \in Nat /\ Head(toBrowser).covers \in Nat
        /\ served <= Head(toBrowser).covers /\ Head(toBrowser).covers <= handled
    BY <1>0, <1>1, ElementOfSeq, FieldTypes, Zenon DEF IInv, Restarted, TypeOK, IsOffer
  <2>2. served' \in Nat /\ served <= served' /\ served' <= handled'
    BY <1>0, <2>1 DEF IInv, Restarted
  <2>3. ASSUME handled' > served'
        PROVE  \/ restart_pending' /\ needs_offer' /\ signaling' = "have-local-offer"
               \/ \E i \in 1 .. Len(toBrowser') : toBrowser'[i].type = "voice_error"
    <3>1. handled > served
      BY <1>0, <2>1, <2>2, <2>3
    <3>2. CASE restart_pending /\ needs_offer /\ signaling = "have-local-offer"
      BY <1>0, <3>2, Zenon
    <3>3. ASSUME NEW i \in 1 .. Len(toBrowser), IsOffer(toBrowser[i]), toBrowser[i].restart,
                 toBrowser[i].covers = handled
          PROVE  FALSE
      <4>1. toBrowser[i] = Head(toBrowser)
        BY <1>1, <1>2, <3>3, Zenon
      <4> QED BY <1>0, <2>1, <2>3, <3>3, <4>1
    <3>4. CASE \E i \in 1 .. Len(toBrowser) : toBrowser[i].type = "voice_error"
      BY <1>6, <3>4
    <3> QED BY <3>1, <3>2, <3>3, <3>4, Zenon DEF IInv, Restarted, RestartRemembered
  <2>4. RestartRemembered'
    BY <2>3 DEF RestartRemembered
  <2> QED BY <1>0, <1>3, <2>2, <2>4, Zenon DEF IInv, Restarted, NoOffer
<1> QED BY <1>4, <1>5, <1>7, <1>8 DEF IInv

\* Every step of client.html preserves the invariant.
LEMMA BrowserKeeps == ASSUME IInv, BrowserStep PROVE IInv'
<1> USE DEF IsAnswer
<1>0. TypeOK /\ TypeOK'
  BY BrowserTypes DEF IInv
<1>1. CASE SetupWebRTC
  BY <1>0, <1>1, SendKeeps, MessageTypes, Zenon DEF SetupWebRTC
<1>2. CASE ReceiveOffer
  BY <1>0, <1>2, ReceiveOfferKeeps
<1>3. CASE SendAnswer
  BY <1>0, <1>3, SendKeeps, MessageTypes, Zenon DEF SendAnswer, TypeOK
<1>4. CASE SendCandidate
  BY <1>0, <1>4, SendKeeps, MessageTypes, Zenon DEF SendCandidate, TypeOK
<1>5. CASE AskRestart
  BY <1>0, <1>5, SendKeeps, MessageTypes, Zenon DEF AskRestart
<1>6. CASE ReceiveError
  <2>1. /\ browser' = "left"
        /\ UNCHANGED <<sessionVars, offerVars, candidateVars, handled, toBrowser, toServer,
                       applied, served>>
    BY <1>6 DEF ReceiveError, BrowserOnly
  <2> USE DEF sessionVars, offerVars, candidateVars
  <2>2. Exchange'
    BY <2>1, Zenon DEF IInv, Exchange, OneNegotiation
  <2>3. Numbered'
    BY <2>1, Zenon DEF IInv, Numbered
  <2>4. Tracked'
    BY <2>1, Zenon DEF IInv, Tracked, SpeakersTracked
  <2>5. Restarted'
    BY <2>1, Zenon DEF IInv, Restarted, RestartRemembered
  <2> QED BY <1>0, <2>2, <2>3, <2>4, <2>5 DEF IInv
<1> QED BY <1>1, <1>2, <1>3, <1>4, <1>5, <1>6 DEF BrowserStep

-----------------------------------------------------------------------------
(* The theorems.                                                           *)

\* IInv is an invariant: no interleaving of handler, event task, peer connection
\* and browser breaks it.
THEOREM Invariance == Spec => []IInv
<1>1. Init => IInv
  <2> SUFFICES ASSUME Init PROVE IInv
    OBVIOUS
  <2>1. TypeOK
    BY InitTypes
  <2>2. toServer = <<>> /\ toBrowser = <<>> /\ browser = "new"
        /\ pending_candidates = <<>> /\ applied = 0 /\ offers = 0 /\ remote = 0
        /\ handled = 0 /\ served = 0
    BY DEF Init
  <2>3. Exchange
    BY <2>2 DEF Exchange, OneNegotiation
  <2>4. Numbered
    BY <2>2 DEF Numbered
  <2>5. Tracked
    BY DEF Init, Tracked, SpeakersTracked
  <2>6. Restarted
    BY <2>2 DEF Init, Restarted, RestartRemembered
  <2> QED BY <2>1, <2>3, <2>4, <2>5, <2>6 DEF IInv
<1>2. IInv /\ [Next]_vars => IInv'
  <2> SUFFICES ASSUME IInv, [Next]_vars
               PROVE  IInv'
    OBVIOUS
  <2>1. CASE Next
    BY <2>1, HandlerKeeps, EventKeeps, BrowserKeeps DEF Next
  <2>2. CASE UNCHANGED vars
    <3> USE <2>2 DEF vars, sessionVars, offerVars, candidateVars, mumbleVars, browserVars
    <3>1. TypeOK'
      BY DEF IInv, TypeOK
    <3>2. Exchange'
      BY DEF IInv, Exchange, OneNegotiation
    <3>3. Numbered'
      BY DEF IInv, Numbered
    <3>4. Tracked'
      BY DEF IInv, Tracked, SpeakersTracked
    <3>5. Restarted'
      BY DEF IInv, Restarted, RestartRemembered
    <3> QED BY <3>1, <3>2, <3>3, <3>4, <3>5 DEF IInv
  <2> QED BY <2>1, <2>2
<1> QED BY <1>1, <1>2, PTL DEF Spec

\* At most one offer is unanswered, and an answer meets the offer it was made
\* for, for any number of speakers, restarts and failures.
THEOREM OneAtATime == Spec => []OneNegotiation
BY Invariance, PTL DEF IInv, Exchange

\* Once voice is started, exactly the users there are have a track, unless the
\* browser is being told that this failed.
THEOREM TracksFollow == Spec => []SpeakersTracked
BY Invariance, PTL DEF IInv, Tracked

\* No ice_restart that was handled is forgotten.
THEOREM RestartsKept == Spec => []RestartRemembered
BY Invariance, PTL DEF IInv, Restarted

\* A candidate reaches the peer connection only after the answer to its offer.
THEOREM CandidatesWait == Spec => CandidatesInTime
<1> USE DEF sessionVars, offerVars, candidateVars, mumbleVars, browserVars
<1>1. IInv /\ [Next]_vars => [NoEarlyCandidate]_vars
  <2> SUFFICES ASSUME IInv, Next
               PROVE  NoEarlyCandidate
    OBVIOUS
  <2>0. /\ added \in Seq(Nat) /\ pending_candidates \in Seq(Nat) /\ toServer \in Seq(ToServer)
        /\ Len(added) \in Nat /\ offers \in Nat /\ TypeOK
        /\ signaling \in {"stable", "have-local-offer"}
    BY LenProperties, Zenon DEF IInv, TypeOK
  <2>1. ASSUME Request("answer"), remote' = Head(toServer).offer,
               NEW q \in Seq(Nat), \A i \in 1 .. Len(q) : q[i] <= offers, added' = added \o q
        PROVE  NoEarlyCandidate
    <3>1. remote' = offers
      BY <2>0, <2>1, AnswerIsLast DEF IInv, Request, IsAnswer
    <3>2. Len(q) \in Nat
      BY LenProperties
    <3>3. ASSUME NEW i \in 1 .. Len(added'), i > Len(added)
          PROVE  added'[i] <= remote'
      <4>1. i - Len(added) \in 1 .. Len(q) /\ added'[i] = q[i - Len(added)]
        BY <2>0, <2>1, <3>2, <3>3, ConcatProperties
      <4> QED BY <2>1, <3>1, <4>1
    <3> QED BY <3>3 DEF NoEarlyCandidate
  <2>2. CASE Answer
    BY <2>0, <2>1, <2>2, Zenon DEF Answer, IInv, Numbered
  <2>3. CASE DrainFails
    <3>1. PICK n \in 1 .. Len(pending_candidates) :
            added' = added \o SubSeq(pending_candidates, 1, n - 1)
      BY <2>3, Zenon DEF DrainFails
    <3>2. Len(pending_candidates) \in Nat
          /\ \A i \in 1 .. n - 1 : pending_candidates[i] \in Nat
      BY <2>0, LenProperties, ElementOfSeq
    <3>3. /\ SubSeq(pending_candidates, 1, n - 1) \in Seq(Nat)
          /\ \A i \in 1 .. Len(SubSeq(pending_candidates, 1, n - 1)) :
               /\ i \in 1 .. Len(pending_candidates)
               /\ SubSeq(pending_candidates, 1, n - 1)[i] = pending_candidates[i]
      BY <3>2, SubSeqProperties
    <3>4. Request("answer") /\ remote' = Head(toServer).offer
      BY <2>3, Zenon DEF DrainFails
    <3> QED BY <2>1, <3>1, <3>3, <3>4, Zenon DEF IInv, Numbered
  <2>4. CASE Candidate
    <3>1. /\ toServer # <<>> /\ Head(toServer).type = "ice_candidate" /\ remote' = remote
          /\ signaling = "stable"
          /\ added' = Append(added, Head(toServer).offer) \/ added' = added
      BY <2>0, <2>4 DEF Candidate, Queued, Request
    <3>2. 1 \in 1 .. Len(toServer) /\ Head(toServer) = toServer[1]
      BY <2>0, <3>1, Popped
    <3>3. Head(toServer).offer \in Nat /\ Head(toServer).offer <= remote
      BY <2>0, <3>1, <3>2, ElementOfSeq, FieldTypes, Zenon DEF IInv, Numbered
    <3>4. \A i \in 1 .. Len(added') : i > Len(added) => added'[i] = Head(toServer).offer
      BY <2>0, <3>1, <3>3, Pushed
    <3> QED BY <3>1, <3>3, <3>4 DEF NoEarlyCandidate
  <2>5. CASE added' = added
    BY <2>0, <2>5 DEF NoEarlyCandidate
  <2>6. Answer \/ DrainFails \/ Candidate \/ added' = added
    <3>1. HandlerStep => Answer \/ DrainFails \/ Candidate \/ added' = added
      BY Zenon DEF HandlerStep, StartVoice, StartVoiceFails, AnswerFails, CandidateQueued
    <3>2. MumbleStep \/ Negotiate \/ NegotiationNeeded => added' = added
      BY Zenon DEF MumbleStep, UserJoined, UserLeft, Negotiate, NegotiationNeeded
    <3>3. BrowserStep => added' = added
      BY Zenon DEF BrowserStep, SetupWebRTC, ReceiveOffer, SendAnswer, SendCandidate, AskRestart,
        ReceiveError, BrowserOnly
    <3> QED BY <3>1, <3>2, <3>3 DEF Next
  <2> QED BY <2>2, <2>3, <2>4, <2>5, <2>6
<1> QED BY <1>1, Invariance, PTL DEF Spec, CandidatesInTime
=============================================================================
