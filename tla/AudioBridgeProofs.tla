-------------------------- MODULE AudioBridgeProofs --------------------------
(***************************************************************************)
(* AudioBridge, for every width of RTP sequence numbers and timestamps,    *)
(* every channel capacity and every stream.  Uplink: what UplinkClock      *)
(* takes, how it numbers it, and that a talk is ended.  Downlink: order    *)
(* and spacing of what MediaClock stamps and SpeakerTracks writes.  The    *)
(* properties are about remainders (what RTP carries) on one side and true *)
(* places and media times on the other; the first lemmas relate the two.   *)
(* The invariant IInv ties the uplink's clock and everything on its way to *)
(* Mumble to the browser's recording, DownlinkInv the speakers' clocks and *)
(* the packet that is being written to the last packet of each track.      *)
(***************************************************************************)
EXTENDS AudioBridge, SequenceTheorems, TLAPS

\* Only small multiples of m are near 0.
LEMMA Scaling ==
  ASSUME NEW m \in Nat \ {0}, NEW k \in Int, m * k < 2 * m, m * k > 0 - 2 * m
  PROVE  k \in {-1, 0, 1}
<1>1. CASE k >= 2
  <2>1. PICK j \in Nat : k = 2 + j
    BY <1>1
  <2>2. m * k = 2 * m + m * j
    BY <2>1
  <2>3. m * j >= 0
    OBVIOUS
  <2> QED BY <2>2, <2>3
<1>2. CASE k <= -2
  <2>1. PICK j \in Nat : k = (-2) - j
    BY <1>2
  <2>2. m * k = 0 - 2 * m - m * j
    BY <2>1
  <2>3. m * j >= 0
    OBVIOUS
  <2> QED BY <2>2, <2>3
<1> QED BY <1>1, <1>2

\* The remainder of a number less than m away from 0.
LEMMA SmallMod ==
  ASSUME NEW m \in Nat \ {0}, NEW x \in Int
  PROVE  /\ x \in 0 .. m - 1 => x % m = x
         /\ x \in 0 - m .. -1 => x % m = x + m
<1>1. x = m * (x \div m) + (x % m) /\ x \div m \in Int /\ x % m \in 0 .. m - 1
  OBVIOUS
<1>2. ASSUME x \in 0 - m .. m - 1
      PROVE  x \div m \in {-1, 0, 1}
  <2>1. m * (x \div m) < 2 * m /\ m * (x \div m) > 0 - 2 * m
    BY <1>1, <1>2
  <2> QED BY <1>1, <2>1, Scaling
<1> QED BY <1>1, <1>2

\* Wrapping subtraction of remainders (wrapping_sub) gives the distance of two
\* numbers that are less than m apart, or its complement.
LEMMA ModDifference ==
  ASSUME NEW m \in Nat \ {0}, NEW a \in Int, NEW b \in Int
  PROVE  /\ a - b \in 0 .. m - 1 => ((a % m) - (b % m)) % m = a - b
         /\ b - a \in 1 .. m - 1 => ((a % m) - (b % m)) % m = m - (b - a)
<1> DEFINE x == (a % m) - (b % m)
           k == (a \div m) - (b \div m)
<1>1. a = m * (a \div m) + (a % m) /\ a \div m \in Int /\ a % m \in 0 .. m - 1
  OBVIOUS
<1>2. b = m * (b \div m) + (b % m) /\ b \div m \in Int /\ b % m \in 0 .. m - 1
  OBVIOUS
<1>3. m * k = m * (a \div m) - m * (b \div m) /\ k \in Int
  BY <1>1, <1>2
<1>4. a - b = m * k + x /\ x \in 1 - m .. m - 1
  BY <1>1, <1>2, <1>3
<1> HIDE DEF x, k
<1>5. ASSUME a - b \in 1 - m .. m - 1
      PROVE  k \in {-1, 0, 1}
  <2>1. m * k < 2 * m /\ m * k > 0 - 2 * m
    BY <1>3, <1>4, <1>5
  <2> QED BY <1>3, <2>1, Scaling
<1>6. x \in Int /\ (x \in 0 .. m - 1 => x % m = x) /\ (x \in 0 - m .. -1 => x % m = x + m)
  BY <1>4, SmallMod
<1>7. /\ a - b \in 0 .. m - 1 => x % m = a - b
      /\ b - a \in 1 .. m - 1 => x % m = m - (b - a)
  BY <1>3, <1>4, <1>5, <1>6
<1> QED BY <1>7 DEF x

\* Sums and differences of multiples are multiples.
LEMMA ModMultiple ==
  ASSUME NEW m \in Nat \ {0}, NEW a \in Int, NEW b \in Int, a % m = 0, b % m = 0
  PROVE  (a - b) % m = 0 /\ (a + b) % m = 0
<1>1. ASSUME NEW x \in Int, NEW k \in Int, x = m * k
      PROVE  x % m = 0
  <2> DEFINE q == x \div m
  <2>1. x = m * q + (x % m) /\ q \in Int /\ x % m \in 0 .. m - 1
    BY <1>1
  <2> HIDE DEF q
  <2>2. m * (k - q) = x % m /\ k - q \in Int
    BY <1>1, <2>1
  <2>3. k - q \in {-1, 0, 1}
    BY <2>1, <2>2, Scaling
  <2> QED BY <2>1, <2>2, <2>3
<1>2. a = m * (a \div m) /\ a \div m \in Int /\ b = m * (b \div m) /\ b \div m \in Int
  OBVIOUS
<1>3. a - b = m * ((a \div m) - (b \div m)) /\ a + b = m * ((a \div m) + (b \div m))
  BY <1>2
<1> QED BY <1>1, <1>2, <1>3

-----------------------------------------------------------------------------
\* The browser's recording: packets follow each other in 10 ms steps and do not
\* overlap.
Recorded ==
  /\ \A i \in 1 .. Len(sent) : At(i) >= FirstTs /\ (At(i) - FirstTs) % FrameSize = 0
  /\ \A i, j \in 1 .. Len(sent) : i < j => EndOf(i) <= At(j)

\* UplinkClock holds the remainders of the packet it took last.
ClockSet ==
  /\ clock.started <=> newest # 0
  /\ newest = 0 => clock.frame = 0 /\ clock.samples = 0 /\ Audio = {}
  /\ newest # 0 =>
       /\ Samples(newest) # 0 /\ clock.samples = Samples(newest)
       /\ clock.last_timestamp = Timestamp(newest) /\ clock.last_sequence = SeqNum(newest)

\* Frames an item takes, and whether its number and the clock's agree about the
\* media time between them.
Frames(n) == IF n \in Audio THEN Samples(Stream[n].opus_data) \div FrameSize ELSE 0
InTime(n) ==
  (clock.frame - Stream[n].seq_num) * FrameSize = At(newest) - At(Stream[n].opus_data)
\* Nothing on its way is numbered beyond the end of the last packet taken, and
\* all audio agrees with the clock.
Numbered ==
  \A n \in 1 .. Len(Stream) :
    Stream[n].seq_num + Frames(n) <= EndFrame /\ (n \in Audio => InTime(n))

\* The inductive invariant.
IInv == UplinkTypeOK /\ Recorded /\ ClockSet /\ Numbered /\ NumbersAdvance /\ TalkEnds

\* Media times and durations of recorded packets.
LEMMA SentTypes ==
  ASSUME UplinkTypeOK, NEW i \in 1 .. Len(sent)
  PROVE  At(i) \in Nat /\ Samples(i) \in Nat /\ Samples(i) % FrameSize = 0 /\ EndOf(i) \in Nat
<1>1. sent[i] \in Packet
  BY ElementOfSeq, Zenon DEF UplinkTypeOK
<1> QED
  BY <1>1, MediaAssumption DEF Packet, At, Samples, EndOf

\* One item before a sequence.
LEMMA Prepended ==
  ASSUME NEW V, NEW w \in V, NEW o \in Seq(V)
  PROVE  LET s == <<w>> \o o
         IN /\ s \in Seq(V) /\ Len(s) = Len(o) + 1 /\ Len(o) \in Nat /\ s[1] = w
            /\ \A n \in 1 .. Len(o) : s[n + 1] = o[n]
            /\ \A n \in 1 .. Len(s) : s[n] \in V
<1> DEFINE s == <<w>> \o o
<1>1. <<w>> \in Seq(V) /\ Len(<<w>>) = 1 /\ <<w>>[1] = w
  OBVIOUS
<1>2. /\ s \in Seq(V) /\ Len(s) = 1 + Len(o)
      /\ \A i \in 1 .. 1 + Len(o) : s[i] = IF i <= 1 THEN <<w>>[i] ELSE o[i - 1]
  BY <1>1, ConcatProperties
<1>3. Len(o) \in Nat
  BY LenProperties
<1> HIDE DEF s
<1>4. \A n \in 1 .. Len(s) : s[n] \in V
  BY <1>2, ElementOfSeq
<1>5. /\ s \in Seq(V) /\ Len(s) = Len(o) + 1 /\ Len(o) \in Nat /\ s[1] = w
      /\ \A n \in 1 .. Len(o) : s[n + 1] = o[n]
      /\ \A n \in 1 .. Len(s) : s[n] \in V
  BY <1>1, <1>2, <1>3, <1>4
<1> QED
  BY <1>5 DEF s

\* Stream, item by item.
StreamOK ==
  /\ Len(Stream) = Len(outgoing) + 1 /\ Len(outgoing) \in Nat /\ Stream[1] = wire
  /\ \A n \in 1 .. Len(outgoing) : Stream[n + 1] = outgoing[n]
  /\ \A n \in 1 .. Len(Stream) : /\ Stream[n] \in VoiceData /\ Stream[n].seq_num \in Nat
                                 /\ n \in Audio => Stream[n].opus_data \in 1 .. Len(sent)

\* Typed variables make a typed Stream, in this state
LEMMA StreamTypes == UplinkTypeOK => StreamOK
<1> SUFFICES ASSUME UplinkTypeOK
             PROVE  StreamOK
  OBVIOUS
<1>1. wire \in VoiceData /\ outgoing \in Seq(VoiceData)
  BY DEF UplinkTypeOK
<1>2. /\ Stream \in Seq(VoiceData)
      /\ Len(Stream) = Len(outgoing) + 1 /\ Len(outgoing) \in Nat /\ Stream[1] = wire
      /\ \A n \in 1 .. Len(outgoing) : Stream[n + 1] = outgoing[n]
      /\ \A n \in 1 .. Len(Stream) : Stream[n] \in VoiceData
  BY <1>1, Prepended DEF Stream
<1>3. \A v \in VoiceData : v.seq_num \in Nat /\ (v.opus_data # 0 => v.opus_data \in 1 .. Len(sent))
  BY DEF VoiceData
<1> QED
  BY <1>2, <1>3 DEF Audio, StreamOK

\* and in the next one.
LEMMA StreamTypesNext == UplinkTypeOK' => StreamOK'
  BY StreamTypes, PTL

\* UplinkClock::packet takes exactly the packets after the last one it took, and
\* measures their distance in media time.
LEMMA ClockNewer ==
  ASSUME UplinkTypeOK, Recorded, ClockSet, newest # 0,
         NEW i \in 1 .. Len(sent), Samples(i) # 0, Near(i)
  PROVE  /\ Admits(i) <=> i > newest
         /\ i > newest => TsDelta(i) = At(i) - At(newest)
<1>1. newest \in 1 .. Len(sent) /\ newest \in Nat /\ i \in Nat
  BY DEF UplinkTypeOK
<1>2. /\ At(i) \in Nat /\ At(newest) \in Nat
      /\ Samples(newest) \in Nat /\ EndOf(newest) = At(newest) + Samples(newest)
  BY <1>1, SentTypes DEF EndOf
<1>3. SeqMod \in Nat \ {0} /\ TsMod \in Nat \ {0} /\ FirstSeq \in Nat /\ FirstTs \in Nat
  BY ModAssumption, StartAssumption
<1>4. /\ i - newest \in 0 .. SeqMod - 1 => SeqDelta(i) = i - newest
      /\ newest - i \in 1 .. SeqMod - 1 => SeqDelta(i) = SeqMod - (newest - i)
  <2> DEFINE a == FirstSeq + i
             b == FirstSeq + newest
  <2>1. a \in Int /\ b \in Int /\ a - b = i - newest /\ b - a = newest - i
    BY <1>1, <1>3
  <2>2. SeqDelta(i) = ((a % SeqMod) - (b % SeqMod)) % SeqMod
    BY DEF SeqDelta, SeqNum, ClockSet
  <2> HIDE DEF a, b
  <2>3. /\ a - b \in 0 .. SeqMod - 1 => ((a % SeqMod) - (b % SeqMod)) % SeqMod = a - b
        /\ b - a \in 1 .. SeqMod - 1 => ((a % SeqMod) - (b % SeqMod)) % SeqMod = SeqMod - (b - a)
    BY <1>3, <2>1, ModDifference, ZenonT(30)
  <2> QED
    BY <2>1, <2>2, <2>3
<1>5. At(i) - At(newest) \in 0 .. TsMod - 1 => TsDelta(i) = At(i) - At(newest)
  <2> DEFINE a == At(i)
             b == At(newest)
  <2>1. TsDelta(i) = ((a % TsMod) - (b % TsMod)) % TsMod
    BY DEF TsDelta, Timestamp, ClockSet
  <2>2. a \in Int /\ b \in Int
    BY <1>2
  <2> HIDE DEF a, b
  <2>3. a - b \in 0 .. TsMod - 1 => ((a % TsMod) - (b % TsMod)) % TsMod = a - b
    BY <1>3, <2>2, ModDifference, ZenonT(30)
  <2> QED
    BY <2>1, <2>3 DEF a, b
<1>6. CASE i > newest
  <2>1. At(i) - At(newest) >= Samples(newest) /\ Samples(newest) > 0
    BY <1>1, <1>2, <1>6 DEF Recorded, ClockSet
  <2>2. At(i) - At(newest) < TsMod \div 2 /\ i - newest < SeqMod \div 2
    BY DEF Near
  <2>3. TsDelta(i) = At(i) - At(newest) /\ SeqDelta(i) = i - newest
    BY <1>1, <1>2, <1>3, <1>4, <1>5, <1>6, <2>1, <2>2
  <2>4. (At(i) - FirstTs) % FrameSize = 0 /\ (At(newest) - FirstTs) % FrameSize = 0
    BY <1>1 DEF Recorded
  <2>5. (At(i) - At(newest)) % FrameSize = 0
    <3> DEFINE a == At(i) - FirstTs
               b == At(newest) - FirstTs
    <3>1. a \in Int /\ b \in Int /\ a - b = At(i) - At(newest)
      BY <1>2, <1>3
    <3>3. a % 480 = 0 /\ b % 480 = 0
      BY <2>4, Zenon DEF FrameSize
    <3> HIDE DEF a, b
    <3>2. (a - b) % 480 = 0
      BY <3>1, <3>3, ModMultiple
    <3> QED
      BY <3>1, <3>2 DEF FrameSize
  <2> QED
    <3>1. Admits(i)
      <4>1. SeqDelta(i) # 0 /\ SeqDelta(i) < SeqMod \div 2
        BY <1>1, <1>6, <2>2, <2>3
      <4>2. TsDelta(i) # 0 /\ TsDelta(i) < TsMod \div 2 /\ TsDelta(i) % FrameSize = 0
        BY <1>2, <2>1, <2>2, <2>3, <2>5
      <4> QED
        BY <4>1, <4>2 DEF Admits
    <3> QED
      BY <1>6, <2>3, <3>1
<1>7. CASE ~(i > newest)
  <2>1. newest - i < SeqMod \div 2 /\ newest - i \in Nat
    BY <1>1, <1>7 DEF Near
  <2>2. ~(SeqDelta(i) # 0 /\ SeqDelta(i) < SeqMod \div 2)
    BY <1>1, <1>3, <1>4, <2>1
  <2>3. ~Admits(i)
    BY <2>2, Zenon DEF Admits, ClockSet
  <2> QED
    BY <1>7, <2>3, Zenon
<1> QED
  BY <1>6, <1>7

\* try_send keeps a channel typed and within its capacity.
LEMMA TrySendTypes ==
  ASSUME NEW S, NEW channel \in Seq(S), Len(channel) <= Capacity, NEW item \in S
  PROVE  TrySend(channel, item) \in Seq(S) /\ Len(TrySend(channel, item)) <= Capacity
  BY CapacityAssumption, AppendProperties, LenProperties DEF TrySend

\* The numbers UplinkClock computes are naturals in range.
LEMMA FrameTypes ==
  ASSUME UplinkTypeOK
  PROVE  /\ clock.frame \in Nat /\ clock.samples \in Nat /\ EndFrame \in Nat
         /\ \A i \in 1 .. Len(sent) :
              /\ Timestamp(i) \in 0 .. TsMod - 1 /\ SeqNum(i) \in 0 .. SeqMod - 1
              /\ TsDelta(i) \in Nat /\ FrameOf(i) \in Nat
<1>1. /\ clock.frame \in Nat /\ clock.samples \in Nat
      /\ clock.last_timestamp \in 0 .. TsMod - 1
  BY DEF UplinkTypeOK, Clock
<1>2. EndFrame \in Nat
  BY <1>1 DEF EndFrame, FrameSize
<1>3. ASSUME NEW i \in 1 .. Len(sent)
      PROVE  /\ Timestamp(i) \in 0 .. TsMod - 1 /\ SeqNum(i) \in 0 .. SeqMod - 1
             /\ TsDelta(i) \in Nat /\ FrameOf(i) \in Nat
  <2>1. At(i) \in Nat /\ i \in Nat
    BY SentTypes
  <2>2. TsMod \in Nat \ {0} /\ SeqMod \in Nat \ {0} /\ FirstSeq \in Nat
    BY ModAssumption, StartAssumption
  <2>3. Timestamp(i) \in 0 .. TsMod - 1 /\ SeqNum(i) \in 0 .. SeqMod - 1
    BY <2>1, <2>2 DEF Timestamp, SeqNum
  <2>4. Timestamp(i) - clock.last_timestamp \in Int
    BY <1>1, <2>2, <2>3
  <2>5. TsDelta(i) \in Nat
    BY <2>2, <2>4 DEF TsDelta
  <2>6. FrameOf(i) \in Nat
    BY <1>1, <2>5 DEF FrameOf, FrameSize
  <2> QED
    BY <2>3, <2>5, <2>6
<1> QED
  BY <1>1, <1>2, <1>3

\* Steps of the other tasks, and ends of this one, as the uplink sees them.
Others ==
  /\ UNCHANGED <<sent, clock, last_packet, outgoing, wire, voice, newest, endLost>>
  /\ audio' \in {audio, <<>>} /\ uplink' \in {uplink, FALSE}

\* Every step of the composition is one of these for the uplink.
LEMMA UplinkSteps ==
  ASSUME [Next]_vars
  PROVE  \/ \E p \in Payloads, g \in Gaps : Speak(p, g)
         \/ \E i \in 1 .. Len(sent) : Arrive(i)
         \/ Skip \/ Forward \/ EndTalk \/ SendVoice \/ VoiceEnds \/ Others
  BY Zenon DEF Next, UplinkNext, UplinkStops, DownlinkStops, Shutdown, Others, vars, uplinkVars

\* Every step keeps the uplink's variables typed.
LEMMA UplinkTypes ==
  ASSUME UplinkTypeOK, [Next]_vars
  PROVE  UplinkTypeOK'
<1>1. ASSUME NEW p \in Payloads, NEW g \in Gaps, Speak(p, g)
      PROVE  UplinkTypeOK'
  <2>1. g \in Nat /\ FirstTs \in Nat
    BY MediaAssumption, StartAssumption
  <2>2. sent # <<>> => EndOf(Len(sent)) \in Nat
    <3>1. sent # <<>> => Len(sent) \in 1 .. Len(sent)
      BY EmptySeq DEF UplinkTypeOK
    <3> QED
      BY <3>1, SentTypes
  <2> DEFINE item == [opus_data |-> p, at |-> g + IF sent = <<>> THEN FirstTs ELSE EndOf(Len(sent))]
  <2>3. item \in Packet
    BY <2>1, <2>2 DEF Packet
  <2>4. sent' = Append(sent, item)
    BY <1>1 DEF Speak
  <2> HIDE DEF item
  <2>5. sent' \in Seq(Packet) /\ Len(sent') = Len(sent) + 1 /\ Len(sent) \in Nat
    BY <2>3, <2>4, AppendProperties, LenProperties DEF UplinkTypeOK
  <2>6. Packet' = Packet /\ Clock' = Clock /\ VoiceData \subseteq VoiceData'
    BY <2>5 DEF Packet, Clock, VoiceData
  <2>7. 1 .. Len(sent) \subseteq 1 .. Len(sent') /\ newest \in 0 .. Len(sent')
    BY <2>5 DEF UplinkTypeOK
  <2>8. audio \in Seq(1 .. Len(sent')) /\ outgoing \in Seq(VoiceData') /\ wire \in VoiceData'
    BY <2>6, <2>7, SeqMonotonic, ZenonT(30) DEF UplinkTypeOK
  <2> QED
    BY <1>1, <2>5, <2>6, <2>7, <2>8 DEF Speak, UplinkTypeOK
<1>2. ASSUME sent' = sent
      PROVE  VoiceData' = VoiceData /\ Packet' = Packet /\ Clock' = Clock
  BY <1>2 DEF VoiceData, Packet, Clock
<1>3. ASSUME NEW i \in 1 .. Len(sent), Arrive(i)
      PROVE  UplinkTypeOK'
  <2>1. audio' \in Seq(1 .. Len(sent)) /\ Len(audio') <= Capacity
    BY <1>3, TrySendTypes DEF Arrive, UplinkTypeOK
  <2> QED
    BY <1>2, <1>3, <2>1 DEF Arrive, UplinkTypeOK
<1>4. ASSUME audio # <<>>
      PROVE  /\ Head(audio) \in 1 .. Len(sent) /\ Tail(audio) \in Seq(1 .. Len(sent))
             /\ Len(Tail(audio)) <= Capacity
  BY <1>4, HeadTailProperties, LenProperties, CapacityAssumption DEF UplinkTypeOK
<1>5. <<>> \in Seq(1 .. Len(sent)) /\ <<>> \in Seq(VoiceData) /\ Len(<<>>) <= Capacity
  BY EmptySeq, CapacityAssumption
<1>6. CASE Skip
  BY <1>2, <1>4, <1>6 DEF Skip, Received, UplinkTypeOK
<1>7. CASE Forward
  <2> DEFINE i == Head(audio)
             v == [seq_num |-> FrameOf(i), opus_data |-> i, last_frame |-> FALSE]
  <2>1. i \in 1 .. Len(sent) /\ audio' \in Seq(1 .. Len(sent)) /\ Len(audio') <= Capacity
    BY <1>4, <1>5, <1>7, Zenon DEF Forward, Received
  <2>2. v \in VoiceData
    BY <2>1, FrameTypes DEF VoiceData
  <2>3. /\ outgoing' = IF voice THEN TrySend(outgoing, v) ELSE outgoing
        /\ clock' = [started |-> TRUE, last_timestamp |-> Timestamp(i),
                     last_sequence |-> SeqNum(i), frame |-> FrameOf(i), samples |-> Samples(i)]
        /\ newest' = i /\ sent' = sent
    BY <1>7 DEF Forward
  <2>4. clock' \in Clock /\ newest' \in 0 .. Len(sent)
    BY <2>1, <2>3, FrameTypes, SentTypes DEF Clock
  <2> HIDE DEF v, i
  <2>5. outgoing' \in Seq(VoiceData) /\ Len(outgoing') <= Capacity
    BY <2>2, <2>3, TrySendTypes DEF UplinkTypeOK
  <2> QED
    BY <1>2, <1>7, <2>1, <2>3, <2>4, <2>5, Zenon DEF Forward, UplinkTypeOK
<1>8. CASE EndTalk
  <2> DEFINE v == [seq_num |-> EndFrame, opus_data |-> 0, last_frame |-> TRUE]
  <2>1. v \in VoiceData
    BY FrameTypes, LenProperties DEF VoiceData, UplinkTypeOK
  <2>2. outgoing' = IF voice THEN TrySend(outgoing, v) ELSE outgoing
    BY <1>8 DEF EndTalk
  <2> HIDE DEF v
  <2>3. outgoing' \in Seq(VoiceData) /\ Len(outgoing') <= Capacity
    BY <2>1, <2>2, TrySendTypes DEF UplinkTypeOK
  <2>4. endLost' \in BOOLEAN
    BY <1>8 DEF EndTalk
  <2> QED
    BY <1>2, <1>8, <2>3, <2>4, Zenon DEF EndTalk, UplinkTypeOK
<1>9. CASE SendVoice
  <2>1. /\ wire' \in VoiceData /\ outgoing' \in Seq(VoiceData) /\ Len(outgoing') <= Capacity
    BY <1>9, HeadTailProperties, LenProperties, CapacityAssumption DEF SendVoice, UplinkTypeOK
  <2> QED
    BY <1>2, <1>9, <2>1 DEF SendVoice, UplinkTypeOK
<1>10. CASE VoiceEnds
  BY <1>2, <1>5, <1>10, Zenon DEF VoiceEnds, UplinkTypeOK
<1>11. CASE Others
  BY <1>2, <1>5, <1>11, Zenon DEF Others, UplinkTypeOK
<1> QED
  BY <1>1, <1>3, <1>6, <1>7, <1>8, <1>9, <1>10, <1>11, UplinkSteps, Zenon

\* Speaking adds to the recording and leaves the rest of it alone.
LEMMA SpeakRecords ==
  ASSUME UplinkTypeOK, Recorded, NEW p \in Payloads, NEW g \in Gaps, Speak(p, g)
  PROVE  /\ Recorded'
         /\ \A i \in 1 .. Len(sent) : sent'[i] = sent[i] /\ i \in 1 .. Len(sent')
<1>0. PICK n \in Nat : n = Len(sent)
  BY LenProperties DEF UplinkTypeOK
<1> DEFINE start == IF sent = <<>> THEN FirstTs ELSE EndOf(Len(sent))
<1>1. g \in Nat /\ g % FrameSize = 0 /\ FirstTs \in Nat
  BY MediaAssumption, StartAssumption
<1>2. sent # <<>> => n \in 1 .. n
  BY <1>0, EmptySeq DEF UplinkTypeOK
<1>3. sent = <<>> => n = 0
  BY <1>0
<1>13. PICK at : at = g + start
  OBVIOUS
<1>4. \A i \in 1 .. n : /\ At(i) \in Nat /\ Samples(i) \in Nat /\ Samples(i) % FrameSize = 0
                        /\ EndOf(i) = At(i) + Samples(i)
  BY <1>0, SentTypes DEF EndOf
<1>5. at \in Nat /\ at >= FirstTs /\ (at - FirstTs) % FrameSize = 0
  <2>1. CASE sent = <<>>
    BY <1>1, <1>13, <2>1
  <2>2. CASE sent # <<>>
    <3>1. At(n) >= FirstTs /\ (At(n) - FirstTs) % FrameSize = 0
      BY <1>0, <1>2, <2>2 DEF Recorded
    <3>2. At(n) \in Nat /\ Samples(n) \in Nat /\ Samples(n) % FrameSize = 0
      BY <1>2, <1>4, <2>2
    <3>3. at = g + (At(n) + Samples(n))
      BY <1>0, <1>13, <2>2 DEF EndOf
    <3> DEFINE a == At(n) - FirstTs
               b == Samples(n)
    <3>4. a \in Int /\ b \in Int /\ at \in Nat /\ at >= FirstTs /\ at - FirstTs = (a + b) + g
      BY <1>1, <3>1, <3>2, <3>3
    <3>5. a % FrameSize = 0 /\ b % FrameSize = 0
      BY <3>1, <3>2
    <3> HIDE DEF a, b
    <3>6. FrameSize \in Nat \ {0}
      BY DEF FrameSize
    <3>7. (a + b) % FrameSize = 0
      BY <3>4, <3>5, <3>6, ModMultiple, Zenon
    <3>9. a + b \in Int /\ g \in Int
      BY <1>1, <3>4
    <3>8. ((a + b) + g) % FrameSize = 0
      BY <1>1, <3>6, <3>7, <3>9, ModMultiple, ZenonT(30)
    <3> QED
      BY <3>4, <3>8
  <2> QED
    BY <2>1, <2>2
<1>6. \A i \in 1 .. n : EndOf(i) <= at
  <2>1. ASSUME NEW i \in 1 .. n
        PROVE  EndOf(i) <= EndOf(n) /\ sent # <<>>
    <3>1. sent # <<>> /\ n \in 1 .. n
      BY <1>1, <1>2, <1>3
    <3>2. i < n => EndOf(i) <= At(n)
      BY <1>0, <3>1 DEF Recorded
    <3> QED
      BY <1>4, <3>1, <3>2
  <2>2. ASSUME sent # <<>>
        PROVE  EndOf(n) <= at /\ EndOf(n) \in Nat
    BY <1>0, <1>1, <1>2, <1>4, <1>13, <2>2
  <2>3. \A i \in 1 .. n : EndOf(i) \in Nat
    BY <1>4
  <2> QED
    BY <1>5, <2>1, <2>2, <2>3
<1> DEFINE item == [opus_data |-> p, at |-> at]
<1>7. sent' = Append(sent, item)
  BY <1>13 DEF Speak
<1>8. item \in Packet /\ item.at = at
  BY <1>5 DEF Packet
<1> HIDE DEF item, start
<1>9. /\ Len(sent') = n + 1 /\ sent'[n + 1] = item
      /\ \A i \in 1 .. n : sent'[i] = sent[i]
  BY <1>0, <1>7, <1>8, AppendProperties DEF UplinkTypeOK
<1>10. At(n + 1)' = at /\ \A i \in 1 .. n : At(i)' = At(i) /\ EndOf(i)' = EndOf(i)
  BY <1>8, <1>9 DEF At, EndOf, Samples
<1>11. \A i \in 1 .. Len(sent') : At(i)' >= FirstTs /\ (At(i)' - FirstTs) % FrameSize = 0
  <2> SUFFICES ASSUME NEW i \in 1 .. n + 1
               PROVE  At(i)' >= FirstTs /\ (At(i)' - FirstTs) % FrameSize = 0
    BY <1>9
  <2>1. CASE i = n + 1
    BY <1>5, <1>10, <2>1
  <2>2. CASE i \in 1 .. n
    BY <1>0, <1>10, <2>2 DEF Recorded
  <2> QED
    BY <2>1, <2>2
<1>12. \A i, j \in 1 .. Len(sent') : i < j => EndOf(i)' <= At(j)'
  <2> SUFFICES ASSUME NEW i \in 1 .. n + 1, NEW j \in 1 .. n + 1, i < j
               PROVE  EndOf(i)' <= At(j)'
    BY <1>9
  <2>1. i \in 1 .. n
    OBVIOUS
  <2>2. CASE j = n + 1
    BY <1>6, <1>10, <2>1, <2>2
  <2>3. CASE j \in 1 .. n
    BY <1>0, <1>10, <2>1, <2>3 DEF Recorded
  <2> QED
    BY <2>2, <2>3
<1> QED
  BY <1>0, <1>9, <1>11, <1>12 DEF Recorded

\* What is on its way may lose its first or its last items, or stay.
LEMMA Shifted ==
  ASSUME UplinkTypeOK, UplinkTypeOK', ClockSet, Numbered, NumbersAdvance,
         UNCHANGED <<clock, newest>>, \A i \in 1 .. Len(sent) : sent'[i] = sent[i],
         NEW d \in Nat,
         \A n \in 1 .. Len(Stream') : n + d \in 1 .. Len(Stream) /\ Stream'[n] = Stream[n + d]
  PROVE  ClockSet' /\ Numbered' /\ NumbersAdvance'
<1>1. \A n \in 1 .. Len(Stream') : n \in Audio' <=> n + d \in Audio
  BY DEF Audio
<1>2. \A i \in 1 .. Len(sent) : At(i)' = At(i) /\ Samples(i)' = Samples(i)
                                  /\ Timestamp(i)' = Timestamp(i) /\ SeqNum(i)' = SeqNum(i)
  BY DEF At, Samples, Timestamp, SeqNum
<1>3. \A n \in Audio : Stream[n].opus_data \in 1 .. Len(sent)
  BY StreamTypes DEF StreamOK, Audio
<1>4. newest \in 1 .. Len(sent) \/ newest = 0
  BY DEF UplinkTypeOK
<1>5. \A n \in 1 .. Len(Stream') :
        Frames(n)' = Frames(n + d)
  BY <1>1, <1>2, <1>3 DEF Frames
<1>6. ClockSet'
  BY <1>1, <1>2, <1>4, Zenon DEF ClockSet, Audio
<1>7. Numbered'
  <2> SUFFICES ASSUME NEW n \in 1 .. Len(Stream')
               PROVE  Stream'[n].seq_num + Frames(n)' <= EndFrame' /\ (n \in Audio' => InTime(n)')
    BY DEF Numbered
  <2>1. Stream[n + d].seq_num + Frames(n + d) <= EndFrame /\ (n + d \in Audio => InTime(n + d))
    BY DEF Numbered
  <2>2. EndFrame' = EndFrame
    BY DEF EndFrame
  <2>3. ASSUME n \in Audio'
        PROVE  InTime(n)'
    <3>1. n + d \in Audio /\ newest \in 1 .. Len(sent) /\ newest' = newest /\ clock' = clock
      BY <1>1, <1>4, <2>3 DEF ClockSet
    <3>2. sent'[newest] = sent[newest]
      BY <3>1
    <3>3. /\ Stream'[n] = Stream[n + d]
          /\ sent'[Stream[n + d].opus_data] = sent[Stream[n + d].opus_data]
      BY <1>3, <3>1, Zenon
    <3> QED
      BY <2>1, <3>1, <3>2, <3>3, Zenon DEF InTime, At
  <2> QED
    BY <1>5, <2>1, <2>2, <2>3, Zenon
<1>8. NumbersAdvance'
  <2> SUFFICES ASSUME NEW m \in 1 .. Len(Stream'), NEW n \in 1 .. Len(Stream'), m < n
               PROVE  Stream'[m].seq_num + Frames(m)' <= Stream'[n].seq_num
    BY DEF NumbersAdvance, Frames
  <2>1. Stream[m + d].seq_num + Frames(m + d) <= Stream[n + d].seq_num
    BY DEF NumbersAdvance, Frames
  <2> QED
    BY <1>5, <2>1
<1> QED
  BY <1>6, <1>7, <1>8

\* The number of an end of talk is a natural, in this state
LEMMA EndTypes == UplinkTypeOK => EndFrame \in Nat
  BY FrameTypes
\* and in the next one.
LEMMA EndTypesNext == UplinkTypeOK' => (EndFrame \in Nat)'
  BY EndTypes, PTL

\* The clock may move on, and one item be added that is numbered in its range.
LEMMA Extended ==
  ASSUME UplinkTypeOK, UplinkTypeOK', Numbered, NumbersAdvance, sent' = sent,
         EndFrame <= EndFrame',
         Len(Stream') \in {Len(Stream), Len(Stream) + 1},
         \A n \in 1 .. Len(Stream) : Stream'[n] = Stream[n] /\ (n \in Audio => InTime(n)'),
         \A n \in 1 .. Len(Stream') : n \notin 1 .. Len(Stream) =>
           /\ EndFrame <= Stream'[n].seq_num /\ Stream'[n].seq_num + Frames(n)' <= EndFrame'
           /\ n \in Audio' => InTime(n)'
  PROVE  Numbered' /\ NumbersAdvance'
<1>1. /\ \A n \in 1 .. Len(Stream) : n \in 1 .. Len(Stream') /\ (n \in Audio' <=> n \in Audio)
      /\ Len(Stream) \in Nat
  BY StreamTypes DEF StreamOK, Audio
<1>2. \A n \in 1 .. Len(Stream) : Frames(n)' = Frames(n)
  BY <1>1, Zenon DEF Frames, Samples
<1>3. EndFrame \in Nat /\ EndFrame' \in Nat
  BY EndTypes, EndTypesNext
<1>4. ASSUME NEW n \in 1 .. Len(Stream)
      PROVE  Stream[n].seq_num \in Nat /\ Frames(n) \in Nat /\ Stream[n].seq_num + Frames(n) <= EndFrame
  <2>1. Stream[n].seq_num \in Nat /\ (n \in Audio => Stream[n].opus_data \in 1 .. Len(sent))
    BY StreamTypes, Zenon DEF StreamOK
  <2>2. n \in Audio => Samples(Stream[n].opus_data) \in Nat
    BY <2>1, SentTypes, Zenon
  <2> QED
    BY <2>1, <2>2, SMTT(30) DEF Frames, FrameSize, Numbered
<1>5. Numbered'
  <2> SUFFICES ASSUME NEW n \in 1 .. Len(Stream')
               PROVE  Stream'[n].seq_num + Frames(n)' <= EndFrame' /\ (n \in Audio' => InTime(n)')
    BY DEF Numbered
  <2>1. CASE n \in 1 .. Len(Stream)
    BY <1>1, <1>2, <1>3, <1>4, <2>1
  <2> QED
    BY <2>1
<1>6. NumbersAdvance'
  <2> SUFFICES ASSUME NEW m \in 1 .. Len(Stream'), NEW n \in 1 .. Len(Stream'), m < n
               PROVE  Stream'[m].seq_num + Frames(m)' <= Stream'[n].seq_num
    BY DEF NumbersAdvance, Frames
  <2>1. m \in 1 .. Len(Stream)
    BY <1>1
  <2>2. CASE n \in 1 .. Len(Stream)
    <3>1. Stream[m].seq_num + Frames(m) <= Stream[n].seq_num
      BY <2>1, <2>2, Zenon DEF NumbersAdvance, Frames
    <3> QED
      BY <1>2, <2>1, <2>2, <3>1
  <2>3. CASE n \notin 1 .. Len(Stream)
    <3>1. EndFrame <= Stream'[n].seq_num /\ Stream'[n].seq_num \in Nat
      BY <2>3, StreamTypesNext DEF StreamOK
    <3> QED
      BY <1>2, <1>3, <1>4, <2>1, <3>1, SMTT(30)
  <2> QED
    BY <2>2, <2>3
<1> QED
  BY <1>5, <1>6

\* try_send to MumbleVoice adds the item at the end of Stream or leaves Stream alone.
LEMMA Queued ==
  ASSUME UplinkTypeOK, UplinkTypeOK', wire' = wire, NEW v \in VoiceData,
         outgoing' = IF voice THEN TrySend(outgoing, v) ELSE outgoing
  PROVE  /\ Len(Stream') \in {Len(Stream), Len(Stream) + 1}
         /\ \A n \in 1 .. Len(Stream) : Stream'[n] = Stream[n]
         /\ \A n \in 1 .. Len(Stream') : n \notin 1 .. Len(Stream) => Stream'[n] = v
         /\ voice /\ Len(outgoing) < Capacity => Stream'[Len(Stream')] = v
<1>1. outgoing \in Seq(VoiceData) /\ Len(outgoing) \in Nat
  BY LenProperties DEF UplinkTypeOK
<1>2. StreamOK /\ StreamOK'
  BY StreamTypes, StreamTypesNext
<1>3. CASE outgoing' = outgoing /\ ~(voice /\ Len(outgoing) < Capacity)
  <2>1. Stream' = Stream
    BY <1>3 DEF Stream
  <2> QED
    BY <1>2, <1>3, <2>1 DEF StreamOK
<1>4. CASE outgoing' = Append(outgoing, v)
  <2>1. /\ Len(outgoing') = Len(outgoing) + 1 /\ outgoing'[Len(outgoing) + 1] = v
        /\ \A n \in 1 .. Len(outgoing) : outgoing'[n] = outgoing[n]
    BY <1>1, <1>4, AppendProperties
  <2>2. Len(Stream) = Len(outgoing) + 1 /\ Len(Stream') = Len(Stream) + 1
    BY <1>2, <2>1 DEF StreamOK
  <2>3. ASSUME NEW n \in 1 .. Len(Stream')
        PROVE  /\ n \in 1 .. Len(Stream) => Stream'[n] = Stream[n]
               /\ n = Len(Stream) + 1 => Stream'[n] = v
    <3>1. CASE n = 1
      BY <1>1, <1>2, <2>2, <3>1 DEF StreamOK
    <3>2. CASE n # 1
      <4>1. PICK k \in 1 .. Len(outgoing') : n = k + 1
        BY <1>1, <2>1, <2>2, <3>2
      <4>2. Stream'[n] = outgoing'[k]
        BY <1>2, <4>1 DEF StreamOK
      <4>3. k \in 1 .. Len(outgoing) => Stream[n] = outgoing[k]
        BY <1>2, <4>1 DEF StreamOK
      <4> QED
        BY <1>1, <2>1, <2>2, <4>1, <4>2, <4>3
    <3> QED
      BY <3>1, <3>2
  <2> QED
    BY <1>1, <2>2, <2>3
<1> QED
  BY <1>3, <1>4, Zenon DEF TrySend

\* The end-of-talk timer keeps the invariant.
LEMMA EndTalkKeeps ==
  ASSUME IInv, UplinkTypeOK', EndTalk
  PROVE  IInv'
<1> DEFINE v == [seq_num |-> EndFrame, opus_data |-> 0, last_frame |-> TRUE]
<1>1. v \in VoiceData /\ v.seq_num = EndFrame /\ v.opus_data = 0 /\ v.last_frame
  BY EndTypes, LenProperties DEF VoiceData, UplinkTypeOK, IInv
<1>2. /\ outgoing' = IF voice THEN TrySend(outgoing, v) ELSE outgoing
      /\ UNCHANGED <<sent, clock, newest, wire, voice>>
  BY DEF EndTalk
<1> HIDE DEF v
<1>3. /\ Len(Stream') \in {Len(Stream), Len(Stream) + 1}
      /\ \A n \in 1 .. Len(Stream) : Stream'[n] = Stream[n]
      /\ \A n \in 1 .. Len(Stream') : n \notin 1 .. Len(Stream) => Stream'[n] = v
      /\ voice /\ Len(outgoing) < Capacity => Stream'[Len(Stream')] = v
  BY <1>1, <1>2, Queued DEF IInv
<1>4. EndFrame' = EndFrame /\ EndFrame \in Nat
  BY <1>2, EndTypes DEF EndFrame, IInv
<1>5. \A n \in 1 .. Len(Stream') : n \notin 1 .. Len(Stream) => n \notin Audio' /\ Frames(n)' = 0
  BY <1>1, <1>3 DEF Audio, Frames
<1>6. \A n \in 1 .. Len(Stream) : n \in Audio => InTime(n)'
  BY <1>2, <1>3, Zenon DEF IInv, Numbered, InTime, At
<1>7. Numbered' /\ NumbersAdvance'
  BY <1>1, <1>2, <1>3, <1>4, <1>5, <1>6, Extended DEF IInv
<1>8. Recorded'
  BY <1>2 DEF IInv, Recorded, At, EndOf, Samples
<1>9. ClockSet'
  <2>1. Audio = {} => Audio' = {}
    BY <1>3, <1>5 DEF Audio
  <2> QED
    BY <1>2, <2>1 DEF IInv, ClockSet, Samples, Timestamp, At, SeqNum
<1>10. TalkEnds'
  <2>1. Len(outgoing) \in Nat /\ Capacity \in Nat
    BY LenProperties, CapacityAssumption DEF IInv, UplinkTypeOK
  <2>3. ~endLost' => ~(Len(outgoing) >= Capacity)
    BY Zenon DEF EndTalk
  <2>2. ~endLost' => Len(outgoing) < Capacity
    BY <2>1, <2>3
  <2> QED
    BY <1>1, <1>2, <1>3, <2>2, Zenon DEF TalkEnds
<1> QED
  BY <1>7, <1>8, <1>9, <1>10 DEF IInv

\* A forwarded packet keeps the invariant.
LEMMA ForwardKeeps ==
  ASSUME IInv, UplinkTypeOK', Forward
  PROVE  IInv'
<1>1. PICK i : i = Head(audio)
  OBVIOUS
<1>2. i \in 1 .. Len(sent)
  BY <1>1, HeadTailProperties, Zenon DEF Forward, Received, IInv, UplinkTypeOK
<1>3. /\ Samples(i) # 0 /\ Near(i) /\ Admits(i)
      /\ clock' = [started |-> TRUE, last_timestamp |-> Timestamp(i),
                   last_sequence |-> SeqNum(i), frame |-> FrameOf(i), samples |-> Samples(i)]
      /\ newest' = i /\ UNCHANGED <<sent, wire, voice>> /\ last_packet'
  BY <1>1, SMTT(30) DEF Forward
<1> DEFINE v == [seq_num |-> FrameOf(i), opus_data |-> i, last_frame |-> FALSE]
<1>4. outgoing' = IF voice THEN TrySend(outgoing, v) ELSE outgoing
  BY <1>1, Zenon DEF Forward
<1>5. v \in VoiceData /\ v.seq_num = FrameOf(i) /\ v.opus_data = i /\ FrameOf(i) \in Nat
  BY <1>2, FrameTypes, SMTT(30) DEF VoiceData, IInv
<1> HIDE DEF v
<1>6. /\ Len(Stream') \in {Len(Stream), Len(Stream) + 1}
      /\ \A n \in 1 .. Len(Stream) : Stream'[n] = Stream[n]
      /\ \A n \in 1 .. Len(Stream') : n \notin 1 .. Len(Stream) => Stream'[n] = v
  BY <1>3, <1>4, <1>5, Queued, Zenon DEF IInv
<1>7. /\ At(i) \in Nat /\ Samples(i) \in Nat /\ clock.frame \in Nat /\ clock.samples \in Nat
      /\ EndFrame \in Nat /\ EndFrame = clock.frame + clock.samples \div FrameSize
  BY <1>2, SentTypes, FrameTypes DEF IInv, EndFrame
<1>8. /\ EndFrame <= FrameOf(i)
      /\ newest # 0 => (FrameOf(i) - clock.frame) * FrameSize = At(i) - At(newest)
  <2>1. CASE newest = 0
    BY <1>7, <2>1 DEF IInv, ClockSet, FrameOf, FrameSize
  <2>2. CASE newest # 0
    <3>1. i > newest /\ TsDelta(i) = At(i) - At(newest) /\ newest \in 1 .. Len(sent)
      BY <1>2, <1>3, <2>2, ClockNewer DEF IInv, UplinkTypeOK
    <3>2. TsDelta(i) % FrameSize = 0 /\ FrameOf(i) = clock.frame + TsDelta(i) \div FrameSize
      BY <1>3, <2>2, Zenon DEF IInv, ClockSet, Admits, FrameOf
    <3>3. EndOf(newest) <= At(i) /\ EndOf(newest) = At(newest) + clock.samples
      BY <1>2, <2>2, <3>1, Zenon DEF IInv, Recorded, ClockSet, EndOf
    <3>4. At(newest) \in Nat
      BY <3>1, SentTypes DEF IInv
    <3>5. PICK delta \in Nat : delta = TsDelta(i)
      BY <1>2, FrameTypes DEF IInv
    <3>6. delta % 480 = 0 /\ delta >= clock.samples /\ delta = At(i) - At(newest)
      BY <1>7, <3>1, <3>2, <3>3, <3>4, <3>5, SMTT(30) DEF FrameSize
    <3>7. (delta \div 480) * 480 = delta /\ clock.samples \div 480 <= delta \div 480
      BY <1>7, <3>6
    <3> QED
      BY <1>7, <3>2, <3>5, <3>6, <3>7 DEF FrameSize
  <2> QED
    BY <2>1, <2>2
<1>9. EndFrame' = FrameOf(i) + Samples(i) \div FrameSize /\ clock'.frame = FrameOf(i)
  BY <1>3 DEF EndFrame
<1>10. EndFrame <= EndFrame'
  BY <1>5, <1>7, <1>8, <1>9, SMTT(30) DEF FrameSize
<1>11. ASSUME NEW n \in 1 .. Len(Stream), n \in Audio
       PROVE  InTime(n)'
  <2>1. newest # 0 /\ InTime(n)
    BY <1>11 DEF IInv, ClockSet, Numbered
  <2>2. Stream[n].seq_num \in Nat /\ Stream[n].opus_data \in 1 .. Len(sent)
    BY <1>11, StreamTypes DEF IInv, StreamOK
  <2>3. At(Stream[n].opus_data) \in Nat /\ At(newest) \in Nat
    <3>1. newest \in 1 .. Len(sent)
      BY <2>1 DEF IInv, UplinkTypeOK
    <3> QED
      BY <2>2, <3>1, SentTypes, Zenon DEF IInv
  <2>4. (FrameOf(i) - Stream[n].seq_num) * FrameSize = At(i) - At(Stream[n].opus_data)
    <3> DEFINE f == FrameOf(i)
               c == clock.frame
               q == Stream[n].seq_num
               a == At(i)
               b == At(newest)
               d == At(Stream[n].opus_data)
    <3>1. f \in Nat /\ c \in Nat /\ q \in Nat /\ a \in Nat /\ b \in Nat /\ d \in Nat
      BY <1>5, <1>7, <2>2, <2>3, Zenon
    <3>2. (f - c) * 480 = a - b /\ (c - q) * 480 = b - d
      BY <1>8, <2>1, Zenon DEF InTime, FrameSize
    <3> HIDE DEF f, c, q, a, b, d
    <3>3. (f - q) * 480 = a - d
      BY <3>1, <3>2
    <3> QED
      BY <3>3, Zenon DEF f, q, a, d, FrameSize
  <2> QED
    BY <1>3, <1>6, <1>9, <2>4, Zenon DEF InTime, At
<1>12. ASSUME NEW n \in 1 .. Len(Stream'), n \notin 1 .. Len(Stream)
       PROVE  /\ EndFrame <= Stream'[n].seq_num /\ Stream'[n].seq_num + Frames(n)' <= EndFrame'
              /\ InTime(n)'
  <2>1. Stream'[n].seq_num = FrameOf(i) /\ Stream'[n].opus_data = i
    BY <1>5, <1>6, <1>12
  <2>2. Frames(n)' = Samples(i) \div FrameSize
    BY <1>2, <1>3, <2>1, SMTT(30) DEF Frames, Audio, Samples
  <2>3. InTime(n)'
    <3>1. FrameOf(i) - FrameOf(i) = 0 /\ At(i) - At(i) = 0 /\ 0 * 480 = 0
      BY <1>5, <1>7
    <3>2. At(newest)' = At(i) /\ At(Stream[n].opus_data)' = At(i)
      BY <1>3, <2>1, Zenon DEF At
    <3>3. (clock'.frame - Stream'[n].seq_num) * FrameSize = At(newest)' - At(Stream[n].opus_data)'
      BY <1>9, <2>1, <3>1, <3>2, ZenonT(40) DEF FrameSize
    <3> QED
      BY <3>3, Zenon DEF InTime
  <2> QED
    BY <1>5, <1>7, <1>8, <1>9, <2>1, <2>2, <2>3 DEF FrameSize
<1>13. Numbered' /\ NumbersAdvance'
  BY <1>3, <1>6, <1>10, <1>11, <1>12, Extended, Zenon DEF IInv
<1>14. Recorded'
  BY <1>3, Zenon DEF IInv, Recorded, At, EndOf, Samples
<1>15. ClockSet'
  BY <1>2, <1>3 DEF ClockSet, Samples, Timestamp, At, SeqNum
<1>16. TalkEnds'
  BY <1>3 DEF TalkEnds
<1> QED
  BY <1>13, <1>14, <1>15, <1>16 DEF IInv

\* Every step keeps the invariant.
LEMMA Preserved ==
  ASSUME IInv, [Next]_vars
  PROVE  IInv'
<1>1. UplinkTypeOK'
  BY UplinkTypes DEF IInv
<1>2. StreamOK /\ StreamOK'
  BY <1>1, StreamTypes, StreamTypesNext DEF IInv
<1>3. ASSUME UNCHANGED <<clock, newest, wire, outgoing, last_packet, voice, endLost>>,
             \A i \in 1 .. Len(sent) : sent'[i] = sent[i]
      PROVE  ClockSet' /\ Numbered' /\ NumbersAdvance' /\ TalkEnds'
  <2>1. Stream' = Stream
    BY <1>3, Zenon DEF Stream
  <2>2. \A n \in 1 .. Len(Stream') : n + 0 \in 1 .. Len(Stream) /\ Stream'[n] = Stream[n + 0]
    BY <1>2, <2>1 DEF StreamOK
  <2>3. ClockSet' /\ Numbered' /\ NumbersAdvance'
    BY <1>1, <1>3, <2>2, Shifted, Zenon DEF IInv
  <2> QED
    BY <1>3, <2>1, <2>3, Zenon DEF IInv, TalkEnds
<1>4. ASSUME sent' = sent
      PROVE  Recorded' /\ \A i \in 1 .. Len(sent) : sent'[i] = sent[i]
  BY <1>4 DEF IInv, Recorded, At, EndOf, Samples
<1>5. ASSUME NEW p \in Payloads, NEW g \in Gaps, Speak(p, g)
      PROVE  IInv'
  <2>1. Recorded' /\ \A i \in 1 .. Len(sent) : sent'[i] = sent[i]
    BY <1>5, SpeakRecords DEF IInv
  <2> QED
    BY <1>1, <1>3, <1>5, <2>1, Zenon DEF Speak, IInv
<1>6. ASSUME NEW i \in 1 .. Len(sent), Arrive(i)
      PROVE  IInv'
  BY <1>1, <1>3, <1>4, <1>6, Zenon DEF Arrive, IInv
<1>7. CASE Skip
  BY <1>1, <1>3, <1>4, <1>7, Zenon DEF Skip, IInv
<1>8. CASE Others
  BY <1>1, <1>3, <1>4, <1>8, Zenon DEF Others, IInv
<1>9. CASE SendVoice
  <2>1. /\ Len(outgoing') = Len(outgoing) - 1 /\ wire' = outgoing[1]
        /\ \A n \in 1 .. Len(outgoing') : outgoing'[n] = outgoing[n + 1]
        /\ Len(outgoing) \in Nat \ {0}
    BY <1>9, HeadTailProperties, EmptySeq, SMTT(30) DEF SendVoice, IInv, UplinkTypeOK
  <2>2. Len(Stream) = Len(outgoing) + 1 /\ Len(Stream') = Len(outgoing)
    BY <1>2, <2>1 DEF StreamOK
  <2>3. ASSUME NEW n \in 1 .. Len(Stream')
        PROVE  n + 1 \in 1 .. Len(Stream) /\ Stream'[n] = Stream[n + 1]
    <3>1. n \in 1 .. Len(outgoing) /\ Stream[n + 1] = outgoing[n]
      BY <1>2, <2>1, <2>2, SMTT(30) DEF StreamOK
    <3>2. CASE n = 1
      BY <1>2, <2>1, <2>2, <3>1, <3>2 DEF StreamOK
    <3>3. CASE n # 1
      <4>1. PICK k \in 1 .. Len(outgoing') : n = k + 1
        BY <2>1, <2>2, <3>3
      <4>2. Stream'[n] = outgoing'[k]
        BY <1>2, <4>1 DEF StreamOK
      <4> QED
        BY <2>1, <2>2, <3>1, <4>1, <4>2
    <3> QED
      BY <3>2, <3>3
  <2>4. /\ sent' = sent /\ UNCHANGED <<clock, newest>>
        /\ UNCHANGED <<last_packet, voice, endLost>>
    BY <1>9 DEF SendVoice
  <2>5. ClockSet' /\ Numbered' /\ NumbersAdvance'
    BY <1>1, <1>4, <2>3, <2>4, Shifted, Zenon DEF IInv
  <2>6. Stream'[Len(Stream')] = Stream[Len(Stream)]
    BY <2>1, <2>2, <2>3
  <2>7. TalkEnds'
    BY <2>4, <2>6, Zenon DEF TalkEnds, IInv
  <2> QED
    BY <1>1, <1>4, <2>4, <2>5, <2>7 DEF IInv
<1>10. CASE VoiceEnds
  <2>1. /\ sent' = sent /\ UNCHANGED <<clock, newest, wire>> /\ ~voice' /\ Len(outgoing') = 0
    BY <1>10 DEF VoiceEnds
  <2>2. \A n \in 1 .. Len(Stream') : n + 0 \in 1 .. Len(Stream) /\ Stream'[n] = Stream[n + 0]
    BY <1>2, <2>1, SMTT(30) DEF StreamOK
  <2>3. ClockSet' /\ Numbered' /\ NumbersAdvance'
    BY <1>1, <1>4, <2>1, <2>2, Shifted DEF IInv
  <2>4. TalkEnds'
    BY <2>1 DEF TalkEnds
  <2> QED
    BY <1>1, <1>4, <2>1, <2>3, <2>4 DEF IInv
<1> QED
  BY <1>1, <1>5, <1>6, <1>7, <1>8, <1>9, <1>10, EndTalkKeeps, ForwardKeeps, UplinkSteps, Zenon

\* AudioBridge::start establishes the invariant.
LEMMA Initial == Init => IInv
<1> SUFFICES ASSUME UplinkInit
             PROVE  IInv
  BY DEF Init
<1>1. /\ sent = <<>> /\ audio = <<>> /\ outgoing = <<>> /\ wire = Silence
      /\ newest = 0 /\ ~clock.started /\ clock.frame = 0 /\ clock.samples = 0
  BY DEF UplinkInit
<1>2. UplinkTypeOK
  <2>1. wire \in VoiceData /\ Len(sent) = 0
    BY <1>1 DEF Silence, VoiceData
  <2>2. clock \in Clock
    BY ModAssumption DEF UplinkInit, Clock
  <2>3. /\ sent \in Seq(Packet) /\ audio \in Seq(1 .. Len(sent)) /\ Len(audio) <= Capacity
        /\ outgoing \in Seq(VoiceData) /\ Len(outgoing) <= Capacity
    BY <1>1, CapacityAssumption
  <2>4. newest \in 0 .. Len(sent)
    BY <1>1, <2>1
  <2>5. /\ last_packet \in BOOLEAN /\ uplink \in BOOLEAN /\ voice \in BOOLEAN
        /\ endLost \in BOOLEAN
    BY Zenon DEF UplinkInit
  <2> QED
    BY <2>1, <2>2, <2>3, <2>4, <2>5, Zenon DEF UplinkTypeOK
<1>3. Len(Stream) = 1 /\ Stream[1] = wire
  BY <1>1, <1>2, StreamTypes DEF StreamOK
<1>4. Audio = {}
  BY <1>1, <1>3 DEF Audio, Silence
<1>5. Recorded /\ ClockSet /\ TalkEnds
  BY <1>1, <1>4 DEF Recorded, ClockSet, TalkEnds
<1>6. Numbered /\ NumbersAdvance
  <2>1. Stream[1].seq_num = 0 /\ EndFrame = 0
    BY <1>1, <1>3 DEF Silence, EndFrame, FrameSize
  <2> QED
    BY <1>3, <1>4, <2>1 DEF Numbered, NumbersAdvance, Frames
<1> QED
  BY <1>2, <1>5, <1>6 DEF IInv

\* IInv is an invariant.
THEOREM Invariance == Spec => []IInv
<1>1. IInv /\ [Next]_vars => IInv'
  BY Preserved
<1> QED
  BY <1>1, Initial, PTL DEF Spec

\* The uplink's channels never exceed their capacity and its variables keep
\* their types, the clock's remainders in the ranges of RTP's fields.
THEOREM UplinkTyping == Spec => []UplinkTypeOK
<1>1. IInv => UplinkTypeOK
  BY DEF IInv
<1> QED
  BY <1>1, Invariance, PTL

\* UplinkClock::packet takes a packet if and only if it is later in the browser's
\* stream than all it took before, whatever the widths of RTP's fields.
THEOREM NewerTaken == Spec => []TakesNewer
<1>1. IInv => TakesNewer
  <2> SUFFICES ASSUME IInv, NEW i \in 1 .. Len(sent), Samples(i) # 0, Near(i)
               PROVE  Admits(i) <=> i > newest
    BY DEF TakesNewer
  <2>1. CASE newest = 0
    BY <2>1 DEF IInv, ClockSet, Admits
  <2>2. CASE newest # 0
    BY <2>2, ClockNewer DEF IInv
  <2> QED
    BY <2>1, <2>2
<1> QED
  BY <1>1, Invariance, PTL

\* Frame numbers sent to Mumble are exactly as far apart as the audio was
\* recorded, across losses, pauses, full channels and ends of talk.
THEOREM GapsKept == Spec => []GapsPreserved
<1>1. IInv => GapsPreserved
  <2> SUFFICES ASSUME IInv, NEW m \in Audio, NEW n \in Audio
               PROVE  (Stream[n].seq_num - Stream[m].seq_num) * FrameSize
                        = At(Stream[n].opus_data) - At(Stream[m].opus_data)
    BY DEF GapsPreserved
  <2> DEFINE f == clock.frame
             sm == Stream[m].seq_num
             sn == Stream[n].seq_num
             am == At(Stream[m].opus_data)
             an == At(Stream[n].opus_data)
             a == At(newest)
  <2>1. (f - sm) * 480 = a - am /\ (f - sn) * 480 = a - an
    BY Zenon DEF IInv, Numbered, InTime, Audio, FrameSize
  <2>2. m \in 1 .. Len(Stream) /\ n \in 1 .. Len(Stream)
    BY SMTT(30) DEF Audio
  <2>3. /\ sm \in Nat /\ sn \in Nat
        /\ Stream[m].opus_data \in 1 .. Len(sent) /\ Stream[n].opus_data \in 1 .. Len(sent)
    BY <2>2, StreamTypes, Zenon DEF StreamOK, IInv
  <2>4. am \in Nat /\ an \in Nat
    BY <2>3, SentTypes, Zenon DEF IInv
  <2>5. f \in Nat
    BY FrameTypes DEF IInv
  <2>6. a \in Nat
    <3>1. newest \in 1 .. Len(sent)
      BY <2>2 DEF IInv, ClockSet, UplinkTypeOK
    <3> QED
      BY <3>1, SentTypes DEF IInv
  <2> HIDE DEF f, sm, sn, am, an, a
  <2>7. (sn - sm) * 480 = an - am
    BY <2>1, <2>3, <2>4, <2>5, <2>6
  <2> QED
    BY <2>7 DEF sn, sm, an, am, FrameSize
<1> QED
  BY <1>1, Invariance, PTL

\* The numbers of what MumbleVoice is given never go back and leave room for the
\* audio before them.
THEOREM NumbersGrow == Spec => []NumbersAdvance
<1>1. IInv => NumbersAdvance
  BY DEF IInv
<1> QED
  BY <1>1, Invariance, PTL

\* After the 200 ms timer the end of the talk is the last item on its way, unless
\* the channel was full.
THEOREM TalkEnded == Spec => []TalkEnds
<1>1. IInv => TalkEnds
  BY DEF IInv
<1> QED
  BY <1>1, Invariance, PTL

-----------------------------------------------------------------------------
(* The downlink.  What a speaker said is a sequence of Utterances; what is  *)
(* about one speaker or one packet is stated of such a sequence.            *)

Lasts(words, n) == TotalSamples(words[n].opus_data)

\* A Mumble client's numbers: a talk after the other, and within a talk the next
\* packet comes after the end of the one before.
Ordered(words) ==
  /\ \A n \in 1 .. Len(words) : words[n].seq_num * FrameSize < RtpTsMod \div 2
  /\ \A m, n \in 1 .. Len(words) : m < n =>
       /\ words[m].talk <= words[n].talk
       /\ words[m].talk = words[n].talk =>
            words[m].seq_num + Lasts(words, m) \div FrameSize <= words[n].seq_num

\* MediaClock holds number and duration of the packet it heard last.
Holds(words, media) ==
  /\ media.heard \in 0 .. Len(words)
  /\ media.heard # 0 => /\ media.last_frame = words[media.heard].seq_num
                        /\ media.samples = Lasts(words, media.heard)

\* The clock as the RTP packet has it.
Agree(media, packet) ==
  /\ media.sequence = packet.sequence /\ media.timestamp = packet.timestamp
  /\ media.heard = packet.place

\* w may be written to a track after p.
Succeeds(words, w, p) ==
  /\ w.place \in 1 .. Len(words) /\ p.place \in 0 .. Len(words)
  /\ (w.sequence - p.sequence) % RtpSeqMod = 1
  /\ p.place # 0 =>
       (w.timestamp - p.timestamp) % RtpTsMod \in Lasts(words, p.place) .. RtpTsMod \div 2 - 1
  /\ ~w.marker =>
       /\ p.place < w.place /\ p.place # 0
       /\ (w.timestamp - p.timestamp) % RtpTsMod
            = ((words[w.place].seq_num - words[p.place].seq_num) * FrameSize) % RtpTsMod

\* What is in voice_rx was said.
Arrivals ==
  \A i \in 1 .. Len(incoming) : incoming[i].place \in 1 .. Len(spoken[incoming[i].session_id])

\* A speaker's track is the speaker's own.
Owns(s) ==
  /\ speakers[s].track \in 1 .. Len(rtp) /\ rtp[speakers[s].track].session_id = s
  /\ Holds(spoken[s], speakers[s].clock)

\* While the downlink task runs, the clock is that of the packet stamped last for
\* its track: of the one that is being written, or else of the one written last.
InStep(s) ==
  /\ \A w \in writing : w.track = speakers[s].track => Agree(speakers[s].clock, w)
  /\ (\A w \in writing : w.track # speakers[s].track) =>
       Agree(speakers[s].clock, rtp[speakers[s].track])

\* At most one packet is being written, and it follows the last one of its track,
\* also when its speaker has left or come back meanwhile.
Pending ==
  /\ \A v, w \in writing : v = w
  /\ \A w \in writing : /\ w.track \in 1 .. Len(rtp) /\ w.session_id = rtp[w.track].session_id
                        /\ Succeeds(spoken[w.session_id], w, rtp[w.track])

Tracks ==
  \A s \in Speakers : speakers[s] # NoTrack => Owns(s) /\ (downlink => InStep(s))

\* The inductive invariant of the downlink.
DownlinkInv ==
  /\ DownlinkTypeOK /\ (\A s \in Speakers : Ordered(spoken[s]))
  /\ Arrivals /\ Tracks /\ Pending

\* A multiple of 10 ms is a number of frames.
LEMMA FramesOf ==
  ASSUME NEW d, WholeFrames(d)
  PROVE  /\ d \in Nat /\ d <= 5760
         /\ d \div FrameSize \in Nat /\ (d \div FrameSize) * FrameSize = d
BY DEF WholeFrames, FrameSize

\* A number of frames, at most 120 ms.
Framed(d) == /\ d \in Nat /\ d <= 5760
             /\ d \div FrameSize \in Nat /\ (d \div FrameSize) * FrameSize = d

\* What the numbering of frames needs of a length.
LEMMA FramedParts ==
  \A d : Framed(d) => d \in Nat /\ d \div FrameSize \in Nat /\ (d \div FrameSize) * FrameSize = d
BY DEF Framed

\* An utterance lasts a number of frames, at most 120 ms.
LEMMA UtteranceLasts ==
  ASSUME NEW words \in Seq(Utterance), NEW n \in 1 .. Len(words)
  PROVE  /\ words[n] \in Utterance /\ words[n].seq_num \in Nat /\ words[n].talk \in Nat
         /\ Framed(Lasts(words, n))
<1>1. words[n] \in Utterance
  BY ElementOfSeq
<1>2. words[n].seq_num \in Nat /\ words[n].talk \in Nat
  BY <1>1 DEF Utterance
<1>3. PICK p \in VoicePackets : words[n].opus_data = p.opus_data
  BY <1>1, Zenon DEF Utterance
<1>4. WholeFrames(Lasts(words, n))
  BY <1>3, VoiceAssumption DEF Lasts
<1>5. \A d : WholeFrames(d) => Framed(d)
  BY FramesOf DEF Framed
<1> QED BY <1>1, <1>2, <1>4, <1>5, Zenon

\* Adding to a counter of RTP and subtracting again, both with wrapping.
LEMMA WrapsBack ==
  ASSUME NEW m \in Nat \ {0}, NEW a \in Nat, NEW d \in Nat, a < m, d < m
  PROVE  (((a + d) % m) - a) % m = d /\ (a + d) % m \in 0 .. m - 1 /\ d % m = d
<1>1. a % m = a /\ d % m = d
  BY SmallMod
<1>2. a + d \in Int /\ a \in Int /\ (a + d) - a = d /\ (a + d) - a \in 0 .. m - 1
  OBVIOUS
<1>3. (((a + d) % m) - (a % m)) % m = d
  BY <1>2, ModDifference
<1>4. (a + d) % m \in 0 .. m - 1
  BY <1>2
<1> QED BY <1>1, <1>3, <1>4

\* Half the range of RTP's timestamps.
LEMMA HalfRange ==
  /\ RtpSeqMod \in Nat /\ RtpSeqMod >= 4 /\ RtpTsMod \in Nat
  /\ RtpTsMod \div 2 \in Nat /\ RtpTsMod \div 2 > 5760 /\ RtpTsMod \div 2 < RtpTsMod
<1>1. /\ RtpSeqMod \in Nat /\ RtpSeqMod >= 4 /\ RtpTsMod \in Nat
      /\ RtpTsMod \div 2 > 5760
  BY RtpAssumption
<1>2. RtpTsMod \div 2 \in Int /\ 2 * (RtpTsMod \div 2) <= RtpTsMod
  BY <1>1
<1> QED BY <1>1, <1>2

\* MediaClock's wrapping_add, as the receiver sees it.
LEMMA RtpWraps ==
  /\ \A a \in 0 .. RtpSeqMod - 1 : (((a + 1) % RtpSeqMod) - a) % RtpSeqMod = 1
  /\ \A a \in 0 .. RtpTsMod - 1, d \in 0 .. (RtpTsMod \div 2) - 1 :
       (((a + d) % RtpTsMod) - a) % RtpTsMod = d /\ d % RtpTsMod = d
<1>1. ASSUME NEW a \in 0 .. RtpSeqMod - 1
      PROVE  (((a + 1) % RtpSeqMod) - a) % RtpSeqMod = 1
  <2>1. a \in Nat /\ a < RtpSeqMod /\ 1 \in Nat /\ 1 < RtpSeqMod /\ RtpSeqMod \in Nat \ {0}
    BY HalfRange
  <2> QED BY <2>1, WrapsBack
<1>2. ASSUME NEW a \in 0 .. RtpTsMod - 1, NEW d \in 0 .. (RtpTsMod \div 2) - 1
      PROVE  (((a + d) % RtpTsMod) - a) % RtpTsMod = d /\ d % RtpTsMod = d
  <2>1. a \in Nat /\ a < RtpTsMod /\ d \in Nat /\ d < RtpTsMod /\ RtpTsMod \in Nat \ {0}
    BY HalfRange
  <2> QED BY <2>1, WrapsBack
<1> QED BY <1>1, <1>2

\* Audio from a, c frames of length l, and audio that starts at b: their distance
\* in samples.
LEMMA FrameDistance ==
  ASSUME NEW a \in Nat, NEW b \in Nat, NEW c \in Nat, NEW l \in Nat, NEW half \in Nat,
         c * FrameSize = l, a + c <= b, b * FrameSize < half
  PROVE  (b - a) * FrameSize \in l .. half - 1 /\ (b - a) * FrameSize \in 0 .. half - 1
BY DEF FrameSize

\* What orders audio, without the frames it is about.
LEMMA AudioOrder ==
  ASSUME NEW a \in Nat, NEW b \in Nat, NEW c \in Nat, b > a
  PROVE  a # b /\ ~(b + c <= a)
OBVIOUS

\* MediaClock::packet: what it stamps may follow what it stamped before.
LEMMA StampSucceeds ==
  ASSUME NEW words \in Seq(Utterance), Ordered(words),
         NEW media \in MediaClock, Holds(words, media),
         NEW p \in Rtp, Agree(media, p),
         NEW n \in 1 .. Len(words), words[n].talk = words[Len(words)].talk,
         NEW e \in Elapsed,
         media.heard # 0 /\ words[media.heard].talk # words[Len(words)].talk => e > PauseLimit,
         InOrder(media, words[n].seq_num, e),
         NEW w, w.place = n, w.sequence = (media.sequence + 1) % RtpSeqMod,
         w.timestamp = StampTime(media, words[n].seq_num, e), w.marker = NewTalk(media, e)
  PROVE  Succeeds(words, w, p)
<1> DEFINE m == media.heard
           half == RtpTsMod \div 2
           step == (w.timestamp - p.timestamp) % RtpTsMod
<1>1. /\ media.sequence \in 0 .. RtpSeqMod - 1 /\ p.sequence = media.sequence
      /\ media.timestamp \in 0 .. RtpTsMod - 1 /\ p.timestamp = media.timestamp
      /\ p.place = m /\ m \in 0 .. Len(words)
  BY Zenon DEF MediaClock, Agree, Holds
<1>2. half \in Nat /\ half > 5760 /\ half < RtpTsMod /\ RtpTsMod \in Nat
  BY HalfRange
<1>3. (w.sequence - p.sequence) % RtpSeqMod = 1
  BY <1>1, RtpWraps, Zenon
<1>4. \A d \in 0 .. half - 1 :
        w.timestamp = (media.timestamp + d) % RtpTsMod => step = d /\ d % RtpTsMod = d
  BY <1>1, RtpWraps, Zenon
<1> HIDE DEF half
<1> HIDE DEF step
<1>5. ASSUME m # 0, NewTalk(media, e)
      PROVE  step \in Lasts(words, m) .. half - 1
  <2>1. media.samples = Lasts(words, m) /\ Lasts(words, m) \in Nat /\ Lasts(words, m) <= 5760
    <3>1. m \in 1 .. Len(words)
      BY <1>1, <1>5
    <3>2. media.samples = Lasts(words, m) /\ Framed(Lasts(words, m))
      BY <1>5, <3>1, UtteranceLasts, Zenon DEF Holds
    <3> QED BY <3>2 DEF Framed
  <2>2. e \in Nat /\ e < half
    BY ElapsedAssumption DEF half
  <2>3. Pause(media, e) \in Lasts(words, m) .. half - 1
    BY <1>2, <2>1, <2>2 DEF Pause
  <2>4. Pause(media, e) \in 0 .. half - 1
    BY <1>2, <2>1, <2>3
  <2>5. w.timestamp = (media.timestamp + Pause(media, e)) % RtpTsMod
    BY <1>5, Zenon DEF StampTime
  <2> QED BY <1>4, <2>3, <2>4, <2>5, Zenon
<1>6. ASSUME ~NewTalk(media, e)
      PROVE  /\ m # 0 /\ m < n
             /\ step = (words[n].seq_num - words[m].seq_num) * FrameSize
             /\ step \in Lasts(words, m) .. half - 1
             /\ step % RtpTsMod = step
  <2>1. m # 0 /\ m \in 1 .. Len(words) /\ ~(e > PauseLimit)
    BY <1>1, <1>6 DEF NewTalk
  <2>2. words[m].talk = words[n].talk
    BY <2>1, Zenon
  <2>3. words[n].seq_num > words[m].seq_num /\ media.last_frame = words[m].seq_num
    BY <1>6, <2>1, Zenon DEF InOrder, Holds
  <2>4. /\ words[m].seq_num \in Nat /\ words[n].seq_num \in Nat
        /\ Framed(Lasts(words, m)) /\ Framed(Lasts(words, n))
    BY <2>1, UtteranceLasts, Zenon
  <2>5. m < n
    <3>1. n < m => words[n].seq_num + Lasts(words, n) \div FrameSize <= words[m].seq_num
      BY <2>1, <2>2, Zenon DEF Ordered
    <3>2. words[m].seq_num # words[n].seq_num
          /\ ~(words[n].seq_num + Lasts(words, n) \div FrameSize <= words[m].seq_num)
      BY <2>3, <2>4, AudioOrder, FramedParts, Zenon
    <3>3. n # m /\ ~(n < m)
      BY <3>1, <3>2, Zenon
    <3>4. n \in Int /\ m \in Int
      BY <2>1
    <3> QED BY <3>3, <3>4
  <2>6. words[m].seq_num + Lasts(words, m) \div FrameSize <= words[n].seq_num
    BY <2>1, <2>2, <2>5, Zenon DEF Ordered
  <2>7. words[n].seq_num * FrameSize < half
    BY Zenon DEF Ordered, half
  <2> DEFINE d == (words[n].seq_num - words[m].seq_num) * FrameSize
  <2>8. d \in Lasts(words, m) .. half - 1 /\ d \in 0 .. half - 1
    <3>1. half \in Nat
      BY <1>2
    <3> QED BY <2>4, <2>6, <2>7, <3>1, FrameDistance, FramedParts, Zenon
  <2>9. w.timestamp = (media.timestamp + d) % RtpTsMod
    BY <1>6, <2>1, <2>3, Zenon DEF StampTime
  <2> HIDE DEF d
  <2>10. step = d /\ d % RtpTsMod = d
    BY <1>4, <2>8, <2>9, Zenon
  <2> QED BY <2>1, <2>5, <2>8, <2>10, Zenon DEF d
<1>7. p.place # 0 => step \in Lasts(words, p.place) .. half - 1
  BY <1>1, <1>5, <1>6, Zenon
<1>8. ~w.marker =>
        /\ p.place < w.place /\ p.place # 0
        /\ step = ((words[w.place].seq_num - words[p.place].seq_num) * FrameSize) % RtpTsMod
  BY <1>1, <1>6, Zenon
<1> QED BY <1>1, <1>3, <1>7, <1>8, Zenon DEF Succeeds, step, half

\* What was said stays said.
LEMMA SaidStays ==
  ASSUME NEW words \in Seq(Utterance), NEW u \in Utterance
  PROVE  LET more == Append(words, u) IN
         /\ more \in Seq(Utterance) /\ Len(more) = Len(words) + 1 /\ more[Len(words) + 1] = u
         /\ \A n \in 1 .. Len(words) : more[n] = words[n] /\ Lasts(more, n) = Lasts(words, n)
         /\ \A media : Holds(words, media) => Holds(more, media)
         /\ \A w, p : Succeeds(words, w, p) => Succeeds(more, w, p)
<1> DEFINE more == Append(words, u)
<1>1. /\ more \in Seq(Utterance) /\ Len(more) = Len(words) + 1 /\ more[Len(words) + 1] = u
      /\ \A n \in 1 .. Len(words) : more[n] = words[n]
  BY AppendProperties
<1>2. Len(words) \in Nat
  BY LenProperties
<1> HIDE DEF more
<1>3. \A n \in 1 .. Len(words) : Lasts(more, n) = Lasts(words, n)
  BY <1>1 DEF Lasts
<1>4. ASSUME NEW media, Holds(words, media)
      PROVE  Holds(more, media)
  <2>1. media.heard \in 0 .. Len(words) /\ media.heard \in 0 .. Len(more)
    BY <1>1, <1>2, <1>4 DEF Holds
  <2>2. media.heard # 0 => media.heard \in 1 .. Len(words)
    BY <1>2, <2>1
  <2> QED BY <1>1, <1>3, <1>4, <2>1, <2>2, Zenon DEF Holds
<1>5. ASSUME NEW w, NEW p, Succeeds(words, w, p)
      PROVE  Succeeds(more, w, p)
  <2>1. /\ w.place \in 1 .. Len(words) /\ w.place \in 1 .. Len(more)
        /\ p.place \in 0 .. Len(words) /\ p.place \in 0 .. Len(more)
    BY <1>1, <1>2, <1>5 DEF Succeeds
  <2>2. p.place # 0 => p.place \in 1 .. Len(words)
    BY <1>2, <2>1
  <2>3. more[w.place] = words[w.place]
    BY <1>1, <2>1
  <2>4. p.place # 0 => more[p.place] = words[p.place] /\ Lasts(more, p.place) = Lasts(words, p.place)
    BY <1>1, <1>3, <2>2
  <2>5. /\ (w.sequence - p.sequence) % RtpSeqMod = 1
        /\ p.place # 0 =>
             (w.timestamp - p.timestamp) % RtpTsMod \in Lasts(words, p.place) .. RtpTsMod \div 2 - 1
        /\ ~w.marker =>
             /\ p.place < w.place /\ p.place # 0
             /\ (w.timestamp - p.timestamp) % RtpTsMod
                  = ((words[w.place].seq_num - words[p.place].seq_num) * FrameSize) % RtpTsMod
    BY <1>5, Zenon DEF Succeeds
  <2>6. p.place # 0 =>
          (w.timestamp - p.timestamp) % RtpTsMod \in Lasts(more, p.place) .. RtpTsMod \div 2 - 1
    BY <2>4, <2>5, Zenon
  <2>7. ~w.marker =>
          /\ p.place < w.place /\ p.place # 0
          /\ (w.timestamp - p.timestamp) % RtpTsMod
               = ((more[w.place].seq_num - more[p.place].seq_num) * FrameSize) % RtpTsMod
    BY <2>3, <2>4, <2>5, Zenon
  <2> QED BY <2>1, <2>5, <2>6, <2>7, Zenon DEF Succeeds
<1> QED BY <1>1, <1>3, <1>4, <1>5, Zenon DEF more

\* A client that continues its numbers, or starts a new talk, keeps the order.
LEMMA OrderStays ==
  ASSUME NEW words \in Seq(Utterance), Ordered(words), NEW u \in Utterance,
         u.seq_num * FrameSize < RtpTsMod \div 2,
         words # <<>> =>
           LET l == Len(words) IN
           /\ words[l].talk <= u.talk
           /\ words[l].talk = u.talk =>
                words[l].seq_num + Lasts(words, l) \div FrameSize <= u.seq_num
  PROVE  Ordered(Append(words, u))
<1> DEFINE more == Append(words, u)
           l == Len(words)
<1>1. /\ more \in Seq(Utterance) /\ Len(more) = l + 1 /\ more[l + 1] = u
      /\ \A n \in 1 .. l : more[n] = words[n] /\ Lasts(more, n) = Lasts(words, n)
  BY SaidStays, Zenon
<1>2. l \in Nat /\ (l # 0 => words # <<>>)
  BY LenProperties, EmptySeq
<1>3. u.talk \in Nat /\ u.seq_num \in Nat
  BY DEF Utterance
<1>4. ASSUME NEW m \in 1 .. l
      PROVE  /\ words[m].talk <= u.talk
             /\ words[m].talk = u.talk =>
                  words[m].seq_num + Lasts(words, m) \div FrameSize <= u.seq_num
  <2>1. l \in 1 .. l /\ l # 0 /\ (m = l \/ m < l)
    BY <1>2, <1>4
  <2>2. /\ words[l].talk <= u.talk
        /\ words[l].talk = u.talk =>
             words[l].seq_num + Lasts(words, l) \div FrameSize <= u.seq_num
    BY <1>2, <2>1
  <2>3. CASE m = l
    BY <2>2, <2>3
  <2>4. CASE m < l
    <3>1. /\ words[m].talk <= words[l].talk
          /\ words[m].talk = words[l].talk =>
               words[m].seq_num + Lasts(words, m) \div FrameSize <= words[l].seq_num
      BY <2>1, <2>4, Zenon DEF Ordered
    <3>2. /\ words[m].talk \in Nat /\ words[l].talk \in Nat
          /\ words[m].seq_num \in Nat /\ words[l].seq_num \in Nat
          /\ Lasts(words, m) \div FrameSize \in Nat /\ Lasts(words, l) \div FrameSize \in Nat
      BY <2>1, UtteranceLasts, FramedParts, Zenon
    <3>3. words[m].talk <= u.talk
      BY <1>3, <2>2, <3>1, <3>2
    <3>4. ASSUME words[m].talk = u.talk
          PROVE  words[m].seq_num + Lasts(words, m) \div FrameSize <= u.seq_num
      <4>1. words[l].talk = u.talk /\ words[m].talk = words[l].talk
        BY <1>3, <2>2, <3>1, <3>2, <3>4
      <4>2. /\ words[m].seq_num + Lasts(words, m) \div FrameSize <= words[l].seq_num
            /\ words[l].seq_num + Lasts(words, l) \div FrameSize <= u.seq_num
        BY <2>2, <3>1, <4>1, Zenon
      <4>3. \A a, b, c, d, g \in Nat : a + c <= b /\ b + d <= g => a + c <= g
        OBVIOUS
      <4> QED BY SMTT(30), <1>3, <3>2, <4>2, <4>3
    <3> QED BY <3>3, <3>4
  <2> QED BY <2>1, <2>3, <2>4, Zenon
<1>5. \A n \in 1 .. Len(more) : n = l + 1 \/ n \in 1 .. l
  BY <1>1, <1>2
<1> HIDE DEF more
<1>6. \A n \in 1 .. Len(more) : more[n].seq_num * FrameSize < RtpTsMod \div 2
  <2>1. \A n \in 1 .. l : words[n].seq_num * FrameSize < RtpTsMod \div 2
    BY DEF Ordered
  <2> QED BY <1>1, <1>5, <2>1, Zenon
<1>7. ASSUME NEW m \in 1 .. Len(more), NEW n \in 1 .. Len(more), m < n
      PROVE  /\ more[m].talk <= more[n].talk
             /\ more[m].talk = more[n].talk =>
                  more[m].seq_num + Lasts(more, m) \div FrameSize <= more[n].seq_num
  <2>1. m \in 1 .. l
    BY <1>1, <1>2, <1>7
  <2>2. more[m] = words[m] /\ Lasts(more, m) = Lasts(words, m)
    BY <1>1, <2>1, Zenon
  <2>3. CASE n = l + 1
    BY <1>1, <1>4, <2>1, <2>2, <2>3, Zenon
  <2>4. CASE n \in 1 .. l
    <3>1. /\ words[m].talk <= words[n].talk
          /\ words[m].talk = words[n].talk =>
               words[m].seq_num + Lasts(words, m) \div FrameSize <= words[n].seq_num
      BY <1>7, <2>1, <2>4, Zenon DEF Ordered
    <3> QED BY <1>1, <2>2, <2>4, <3>1, Zenon
  <2> QED BY <1>5, <2>3, <2>4, Zenon
<1>8. Ordered(more)
  BY <1>6, <1>7, Zenon DEF Ordered
<1> QED BY <1>8 DEF more

-----------------------------------------------------------------------------
(* The steps of the downlink.                                              *)

\* A client talks.
LEMMA TalkKeeps ==
  ASSUME DownlinkInv, NEW s \in Speakers, NEW packet \in VoicePackets, NEW gap \in FrameGaps,
         Talk(s, packet, gap)
  PROVE  DownlinkInv'
<1> DEFINE words == spoken[s]
           l == Len(words)
           frame == IF words = <<>> THEN 0
                    ELSE words[l].seq_num + Lasts(words, l) \div FrameSize
           talk == IF words = <<>> THEN 1 ELSE words[l].talk
           Said(number, t) == [opus_data |-> packet.opus_data,
                               last_frame |-> packet.last_frame, seq_num |-> number, talk |-> t]
<1>1. spoken \in [Speakers -> Seq(Utterance)] /\ words \in Seq(Utterance) /\ Ordered(words)
  BY DEF DownlinkInv, DownlinkTypeOK
<1>2. UNCHANGED <<incoming, speakers, writing, rtp, downlink, received>>
  BY Zenon DEF Talk
<1>3. words # <<>> => /\ l \in 1 .. l /\ words[l].talk \in Nat /\ words[l].seq_num \in Nat
                      /\ Lasts(words, l) \div FrameSize \in Nat
  <2>1. words # <<>> => l \in Nat /\ l # 0
    BY <1>1, LenProperties, EmptySeq
  <2>2. words # <<>> => l \in 1 .. l
    BY <2>1
  <2> QED BY <1>1, <2>2, UtteranceLasts, FramedParts, Zenon
<1>4. frame \in Nat /\ talk \in Nat /\ gap \in Nat
  BY <1>3, GapAssumption
<1>5. \A number, t \in Nat : Said(number, t) \in Utterance
  BY LastFrameAssumption, Zenon DEF Utterance
<1>6. \/ /\ (frame + gap) * FrameSize < RtpTsMod \div 2
         /\ spoken' = [spoken EXCEPT ![s] = Append(words, Said(frame + gap, talk))]
      \/ /\ words # <<>>
         /\ spoken' = [spoken EXCEPT ![s] = Append(words, Said(0, talk + 1))]
  BY <1>1, Zenon DEF Talk, LastSpoken, Duration, Lasts
<1> HIDE DEF frame, talk
<1>7. PICK u \in Utterance : /\ spoken' = [spoken EXCEPT ![s] = Append(words, u)]
                             /\ Ordered(Append(words, u))
  <2>1. CASE /\ (frame + gap) * FrameSize < RtpTsMod \div 2
             /\ spoken' = [spoken EXCEPT ![s] = Append(words, Said(frame + gap, talk))]
    <3>1. PICK u : u = Said(frame + gap, talk)
      BY Zenon
    <3>2. u \in Utterance /\ u.seq_num = frame + gap /\ u.talk = talk
      BY <1>4, <1>5, <3>1
    <3>3. words # <<>> => /\ words[l].talk <= u.talk
                          /\ words[l].seq_num + Lasts(words, l) \div FrameSize <= u.seq_num
      <4>1. words # <<>> => /\ u.talk = words[l].talk
                            /\ u.seq_num = (words[l].seq_num + Lasts(words, l) \div FrameSize) + gap
        BY <3>2, Zenon DEF frame, talk
      <4>2. \A a, b, c \in Nat : a <= a /\ a + b <= (a + b) + c
        OBVIOUS
      <4> QED BY <1>3, <1>4, <4>1, <4>2, Zenon
    <3>4. u.seq_num * FrameSize < RtpTsMod \div 2
      BY <2>1, <3>2, Zenon
    <3>5. Ordered(Append(words, u))
      BY <1>1, <3>2, <3>3, <3>4, OrderStays, Zenon
    <3> QED BY <2>1, <3>1, <3>2, <3>5, Zenon
  <2>2. CASE /\ words # <<>>
             /\ spoken' = [spoken EXCEPT ![s] = Append(words, Said(0, talk + 1))]
    <3>1. PICK u : u = Said(0, talk + 1)
      BY Zenon
    <3>2. u \in Utterance /\ u.seq_num = 0 /\ u.talk = talk + 1
      BY <1>4, <1>5, <3>1
    <3>3. words[l].talk <= u.talk /\ words[l].talk # u.talk
      BY <1>3, <2>2, <3>2 DEF talk
    <3>4. u.seq_num * FrameSize < RtpTsMod \div 2
      BY <3>2, HalfRange DEF FrameSize
    <3>5. Ordered(Append(words, u))
      BY <1>1, <3>2, <3>3, <3>4, OrderStays, Zenon
    <3> QED BY <2>2, <3>1, <3>2, <3>5, Zenon
  <2> QED BY <1>6, <2>1, <2>2, Zenon
<1>8. \A r \in Speakers :
        /\ spoken'[r] \in Seq(Utterance) /\ Ordered(spoken'[r])
        /\ \A n \in 1 .. Len(spoken[r]) : n \in 1 .. Len(spoken'[r])
        /\ \A media : Holds(spoken[r], media) => Holds(spoken'[r], media)
        /\ \A w, p : Succeeds(spoken[r], w, p) => Succeeds(spoken'[r], w, p)
  <2> SUFFICES ASSUME NEW r \in Speakers
               PROVE  /\ spoken'[r] \in Seq(Utterance) /\ Ordered(spoken'[r])
                      /\ \A n \in 1 .. Len(spoken[r]) : n \in 1 .. Len(spoken'[r])
                      /\ \A media : Holds(spoken[r], media) => Holds(spoken'[r], media)
                      /\ \A w, p : Succeeds(spoken[r], w, p) => Succeeds(spoken'[r], w, p)
    BY Zenon
  <2>1. spoken'[r] = IF r = s THEN Append(words, u) ELSE spoken[r]
    BY <1>1, <1>7
  <2>2. CASE r = s
    <3>1. spoken'[r] = Append(words, u) /\ spoken[r] = words
      BY <2>1, <2>2, Zenon
    <3>2. /\ Append(words, u) \in Seq(Utterance) /\ Len(Append(words, u)) = l + 1 /\ l \in Nat
          /\ \A media : Holds(words, media) => Holds(Append(words, u), media)
          /\ \A w, p : Succeeds(words, w, p) => Succeeds(Append(words, u), w, p)
      BY <1>1, SaidStays, LenProperties, Zenon
    <3>3. \A n \in 1 .. l : n \in 1 .. Len(Append(words, u))
      BY <3>2
    <3> QED BY <1>7, <3>1, <3>2, <3>3, Zenon
  <2>3. CASE r # s
    BY <1>1, <2>1, <2>3, Zenon DEF DownlinkInv
  <2> QED BY <2>2, <2>3, Zenon
<1>9. DownlinkTypeOK'
  <2>1. spoken' \in [Speakers -> Seq(Utterance)]
    BY <1>1, <1>7, <1>8
  <2> QED BY <1>2, <2>1 DEF DownlinkInv, DownlinkTypeOK
<1>10. Arrivals'
  <2>1. \A i \in 1 .. Len(incoming) : incoming[i].session_id \in Speakers
    <3>1. incoming \in Seq([session_id : Speakers, place : Nat])
      BY DEF DownlinkInv, DownlinkTypeOK
    <3>2. \A i \in 1 .. Len(incoming) : incoming[i] \in [session_id : Speakers, place : Nat]
      BY <3>1, ElementOfSeq, Zenon
    <3> QED BY <3>2, Zenon
  <2> QED BY <1>2, <1>8, <2>1, Zenon DEF DownlinkInv, Arrivals
<1>11. Tracks'
  BY <1>2, <1>8, Zenon DEF DownlinkInv, Tracks, Owns, InStep
<1>12. Pending'
  <2>1. \A w \in writing : w.session_id \in Speakers
    BY DEF DownlinkInv, DownlinkTypeOK, Stamped
  <2> QED BY <1>2, <1>8, <2>1, Zenon DEF DownlinkInv, Pending
<1> QED BY <1>8, <1>9, <1>10, <1>11, <1>12, Zenon DEF DownlinkInv

\* MumbleVoice::run receives audio.
LEMMA ReceiveKeeps ==
  ASSUME DownlinkInv, NEW s \in Speakers, NEW n \in 1 .. Len(spoken[s]), ReceiveVoice(s, n)
  PROVE  DownlinkInv'
<1> DEFINE item == [session_id |-> s, place |-> n]
           Items == [session_id : Speakers, place : Nat]
<1>1. /\ incoming \in Seq(Items) /\ item \in Items /\ received \in Nat
      /\ Len(spoken[s]) \in Nat
  BY LenProperties DEF DownlinkInv, DownlinkTypeOK
<1>2. /\ incoming' = Append(incoming, item) /\ received' = received + 1
      /\ Len(incoming) < VoiceCapacity
      /\ UNCHANGED <<spoken, speakers, writing, rtp, downlink>>
  BY Zenon DEF ReceiveVoice
<1>3. /\ incoming' \in Seq(Items) /\ Len(incoming') = Len(incoming) + 1
      /\ incoming'[Len(incoming) + 1] = item
      /\ \A i \in 1 .. Len(incoming) : incoming'[i] = incoming[i]
  BY <1>1, <1>2, AppendProperties
<1>4. Len(incoming) \in Nat
  BY <1>1, LenProperties
<1>5. DownlinkTypeOK'
  <2>1. Len(incoming') <= VoiceCapacity /\ received' \in Nat
    BY <1>1, <1>2, <1>3, <1>4, VoiceCapacityAssumption
  <2> QED BY <1>2, <1>3, <2>1, Zenon DEF DownlinkInv, DownlinkTypeOK
<1>6. Arrivals'
  <2> SUFFICES ASSUME NEW i \in 1 .. Len(incoming')
               PROVE  incoming'[i].place \in 1 .. Len(spoken'[incoming'[i].session_id])
    BY Zenon DEF Arrivals
  <2>1. i \in 1 .. Len(incoming) \/ i = Len(incoming) + 1
    BY <1>3, <1>4
  <2>2. CASE i \in 1 .. Len(incoming)
    BY <1>2, <1>3, <2>2, Zenon DEF DownlinkInv, Arrivals
  <2>3. CASE i = Len(incoming) + 1
    BY <1>2, <1>3, <2>3
  <2> QED BY <2>1, <2>2, <2>3
<1>7. Tracks'
  BY <1>2, Zenon DEF DownlinkInv, Tracks, Owns, InStep
<1>8. Pending' /\ \A r \in Speakers : Ordered(spoken'[r])
  BY <1>2, Zenon DEF DownlinkInv, Pending
<1> QED BY <1>5, <1>6, <1>7, <1>8, Zenon DEF DownlinkInv

\* The downlink task takes the first packet of voice_rx: it was said, and so were
\* the others.
LEMMA TakenSaid ==
  ASSUME DownlinkInv, Taken
  PROVE  /\ Head(incoming).session_id \in Speakers
         /\ Head(incoming).place \in 1 .. Len(spoken[Head(incoming).session_id])
         /\ incoming' \in Seq([session_id : Speakers, place : Nat])
         /\ Len(incoming') <= VoiceCapacity
         /\ \A i \in 1 .. Len(incoming') :
              /\ incoming'[i].session_id \in Speakers
              /\ incoming'[i].place \in 1 .. Len(spoken[incoming'[i].session_id])
<1> DEFINE Items == [session_id : Speakers, place : Nat]
<1>1. incoming \in Seq(Items) /\ incoming # <<>> /\ incoming' = Tail(incoming)
      /\ Len(incoming) <= VoiceCapacity
  BY DEF DownlinkInv, DownlinkTypeOK, Taken
<1>2. /\ Head(incoming) = incoming[1] /\ incoming' \in Seq(Items)
      /\ Len(incoming') = Len(incoming) - 1
      /\ \A i \in 1 .. Len(incoming') : incoming'[i] = incoming[i + 1]
  BY <1>1, HeadTailProperties
<1>3. Len(incoming) \in Nat /\ Len(incoming) # 0
  BY <1>1, LenProperties, EmptySeq
<1>4. 1 \in 1 .. Len(incoming) /\ \A i \in 1 .. Len(incoming') : i + 1 \in 1 .. Len(incoming)
  BY <1>2, <1>3
<1>5. \A i \in 1 .. Len(incoming) : incoming[i] \in Items
  BY <1>1, ElementOfSeq, Zenon
<1>6. \A i \in 1 .. Len(incoming) :
        /\ incoming[i].session_id \in Speakers
        /\ incoming[i].place \in 1 .. Len(spoken[incoming[i].session_id])
  BY <1>5, Zenon DEF DownlinkInv, Arrivals
<1>7. Len(incoming') <= VoiceCapacity
  BY <1>1, <1>2, <1>3, VoiceCapacityAssumption
<1>8. \A i \in 1 .. Len(incoming') :
        /\ incoming'[i].session_id \in Speakers
        /\ incoming'[i].place \in 1 .. Len(spoken[incoming'[i].session_id])
  BY <1>2, <1>4, <1>6, Zenon
<1> QED BY <1>2, <1>4, <1>6, <1>7, <1>8, Zenon

\* A packet that is dropped changes nothing else.
LEMMA DropKeeps == ASSUME DownlinkInv, DropVoice PROVE DownlinkInv'
<1>1. Taken /\ UNCHANGED <<spoken, speakers, writing, rtp, downlink, received>>
  BY DEF DropVoice
<1>2. DownlinkTypeOK'
  BY <1>1, TakenSaid, Zenon DEF DownlinkInv, DownlinkTypeOK
<1>3. Arrivals'
  BY <1>1, TakenSaid, Zenon DEF Arrivals
<1>4. Tracks'
  BY <1>1, Zenon DEF DownlinkInv, Tracks, Owns, InStep
<1>5. Pending' /\ \A r \in Speakers : Ordered(spoken'[r])
  BY <1>1, Zenon DEF DownlinkInv, Pending
<1> QED BY <1>2, <1>3, <1>4, <1>5, Zenon DEF DownlinkInv

\* SpeakerTracks::add: the new track has seen nothing, and nothing that is being
\* written is for it.
LEMMA AddKeeps == ASSUME DownlinkInv, NEW s \in Speakers, Add(s) PROVE DownlinkInv'
<1> DEFINE first == [session_id |-> s, place |-> 0, sequence |-> 0, timestamp |-> 0,
                     marker |-> FALSE]
           t == Len(rtp) + 1
<1>1. /\ spoken \in [Speakers -> Seq(Utterance)] /\ rtp \in Seq(Rtp)
      /\ speakers \in [Speakers -> Track \cup {NoTrack}]
      /\ writing \subseteq Stamped
  BY DEF DownlinkInv, DownlinkTypeOK
<1>2. 0 \in 0 .. RtpSeqMod - 1 /\ 0 \in 0 .. RtpTsMod - 1
  BY HalfRange
<1>3. first \in Rtp
  BY <1>2, Zenon DEF Rtp
<1>4. DefaultClock \in MediaClock
  BY <1>2, Zenon DEF DefaultClock, MediaClock
<1>5. rtp' = Append(rtp, first) /\ UNCHANGED <<spoken, incoming, writing, downlink, received>>
  BY Zenon DEF Add
<1>6. /\ rtp' \in Seq(Rtp) /\ Len(rtp') = t /\ rtp'[t] = first /\ Len(rtp) \in Nat
      /\ \A i \in 1 .. Len(rtp) : rtp'[i] = rtp[i]
  BY <1>1, <1>3, <1>5, AppendProperties, LenProperties
<1>7. speakers' = [speakers EXCEPT ![s] = [track |-> t, clock |-> DefaultClock]]
  BY <1>6, Zenon DEF Add
<1>8. /\ t \in Nat /\ t \in 1 .. Len(rtp') /\ t \notin 1 .. Len(rtp)
      /\ \A i \in 1 .. Len(rtp) : i \in 1 .. Len(rtp')
  BY <1>6
<1>9. [track |-> t, clock |-> DefaultClock] \in Track
  BY <1>4, <1>8 DEF Track
<1>10. speakers' \in [Speakers -> Track \cup {NoTrack}]
  BY <1>1, <1>7, <1>9, Zenon
<1>11. DownlinkTypeOK'
  BY <1>5, <1>6, <1>10, Zenon DEF DownlinkInv, DownlinkTypeOK
<1>12. speakers'[s].track = t /\ speakers'[s].clock = DefaultClock
       /\ \A r \in Speakers : r # s => speakers'[r] = speakers[r]
  BY <1>1, <1>7
<1> HIDE DEF first, t
<1>13. \A w \in writing : w.track \in 1 .. Len(rtp)
  BY Zenon DEF DownlinkInv, Pending
<1>14. Pending'
  <2> SUFFICES ASSUME NEW w \in writing
               PROVE  /\ w.track \in 1 .. Len(rtp') /\ w.session_id = rtp'[w.track].session_id
                      /\ Succeeds(spoken'[w.session_id], w, rtp'[w.track])
    BY <1>5, Zenon DEF DownlinkInv, Pending
  <2>1. /\ w.track \in 1 .. Len(rtp) /\ w.session_id = rtp[w.track].session_id
        /\ Succeeds(spoken[w.session_id], w, rtp[w.track])
    BY Zenon DEF DownlinkInv, Pending
  <2>2. rtp'[w.track] = rtp[w.track] /\ w.track \in 1 .. Len(rtp')
    BY <1>6, <1>8, <2>1, Zenon
  <2> QED BY <1>5, <2>1, <2>2, Zenon
<1>15. ASSUME NEW r \in Speakers, speakers'[r] # NoTrack
       PROVE  Owns(r)' /\ (downlink' => InStep(r)')
  <2>1. CASE r = s
    <3>1. /\ speakers'[r].track = t /\ speakers'[r].clock = DefaultClock
          /\ rtp'[t].session_id = s /\ Agree(DefaultClock, rtp'[t])
      <4>1. Agree(DefaultClock, first)
        BY DEF Agree, DefaultClock, first
      <4>2. speakers'[r].track = t /\ speakers'[r].clock = DefaultClock /\ rtp'[t] = first
        BY <1>6, <1>12, <2>1
      <4>3. first.session_id = s
        BY DEF first
      <4> QED BY <4>1, <4>2, <4>3, Zenon
    <3>2. Holds(spoken'[s], DefaultClock)
      <4>1. spoken[s] \in Seq(Utterance)
        BY <1>1
      <4>2. Len(spoken[s]) \in Nat
        BY <4>1, LenProperties
      <4> QED BY <1>5, <4>2 DEF Holds, DefaultClock
    <3>3. Owns(r)'
      BY <1>8, <2>1, <3>1, <3>2, Zenon DEF Owns
    <3>4. \A w \in writing' : w.track # t
      BY <1>5, <1>8, <1>13
    <3> QED BY <3>1, <3>3, <3>4, Zenon DEF InStep
  <2>2. CASE r # s
    <3>1. speakers'[r] = speakers[r] /\ Owns(r) /\ (downlink => InStep(r))
      BY <1>12, <1>15, <2>2, Zenon DEF DownlinkInv, Tracks
    <3>2. /\ speakers[r].track \in 1 .. Len(rtp) /\ speakers[r].track \in 1 .. Len(rtp')
          /\ rtp'[speakers[r].track] = rtp[speakers[r].track]
      BY <1>6, <1>8, <3>1, Zenon DEF Owns
    <3>3. Owns(r)'
      BY <1>5, <3>1, <3>2, Zenon DEF Owns
    <3> QED BY <1>5, <3>1, <3>2, <3>3, Zenon DEF InStep
  <2> QED BY <2>1, <2>2
<1>16. Arrivals' /\ \A r \in Speakers : Ordered(spoken'[r])
  BY <1>5, Zenon DEF DownlinkInv, Arrivals
<1> QED BY <1>11, <1>14, <1>15, <1>16, Zenon DEF DownlinkInv, Tracks

\* SpeakerTracks::remove: what is being written keeps its track.
LEMMA RemoveKeeps == ASSUME DownlinkInv, NEW s \in Speakers, Remove(s) PROVE DownlinkInv'
<1>1. /\ speakers' = [speakers EXCEPT ![s] = NoTrack]
      /\ UNCHANGED <<spoken, incoming, writing, rtp, downlink, received>>
  BY DEF Remove
<1>2. speakers \in [Speakers -> Track \cup {NoTrack}]
  BY DEF DownlinkInv, DownlinkTypeOK
<1>3. speakers' \in [Speakers -> Track \cup {NoTrack}]
  BY <1>1, <1>2
<1>4. \A r \in Speakers : speakers'[r] # NoTrack => speakers'[r] = speakers[r]
  BY <1>1, <1>2
<1>5. DownlinkTypeOK'
  BY <1>1, <1>3 DEF DownlinkInv, DownlinkTypeOK
<1>6. Tracks'
  <2> SUFFICES ASSUME NEW r \in Speakers, speakers'[r] # NoTrack
               PROVE  Owns(r)' /\ (downlink' => InStep(r)')
    BY DEF Tracks
  <2>1. speakers'[r] = speakers[r] /\ Owns(r) /\ (downlink => InStep(r))
    BY <1>4, Zenon DEF DownlinkInv, Tracks
  <2> QED BY <1>1, <2>1, Zenon DEF Owns, InStep
<1>7. Arrivals' /\ Pending' /\ \A r \in Speakers : Ordered(spoken'[r])
  BY <1>1, Zenon DEF DownlinkInv, Arrivals, Pending
<1> QED BY <1>5, <1>6, <1>7, Zenon DEF DownlinkInv

\* SpeakerTracks::write with an empty payload: the clock is ended, its numbers
\* stay.
LEMMA MarkEndKeeps == ASSUME DownlinkInv, MarkEnd PROVE DownlinkInv'
<1> DEFINE s == Head(incoming).session_id
<1>1. /\ Taken /\ speakers[s] # NoTrack
      /\ speakers' = [speakers EXCEPT ![s].clock.ended = TRUE]
      /\ UNCHANGED <<spoken, writing, rtp, downlink, received>>
  BY DEF MarkEnd
<1>2. s \in Speakers
  BY <1>1, TakenSaid
<1>3. speakers \in [Speakers -> Track \cup {NoTrack}] /\ speakers[s] \in Track
  BY <1>1, <1>2 DEF DownlinkInv, DownlinkTypeOK
<1> HIDE DEF s
<1>4. PICK media : media = [speakers[s].clock EXCEPT !.ended = TRUE]
  BY Zenon
<1>5. PICK mine : mine = [speakers[s] EXCEPT !.clock = media]
  BY Zenon
<1>6. speakers' = [speakers EXCEPT ![s] = mine]
  BY <1>1, <1>4, <1>5
<1>7. speakers[s].clock \in MediaClock
  BY <1>3 DEF Track
<1>8. /\ media \in MediaClock /\ media.heard = speakers[s].clock.heard
      /\ media.last_frame = speakers[s].clock.last_frame
      /\ media.samples = speakers[s].clock.samples
      /\ media.sequence = speakers[s].clock.sequence
      /\ media.timestamp = speakers[s].clock.timestamp
  BY <1>4, <1>7, Zenon DEF MediaClock
<1>9. mine \in Track /\ mine.track = speakers[s].track /\ mine.clock = media
  BY <1>3, <1>5, <1>8 DEF Track
<1>10. speakers' \in [Speakers -> Track \cup {NoTrack}]
  BY <1>3, <1>6, <1>9, Zenon
<1>11. speakers'[s] = mine /\ \A r \in Speakers : r # s => speakers'[r] = speakers[r]
  BY <1>2, <1>3, <1>6
<1>12. DownlinkTypeOK'
  BY <1>1, <1>10, TakenSaid, Zenon DEF DownlinkInv, DownlinkTypeOK
<1>13. Arrivals'
  BY <1>1, TakenSaid DEF Arrivals
<1>14. Tracks'
  <2> SUFFICES ASSUME NEW r \in Speakers, speakers'[r] # NoTrack
               PROVE  Owns(r)' /\ (downlink' => InStep(r)')
    BY DEF Tracks
  <2>1. CASE r # s
    <3>1. speakers'[r] = speakers[r] /\ Owns(r) /\ (downlink => InStep(r))
      BY <1>11, <2>1, Zenon DEF DownlinkInv, Tracks
    <3> QED BY <1>1, <3>1, Zenon DEF Owns, InStep
  <2>2. CASE r = s
    <3>1. Owns(s) /\ (downlink => InStep(s)) /\ speakers'[s].track = speakers[s].track
          /\ speakers'[s].clock = media
      BY <1>1, <1>2, <1>9, <1>11, Zenon DEF DownlinkInv, Tracks
    <3>2. \A words : Holds(words, speakers[s].clock) => Holds(words, media)
      BY <1>8, Zenon DEF Holds
    <3>3. \A p : Agree(speakers[s].clock, p) => Agree(media, p)
      BY <1>8, Zenon DEF Agree
    <3>4. Owns(r)'
      BY <1>1, <2>2, <3>1, <3>2, Zenon DEF Owns
    <3>5. downlink' => InStep(r)'
      BY <1>1, <2>2, <3>1, <3>3, Zenon DEF InStep
    <3> QED BY <3>4, <3>5
  <2> QED BY <2>1, <2>2
<1>15. Pending' /\ \A r \in Speakers : Ordered(spoken'[r])
  BY <1>1 DEF DownlinkInv, Pending
<1> QED BY <1>12, <1>13, <1>14, <1>15 DEF DownlinkInv

\* SpeakerTracks::write up to the release of the lock: the packet that will be
\* written follows the last one of its track, and the clock is its clock.
LEMMA StampKeeps == ASSUME DownlinkInv, NEW e \in Elapsed, Stamp(e) PROVE DownlinkInv'
<1> DEFINE s == Head(incoming).session_id
           n == Head(incoming).place
           old == speakers[s].clock
<1>1. /\ Taken /\ speakers[s] # NoTrack /\ downlink /\ writing = {}
      /\ spoken[s][n].talk = spoken[s][Len(spoken[s])].talk
      /\ old.heard # 0 /\ spoken[s][old.heard].talk # spoken[s][Len(spoken[s])].talk
           => e > PauseLimit
      /\ InOrder(old, spoken[s][n].seq_num, e)
      /\ speakers' = [speakers EXCEPT ![s].clock = Advanced(old, s, n, e)]
      /\ writing' = {[session_id |-> s, place |-> n, sequence |-> Advanced(old, s, n, e).sequence,
                      timestamp |-> Advanced(old, s, n, e).timestamp,
                      marker |-> NewTalk(old, e), track |-> speakers[s].track]}
      /\ UNCHANGED <<spoken, rtp, downlink, received>>
  BY Zenon DEF Stamp, Taken, Recent, LastSpoken, Advanced
<1>2. s \in Speakers /\ n \in 1 .. Len(spoken[s])
  BY <1>1, TakenSaid, Zenon
<1>3. /\ speakers \in [Speakers -> Track \cup {NoTrack}] /\ speakers[s] \in Track
      /\ spoken[s] \in Seq(Utterance) /\ rtp \in Seq(Rtp) /\ Ordered(spoken[s])
  BY <1>1, <1>2, Zenon DEF DownlinkInv, DownlinkTypeOK
<1> HIDE DEF s, n
<1>4. old \in MediaClock /\ speakers[s].track \in Nat
  BY <1>3 DEF Track
<1>5. /\ spoken[s][n].seq_num \in Nat /\ spoken[s][n] \in Utterance /\ n \in Nat
      /\ Lasts(spoken[s], n) \in Nat
  <2>1. spoken[s][n].seq_num \in Nat /\ spoken[s][n] \in Utterance /\ Framed(Lasts(spoken[s], n))
    BY <1>2, <1>3, UtteranceLasts, Zenon
  <2>2. n \in Nat
    BY <1>2, <1>3, LenProperties
  <2> QED BY <2>1, <2>2, FramedParts, Zenon
<1>6. Owns(s) /\ InStep(s)
  BY <1>1, <1>2 DEF DownlinkInv, Tracks
<1>7. /\ speakers[s].track \in 1 .. Len(rtp) /\ rtp[speakers[s].track].session_id = s
      /\ Holds(spoken[s], old)
  BY <1>6, Zenon DEF Owns
<1>8. Agree(old, rtp[speakers[s].track])
  BY <1>1, <1>6 DEF InStep
<1>9. rtp[speakers[s].track] \in Rtp
  BY <1>3, <1>7, ElementOfSeq, Zenon
<1>10. /\ StampTime(old, spoken[s][n].seq_num, e) \in 0 .. RtpTsMod - 1
       /\ (old.sequence + 1) % RtpSeqMod \in 0 .. RtpSeqMod - 1
       /\ NewTalk(old, e) \in BOOLEAN
  <2>1. /\ old.timestamp \in Int /\ old.sequence \in Int /\ old.last_frame \in Int
        /\ old.samples \in Int /\ old.heard \in Nat /\ old.ended \in BOOLEAN
    BY <1>4, HalfRange DEF MediaClock
  <2>2. e \in Int
    BY ElapsedAssumption
  <2>3. Pause(old, e) \in Int
    BY <2>1, <2>2, HalfRange DEF Pause
  <2>4. (spoken[s][n].seq_num - old.last_frame) * FrameSize \in Int
    BY <1>5, <2>1 DEF FrameSize
  <2>5. \A d \in Int : (old.timestamp + d) % RtpTsMod \in 0 .. RtpTsMod - 1
    BY <2>1, HalfRange
  <2>6. StampTime(old, spoken[s][n].seq_num, e) \in 0 .. RtpTsMod - 1
    BY <2>3, <2>4, <2>5 DEF StampTime
  <2>7. (old.sequence + 1) % RtpSeqMod \in 0 .. RtpSeqMod - 1
    BY <2>1, HalfRange
  <2> QED BY <2>1, <2>6, <2>7, Zenon DEF NewTalk
<1>11. PICK media : media = Advanced(old, s, n, e)
  OBVIOUS
<1>12. /\ media.sequence = (old.sequence + 1) % RtpSeqMod
       /\ media.timestamp = StampTime(old, spoken[s][n].seq_num, e) /\ media.heard = n
       /\ media.last_frame = spoken[s][n].seq_num /\ media.samples = Lasts(spoken[s], n)
  BY <1>11, Zenon DEF Advanced, Duration, Lasts
<1>13. media \in MediaClock
  BY <1>5, <1>10, <1>11, Zenon DEF Advanced, Duration, Lasts, MediaClock, Utterance
<1>14. PICK mine : mine = [speakers[s] EXCEPT !.clock = media]
  BY Zenon
<1>15. mine \in Track /\ mine.track = speakers[s].track /\ mine.clock = media
  BY <1>3, <1>13, <1>14 DEF Track
<1>16. speakers' = [speakers EXCEPT ![s] = mine]
  BY <1>1, <1>11, <1>14
<1>17. speakers' \in [Speakers -> Track \cup {NoTrack}]
  BY <1>3, <1>15, <1>16, Zenon
<1>18. speakers'[s] = mine /\ \A r \in Speakers : r # s => speakers'[r] = speakers[r]
  BY <1>2, <1>3, <1>16
<1>19. PICK w : w = [session_id |-> s, place |-> n, sequence |-> media.sequence,
                     timestamp |-> media.timestamp,
                     marker |-> NewTalk(old, e), track |-> speakers[s].track]
  BY Zenon
<1>20. /\ w.session_id = s /\ w.place = n /\ w.sequence = media.sequence
       /\ w.timestamp = media.timestamp /\ w.marker = NewTalk(old, e)
       /\ w.track = speakers[s].track
  BY <1>19, Zenon
<1>21. writing' = {w}
  BY <1>1, <1>11, <1>19
<1>22. w \in Stamped
  <2>1. media.sequence \in 0 .. RtpSeqMod - 1 /\ media.timestamp \in 0 .. RtpTsMod - 1
    BY <1>10, <1>12, Zenon
  <2> QED BY <1>2, <1>4, <1>5, <1>10, <1>19, <2>1, Zenon DEF Stamped
<1>23. Succeeds(spoken[s], w, rtp[speakers[s].track])
  <2>1. PICK words, before, p, k :
          words = spoken[s] /\ before = old /\ p = rtp[speakers[s].track] /\ k = n
    OBVIOUS
  <2>2. /\ words \in Seq(Utterance) /\ Ordered(words) /\ before \in MediaClock
        /\ Holds(words, before) /\ p \in Rtp /\ Agree(before, p) /\ k \in 1 .. Len(words)
    BY <1>2, <1>3, <1>4, <1>7, <1>8, <1>9, <2>1, Zenon
  <2>3. /\ words[k].talk = words[Len(words)].talk
        /\ before.heard # 0 /\ words[before.heard].talk # words[Len(words)].talk
             => e > PauseLimit
        /\ InOrder(before, words[k].seq_num, e)
    BY <1>1, <2>1
  <2>4. /\ w.place = k /\ w.sequence = (before.sequence + 1) % RtpSeqMod
        /\ w.timestamp = StampTime(before, words[k].seq_num, e)
        /\ w.marker = NewTalk(before, e)
    BY <1>12, <1>20, <2>1, Zenon
  <2>5. Succeeds(words, w, p)
    BY <2>2, <2>3, <2>4, StampSucceeds, Zenon
  <2> QED BY <2>1, <2>5, Zenon
<1>24. DownlinkTypeOK'
  <2>1. writing' \subseteq Stamped
    BY <1>21, <1>22
  <2> QED BY <1>1, <1>17, <2>1, TakenSaid, Zenon DEF DownlinkInv, DownlinkTypeOK
<1>25. Arrivals'
  BY <1>1, TakenSaid, Zenon DEF Arrivals
<1>26. Pending'
  BY <1>1, <1>7, <1>20, <1>21, <1>23, Zenon DEF Pending
<1>27. Tracks'
  <2> SUFFICES ASSUME NEW r \in Speakers, speakers'[r] # NoTrack
               PROVE  Owns(r)' /\ InStep(r)'
    BY DEF Tracks
  <2>1. CASE r = s
    <3>1. speakers'[r].track = w.track /\ speakers'[r].clock = media
      BY <1>15, <1>18, <1>20, <2>1, Zenon
    <3>2. Agree(media, w)
      BY <1>12, <1>20, Zenon DEF Agree
    <3>3. n \in 0 .. Len(spoken[s]) /\ n # 0
      BY <1>2, <1>5
    <3>4. Holds(spoken[s], media)
      BY <1>12, <3>3, Zenon DEF Holds
    <3>5. Owns(r)'
      BY <1>1, <1>7, <1>20, <2>1, <3>1, <3>4 DEF Owns
    <3>6. InStep(r)'
      BY <1>21, <3>1, <3>2, Zenon DEF InStep
    <3> QED BY <3>5, <3>6
  <2>2. CASE r # s
    <3>1. speakers'[r] = speakers[r] /\ Owns(r) /\ InStep(r)
      BY <1>1, <1>18, <2>2, Zenon DEF DownlinkInv, Tracks
    <3>2. speakers[r].track # speakers[s].track
      BY <1>7, <2>2, <3>1, Zenon DEF Owns
    <3>3. Owns(r)'
      BY <1>1, <3>1, Zenon DEF Owns
    <3>4. Agree(speakers[r].clock, rtp[speakers[r].track])
      BY <1>1, <3>1 DEF InStep
    <3>5. InStep(r)'
      BY <1>1, <1>20, <1>21, <3>1, <3>2, <3>4, Zenon DEF InStep
    <3> QED BY <3>3, <3>5
  <2> QED BY <2>1, <2>2
<1>28. \A r \in Speakers : Ordered(spoken'[r])
  BY <1>1, Zenon DEF DownlinkInv
<1> QED BY <1>24, <1>25, <1>26, <1>27, <1>28 DEF DownlinkInv

\* What is written is what was stamped.
LEMMA RtpFields ==
  \A w : /\ RtpOf(w).session_id = w.session_id /\ RtpOf(w).place = w.place
        /\ RtpOf(w).sequence = w.sequence /\ RtpOf(w).timestamp = w.timestamp
        /\ RtpOf(w).marker = w.marker
BY Zenon DEF RtpOf

\* write_rtp puts the packet on the track it was stamped for.
LEMMA WriteTypes ==
  ASSUME DownlinkInv, NEW w \in writing, rtp' = [rtp EXCEPT ![w.track] = RtpOf(w)]
  PROVE  /\ w.track \in 1 .. Len(rtp) /\ RtpOf(w) \in Rtp /\ rtp' \in Seq(Rtp)
         /\ Len(rtp') = Len(rtp) /\ rtp'[w.track] = RtpOf(w)
         /\ \A i \in 1 .. Len(rtp) : i # w.track => rtp'[i] = rtp[i]
<1>1. w \in Stamped /\ rtp \in Seq(Rtp) /\ w.track \in 1 .. Len(rtp)
  BY Zenon DEF DownlinkInv, DownlinkTypeOK, Pending
<1>2. RtpOf(w) \in Rtp
  BY <1>1, Zenon DEF Stamped, RtpOf, Rtp
<1> HIDE DEF Rtp
<1>3. rtp' \in Seq(Rtp) /\ Len(rtp') = Len(rtp) /\ rtp'[w.track] = RtpOf(w)
  BY <1>1, <1>2, ExceptSeq
<1>4. \A i \in 1 .. Len(rtp) : i # w.track => rtp'[i] = rtp[i]
  BY <1>1, ExceptSeq
<1> QED BY <1>1, <1>2, <1>3, <1>4, Zenon

\* SpeakerTracks::write after the release of the lock.
LEMMA WriteKeeps == ASSUME DownlinkInv, WriteRtp PROVE DownlinkInv'
<1>1. PICK w \in writing : rtp' = [rtp EXCEPT ![w.track] = RtpOf(w)]
  BY Zenon DEF WriteRtp
<1>2. writing' = {} /\ UNCHANGED <<spoken, incoming, speakers, downlink, received>>
  BY DEF WriteRtp
<1>3. /\ w.track \in 1 .. Len(rtp) /\ rtp' \in Seq(Rtp) /\ Len(rtp') = Len(rtp)
      /\ rtp'[w.track] = RtpOf(w)
      /\ \A i \in 1 .. Len(rtp) : i # w.track => rtp'[i] = rtp[i]
  BY <1>1, WriteTypes, Zenon
<1>4. rtp'[w.track].session_id = rtp[w.track].session_id
  BY <1>3, RtpFields, ZenonT(40) DEF DownlinkInv, Pending
<1>5. \A i \in 1 .. Len(rtp) : rtp'[i].session_id = rtp[i].session_id
  BY <1>3, <1>4, Zenon
<1>6. DownlinkTypeOK'
  BY <1>2, <1>3, Zenon DEF DownlinkInv, DownlinkTypeOK
<1>7. Tracks'
  <2> SUFFICES ASSUME NEW r \in Speakers, speakers[r] # NoTrack
               PROVE  Owns(r)' /\ (downlink' => InStep(r)')
    BY <1>2 DEF Tracks
  <2>1. Owns(r) /\ (downlink => InStep(r))
    BY Zenon DEF DownlinkInv, Tracks
  <2>2. Owns(r)'
    BY <1>2, <1>3, <1>5, <2>1, Zenon DEF Owns
  <2>3. CASE speakers[r].track = w.track
    <3>1. downlink => Agree(speakers[r].clock, w)
      BY <1>1, <2>1, <2>3, Zenon DEF InStep
    <3>2. downlink => Agree(speakers[r].clock, rtp'[speakers[r].track])
      <4>1. rtp'[speakers[r].track] = RtpOf(w)
        BY <1>3, <2>3, Zenon
      <4>2. downlink => Agree(speakers[r].clock, RtpOf(w))
        BY <3>1, RtpFields, Zenon DEF Agree
      <4> QED BY <4>1, <4>2, Zenon
    <3> QED BY <1>2, <2>2, <3>2, Zenon DEF InStep
  <2>4. CASE speakers[r].track # w.track
    <3>1. rtp'[speakers[r].track] = rtp[speakers[r].track]
      BY <1>3, <2>1, <2>4, Zenon DEF Owns
    <3>2. \A v \in writing : v.track # speakers[r].track
      BY <1>1, <2>4, Zenon DEF DownlinkInv, Pending
    <3>3. downlink => Agree(speakers[r].clock, rtp[speakers[r].track])
      BY <1>1, <2>1, <2>4, <3>2, Zenon DEF InStep
    <3> QED BY <1>2, <2>2, <3>1, <3>3, Zenon DEF InStep
  <2> QED BY <2>3, <2>4, Zenon
<1>8. Arrivals' /\ Pending' /\ \A r \in Speakers : Ordered(spoken'[r])
  BY <1>2, Zenon DEF DownlinkInv, Arrivals, Pending
<1> QED BY <1>6, <1>7, <1>8, Zenon DEF DownlinkInv

\* The end of the downlink task, and AudioBridge::shutdown, which may drop a
\* packet that was stamped and not yet written.
LEMMA StopKeeps ==
  ASSUME DownlinkInv, downlink' = FALSE, writing' = {},
         incoming' = incoming \/ incoming' = <<>>,
         UNCHANGED <<spoken, speakers, rtp, received>>
  PROVE  DownlinkInv'
<1>1. DownlinkTypeOK'
  <2>1. /\ incoming' \in Seq([session_id : Speakers, place : Nat])
        /\ Len(incoming') <= VoiceCapacity
    <3>1. CASE incoming' = incoming
      BY <3>1 DEF DownlinkInv, DownlinkTypeOK
    <3>2. CASE incoming' = <<>>
      BY <3>2, VoiceCapacityAssumption
    <3> QED BY <3>1, <3>2
  <2>2. downlink' \in BOOLEAN /\ writing' \subseteq Stamped
    BY Zenon
  <2> QED BY <2>1, <2>2 DEF DownlinkInv, DownlinkTypeOK
<1>2. Arrivals'
  BY DEF DownlinkInv, Arrivals
<1>3. Tracks'
  BY Zenon DEF DownlinkInv, Tracks, Owns
<1>4. Pending' /\ \A r \in Speakers : Ordered(spoken'[r])
  BY Zenon DEF DownlinkInv, Pending
<1> QED BY <1>1, <1>2, <1>3, <1>4 DEF DownlinkInv

\* Nothing of the downlink changes with the uplink.
LEMMA RestKeeps == ASSUME DownlinkInv, UNCHANGED downlinkVars PROVE DownlinkInv'
<1>1. UNCHANGED <<spoken, incoming, speakers, writing, rtp, downlink, received>>
  BY DEF downlinkVars
<1>2. DownlinkTypeOK'
  BY <1>1, Zenon DEF DownlinkInv, DownlinkTypeOK
<1>3. Tracks'
  BY <1>1, Zenon DEF DownlinkInv, Tracks, Owns, InStep
<1>4. Arrivals' /\ Pending' /\ \A r \in Speakers : Ordered(spoken'[r])
  BY <1>1, Zenon DEF DownlinkInv, Arrivals, Pending
<1> QED BY <1>2, <1>3, <1>4, Zenon DEF DownlinkInv

\* Every step of the bridge preserves the invariant of the downlink.
LEMMA DownlinkPreserved == ASSUME DownlinkInv, [Next]_vars PROVE DownlinkInv'
<1>1. CASE UplinkNext /\ UNCHANGED downlinkVars
  BY <1>1, RestKeeps
<1>2. CASE DownlinkNext
  BY <1>2, TalkKeeps, AddKeeps, RemoveKeeps, StampKeeps, DropKeeps, MarkEndKeeps, WriteKeeps
     DEF DownlinkNext
<1>3. CASE VoiceArrives
  BY <1>3, ReceiveKeeps DEF VoiceArrives
<1>4. CASE UplinkStops
  <2>1. UNCHANGED downlinkVars
    BY <1>4 DEF UplinkStops
  <2> QED BY <2>1, RestKeeps
<1>5. CASE DownlinkStops
  <2>1. /\ downlink' = FALSE /\ writing' = {} /\ incoming' = incoming
        /\ UNCHANGED <<spoken, speakers, rtp, received>>
    BY <1>5 DEF DownlinkStops
  <2> QED BY <2>1, StopKeeps, Zenon
<1>6. CASE Shutdown
  <2>1. /\ downlink' = FALSE /\ writing' = {} /\ incoming' = <<>>
        /\ UNCHANGED <<spoken, speakers, rtp, received>>
    BY <1>6 DEF Shutdown
  <2> QED BY <2>1, StopKeeps, Zenon
<1>7. CASE UNCHANGED vars
  <2>1. UNCHANGED downlinkVars
    BY <1>7 DEF vars
  <2> QED BY <2>1, RestKeeps
<1> QED BY <1>1, <1>2, <1>3, <1>4, <1>5, <1>6, <1>7 DEF Next

\* SpeakerTracks::new: no speakers, no tracks.
LEMMA DownlinkInitial == Init => DownlinkInv
<1> SUFFICES ASSUME DownlinkInit
             PROVE  DownlinkInv
  BY DEF Init
<1>1. /\ spoken = [s \in Speakers |-> <<>>] /\ incoming = <<>>
      /\ speakers = [s \in Speakers |-> NoTrack]
      /\ writing = {} /\ rtp = <<>> /\ downlink \in BOOLEAN /\ received = 0
  BY DEF DownlinkInit
<1>2. DownlinkTypeOK
  <2>1. spoken \in [Speakers -> Seq(Utterance)] /\ speakers \in [Speakers -> Track \cup {NoTrack}]
    BY <1>1
  <2>2. /\ incoming \in Seq([session_id : Speakers, place : Nat]) /\ Len(incoming) <= VoiceCapacity
        /\ writing \subseteq Stamped /\ rtp \in Seq(Rtp) /\ received \in Nat
    BY <1>1, VoiceCapacityAssumption
  <2> QED BY <1>1, <2>1, <2>2 DEF DownlinkTypeOK
<1>3. \A s \in Speakers : Ordered(spoken[s])
  BY <1>1 DEF Ordered
<1>4. Arrivals /\ Tracks /\ Pending
  BY <1>1 DEF Arrivals, Tracks, Pending
<1> QED BY <1>2, <1>3, <1>4 DEF DownlinkInv

\* What a step writes to a track is the packet that was stamped for it.
LEMMA WritesPending ==
  ASSUME DownlinkInv, [Next]_vars, NEW t \in 1 .. Len(rtp), Written(t)
  PROVE  \E w \in writing :
           /\ rtp'[t] = RtpOf(w) /\ rtp[t] \in Rtp
           /\ Succeeds(spoken[rtp[t].session_id], w, rtp[t])
<1>1. ASSUME UNCHANGED rtp
      PROVE  FALSE
  BY <1>1 DEF Written
<1>2. rtp \in Seq(Rtp) /\ rtp[t] \in Rtp
  BY ElementOfSeq DEF DownlinkInv, DownlinkTypeOK
<1>3. ASSUME NEW s \in Speakers, Add(s)
      PROVE  FALSE
  <2>1. rtp' = Append(rtp, [session_id |-> s, place |-> 0, sequence |-> 0,
                            timestamp |-> 0, marker |-> FALSE])
    BY <1>3, Zenon DEF Add
  <2>2. rtp'[t] = rtp[t]
    BY <1>2, <2>1, AppendProperties
  <2> QED BY <2>2 DEF Written
<1>4. WriteRtp
  <2>1. DownlinkNext \/ UNCHANGED rtp
    BY Zenon DEF Next, vars, downlinkVars, VoiceArrives, ReceiveVoice, UplinkStops, DownlinkStops, Shutdown
  <2>2. \/ \E s \in Speakers : Add(s)
        \/ WriteRtp
        \/ UNCHANGED rtp
    BY <2>1, Zenon DEF DownlinkNext, Talk, Remove, Stamp, DropVoice, MarkEnd
  <2> QED BY <1>1, <1>3, <2>2
<1>5. PICK w \in writing : rtp' = [rtp EXCEPT ![w.track] = RtpOf(w)]
  BY <1>4, Zenon DEF WriteRtp
<1>6. /\ rtp'[w.track] = RtpOf(w)
      /\ \A i \in 1 .. Len(rtp) : i # w.track => rtp'[i] = rtp[i]
  BY <1>5, WriteTypes, Zenon
<1>7. t = w.track
  BY <1>6, Zenon DEF Written
<1> QED BY <1>2, <1>5, <1>6, <1>7, Zenon DEF DownlinkInv, Pending

-----------------------------------------------------------------------------
(* The theorems about the downlink.                                        *)

\* DownlinkInv is an invariant.
THEOREM DownlinkInvariance == Spec => []DownlinkInv
<1>1. DownlinkInv /\ [Next]_vars => DownlinkInv'
  BY DownlinkPreserved
<1> QED
  BY <1>1, DownlinkInitial, PTL DEF Spec

\* The downlink's channel never exceeds its capacity, and clocks, tracks and RTP
\* packets keep their types, the counters in the ranges of RTP's fields.
THEOREM DownlinkTyping == Spec => []DownlinkTypeOK
<1>1. DownlinkInv => DownlinkTypeOK
  BY DEF DownlinkInv
<1> QED
  BY <1>1, DownlinkInvariance, PTL

\* MediaClock and SpeakerTracks::write: every packet written to a track has the
\* sequence number after the last one of that track, whoever left or came back
\* between its stamp and its write.
THEOREM TracksInSequence == Spec => TrackInSequence
<1>1. DownlinkInv /\ [Next]_vars =>
        [\A t \in 1 .. Len(rtp) : Written(t) =>
           (rtp'[t].sequence - rtp[t].sequence) % RtpSeqMod \in 1 .. RtpSeqMod \div 2 - 1
        ]_downlinkVars
  <2> SUFFICES ASSUME DownlinkInv, [Next]_vars, NEW t \in 1 .. Len(rtp), Written(t)
               PROVE  (rtp'[t].sequence - rtp[t].sequence) % RtpSeqMod
                        \in 1 .. RtpSeqMod \div 2 - 1
    OBVIOUS
  <2>1. PICK w \in writing : rtp'[t] = RtpOf(w) /\ Succeeds(spoken[rtp[t].session_id], w, rtp[t])
    BY WritesPending, Zenon
  <2>2. (rtp'[t].sequence - rtp[t].sequence) % RtpSeqMod = 1
    <3>1. rtp'[t].sequence = w.sequence
      BY <2>1, RtpFields, Zenon
    <3> QED BY <2>1, <3>1, Zenon DEF Succeeds
  <2>3. 1 \in 1 .. RtpSeqMod \div 2 - 1
    BY RtpAssumption
  <2> QED BY <2>2, <2>3
<1> QED
  BY <1>1, DownlinkInvariance, PTL DEF Spec, TrackInSequence

\* MediaClock::packet: the audio of a track does not overlap, within a talk, over
\* pauses and when a client starts its numbers anew, also where the timestamp
\* wraps.
THEOREM AudioApart == Spec => NoOverlap
<1>1. DownlinkInv /\ [Next]_vars =>
        [\A t \in 1 .. Len(rtp) : Written(t) /\ rtp[t].place # 0 =>
           (rtp'[t].timestamp - rtp[t].timestamp) % RtpTsMod
             \in Duration(rtp[t].session_id, rtp[t].place) .. RtpTsMod \div 2 - 1
        ]_downlinkVars
  <2> SUFFICES ASSUME DownlinkInv, [Next]_vars, NEW t \in 1 .. Len(rtp), Written(t),
                      rtp[t].place # 0
               PROVE  (rtp'[t].timestamp - rtp[t].timestamp) % RtpTsMod
                        \in Duration(rtp[t].session_id, rtp[t].place) .. RtpTsMod \div 2 - 1
    BY Zenon
  <2>1. PICK w \in writing : rtp'[t] = RtpOf(w) /\ Succeeds(spoken[rtp[t].session_id], w, rtp[t])
    BY WritesPending, Zenon
  <2>2. rtp'[t].timestamp = w.timestamp
    BY <2>1, RtpFields, Zenon
  <2>3. (w.timestamp - rtp[t].timestamp) % RtpTsMod
          \in Lasts(spoken[rtp[t].session_id], rtp[t].place) .. RtpTsMod \div 2 - 1
    BY <2>1, Zenon DEF Succeeds
  <2>4. Duration(rtp[t].session_id, rtp[t].place)
          = Lasts(spoken[rtp[t].session_id], rtp[t].place)
    BY DEF Duration, Lasts
  <2> QED BY <2>2, <2>3, <2>4, Zenon
<1> QED
  BY <1>1, DownlinkInvariance, PTL DEF Spec, NoOverlap

\* MediaClock::packet: a packet that does not start a talk is later than the one
\* before and as far from it as it was recorded; a late one is not played.
THEOREM SpacingStays == Spec => SpacingKept
<1> DEFINE Spaced(t) == LET s == rtp[t].session_id
                            m == rtp[t].place
                            n == rtp'[t].place
                        IN /\ m < n /\ m # 0
                           /\ (rtp'[t].timestamp - rtp[t].timestamp) % RtpTsMod
                                = ((spoken[s][n].seq_num - spoken[s][m].seq_num) * FrameSize)
                                    % RtpTsMod
<1>1. DownlinkInv /\ [Next]_vars =>
        [\A t \in 1 .. Len(rtp) : Written(t) /\ ~rtp'[t].marker => Spaced(t)]_downlinkVars
  <2> SUFFICES ASSUME DownlinkInv, [Next]_vars, NEW t \in 1 .. Len(rtp), Written(t),
                      ~rtp'[t].marker
               PROVE  Spaced(t)
    BY Zenon
  <2>1. PICK w \in writing : rtp'[t] = RtpOf(w) /\ Succeeds(spoken[rtp[t].session_id], w, rtp[t])
    BY WritesPending, Zenon
  <2>2. /\ rtp'[t].timestamp = w.timestamp /\ rtp'[t].place = w.place /\ ~w.marker
    BY <2>1, RtpFields, Zenon
  <2> QED BY <2>1, <2>2, Zenon DEF Succeeds
<1> QED
  BY <1>1, DownlinkInvariance, PTL DEF Spec, SpacingKept
=============================================================================
