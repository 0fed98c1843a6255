-------------------------- MODULE TurnStreamProofs --------------------------
(***************************************************************************)
(* Frames of TURN over TCP stay whole, for every number of senders and     *)
(* frames, every payload length and every way in which TCP cuts the bytes. *)
(* FramesIntact speaks of the frames the reader has returned; what makes   *)
(* it inductive is where the others are.  There are offsets at which the   *)
(* frames that are not yet returned start in the bytes still to be read:   *)
(* the first at the reader, each next one a padded length further, and up  *)
(* to the first failed send they fill the stream without a gap.            *)
(***************************************************************************)
EXTENDS TurnStream, SequenceTheorems, TLAPS

\* The bytes still to be read: those on the wire and those the writer holds.
At(i) == IF i <= Len(wire) THEN wire[i] ELSE left[i - Len(wire)]
Total == Len(wire) + Len(left)

\* The last frame whose place in the stream is known.
Last == IF failed THEN whole ELSE Len(begun)

\* off[j] bytes come before frame j; the header of the first may be read.
Cut(off) ==
  /\ off[Len(delivered) + 1] = IF head = <<>> THEN 0 ELSE -4
  /\ \A j \in Len(delivered) + 1 .. Last :
       /\ off[j + 1] = off[j] + Padded(begun[j])
       /\ \A n \in 1 .. Padded(begun[j]) :
            off[j] + n >= 1 => At(off[j] + n) = <<begun[j], n>>
  /\ \A j \in Len(delivered) + 1 .. whole : off[j + 1] <= Len(wire)
  /\ ~failed => off[Len(begun) + 1] = Total

\* The reader is among the frames whose places are known.
Inside == ~ended /\ (failed => Len(delivered) < whole)

Aligned ==
  Inside => /\ head # <<>> => Len(delivered) < Last /\ head = <<begun[Len(delivered) + 1]>>
            /\ \E off \in [Nat -> Int] : Cut(off)

Locking ==
  /\ writer = NoSender => left = <<>>
  /\ ~failed => whole = (IF writer = NoSender THEN Len(begun) ELSE Len(begun) - 1)
  /\ whole <= Len(begun)

Returned ==
  /\ \A i \in 1 .. Len(delivered) : i <= Last => delivered[i] = begun[i]
  /\ ~failed => Len(delivered) <= Len(begun)

IInv == TypeOK /\ Locking /\ Returned /\ Aligned

-----------------------------------------------------------------------------
(* Lengths and bytes.                                                      *)

\* Rounding up to a multiple of four, and what is missing to it.
LEMMA RoundUp ==
  \A n \in Nat : /\ ((n + 3) \div 4) * 4 \in Nat /\ ((n + 3) \div 4) * 4 >= n
                 /\ n + ((4 - (n % 4)) % 4) = ((n + 3) \div 4) * 4
<1>1. \A n \in Nat : n % 4 \in 0 .. 3 /\ n = 4 * (n \div 4) + (n % 4) /\ n \div 4 \in Nat
  OBVIOUS
<1>2. \A q \in Nat : \A r \in 0 .. 3 : (4 * q + r + 3) \div 4 = IF r = 0 THEN q ELSE q + 1
  OBVIOUS
<1>3. \A r \in 0 .. 3 : (4 - r) % 4 = IF r = 0 THEN 0 ELSE 4 - r
  OBVIOUS
<1> TAKE n \in Nat
<1>4. PICK q \in Nat, r \in 0 .. 3 : n % 4 = r /\ n = 4 * q + r
  BY <1>1
<1>5. (n + 3) \div 4 = IF r = 0 THEN q ELSE q + 1
  BY <1>2, <1>4
<1>6. (4 - (n % 4)) % 4 = IF r = 0 THEN 0 ELSE 4 - r
  BY <1>3, <1>4
<1> QED
  BY <1>4, <1>5, <1>6

\* send pads ChannelData to the length the reader takes it to have, and a
\* frame is at least its header.
LEMMA FrameLength ==
  ASSUME NEW f \in Frames
  PROVE  /\ Length(f) \in Nat /\ Padded(f) \in Nat /\ Length(f) + Padding(f) = Padded(f)
         /\ Length(f) >= 4 /\ Padded(f) >= Length(f)
<1>1. f.payload \in Nat /\ f.channel \in BOOLEAN
  BY DEF Frames
<1>2. Length(f) \in Nat /\ Length(f) >= 4
  BY <1>1 DEF Length
<1>3. /\ ((Length(f) + 3) \div 4) * 4 \in Nat /\ ((Length(f) + 3) \div 4) * 4 >= Length(f)
      /\ Length(f) + ((4 - (Length(f) % 4)) % 4) = ((Length(f) + 3) \div 4) * 4
  BY <1>2, RoundUp
<1>4. CASE f.channel
  BY <1>2, <1>3, <1>4 DEF Padded, Padding
<1>5. CASE ~f.channel
  BY <1>2, <1>5 DEF Padded, Padding
<1> QED
  BY <1>1, <1>4, <1>5

\* The bytes of a frame.
LEMMA FrameBytes ==
  ASSUME NEW f \in Frames
  PROVE  /\ Bytes(f) \in Seq(Octets) /\ Len(Bytes(f)) = Padded(f)
         /\ \A n \in 1 .. Padded(f) : Bytes(f)[n] = <<f, n>>
<1>1. Padded(f) \in Nat /\ Length(f) + Padding(f) = Padded(f)
  BY FrameLength
<1>2. Bytes(f) = [n \in 1 .. Padded(f) |-> <<f, n>>]
  BY <1>1 DEF Bytes
<1>3. \A n \in 1 .. Padded(f) : <<f, n>> \in Octets
  BY <1>1 DEF Octets
<1> QED
  BY <1>1, <1>2, <1>3

\* The lengths of the sequences of a state are numbers.
LEMMA Lengths ==
  ASSUME TypeOK
  PROVE  /\ Len(wire) \in Nat /\ Len(left) \in Nat /\ Len(begun) \in Nat
         /\ Len(delivered) \in Nat /\ whole \in Nat /\ Total \in Nat
         /\ \A i \in 1 .. Len(begun) : begun[i] \in Frames
<1>1. /\ Len(wire) \in Nat /\ Len(left) \in Nat /\ Len(begun) \in Nat
      /\ Len(delivered) \in Nat /\ whole \in Nat
  BY LenProperties DEF TypeOK
<1>2. \A i \in 1 .. Len(begun) : begun[i] \in Frames
  BY ElementOfSeq DEF TypeOK
<1> QED
  BY <1>1, <1>2 DEF Total

\* A piece moves from the writer to the wire: the stream is the same.
LEMMA PieceMoved ==
  ASSUME TypeOK, NEW n \in 1 .. Len(left),
         wire' = wire \o SubSeq(left, 1, n), left' = SubSeq(left, n + 1, Len(left))
  PROVE  /\ wire' \in Seq(Octets) /\ left' \in Seq(Octets)
         /\ Len(wire') = Len(wire) + n /\ Total' = Total
         /\ \A i \in 1 .. Total : At(i)' = At(i)
<1> USE DEF TypeOK
<1>1. Len(wire) \in Nat /\ Len(left) \in Nat /\ wire \in Seq(Octets) /\ left \in Seq(Octets)
  BY Lengths
<1>2. /\ SubSeq(left, 1, n) \in Seq(Octets) /\ Len(SubSeq(left, 1, n)) = n
      /\ \A i \in 1 .. n : SubSeq(left, 1, n)[i] = left[i]
  <2>1. \A i \in 1 .. n : left[i] \in Octets
    BY <1>1, ElementOfSeq
  <2> QED
    BY <1>1, <2>1, SubSeqProperties
<1>3. /\ left' \in Seq(Octets) /\ Len(left') = Len(left) - n
      /\ \A i \in 1 .. Len(left) - n : left'[i] = left[n + i]
  <2>1. \A i \in n + 1 .. Len(left) : left[i] \in Octets
    BY <1>1, ElementOfSeq
  <2>2. /\ Len(left') = Len(left) - n
        /\ \A i \in 1 .. Len(left) - n : left'[i] = left[n + i]
    BY SMTT(30), <1>1, SubSeqProperties
  <2> QED
    BY <1>1, <2>1, <2>2, SubSeqProperties
<1>4. /\ wire' \in Seq(Octets) /\ Len(wire') = Len(wire) + n
      /\ \A i \in 1 .. Len(wire) : wire'[i] = wire[i]
      /\ \A i \in 1 .. n : wire'[Len(wire) + i] = left[i]
  <2>1. /\ wire' \in Seq(Octets) /\ Len(wire') = Len(wire) + n
        /\ \A i \in 1 .. Len(wire) + n :
             wire'[i] = IF i <= Len(wire) THEN wire[i]
                        ELSE SubSeq(left, 1, n)[i - Len(wire)]
    BY <1>1, <1>2, ConcatProperties
  <2> QED
    BY <1>1, <1>2, <2>1
<1>5. ASSUME NEW i \in 1 .. Total
      PROVE  At(i)' = At(i)
  <2>1. CASE i <= Len(wire)
    BY <1>1, <1>4, <2>1 DEF At, Total
  <2>2. CASE i > Len(wire) /\ i <= Len(wire) + n
    <3>1. i - Len(wire) \in 1 .. n /\ Len(wire) + (i - Len(wire)) = i
      BY <1>1, <2>2 DEF Total
    <3>2. wire'[i] = left[i - Len(wire)]
      BY <1>4, <3>1
    <3> QED
      BY <1>1, <1>4, <2>2, <3>2 DEF At, Total
  <2>3. CASE i > Len(wire) + n
    <3>1. i - (Len(wire) + n) \in 1 .. Len(left) - n
      BY <1>1, <2>3 DEF Total
    <3>2. left'[i - (Len(wire) + n)] = left[n + (i - (Len(wire) + n))]
      BY <1>3, <3>1
    <3>3. n + (i - (Len(wire) + n)) = i - Len(wire)
      BY <1>1 DEF Total
    <3> QED
      BY <1>1, <1>4, <2>3, <3>2, <3>3 DEF At, Total
  <2> QED
    BY <1>1, <2>1, <2>2, <2>3 DEF Total
<1>6. Total' = Total
  <2> HIDE DEF TypeOK
  <2>1. (Len(wire) + n) + (Len(left) - n) = Len(wire) + Len(left)
    BY <1>1
  <2>2. Len(wire') = Len(wire) + n /\ Len(left') = Len(left) - n
    BY <1>3, <1>4, Zenon
  <2> QED BY <2>1, <2>2, Zenon DEF Total
<1> QED
  BY <1>3, <1>4, <1>5, <1>6

\* The reader takes k bytes.
LEMMA BytesTaken ==
  ASSUME TypeOK, NEW k \in Nat, k <= Len(wire),
         wire' = SubSeq(wire, k + 1, Len(wire)), left' = left
  PROVE  /\ wire' \in Seq(Octets) /\ Len(wire') = Len(wire) - k /\ Total' = Total - k
         /\ \A i \in 1 .. Total - k : At(i)' = At(k + i)
<1>1. Len(wire) \in Nat /\ Len(left) \in Nat /\ wire \in Seq(Octets)
  BY Lengths DEF TypeOK
<1>2. /\ Len(wire') = Len(wire) - k
      /\ \A i \in 1 .. Len(wire) - k : wire'[i] = wire[k + i]
  BY <1>1, SubSeqProperties
<1>3. wire' \in Seq(Octets)
  <2>1. \A i \in k + 1 .. Len(wire) : wire[i] \in Octets
    BY <1>1, ElementOfSeq
  <2> QED
    BY <1>1, <2>1, SubSeqProperties
<1>4. ASSUME NEW i \in 1 .. Total - k
      PROVE  At(i)' = At(k + i)
  <2>1. CASE i <= Len(wire) - k
    BY <1>1, <1>2, <2>1 DEF At, Total
  <2>2. CASE i > Len(wire) - k
    <3>1. i - (Len(wire) - k) = (k + i) - Len(wire)
      BY <1>1 DEF Total
    <3> QED
      BY SMTT(30), <1>1, <1>2, <2>2, <3>1 DEF At, Total
  <2> QED
    BY <1>1, <2>1, <2>2 DEF Total
<1>5. Total' = Total - k
  <2>1. Total' = Len(wire') + Len(left')
    BY DEF Total
  <2>2. Len(wire') + Len(left') = Len(wire) - k + Len(left)
    BY <1>2
  <2> QED
    BY <1>1, <2>1, <2>2 DEF Total
<1> QED
  BY <1>2, <1>3, <1>4, <1>5

-----------------------------------------------------------------------------
(* Steps of the senders.                                                   *)

\* After a failure only what is on the wire counts: the places of the frames
\* that were sent before it stay.
LEMMA FailedAligned ==
  ASSUME IInv, failed', UNCHANGED <<wire, whole, head, delivered, ended>>,
         \A j \in 1 .. whole : begun'[j] = begun[j]
  PROVE  Aligned'
<1> SUFFICES ASSUME Inside'
             PROVE  /\ head' # <<>> => /\ Len(delivered') < Last'
                                       /\ head' = <<begun'[Len(delivered') + 1]>>
                    /\ \E off \in [Nat -> Int] : Cut(off)'
  BY DEF Aligned
<1>1. /\ Len(wire) \in Nat /\ Len(delivered) \in Nat /\ whole \in Nat /\ Len(begun) \in Nat
      /\ \A i \in 1 .. Len(begun) : begun[i] \in Frames
  BY Lengths DEF IInv
<1>2. /\ ~ended /\ Len(delivered) < whole /\ whole <= Len(begun)
      /\ Last' = whole /\ whole <= Last /\ Last \in Nat
  BY <1>1 DEF Inside, IInv, Locking, Last
<1>3. Inside
  BY <1>2 DEF Inside
<1>4. head # <<>> => head = <<begun[Len(delivered) + 1]>>
  BY <1>3 DEF IInv, Aligned
<1>5. PICK off \in [Nat -> Int] : Cut(off)
  BY <1>3 DEF IInv, Aligned
<1>6. head' # <<>> => Len(delivered') < Last' /\ head' = <<begun'[Len(delivered') + 1]>>
  <2>1. Len(delivered) + 1 \in 1 .. whole
    BY <1>1, <1>2
  <2> QED
    BY <1>2, <1>4, <2>1
<1>7. ASSUME NEW j \in Len(delivered) + 1 .. whole
      PROVE  /\ begun'[j] = begun[j] /\ Padded(begun[j]) \in Nat /\ off[j] \in Int
             /\ off[j + 1] = off[j] + Padded(begun[j]) /\ off[j + 1] <= Len(wire)
             /\ \A n \in 1 .. Padded(begun[j]) :
                  off[j] + n >= 1 => At(off[j] + n) = <<begun[j], n>>
  <2>1. /\ j \in 1 .. whole /\ j \in 1 .. Len(begun) /\ j \in Nat
        /\ j \in Len(delivered) + 1 .. Last
    BY <1>1, <1>2
  <2>2. Padded(begun[j]) \in Nat
    BY <1>1, <2>1, FrameLength
  <2> QED
    BY <1>5, <2>1, <2>2 DEF Cut
<1>8. ASSUME NEW j \in Len(delivered) + 1 .. whole, NEW n \in 1 .. Padded(begun[j]),
             off[j] + n >= 1
      PROVE  At(off[j] + n)' = <<begun[j], n>>
  <2>1. At(off[j] + n) = <<begun[j], n>>
    BY <1>7, <1>8
  <2>2. off[j] + n <= Len(wire)
    <3>1. /\ off[j] \in Int /\ Padded(begun[j]) \in Nat
          /\ off[j] + Padded(begun[j]) <= Len(wire)
      BY <1>7
    <3> QED
      BY SMTT(30), <1>1, <3>1
  <2>3. At(off[j] + n)' = At(off[j] + n)
    BY <2>2 DEF At
  <2> QED
    BY <2>1, <2>3
<1>9. Cut(off)'
  <2>1. off[Len(delivered') + 1] = IF head' = <<>> THEN 0 ELSE -4
    BY <1>5 DEF Cut
  <2>2. \A j \in Len(delivered') + 1 .. Last' :
          /\ off[j + 1] = off[j] + Padded(begun'[j])
          /\ \A n \in 1 .. Padded(begun'[j]) :
               off[j] + n >= 1 => At(off[j] + n)' = <<begun'[j], n>>
    BY <1>2, <1>7, <1>8, Zenon
  <2>3. \A j \in Len(delivered') + 1 .. whole' : off[j + 1] <= Len(wire')
    BY <1>7
  <2> QED
    BY <2>1, <2>2, <2>3, Zenon DEF Cut, Padded, Length
<1> QED
  BY <1>6, <1>9

\* A send that fails, before or after it got the lock.
LEMMA SendFailsKeeps ==
  ASSUME IInv, NEW p \in Senders, SendFails(p)
  PROVE  IInv'
<1> USE DEF IInv
<1>1. /\ failed' = TRUE /\ closed' = TRUE /\ frame' = [frame EXCEPT ![p] = NoFrame]
      /\ IF writer = p THEN writer' = NoSender /\ left' = <<>>
         ELSE writer' = writer /\ left' = left
      /\ UNCHANGED <<wire, begun, whole, eof, head, delivered, ended>>
  BY DEF SendFails, readVars
<1>2. TypeOK'
  <2>1. <<>> \in Seq(Octets)
    BY EmptySeq
  <2>2. frame' \in [Senders -> Frames \cup {NoFrame}]
    BY <1>1 DEF TypeOK
  <2> QED
    BY <1>1, <2>1, <2>2, Zenon DEF TypeOK
<1>3. Locking'
  BY <1>1 DEF Locking
<1>4. Returned'
  <2>1. Last' = whole /\ whole <= Last
    BY <1>1, Lengths DEF Last, Locking
  <2>2. whole \in Int /\ Last \in Int /\ Len(delivered) \in Nat
    BY Lengths DEF Last
  <2> QED
    BY <1>1, <2>1, <2>2 DEF Returned
<1>5. Aligned'
  BY <1>1, FailedAligned
<1> QED
  BY <1>2, <1>3, <1>4, <1>5

\* A sender gets the lock: its frame is the next.
LEMMA LockWriterKeeps ==
  ASSUME IInv, NEW p \in Senders, LockWriter(p)
  PROVE  IInv'
<1> USE DEF IInv
<1>1. /\ frame[p] # NoFrame /\ writer = NoSender /\ writer' = p
      /\ left' = Bytes(frame[p]) /\ begun' = Append(begun, frame[p])
      /\ UNCHANGED <<frame, wire, whole, failed, closed, eof, head, delivered, ended>>
  BY DEF LockWriter, readVars
<1>2. frame[p] \in Frames /\ begun \in Seq(Frames) /\ left = <<>> /\ p # NoSender
  BY <1>1, SendersAssumption DEF TypeOK, Locking
<1>3. /\ Len(wire) \in Nat /\ Len(delivered) \in Nat /\ whole \in Nat /\ Len(begun) \in Nat
      /\ \A i \in 1 .. Len(begun) : begun[i] \in Frames
      /\ whole <= Len(begun) /\ (~failed => whole = Len(begun))
  BY <1>1, Lengths DEF Locking
<1>4. /\ begun' \in Seq(Frames) /\ Len(begun') = Len(begun) + 1
      /\ \A i \in 1 .. Len(begun) : begun'[i] = begun[i]
      /\ begun'[Len(begun) + 1] = frame[p]
  BY <1>1, <1>2, AppendProperties
<1>5. /\ left' \in Seq(Octets) /\ Len(left') = Padded(frame[p])
      /\ \A n \in 1 .. Padded(frame[p]) : left'[n] = <<frame[p], n>>
      /\ Padded(frame[p]) \in Nat
  BY <1>1, <1>2, FrameBytes, FrameLength
<1>6. TypeOK'
  BY <1>1, <1>4, <1>5 DEF TypeOK
<1>7. Locking'
  BY <1>1, <1>2, <1>3, <1>4 DEF Locking
<1>8. Returned'
  <2>1. ASSUME NEW i \in 1 .. Len(delivered), i <= Last'
        PROVE  delivered[i] = begun'[i]
    <3>1. i <= Last /\ i \in 1 .. Len(begun)
      BY <1>1, <1>3, <1>4, <2>1 DEF Last, Returned
    <3> QED
      BY <1>4, <3>1 DEF Returned
  <2>2. ~failed => Len(delivered) <= Len(begun')
    BY <1>3, <1>4 DEF Returned
  <2> QED
    BY <1>1, <2>1, <2>2, Zenon DEF Returned
<1>9. Aligned'
  <2>1. CASE failed
    <3>1. \A j \in 1 .. whole : begun'[j] = begun[j]
      BY <1>3, <1>4
    <3> QED
      BY <1>1, <2>1, <3>1, FailedAligned, Zenon
  <2>2. CASE ~failed
    <3> SUFFICES ASSUME Inside'
                 PROVE  /\ head' # <<>> => /\ Len(delivered') < Last'
                                           /\ head' = <<begun'[Len(delivered') + 1]>>
                        /\ \E off \in [Nat -> Int] : Cut(off)'
      BY DEF Aligned
    <3> DEFINE d == Len(delivered)
               b == Len(begun)
               f == frame[p]
    <3>1. /\ Inside /\ d <= b /\ d \in Nat /\ b \in Nat /\ Last = b /\ Last' = b + 1
          /\ whole = b /\ Total = Len(wire) /\ Total' = Len(wire) + Padded(f)
      <4>1. Len(left) = 0
        BY <1>2, EmptySeq
      <4> QED
        BY <1>1, <1>3, <1>4, <1>5, <2>2, <4>1 DEF Inside, Last, Total, Returned
    <3>2. PICK off \in [Nat -> Int] : Cut(off)
      BY <3>1 DEF Aligned
    <3>3. PICK new : new = [off EXCEPT ![b + 2] = Len(wire) + Padded(f)]
      BY Zenon
    <3>4. /\ new \in [Nat -> Int] /\ new[b + 2] = Len(wire) + Padded(f)
          /\ \A j \in 1 .. b + 1 : new[j] = off[j]
      <4>1. b + 2 \in Nat /\ Len(wire) + Padded(f) \in Int
        BY <1>3, <1>5
      <4>2. \A j \in 1 .. b + 1 : j \in Nat /\ j # b + 2
        BY <1>3
      <4> HIDE DEF b, f
      <4> QED
        BY <3>3, <4>1, <4>2
    <3>5. /\ off[d + 1] = IF head = <<>> THEN 0 ELSE -4
          /\ off[b + 1] = Len(wire)
          /\ \A j \in d + 1 .. whole : off[j + 1] <= Len(wire)
      BY <2>2, <3>1, <3>2 DEF Cut
    <3>6. ASSUME NEW j \in d + 1 .. b + 1
          PROVE  /\ new[j + 1] = new[j] + Padded(begun'[j])
                 /\ \A n \in 1 .. Padded(begun'[j]) :
                      new[j] + n >= 1 => At(new[j] + n)' = <<begun'[j], n>>
      <4>1. CASE j = b + 1
        <5>1. new[j] = Len(wire) /\ new[j + 1] = Len(wire) + Padded(f) /\ begun'[j] = f
          <6>1. b + 1 \in 1 .. b + 1 /\ b + 1 + 1 = b + 2
            BY <3>1
          <6> QED
            BY <1>4, <3>4, <3>5, <4>1, <6>1, Zenon
        <5>2. ASSUME NEW n \in 1 .. Padded(f)
              PROVE  At(Len(wire) + n)' = <<f, n>>
          <6>1. ~(Len(wire) + n <= Len(wire)) /\ Len(wire) + n - Len(wire) = n
            <7>1. Len(wire) \in Nat /\ Padded(f) \in Nat
              BY <1>3, <1>5
            <7>2. n \in Nat /\ n >= 1
              BY <7>1
            <7> QED
              BY <7>1, <7>2
          <6>2. left'[n] = <<f, n>>
            BY <1>5
          <6> QED
            BY SMTT(30), <1>1, <6>1, <6>2 DEF At
        <5>3. new[j + 1] = new[j] + Padded(begun'[j])
          BY <5>1
        <5>4. ASSUME NEW n \in 1 .. Padded(begun'[j])
              PROVE  At(new[j] + n)' = <<begun'[j], n>>
          <6>1. n \in 1 .. Padded(f)
            BY <5>1
          <6>2. At(Len(wire) + n)' = <<f, n>>
            BY <5>2, <6>1, Zenon
          <6>3. At(new[j] + n)' = At(Len(wire) + n)'
            BY <1>1, <5>1 DEF At
          <6> QED
            BY <5>1, <6>2, <6>3
        <5> QED
          BY <5>3, <5>4
      <4>2. CASE j \in d + 1 .. b
        <5>1. /\ j \in 1 .. b /\ j + 1 \in 1 .. b + 1 /\ j \in 1 .. b + 1
              /\ j \in d + 1 .. Last /\ j \in d + 1 .. whole
          BY <3>1, <4>2
        <5>2. /\ begun'[j] = begun[j] /\ new[j] = off[j] /\ new[j + 1] = off[j + 1]
              /\ off[j] \in Int /\ Padded(begun[j]) \in Nat
          <6>1. begun'[j] = begun[j] /\ new[j] = off[j] /\ new[j + 1] = off[j + 1]
            BY <1>4, <3>4, <5>1, Zenon
          <6>2. begun[j] \in Frames /\ j \in Nat
            BY <1>3, <5>1
          <6>3. off[j] \in Int /\ Padded(begun[j]) \in Nat
            BY <6>2, FrameLength, Zenon
          <6> QED
            BY <6>1, <6>3
        <5>3. /\ off[j + 1] = off[j] + Padded(begun[j])
              /\ \A n \in 1 .. Padded(begun[j]) :
                   off[j] + n >= 1 => At(off[j] + n) = <<begun[j], n>>
              /\ off[j + 1] <= Len(wire)
          BY <3>2, <3>5, <5>1 DEF Cut
        <5>4. ASSUME NEW n \in 1 .. Padded(begun[j]), off[j] + n >= 1
              PROVE  At(off[j] + n)' = <<begun[j], n>>
          <6>1. off[j] + n <= Len(wire)
            <7>1. /\ off[j] \in Int /\ Padded(begun[j]) \in Nat /\ Len(wire) \in Nat
                  /\ off[j] + Padded(begun[j]) <= Len(wire)
              BY <1>3, <5>2, <5>3
            <7>2. n \in Nat /\ n <= Padded(begun[j])
              BY <7>1
            <7> QED
              BY SMTT(30), <7>1, <7>2
          <6>2. At(off[j] + n)' = At(off[j] + n)
            BY <1>1, <6>1 DEF At
          <6> QED
            BY <5>3, <5>4, <6>2
        <5> QED
          BY <5>2, <5>3, <5>4
      <4> QED
        BY SMTT(30), <3>1, <4>1, <4>2
    <3>7. Cut(new)'
      <4>1. new[Len(delivered') + 1] = IF head' = <<>> THEN 0 ELSE -4
        <5>1. d + 1 \in 1 .. b + 1
          BY <3>1
        <5> QED
          BY <1>1, <3>4, <3>5, <5>1
      <4>2. \A j \in Len(delivered') + 1 .. Last' :
              /\ new[j + 1] = new[j] + Padded(begun'[j])
              /\ \A n \in 1 .. Padded(begun'[j]) :
                   new[j] + n >= 1 => At(new[j] + n)' = <<begun'[j], n>>
        BY <1>1, <3>1, <3>6, Zenon
      <4>3. \A j \in Len(delivered') + 1 .. whole' : new[j + 1] <= Len(wire')
        <5>1. \A j \in d + 1 .. whole : j + 1 \in 1 .. b + 1
          BY <3>1
        <5> QED
          BY <1>1, <3>4, <3>5, <5>1, Zenon
      <4>4. new[Len(begun') + 1] = Total'
        BY <1>4, <3>1, <3>4
      <4> QED
        BY <4>1, <4>2, <4>3, <4>4 DEF Cut, Padded, Length
    <3>8. head # <<>> => d < b /\ head = <<begun[d + 1]>>
      BY <3>1 DEF Aligned
    <3>9. head' # <<>> => Len(delivered') < Last' /\ head' = <<begun'[Len(delivered') + 1]>>
      BY SMTT(30), <1>1, <1>4, <3>1, <3>8
    <3> QED
      BY <3>4, <3>7, <3>9
  <2> QED
    BY <2>1, <2>2
<1> QED
  BY <1>6, <1>7, <1>8, <1>9

\* The stream advances by k bytes: a read, or a write, for which k is 0.
Advances(k) ==
  /\ Len(wire') \in Nat /\ Len(wire') >= Len(wire) - k /\ Total' = Total - k
  /\ \A i \in 1 .. Total - k : At(i)' = At(k + i)

\* Then so do the places of the frames.
LEMMA PlacesMove ==
  ASSUME IInv, NEW k \in Nat, NEW off \in [Nat -> Int], Cut(off), Advances(k)
  PROVE  \E new \in [Nat -> Int] :
           /\ \A j \in Nat : new[j] = off[j] - k
           /\ \A j \in Len(delivered) + 1 .. Last :
                /\ new[j + 1] = new[j] + Padded(begun[j])
                /\ \A n \in 1 .. Padded(begun[j]) :
                     new[j] + n >= 1 => At(new[j] + n)' = <<begun[j], n>>
           /\ \A j \in Len(delivered) + 1 .. whole : new[j + 1] <= Len(wire')
           /\ ~failed => new[Len(begun) + 1] = Total'
<1>1. /\ Len(wire) \in Nat /\ Len(delivered) \in Nat /\ whole \in Nat /\ Len(begun) \in Nat
      /\ Total \in Nat /\ Len(wire) <= Total
      /\ \A i \in 1 .. Len(begun) : begun[i] \in Frames
  BY Lengths DEF IInv, Total
<1>2. Last \in Nat /\ Last <= Len(begun) /\ (failed => Last = whole)
      /\ (~failed => Last = Len(begun) /\ Len(begun) <= whole + 1)
  <2>1. CASE failed
    BY <1>1, <2>1 DEF Last, IInv, Locking
  <2>2. CASE ~failed
    BY SMTT(30), <1>1, <2>2 DEF Last, IInv, Locking
  <2> QED
    BY <2>1, <2>2
<1>3. PICK new : new = [j \in Nat |-> off[j] - k]
  BY Zenon
<1>4. new \in [Nat -> Int] /\ \A j \in Nat : new[j] = off[j] - k
  BY <1>3
<1>5. ASSUME NEW j \in Len(delivered) + 1 .. Last
      PROVE  /\ j \in Nat /\ j + 1 \in Nat /\ off[j] \in Int /\ off[j + 1] \in Int
             /\ Padded(begun[j]) \in Nat
             /\ off[j + 1] = off[j] + Padded(begun[j]) /\ off[j + 1] <= Total
             /\ \A n \in 1 .. Padded(begun[j]) :
                  off[j] + n >= 1 => At(off[j] + n) = <<begun[j], n>>
  <2>1. j \in Nat /\ j + 1 \in Nat /\ j \in 1 .. Len(begun)
    BY <1>1, <1>2
  <2>2. Padded(begun[j]) \in Nat
    BY <1>1, <2>1, FrameLength, Zenon
  <2>3. off[j] \in Int /\ off[j + 1] \in Int
    BY <2>1
  <2>4. /\ off[j + 1] = off[j] + Padded(begun[j])
        /\ \A n \in 1 .. Padded(begun[j]) :
             off[j] + n >= 1 => At(off[j] + n) = <<begun[j], n>>
    BY DEF Cut
  <2>5. off[j + 1] <= Total
    <3>1. CASE j <= whole
      <4>1. j \in Len(delivered) + 1 .. whole
        BY <1>1, <1>2, <3>1
      <4>2. off[j + 1] <= Len(wire)
        BY <4>1 DEF Cut
      <4>3. Len(wire) \in Nat /\ Total \in Nat /\ Len(wire) <= Total
        BY <1>1
      <4> QED
        BY <2>3, <4>2, <4>3
    <3>2. CASE ~(j <= whole)
      <4>1. ~failed /\ j = Len(begun)
        BY <1>1, <1>2, <3>2
      <4>2. off[Len(begun) + 1] = Total
        BY <4>1 DEF Cut
      <4> QED
        BY <1>1, <4>1, <4>2
    <3> QED
      BY <3>1, <3>2
  <2> QED
    BY <2>1, <2>2, <2>3, <2>4, <2>5
<1>6. ASSUME NEW j \in Len(delivered) + 1 .. Last
      PROVE  new[j + 1] = new[j] + Padded(begun[j])
  <2>1. new[j] = off[j] - k /\ new[j + 1] = off[j + 1] - k
    BY <1>4, <1>5
  <2> QED
    BY <1>5, <2>1
<1>7. ASSUME NEW j \in Len(delivered) + 1 .. Last, NEW n \in 1 .. Padded(begun[j]),
             new[j] + n >= 1
      PROVE  At(new[j] + n)' = <<begun[j], n>>
  <2>1. /\ new[j] = off[j] - k /\ off[j] \in Int /\ Padded(begun[j]) \in Nat
        /\ off[j] + Padded(begun[j]) <= Total
    BY <1>4, <1>5
  <2>2. n \in Nat /\ n <= Padded(begun[j])
    BY <2>1
  <2>3. /\ new[j] + n \in 1 .. Total - k /\ k + (new[j] + n) = off[j] + n
        /\ off[j] + n >= 1
    <3>1. new[j] + n >= 1 /\ Total \in Nat
      BY <1>1, <1>7
    <3>2. \A o \in Int, p \in Nat, c \in Nat :
            n <= p /\ o + p <= c /\ o - k + n >= 1 =>
              o - k + n \in 1 .. c - k /\ k + (o - k + n) = o + n /\ o + n >= 1
      BY <2>2
    <3> QED
      BY <2>1, <2>2, <3>1, <3>2, Zenon
  <2>4. PICK i \in 1 .. Total - k : i = new[j] + n /\ k + i = off[j] + n
    BY <2>3
  <2>5. At(i)' = At(off[j] + n)
    BY <2>4, Zenon DEF Advances
  <2>6. At(off[j] + n) = <<begun[j], n>>
    BY <1>5, <2>3
  <2>7. At(new[j] + n)' = At(i)'
    BY <2>4
  <2> QED
    BY <2>5, <2>6, <2>7
<1>8. ASSUME NEW j \in Len(delivered) + 1 .. whole
      PROVE  new[j + 1] <= Len(wire')
  <2>1. j + 1 \in Nat /\ off[j + 1] \in Int /\ off[j + 1] <= Len(wire)
    BY <1>1 DEF Cut
  <2>2. Len(wire') \in Nat /\ Len(wire') >= Len(wire) - k /\ Len(wire) \in Nat
    BY <1>1 DEF Advances
  <2>3. new[j + 1] = off[j + 1] - k
    BY <1>4, <2>1
  <2> QED
    BY SMTT(30), <2>1, <2>2, <2>3
<1>9. ~failed => new[Len(begun) + 1] = Total'
  <2>1. ~failed => off[Len(begun) + 1] = Total
    BY DEF Cut
  <2>2. Total' = Total - k
    BY DEF Advances
  <2> QED
    BY <1>1, <1>4, <2>1, <2>2
<1> QED
  BY <1>4, <1>6, <1>7, <1>8, <1>9, Zenon

\* write_all writes a piece.
LEMMA WriteKeeps ==
  ASSUME IInv, NEW n, Write(n)
  PROVE  IInv'
<1> USE DEF IInv
<1>1. /\ n \in 1 .. Len(left) /\ wire' = wire \o SubSeq(left, 1, n)
      /\ left' = SubSeq(left, n + 1, Len(left))
      /\ UNCHANGED <<frame, writer, begun, whole, failed, closed, eof, head, delivered, ended>>
  BY DEF Write, readVars
<1>2. /\ wire' \in Seq(Octets) /\ left' \in Seq(Octets)
      /\ Len(wire') = Len(wire) + n /\ Total' = Total
      /\ \A i \in 1 .. Total : At(i)' = At(i)
  BY <1>1, PieceMoved, Zenon
<1>3. Len(wire) \in Nat /\ Len(left) \in Nat /\ Total \in Nat /\ n \in Nat /\ n >= 1
  BY <1>1, Lengths
<1>4. TypeOK'
  BY <1>1, <1>2 DEF TypeOK
<1>5. Locking'
  <2>1. left # <<>>
    BY <1>1, <1>3, EmptySeq
  <2> QED
    BY <1>1, <2>1 DEF Locking
<1>6. Returned'
  BY <1>1 DEF Returned, Last
<1>7. Aligned'
  <2> SUFFICES ASSUME Inside
               PROVE  /\ head # <<>> => Len(delivered) < Last /\ head = <<begun[Len(delivered) + 1]>>
                      /\ \E off \in [Nat -> Int] : Cut(off)'
    BY <1>1 DEF Aligned, Inside, Last
  <2>1. head # <<>> => Len(delivered) < Last /\ head = <<begun[Len(delivered) + 1]>>
    BY DEF Aligned
  <2>2. PICK off \in [Nat -> Int] : Cut(off)
    BY DEF Aligned
  <2>3. /\ Len(wire') \in Nat /\ Len(wire') >= Len(wire) - 0 /\ Total' = Total - 0
        /\ \A i \in 1 .. Total - 0 : 0 + i = i /\ At(i)' = At(i)
    BY <1>2, <1>3
  <2>4. Advances(0)
    BY <2>3 DEF Advances
  <2>5. PICK new \in [Nat -> Int] :
           /\ \A j \in Nat : new[j] = off[j] - 0
           /\ \A j \in Len(delivered) + 1 .. Last :
                /\ new[j + 1] = new[j] + Padded(begun[j])
                /\ \A m \in 1 .. Padded(begun[j]) :
                     new[j] + m >= 1 => At(new[j] + m)' = <<begun[j], m>>
           /\ \A j \in Len(delivered) + 1 .. whole : new[j + 1] <= Len(wire')
           /\ ~failed => new[Len(begun) + 1] = Total'
    BY <2>2, <2>4, PlacesMove, Zenon
  <2>6. new[Len(delivered) + 1] = IF head = <<>> THEN 0 ELSE -4
    <3>1. /\ Len(delivered) + 1 \in Nat
          /\ off[Len(delivered) + 1] = IF head = <<>> THEN 0 ELSE -4
      BY <2>2, Lengths DEF Cut
    <3> QED
      BY <2>5, <3>1
  <2>7. Cut(new)'
    BY <1>1, <2>5, <2>6, Zenon DEF Cut, Last, Padded, Length
  <2> QED
    BY <2>1, <2>7
<1> QED
  BY <1>4, <1>5, <1>6, <1>7

\* flush: the frame is complete.
LEMMA SentKeeps ==
  ASSUME IInv, Sent
  PROVE  IInv'
<1> USE DEF IInv
<1>1. /\ writer # NoSender /\ left = <<>> /\ frame' = [frame EXCEPT ![writer] = NoFrame]
      /\ writer' = NoSender /\ whole' = IF failed THEN whole ELSE whole + 1
      /\ UNCHANGED <<left, wire, begun, failed, closed, eof, head, delivered, ended>>
  BY DEF Sent, readVars
<1>2. /\ Len(wire) \in Nat /\ Len(delivered) \in Nat /\ whole \in Nat /\ Len(begun) \in Nat
      /\ Len(left) = 0 /\ Total = Len(wire)
  BY <1>1, Lengths, EmptySeq DEF Total
<1>3. TypeOK'
  <2>1. frame' \in [Senders -> Frames \cup {NoFrame}] /\ whole' \in Nat
    BY <1>1, <1>2 DEF TypeOK
  <2> QED
    BY <1>1, <2>1 DEF TypeOK
<1>4. Locking' /\ (~failed => whole' = Len(begun))
  BY <1>1, <1>2 DEF Locking
<1>5. Last' = Last /\ Returned'
  BY <1>1 DEF Returned, Last
<1>6. Aligned'
  <2> SUFFICES ASSUME Inside
               PROVE  /\ head # <<>> => Len(delivered) < Last /\ head = <<begun[Len(delivered) + 1]>>
                      /\ \E off \in [Nat -> Int] : Cut(off)'
    BY <1>1, <1>5 DEF Aligned, Inside
  <2>1. head # <<>> => Len(delivered) < Last /\ head = <<begun[Len(delivered) + 1]>>
    BY DEF Aligned
  <2>2. PICK off \in [Nat -> Int] : Cut(off)
    BY DEF Aligned
  <2>3. ASSUME NEW j \in Len(delivered) + 1 .. whole'
        PROVE  off[j + 1] <= Len(wire)
    <3>1. CASE j \in Len(delivered) + 1 .. whole
      BY <2>2, <3>1 DEF Cut
    <3>2. CASE ~failed /\ j = Len(begun)
      BY <1>2, <2>2, <3>2 DEF Cut
    <3> QED
      BY <1>1, <1>2, <1>4, <3>1, <3>2
  <2>4. Cut(off)'
    BY <1>1, <1>5, <2>2, <2>3, Zenon DEF Cut, At, Total, Padded, Length
  <2> QED
    BY <2>1, <2>4
<1> QED
  BY <1>3, <1>4, <1>5, <1>6

-----------------------------------------------------------------------------
(* Steps of the reader.                                                    *)

\* The reader ends.
LEMMA FailsKeeps ==
  ASSUME IInv, Fails, UNCHANGED sendVars
  PROVE  IInv'
<1>1. /\ ended' = TRUE /\ head' = <<>> /\ UNCHANGED <<delivered, wire>>
      /\ UNCHANGED <<frame, writer, left, begun, whole, failed, closed, eof>>
  BY DEF Fails, sendVars
<1>2. <<>> \in Seq(Frames \cup {Garbage})
  BY EmptySeq
<1>3. TypeOK'
  BY <1>1, <1>2 DEF IInv, TypeOK
<1>4. Locking' /\ Returned' /\ Aligned'
  BY <1>1 DEF IInv, Locking, Returned, Last, Aligned, Inside
<1> QED
  BY <1>3, <1>4 DEF IInv

\* Where the reader stands, when it has read no header: at the first byte of
\* the next frame.
LEMMA AtFrame ==
  ASSUME IInv, Inside, head = <<>>, Len(wire) >= 4
  PROVE  LET f == begun[Len(delivered) + 1] IN
           /\ Len(delivered) < Last /\ f \in Frames
           /\ wire[1][1] = f /\ Belong(f, 1, 4)
<1> DEFINE d == Len(delivered)
           f == begun[d + 1]
<1>1. /\ Len(wire) \in Nat /\ d \in Nat /\ whole \in Nat /\ Len(begun) \in Nat
      /\ Len(left) \in Nat
      /\ \A i \in 1 .. Len(begun) : begun[i] \in Frames
  BY Lengths DEF IInv
<1>2. PICK off \in [Nat -> Int] : Cut(off)
  BY DEF IInv, Aligned
<1>3. off[d + 1] = 0
  BY <1>2 DEF Cut
<1>4. d < Last /\ Last <= Len(begun) /\ Last \in Nat
  <2>1. CASE failed
    BY <1>1, <2>1 DEF Inside, Last, IInv, Locking
  <2>2. CASE ~failed
    <3>1. Last = Len(begun) /\ d <= Len(begun) /\ off[Len(begun) + 1] = Total
      BY <1>2, <2>2, Zenon DEF Last, IInv, Returned, Cut
    <3>2. Total > 0
      BY <1>1 DEF Total
    <3>3. d # Len(begun)
      BY <1>3, <3>1, <3>2
    <3> QED
      BY <1>1, <3>1, <3>3
  <2> QED
    BY <2>1, <2>2
<1>5. d + 1 \in d + 1 .. Last /\ d + 1 \in 1 .. Len(begun)
  BY <1>1, <1>4
<1>6. f \in Frames /\ Padded(f) \in Nat /\ Padded(f) >= 4
  <2>1. f \in Frames
    BY <1>1, <1>5
  <2>2. Length(f) \in Nat /\ Padded(f) \in Nat /\ Length(f) >= 4 /\ Padded(f) >= Length(f)
    BY <2>1, FrameLength, Zenon
  <2> QED
    BY <2>1, <2>2
<1>7. ASSUME NEW n \in 1 .. 4
      PROVE  wire[n] = <<f, n>>
  <2>1. n \in 1 .. Padded(f) /\ 0 + n = n /\ n >= 1 /\ n <= Len(wire)
    <3>1. n \in Nat /\ n <= 4 /\ n >= 1 /\ 0 + n = n
      OBVIOUS
    <3>2. n <= Len(wire)
      BY <1>1, <3>1
    <3> HIDE DEF f
    <3> QED
      BY <1>6, <3>1, <3>2
  <2>2. off[d + 1] + n >= 1 => At(off[d + 1] + n) = <<f, n>>
    BY <1>2, <1>5, <2>1, Zenon DEF Cut
  <2>3. At(n) = <<f, n>>
    BY <1>3, <2>1, <2>2
  <2> QED
    BY <2>1, <2>3 DEF At
<1>8. wire[1][1] = f
  <2>1. wire[1] = <<f, 1>>
    BY <1>7
  <2> QED
    BY <2>1
<1>9. Belong(f, 1, 4)
  <2>1. \A n \in 1 .. 4 : 1 + n - 1 = n
    OBVIOUS
  <2> QED
    BY <1>7, <2>1, Zenon DEF Belong
<1> QED
  BY <1>4, <1>6, <1>8, <1>9

\* read_frame reads a header: it is that of the next frame.
LEMMA ReadHeaderKeeps ==
  ASSUME IInv, ReadHeader
  PROVE  IInv'
<1> DEFINE f == wire[1][1]
<1>1. /\ ~ended /\ head = <<>> /\ Len(wire) >= 4 /\ UNCHANGED sendVars
      /\ \/ Fails
         \/ /\ head' = IF Belong(f, 1, 4) THEN <<f>> ELSE <<Garbage>>
            /\ wire' = SubSeq(wire, 5, Len(wire)) /\ UNCHANGED <<delivered, ended>>
  BY DEF ReadHeader
<1>2. CASE Fails
  BY <1>1, <1>2, FailsKeeps
<1>3. CASE /\ head' = IF Belong(f, 1, 4) THEN <<f>> ELSE <<Garbage>>
           /\ wire' = SubSeq(wire, 5, Len(wire)) /\ UNCHANGED <<delivered, ended>>
  <2>1. TypeOK /\ Len(wire) \in Nat /\ Len(delivered) \in Nat
    BY Lengths DEF IInv
  <2>2. UNCHANGED <<frame, writer, left, begun, whole, failed, closed, eof>>
    BY <1>1 DEF sendVars
  <2>3. /\ wire' \in Seq(Octets) /\ Len(wire') = Len(wire) - 4 /\ Total' = Total - 4
        /\ \A i \in 1 .. Total - 4 : At(i)' = At(4 + i)
    <3>1. 4 <= Len(wire) /\ 4 + 1 = 5
      BY <1>1, <2>1
    <3> QED
      BY <1>3, <2>1, <2>2, <3>1, BytesTaken, Zenon
  <2>4. Advances(4)
    BY <1>1, <2>1, <2>3 DEF Advances
  <2>5. head' \in Seq(Frames \cup {Garbage})
    <3>1. wire[1] \in Octets
      BY <1>1, <2>1, ElementOfSeq DEF TypeOK
    <3>2. f \in Frames
      BY <3>1 DEF Octets
    <3> HIDE DEF f
    <3>3. <<f>> \in Seq(Frames \cup {Garbage}) /\ <<Garbage>> \in Seq(Frames \cup {Garbage})
      BY <3>2
    <3> QED
      BY <1>3, <3>3, Zenon
  <2>6. TypeOK'
    BY <1>3, <2>1, <2>2, <2>3, <2>5, Zenon DEF TypeOK
  <2>7. Locking' /\ Returned'
    BY <1>3, <2>2 DEF IInv, Locking, Returned, Last
  <2>8. Aligned'
    <3> SUFFICES ASSUME Inside
                 PROVE  /\ head' # <<>> => /\ Len(delivered) < Last
                                           /\ head' = <<begun[Len(delivered) + 1]>>
                        /\ \E off \in [Nat -> Int] : Cut(off)'
      BY <1>3, <2>2 DEF Aligned, Inside, Last
    <3> DEFINE g == begun[Len(delivered) + 1]
    <3>1. Len(delivered) < Last /\ g \in Frames /\ f = g /\ Belong(g, 1, 4)
      BY <1>1, AtFrame
    <3>2. head' = <<g>>
      BY <1>3, <3>1
    <3>3. PICK off \in [Nat -> Int] : Cut(off)
      BY DEF IInv, Aligned
    <3>4. PICK new \in [Nat -> Int] :
             /\ \A j \in Nat : new[j] = off[j] - 4
             /\ \A j \in Len(delivered) + 1 .. Last :
                  /\ new[j + 1] = new[j] + Padded(begun[j])
                  /\ \A n \in 1 .. Padded(begun[j]) :
                       new[j] + n >= 1 => At(new[j] + n)' = <<begun[j], n>>
             /\ \A j \in Len(delivered) + 1 .. whole : new[j + 1] <= Len(wire')
             /\ ~failed => new[Len(begun) + 1] = Total'
      BY <2>4, <3>3, PlacesMove, Zenon
    <3>5. new[Len(delivered) + 1] = -4
      <4>1. Len(delivered) + 1 \in Nat /\ off[Len(delivered) + 1] = 0
        BY <1>1, <2>1, <3>3 DEF Cut
      <4> QED
        BY <3>4, <4>1
    <3>6. Cut(new)'
      BY SMTT(30), <1>3, <2>2, <3>2, <3>4, <3>5 DEF Cut, Last, Padded, Length
    <3> QED
      BY <3>1, <3>2, <3>6
  <2> QED
    BY <2>6, <2>7, <2>8 DEF IInv
<1> QED
  BY <1>1, <1>2, <1>3

\* read_frame reads the rest of a frame, padding included: among the frames
\* whose places are known it is the one that was sent.
LEMMA ReadBodyKeeps ==
  ASSUME IInv, ReadBody
  PROVE  IInv'
<1> DEFINE f == head[1]
           d == Len(delivered)
           g == begun[d + 1]
           got == IF f # Garbage /\ Belong(f, 5, Length(f) - 4) THEN f ELSE Garbage
<1>1. /\ ~ended /\ head # <<>> /\ head' = <<>> /\ ended' = ended
      /\ UNCHANGED <<frame, writer, left, begun, whole, failed, closed, eof>>
      /\ f # Garbage => Len(wire) >= Padded(f) - 4
      /\ delivered' = Append(delivered, got)
      /\ wire' = IF f = Garbage THEN <<>> ELSE SubSeq(wire, Padded(f) - 3, Len(wire))
  BY DEF ReadBody, sendVars, Complete
<1>2. /\ TypeOK /\ Len(wire) \in Nat /\ d \in Nat /\ whole \in Nat /\ Len(begun) \in Nat
      /\ \A i \in 1 .. Len(begun) : begun[i] \in Frames
  BY Lengths DEF IInv
<1>3. f \in Frames \cup {Garbage}
  <2>1. head \in Seq(Frames \cup {Garbage}) /\ Len(head) \in Nat /\ Len(head) # 0
    BY <1>1, <1>2, LenProperties, EmptySeq DEF TypeOK
  <2> QED
    BY <2>1, ElementOfSeq
<1>4. /\ delivered' \in Seq(Frames \cup {Garbage}) /\ Len(delivered') = d + 1
      /\ \A i \in 1 .. d : delivered'[i] = delivered[i]
      /\ delivered'[d + 1] = got
  <2>1. got \in Frames \cup {Garbage}
    BY <1>3
  <2> HIDE DEF got, f
  <2> QED
    BY SMTT(30), <1>1, <1>2, <2>1, AppendProperties DEF TypeOK
<1> HIDE DEF got
<1>5. ASSUME f # Garbage
      PROVE  /\ Padded(f) - 4 \in Nat /\ Length(f) - 4 <= Padded(f) - 4
             /\ wire' \in Seq(Octets) /\ Advances(Padded(f) - 4)
  <2>1. f \in Frames
    BY <1>3, <1>5
  <2> HIDE DEF f
  <2>2. Length(f) \in Nat /\ Padded(f) \in Nat /\ Length(f) >= 4 /\ Padded(f) >= Length(f)
    BY <2>1, FrameLength
  <2>3. PICK k \in Nat : k = Padded(f) - 4 /\ k + 1 = Padded(f) - 3
    BY <2>2
  <2>4. k <= Len(wire) /\ wire' = SubSeq(wire, k + 1, Len(wire)) /\ left' = left
    BY <1>1, <1>2, <1>5, <2>3, Zenon
  <2>5. /\ wire' \in Seq(Octets) /\ Len(wire') = Len(wire) - k /\ Total' = Total - k
        /\ \A i \in 1 .. Total - k : At(i)' = At(k + i)
    BY <1>2, <2>4, BytesTaken
  <2>6. Len(wire) - k \in Nat
    BY <1>2, <2>4
  <2>7. Advances(k)
    BY <2>5, <2>6 DEF Advances
  <2> QED
    BY <2>2, <2>3, <2>5, <2>7
<1>6. TypeOK'
  <2>1. wire' \in Seq(Octets) /\ head' \in Seq(Frames \cup {Garbage})
    BY <1>1, <1>5, EmptySeq
  <2> QED
    BY <1>1, <1>2, <1>4, <2>1, Zenon DEF TypeOK
<1>7. Locking'
  BY <1>1 DEF IInv, Locking
<1>8. ASSUME Inside
      PROVE  /\ d < Last /\ Last <= Len(begun) /\ Last \in Nat /\ f = g /\ g \in Frames
             /\ g # Garbage
  <2>1. d < Last /\ head = <<g>> /\ Last \in Nat /\ Last <= Len(begun)
    BY <1>1, <1>2, <1>8 DEF IInv, Aligned, Locking, Last
  <2>2. d + 1 \in 1 .. Len(begun)
    BY <1>2, <2>1
  <2>3. g \in Frames
    BY <1>2, <2>2
  <2>4. g # Garbage
    BY <2>3 DEF Frames, Garbage
  <2> QED
    BY <2>1, <2>3, <2>4
<1>9. ASSUME Inside
      PROVE  \E new \in [Nat -> Int] :
               /\ new[d + 2] = 0
               /\ \A j \in d + 1 .. Last :
                    /\ new[j + 1] = new[j] + Padded(begun[j])
                    /\ \A n \in 1 .. Padded(begun[j]) :
                         new[j] + n >= 1 => At(new[j] + n)' = <<begun[j], n>>
               /\ \A j \in d + 1 .. whole : new[j + 1] <= Len(wire')
               /\ ~failed => new[Len(begun) + 1] = Total'
  <2>1. /\ d < Last /\ Last \in Nat /\ f = g /\ g \in Frames /\ g # Garbage
    BY <1>8, <1>9
  <2>2. PICK off \in [Nat -> Int] : Cut(off)
    BY <1>9 DEF IInv, Aligned
  <2>3. PICK k \in Nat : k = Padded(g) - 4 /\ Advances(k)
    BY <1>5, <2>1
  <2>4. PICK new \in [Nat -> Int] :
           /\ \A j \in Nat : new[j] = off[j] - k
           /\ \A j \in d + 1 .. Last :
                /\ new[j + 1] = new[j] + Padded(begun[j])
                /\ \A n \in 1 .. Padded(begun[j]) :
                     new[j] + n >= 1 => At(new[j] + n)' = <<begun[j], n>>
           /\ \A j \in d + 1 .. whole : new[j + 1] <= Len(wire')
           /\ ~failed => new[Len(begun) + 1] = Total'
    BY <1>1, <2>2, <2>3, PlacesMove, Zenon
  <2>5. new[d + 2] = 0
    <3>1. d + 1 \in d + 1 .. Last /\ d + 1 + 1 = d + 2 /\ d + 1 \in Nat
      <4>1. d \in Nat /\ Last \in Nat /\ d < Last
        BY <1>2, <2>1
      <4> HIDE DEF d
      <4> QED
        BY <4>1
    <3>2. new[d + 2] = new[d + 1] + Padded(g)
      BY <2>4, <3>1, Zenon
    <3>3. off[d + 1] = -4
      BY <1>1, <2>2 DEF Cut
    <3>4. new[d + 1] = -4 - k
      BY <2>4, <3>1, <3>3
    <3>5. Padded(g) \in Nat /\ k = Padded(g) - 4
      BY <2>1, <2>3, FrameLength, Zenon
    <3>6. new[d + 2] = -4 - k + Padded(g)
      BY <3>2, <3>4
    <3> HIDE DEF g, d
    <3> QED
      BY <3>5, <3>6
  <2> QED
    BY <2>4, <2>5, Zenon
<1>10. ASSUME Inside
       PROVE  got = g
  <2>1. /\ d < Last /\ Last \in Nat /\ f = g /\ g \in Frames /\ g # Garbage
    BY <1>8, <1>10
  <2>2. PICK off \in [Nat -> Int] : Cut(off)
    BY <1>10 DEF IInv, Aligned
  <2>3. off[d + 1] = -4 /\ d + 1 \in d + 1 .. Last
    BY <1>1, <1>2, <2>1, <2>2 DEF Cut
  <2>4. \A n \in 1 .. Padded(g) : -4 + n >= 1 => At(-4 + n) = <<g, n>>
    BY <2>2, <2>3, Zenon DEF Cut
  <2>5. /\ Length(g) \in Nat /\ Padded(g) \in Nat /\ Length(g) >= 4 /\ Padded(g) >= Length(g)
        /\ Len(wire) >= Padded(g) - 4
    BY <1>1, <2>1, FrameLength, Zenon
  <2> HIDE DEF g
  <2>6. ASSUME NEW i \in 1 .. Length(g) - 4
        PROVE  wire[i] = <<g, 5 + i - 1>>
    <3>1. /\ i + 4 \in 1 .. Padded(g) /\ -4 + (i + 4) = i /\ i >= 1 /\ i <= Len(wire)
          /\ 5 + i - 1 = i + 4
      <4>1. /\ Length(g) \in Nat /\ Padded(g) \in Nat /\ Len(wire) \in Nat
            /\ Padded(g) >= Length(g) /\ Len(wire) >= Padded(g) - 4
        BY <1>2, <2>5
      <4>2. i \in Nat /\ i >= 1 /\ i <= Length(g) - 4
        BY <4>1
      <4> QED
        BY SMTT(30), <4>1, <4>2
    <3>2. At(i) = <<g, i + 4>>
      BY <2>4, <3>1
    <3> QED
      BY <3>1, <3>2 DEF At
  <2>7. Belong(g, 5, Length(g) - 4)
    BY <2>6 DEF Belong
  <2> QED
    BY <2>1, <2>7 DEF got
<1>11. Returned'
  <2>1. Last' = Last
    BY <1>1 DEF Last
  <2>2. ASSUME NEW i \in 1 .. d + 1, i <= Last
        PROVE  delivered'[i] = begun[i]
    <3>1. CASE i \in 1 .. d
      BY <1>4, <2>2, <3>1 DEF IInv, Returned
    <3>2. CASE i = d + 1
      <4>1. Inside
        BY <1>1, <1>2, <2>2, <3>2 DEF Inside, Last
      <4> QED
        BY <1>4, <1>10, <3>2, <4>1
    <3> QED
      BY <1>2, <3>1, <3>2
  <2>3. ~failed => d + 1 <= Len(begun)
    <3>1. ~failed => Inside /\ Last = Len(begun)
      BY <1>1 DEF Inside, Last
    <3> QED
      BY <1>2, <1>8, <3>1
  <2> QED
    BY <1>1, <1>4, <2>1, <2>2, <2>3 DEF Returned
<1>12. Aligned'
  <2> SUFFICES ASSUME Inside' PROVE \E off \in [Nat -> Int] : Cut(off)'
    BY <1>1 DEF Aligned
  <2>1. Inside
    BY <1>1, <1>2, <1>4 DEF Inside
  <2>2. PICK new \in [Nat -> Int] :
          /\ new[d + 2] = 0
          /\ \A j \in d + 1 .. Last :
               /\ new[j + 1] = new[j] + Padded(begun[j])
               /\ \A n \in 1 .. Padded(begun[j]) :
                    new[j] + n >= 1 => At(new[j] + n)' = <<begun[j], n>>
          /\ \A j \in d + 1 .. whole : new[j + 1] <= Len(wire')
          /\ ~failed => new[Len(begun) + 1] = Total'
    BY <1>9, <2>1, Zenon
  <2>3. /\ Last' = Last /\ Last \in Nat /\ Len(delivered') + 1 = d + 2
        /\ \A j \in d + 2 .. Last : j \in d + 1 .. Last
        /\ \A j \in d + 2 .. whole : j \in d + 1 .. whole
    <3>1. /\ Last' = Last /\ Last \in Nat /\ d \in Nat /\ whole \in Nat
          /\ Len(delivered') = d + 1
      BY <1>1, <1>2, <1>4, <1>8, <2>1 DEF Last
    <3> HIDE DEF d
    <3> QED
      BY <3>1
  <2>4. Cut(new)'
    <3>1. new[Len(delivered') + 1] = IF head' = <<>> THEN 0 ELSE -4
      BY <1>1, <2>2, <2>3
    <3>2. \A j \in Len(delivered') + 1 .. Last' :
            /\ new[j + 1] = new[j] + Padded(begun[j])
            /\ \A n \in 1 .. Padded(begun[j]) :
                 new[j] + n >= 1 => At(new[j] + n)' = <<begun[j], n>>
      BY <2>2, <2>3
    <3>3. \A j \in Len(delivered') + 1 .. whole : new[j + 1] <= Len(wire')
      BY <2>2, <2>3
    <3> QED
      BY <1>1, <2>2, <3>1, <3>2, <3>3, Zenon DEF Cut, Padded, Length
  <2> QED
    BY <2>4
<1> QED
  BY <1>6, <1>7, <1>11, <1>12 DEF IInv

-----------------------------------------------------------------------------
(* The theorems.                                                           *)

\* An open stream with nothing on it.
LEMMA InitKeeps ==
  ASSUME Init
  PROVE  IInv
<1>1. /\ <<>> \in Seq(Octets) /\ <<>> \in Seq(Frames) /\ <<>> \in Seq(Frames \cup {Garbage})
      /\ Len(<<>>) = 0
  BY EmptySeq
<1>2. TypeOK
  <2>1. frame \in [Senders -> Frames \cup {NoFrame}]
    BY DEF Init
  <2> QED
    BY <1>1, <2>1, Zenon DEF Init, TypeOK
<1>3. Locking /\ Returned
  BY <1>1 DEF Init, Locking, Returned, Last
<1>4. Aligned
  <2>1. PICK off : off = [j \in Nat |-> 0]
    BY Zenon
  <2>2. off \in [Nat -> Int] /\ off[1] = 0
    BY <2>1
  <2>3. /\ Len(delivered) = 0 /\ Len(begun) = 0 /\ Len(wire) = 0 /\ Len(left) = 0
        /\ whole = 0 /\ ~failed /\ head = <<>>
    BY <1>1 DEF Init
  <2>4. Cut(off)
    BY <2>2, <2>3 DEF Cut, Last, Total
  <2> QED
    BY <2>2, <2>3, <2>4 DEF Aligned
<1> QED
  BY <1>2, <1>3, <1>4 DEF IInv

\* What is said of the stream is said of these variables.
LEMMA Unmoved ==
  ASSUME IInv, UNCHANGED <<writer, left, wire, begun, whole, failed, head, delivered, ended>>
  PROVE  Locking' /\ Returned' /\ Aligned'
<1>1. Locking' /\ Returned'
  BY DEF IInv, Locking, Returned, Last
<1>2. Last' = Last /\ Inside' = Inside
  BY DEF Last, Inside
<1>3. ASSUME NEW off, Cut(off)
      PROVE  Cut(off)'
  BY <1>2, <1>3, Zenon DEF Cut, At, Total, Padded, Length
<1>4. Aligned'
  BY <1>2, <1>3 DEF IInv, Aligned
<1> QED
  BY <1>1, <1>4

\* A send begins: a frame of its own.
LEMMA SendKeeps ==
  ASSUME IInv, NEW p \in Senders, NEW kind \in Kinds, NEW id \in 1 .. MaxFrames,
         Send(p, kind, id)
  PROVE  IInv'
<1> DEFINE f == [channel |-> kind.channel, payload |-> kind.payload, id |-> id]
<1>1. /\ frame' = [frame EXCEPT ![p] = f]
      /\ UNCHANGED <<writer, left, wire, begun, whole, failed, closed, eof,
                     head, delivered, ended>>
  BY DEF Send, readVars
<1>2. f \in Frames
  BY KindsAssumption, BoundAssumption DEF Frames
<1>3. TypeOK'
  <2>1. frame' \in [Senders -> Frames \cup {NoFrame}]
    BY <1>1, <1>2 DEF IInv, TypeOK
  <2> QED
    BY <1>1, <2>1, Zenon DEF IInv, TypeOK
<1>4. Locking' /\ Returned' /\ Aligned'
  BY <1>1, Unmoved
<1> QED
  BY <1>3, <1>4 DEF IInv

\* Closing the write half, and steps of other parts, change nothing of it.
LEMMA OthersKeep ==
  ASSUME IInv, eof' \in BOOLEAN,
         UNCHANGED <<frame, writer, left, wire, begun, whole, failed, closed,
                     head, delivered, ended>>
  PROVE  IInv'
<1>1. TypeOK'
  BY DEF IInv, TypeOK
<1>2. Locking' /\ Returned' /\ Aligned'
  BY Unmoved
<1> QED
  BY <1>1, <1>2 DEF IInv

\* The types, the lock and the places of the frames in the stream hold in
\* every state.
THEOREM Invariance == Spec => []IInv
<1>1. Init => IInv
  BY InitKeeps
<1>2. IInv /\ [Next]_vars => IInv'
  <2> SUFFICES ASSUME IInv, [Next]_vars PROVE IInv'
    OBVIOUS
  <2>1. CASE \E p \in Senders : \/ \E k \in Kinds, id \in 1 .. MaxFrames : Send(p, k, id)
                                \/ LockWriter(p) \/ SendFails(p)
    BY <2>1, SendKeeps, LockWriterKeeps, SendFailsKeeps
  <2>2. CASE \E n \in Pieces \cup {Len(left)} : Write(n)
    BY <2>2, WriteKeeps
  <2>3. CASE Sent
    BY <2>3, SentKeeps
  <2>4. CASE Close
    BY <2>4, OthersKeep DEF Close, readVars
  <2>5. CASE ReadHeader
    BY <2>5, ReadHeaderKeeps
  <2>6. CASE ReadBody
    BY <2>6, ReadBodyKeeps
  <2>7. CASE ReadEnds
    BY <2>7, FailsKeeps DEF ReadEnds
  <2>8. CASE UNCHANGED vars
    BY <2>8, OthersKeep, Zenon DEF vars, IInv, TypeOK
  <2> QED
    BY <2>1, <2>2, <2>3, <2>4, <2>5, <2>6, <2>7, <2>8 DEF Next
<1> QED
  BY <1>1, <1>2, PTL DEF Spec

\* The queues of bytes and frames hold nothing else.
THEOREM Typing == Spec => []TypeOK
<1>1. IInv => TypeOK
  BY DEF IInv
<1> QED
  BY <1>1, Invariance, PTL

\* StreamConn::send and read_frame agree on where each frame begins and ends:
\* until a send fails, the reader returns what was sent, in the order in which
\* the senders got the lock, whatever the lengths of the frames and the pieces
\* in which TCP delivers them.
THEOREM FramesStayWhole == Spec => []FramesIntact
<1>1. IInv => FramesIntact
  <2> SUFFICES ASSUME IInv, NEW i \in 1 .. Len(delivered), i <= whole
               PROVE  delivered[i] = begun[i]
    BY DEF FramesIntact
  <2>1. whole <= Last /\ whole \in Nat /\ Last \in Nat /\ Len(delivered) \in Nat
    BY Lengths DEF IInv, Locking, Last
  <2>2. i <= Last
    BY <2>1
  <2> QED
    BY <2>2 DEF IInv, Returned
<1> QED
  BY <1>1, Invariance, PTL
=============================================================================
