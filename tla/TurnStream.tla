----------------------------- MODULE TurnStream -----------------------------
(***************************************************************************)
(* TURN over TCP or TLS (turn/stream.rs): tasks of a TURN server send      *)
(* frames through one StreamConn, a StreamConn at the other end reads      *)
(* them.  TCP delivers bytes in order, in pieces of any size; a write      *)
(* may be cut off by its 5 s limit anywhere.  A byte is a pair of the      *)
(* frame it belongs to and its place in it.                                *)
(***************************************************************************)
EXTENDS Integers, Sequences

CONSTANTS Senders, NoSender,
          Kinds,     \* frames: channel (ChannelData, or else STUN), payload length
          Mtu,       \* the reader's buffer
          Pieces,    \* how many bytes TCP takes at a time, short of all
          MaxFrames  \* bound on the instance

ASSUME SendersAssumption == NoSender \notin Senders
ASSUME KindsAssumption == \A k \in Kinds : k.channel \in BOOLEAN /\ k.payload \in Nat
ASSUME BoundAssumption == MaxFrames \in Nat

VARIABLES frame,     \* per sender: the frame being sent, or none
          writer,    \* who holds the lock of the write half
          left,      \* the bytes that sender has not written yet
          wire,      \* bytes written and not yet read
          begun,     \* frames in the order in which their first byte was written
          whole,     \* how many of them were complete before the first failure
          failed,    \* a send has failed
          closed,    \* StreamConn.closed of the sending end
          eof,       \* the write half is shut down, or dropped
          head,      \* the header the reader has read, or <<>>
          delivered, \* frames the reader returned
          ended      \* StreamConn.closed of the reading end

vars == <<frame, writer, left, wire, begun, whole, failed, closed, eof, head,
          delivered, ended>>
readVars == <<head, delivered, ended>>

NoFrame == [channel |-> FALSE, payload |-> 0, id |-> 0]

Init ==
  /\ frame = [p \in Senders |-> NoFrame] /\ writer = NoSender /\ left = <<>>
  /\ wire = <<>> /\ begun = <<>> /\ whole = 0 /\ failed = FALSE
  /\ closed = FALSE /\ eof = FALSE
  /\ head = <<>> /\ delivered = <<>> /\ ended = FALSE

-----------------------------------------------------------------------------
(* send.                                                                   *)

\* A STUN message has a header of 20 bytes, ChannelData one of 4.
Length(f) == f.payload + (IF f.channel THEN 4 ELSE 20)

\* Mutant: a frame that needs no padding gets four bytes.
PaddedAnyway(f) == IF f.channel THEN 4 - (Length(f) % 4) ELSE 0

Padding(f) == IF f.channel THEN (4 - (Length(f) % 4)) % 4 ELSE 0

Bytes(f) == [n \in 1 .. Length(f) + Padding(f) |-> <<f, n>>]

Used == {frame[p].id : p \in Senders} \cup {begun[i].id : i \in 1 .. Len(begun)}

\* A task calls send; closed is not asked.
Send(p, kind, id) ==
  /\ frame[p] = NoFrame /\ id \notin Used /\ 1 .. id - 1 \subseteq Used
  /\ frame' = [frame EXCEPT ![p] = [channel |-> kind.channel, payload |-> kind.payload,
                                    id |-> id]]
  /\ UNCHANGED <<writer, left, wire, begun, whole, failed, closed, eof, readVars>>

LockWriter(p) ==
  /\ frame[p] # NoFrame /\ writer = NoSender
  /\ writer' = p /\ left' = Bytes(frame[p]) /\ begun' = Append(begun, frame[p])
  /\ UNCHANGED <<frame, wire, whole, failed, closed, eof, readVars>>

\* write_all, a piece at a time.
Write(n) ==
  /\ ~eof /\ n \in 1 .. Len(left)
  /\ wire' = wire \o SubSeq(left, 1, n)
  /\ left' = SubSeq(left, n + 1, Len(left))
  /\ UNCHANGED <<frame, writer, begun, whole, failed, closed, eof, readVars>>

\* flush
Sent ==
  /\ writer # NoSender /\ left = <<>>
  /\ frame' = [frame EXCEPT ![writer] = NoFrame] /\ writer' = NoSender
  /\ whole' = IF failed THEN whole ELSE whole + 1
  /\ UNCHANGED <<left, wire, begun, failed, closed, eof, readVars>>

\* Mutant: the failure is returned and the stream left open.
FailsQuietly(p) ==
  /\ frame[p] # NoFrame /\ frame' = [frame EXCEPT ![p] = NoFrame] /\ failed' = TRUE
  /\ IF writer = p THEN writer' = NoSender /\ left' = <<>> ELSE UNCHANGED <<writer, left>>
  /\ UNCHANGED <<wire, begun, whole, closed, eof, readVars>>

\* The limit or an error ends the write, before or after it got the lock.
SendFails(p) ==
  /\ frame[p] # NoFrame /\ frame' = [frame EXCEPT ![p] = NoFrame] /\ failed' = TRUE
  /\ IF writer = p THEN writer' = NoSender /\ left' = <<>> ELSE UNCHANGED <<writer, left>>
  /\ closed' = TRUE
  /\ UNCHANGED <<wire, begun, whole, eof, readVars>>

\* close, which the server calls when the connection is closed: the write half
\* is shut down, or after a second given up and dropped.
Close ==
  /\ closed /\ ~eof /\ eof' = TRUE
  /\ UNCHANGED <<frame, writer, left, wire, begun, whole, failed, closed, readVars>>

-----------------------------------------------------------------------------
(* read_frame and recv.                                                    *)

sendVars == <<frame, writer, left, begun, whole, failed, closed, eof>>

\* The first n bytes of the wire are the bytes of f from place m.
Belong(f, m, n) == \A i \in 1 .. n : wire[i] = <<f, m + i - 1>>
Garbage == [channel |-> FALSE, payload |-> 0, id |-> -1]

\* len and padded_len; & !3 rounds down to a multiple of four.
Padded(f) == IF f.channel THEN ((Length(f) + 3) \div 4) * 4 ELSE Length(f)
Readable(f) == (f.channel \/ f.payload % 4 = 0) /\ Length(f) <= Mtu

Fails == ended' = TRUE /\ head' = <<>> /\ UNCHANGED <<delivered, wire>>

\* Four bytes that are no header have any type and any length: an error, or a
\* frame of whatever there is.
ReadHeader ==
  /\ ~ended /\ head = <<>> /\ Len(wire) >= 4
  /\ LET f == wire[1][1] IN
       IF Belong(f, 1, 4) /\ ~Readable(f) THEN Fails
       ELSE \/ /\ head' = IF Belong(f, 1, 4) THEN <<f>> ELSE <<Garbage>>
               /\ wire' = SubSeq(wire, 5, Len(wire))
               /\ UNCHANGED <<delivered, ended>>
            \/ ~Belong(f, 1, 4) /\ Fails
  /\ UNCHANGED sendVars

\* Mutant: one byte more is asked for than belongs to the frame.
Enough(f) == Len(wire) > Padded(f) - 4

Complete(f) == Len(wire) >= Padded(f) - 4

ReadBody ==
  /\ ~ended /\ head # <<>>
  /\ LET f == head[1] IN
       /\ f # Garbage => Complete(f)
       /\ delivered' = Append(delivered, IF f # Garbage /\ Belong(f, 5, Length(f) - 4)
                                         THEN f ELSE Garbage)
       /\ wire' = IF f = Garbage THEN <<>> ELSE SubSeq(wire, Padded(f) - 3, Len(wire))
  /\ head' = <<>>
  /\ UNCHANGED <<ended, sendVars>>

\* Nothing comes for 90 s, or the stream has ended.
ReadEnds == ~ended /\ Fails /\ UNCHANGED sendVars

-----------------------------------------------------------------------------
Next ==
  \/ \E p \in Senders : \/ \E k \in Kinds, id \in 1 .. MaxFrames : Send(p, k, id)
                        \/ LockWriter(p) \/ SendFails(p)
  \/ \E n \in Pieces \cup {Len(left)} : Write(n)
  \/ Sent \/ Close \/ ReadHeader \/ ReadBody \/ ReadEnds

\* The reader reads what there is, and sees the end of the stream; a server
\* whose connection is closed closes it.
Fairness ==
  /\ WF_vars(ReadHeader \/ ReadBody) /\ WF_vars(Close) /\ WF_vars(eof /\ ReadEnds)

Spec == Init /\ [][Next]_vars /\ Fairness

-----------------------------------------------------------------------------
Frames == [channel : BOOLEAN, payload : Nat, id : Nat \ {0}]
Octets == Frames \X Nat

\* Type invariant.
TypeOK ==
  /\ frame \in [Senders -> Frames \cup {NoFrame}] /\ writer \in Senders \cup {NoSender}
  /\ left \in Seq(Octets) /\ wire \in Seq(Octets)
  /\ begun \in Seq(Frames) /\ whole \in Nat
  /\ failed \in BOOLEAN /\ closed \in BOOLEAN /\ eof \in BOOLEAN /\ ended \in BOOLEAN
  /\ head \in Seq(Frames \cup {Garbage}) /\ delivered \in Seq(Frames \cup {Garbage})

\* Up to the first send that fails, the reader returns the frames that were
\* sent, whole and in the order in which their senders got the lock: concurrent
\* sends do not mix, and writer and reader agree on the padding.
FramesIntact ==
  \A i \in 1 .. Len(delivered) : i <= whole => delivered[i] = begun[i]

\* A frame that was sent completely reaches the reader, if the reader does not
\* end: the reader never waits for a byte that is not sent.
FramesArrive ==
  \A i \in 1 .. MaxFrames : whole >= i ~> Len(delivered) >= i \/ ended

\* A send that failed may have left part of a frame behind, and senders that
\* wait for the lock write after it: such a stream comes to its end.
FailedStreamEnds == failed ~> ended
=============================================================================
