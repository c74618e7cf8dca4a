---------------------------- MODULE PacketWindow -----------------------------
(***************************************************************************)
(* What the receive window of httpdump promises                            *)
(* (httpdump/receive_window.go): the packets of one direction of a TCP     *)
(* connection wait in a list ordered by sequence number until the other    *)
(* side acknowledges them, and are then handed to the reader of the        *)
(* stream.  The ring buffer that holds the list is ReceiveWindow.          *)
(*                                                                         *)
(* The environment is the capture, one of Captures (Capture).              *)
(* A packet carries the positions of its payload in the stream beside the  *)
(* sequence number, which is all the code sees of them.                    *)
(***************************************************************************)
EXTENDS Capture, SequencesExt

VARIABLES
  capture,      \* the one of Captures that takes place
  pending,      \* the captured packets not confirmed yet
  expectBegin,  \* sequence number after the last delivered byte, 0 at first
  lastAck,      \* highest acknowledgment processed, 0 at first
  confirming,   \* confirm is running
  ack,          \* its argument
  reached       \* positions of the bytes captured so far

vars == <<capture, pending, expectBegin, lastAck, confirming, ack, delivered,
          reached>>

Segments == capture.segments

Positions == 0 .. MaxBytes - 1
Packet == [seq : SeqNumber, from : 0 .. MaxBytes, to : 0 .. MaxBytes]

\* What the reader gets of a packet is never empty: the code slices its payload.
Delivery == {g \in [from : 0 .. MaxBytes, to : 0 .. MaxBytes] : g.from < g.to}

SeqAt(position) == SeqAdd(Isn, position)
BytesOf(g) == {b \in Positions : g.from <= b /\ b < g.to}
Size(p) == p.to - p.from
EndSeq(p) == SeqAdd(p.seq, Size(p))

TypeOK ==
  /\ capture \in Captures
  /\ pending \in Seq(Packet)
  /\ expectBegin \in SeqNumber
  /\ lastAck \in SeqNumber
  /\ confirming \in BOOLEAN
  /\ ack \in SeqNumber
  /\ delivered \in Seq(Delivery)
  /\ reached \subseteq Positions

Init ==
  /\ capture \in Captures
  /\ pending = <<>>
  /\ expectBegin = 0
  /\ lastAck = 0
  /\ confirming = FALSE
  /\ ack = 0
  /\ delivered = <<>>
  /\ reached = {}

-----------------------------------------------------------------------------
(* insert                                                                  *)

PacketOf(g) == [seq |-> SeqAt(g.from), from |-> g.from, to |-> g.to]

\* All of it was delivered before.
Dropped(p) == expectBegin # 0 /\ compareTCPSeq(expectBegin, EndSeq(p)) >= 0

\* The walk back from the newest packet stops behind list position i.
IsSlot(p, i) ==
  /\ i > 0 => compareTCPSeq(pending[i].seq, p.seq) <= 0
  /\ \A j \in i + 1 .. Len(pending) : compareTCPSeq(pending[j].seq, p.seq) > 0

Duplicated(p, i) == i > 0 /\ compareTCPSeq(pending[i].seq, p.seq) = 0

QueueAt(p, i) ==
  pending' = IF Duplicated(p, i) THEN pending ELSE InsertAt(pending, i + 1, p)

Insert(g) ==
  LET p == PacketOf(g)
  IN /\ ~confirming
     /\ reached' = reached \union BytesOf(g)
     /\ \/ /\ Dropped(p) \/ Size(p) = 0
           /\ UNCHANGED pending
        \/ /\ ~Dropped(p) /\ Size(p) # 0
           /\ \E i \in 0 .. Len(pending) : IsSlot(p, i) /\ QueueAt(p, i)
     /\ UNCHANGED <<capture, expectBegin, lastAck, confirming, ack, delivered>>

-----------------------------------------------------------------------------
(* confirm: one iteration of its loop is one step, since every send may    *)
(* have to wait for the reader of the channel.                             *)

Confirm(position) ==
  /\ ~confirming
  /\ capture.lossless => \A b \in 0 .. position - 1 : b \in reached
  /\ confirming' = TRUE
  /\ ack' = SeqAt(position)
  /\ UNCHANGED <<capture, pending, expectBegin, lastAck, delivered, reached>>

HeadConfirmed == pending # <<>> /\ compareTCPSeq(Head(pending).seq, ack) < 0

\* How much of p was delivered before.
DuplicatedSize(p) ==
  IF expectBegin # 0 /\ compareTCPSeq(expectBegin, p.seq) > 0
  THEN SeqSub(expectBegin, p.seq) ELSE 0

\* Bug seeded for checking: an overlap is not trimmed off the packet.
DeliverUntrimmed(p) ==
  IF DuplicatedSize(p) >= Size(p)
  THEN UNCHANGED <<expectBegin, delivered>>
  ELSE /\ delivered' = Append(delivered, [from |-> p.from, to |-> p.to])
       /\ expectBegin' = EndSeq(p)

Deliver(p) ==
  IF DuplicatedSize(p) >= Size(p)
  THEN UNCHANGED <<expectBegin, delivered>>
  ELSE /\ delivered' = Append(delivered, [from |-> p.from + DuplicatedSize(p),
                                          to |-> p.to])
       /\ expectBegin' = EndSeq(p)

ConfirmNext ==
  /\ confirming
  /\ HeadConfirmed
  /\ Deliver(Head(pending))
  /\ pending' = Tail(pending)
  /\ UNCHANGED <<capture, lastAck, confirming, ack, reached>>

ConfirmDone ==
  /\ confirming
  /\ ~HeadConfirmed
  /\ confirming' = FALSE
  /\ lastAck' = IF compareTCPSeq(lastAck, ack) < 0 \/ lastAck = 0
                THEN ack ELSE lastAck
  /\ UNCHANGED <<capture, pending, expectBegin, ack, delivered, reached>>

Next ==
  \/ \E g \in Segments : Insert(g)
  \/ \E position \in 0 .. MaxBytes : Confirm(position)
  \/ ConfirmNext
  \/ ConfirmDone

Spec == Init /\ [][Next]_vars

-----------------------------------------------------------------------------
(* Properties; InOrder is Capture's.                                       *)

AllDelivered ==
  ~confirming /\ lastAck # 0 =>
    \A b \in 0 .. SeqSub(lastAck, Isn) - 1 :
      \E i \in DOMAIN delivered : delivered[i].from <= b /\ b < delivered[i].to

\* No segment is sent again from the same byte on with another length.
NeverRecut ==
  \A g, h \in Segments :
    g.from = h.from /\ g.from < g.to /\ h.from < h.to => g = h

\* When confirm returns, every byte before lastAck has reached the reader,
\* if the capture has seen it: insert and confirm lose none of it to
\* reordering, retransmission or overlaps.
Complete == capture.lossless /\ NeverRecut => AllDelivered

\* The same when segments are also cut anew for a retransmission.
CompleteAlways == capture.lossless => AllDelivered
=============================================================================
