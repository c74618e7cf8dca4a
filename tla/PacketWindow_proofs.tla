------------------------- MODULE PacketWindow_proofs --------------------------
(* Theorems about the comparison of sequence numbers, for every modulus and  *)
(* wrap window, and about PacketWindow, for every stream that stays away     *)
(* from the wrap-around and every segmentation of it.                        *)
EXTENDS PacketWindow, SequenceLemmas

\* Sequence numbers less than half the space apart, and not on the two sides
\* of the wrap-around, are compared by their difference.
LEMMA CompareIsDifference ==
  ASSUME NEW a \in SeqNumber, NEW b \in SeqNumber,
         ~Straddle(a, b), ~Straddle(b, a),
         a - b < HalfModulus, b - a < HalfModulus
  PROVE  compareTCPSeq(a, b) = a - b
BY SeqAssumption
  DEF SeqNumber, maxTCPSeq, SeqModulus, compareTCPSeq, SeqSub, AsInt32

\* Away from the wrap-around compareTCPSeq orders any two sequence numbers as
\* the comment above it says (receive_window.go:134-142).
THEOREM OrderedAwayFromWrap ==
  \A a, b \in SeqNumber :
    ~Straddle(a, b) /\ ~Straddle(b, a) => OrdersCorrectly(a, b)
<1> SUFFICES ASSUME NEW a \in SeqNumber, NEW b \in SeqNumber,
                    ~Straddle(a, b), ~Straddle(b, a)
             PROVE  OrdersCorrectly(a, b)
  OBVIOUS
<1>1. compareTCPSeq(a, b) = AsInt32(SeqSub(a, b))
  BY DEF compareTCPSeq
<1>2. Earlier(a, b) => AsInt32(SeqSub(a, b)) < 0
  BY SeqAssumption
    DEF SeqNumber, maxTCPSeq, SeqModulus, SeqSub, AsInt32, Earlier
<1>3. a = b => AsInt32(SeqSub(a, b)) = 0
  BY SeqAssumption DEF SeqNumber, maxTCPSeq, SeqModulus, SeqSub, AsInt32
<1>4. Earlier(b, a) => AsInt32(SeqSub(a, b)) > 0
  BY SeqAssumption
    DEF SeqNumber, maxTCPSeq, SeqModulus, SeqSub, AsInt32, Earlier
<1> QED
  BY <1>1, <1>2, <1>3, <1>4 DEF OrdersCorrectly

\* Across the wrap-around the earlier number is never reported as earlier, so
\* OrdersCorrectly fails for every such pair:
\* receive_window.go:139 widens the difference instead of negating it.
THEOREM WrapReverses ==
  \A a, b \in SeqNumber :
    Straddle(b, a) => Earlier(a, b) /\ compareTCPSeq(a, b) >= 0
<1> SUFFICES ASSUME NEW a \in SeqNumber, NEW b \in SeqNumber, Straddle(b, a)
             PROVE  Earlier(a, b) /\ compareTCPSeq(a, b) >= 0
  OBVIOUS
<1>1. /\ a \in Int /\ b \in Int /\ 0 <= b /\ b < SeqWindow
      /\ a > maxTCPSeq - SeqWindow /\ a <= maxTCPSeq
  BY SeqAssumption DEF SeqNumber, Straddle, maxTCPSeq, SeqModulus
<1>2. a > b /\ ~Straddle(a, b)
  BY <1>1, SeqAssumption DEF Straddle, maxTCPSeq, SeqModulus
<1>3. compareTCPSeq(a, b) = SeqSub(a, SeqAdd(maxTCPSeq, b))
  BY <1>2 DEF compareTCPSeq
<1>4. SeqSub(a, SeqAdd(maxTCPSeq, b)) >= 0
  BY <1>1, <1>2, SeqAssumption DEF SeqSub, SeqAdd, maxTCPSeq, SeqModulus
<1>5. Earlier(a, b)
  BY <1>1, <1>2, SeqAssumption DEF Earlier, SeqSub, maxTCPSeq, SeqModulus
<1> QED
  BY <1>3, <1>4, <1>5

-----------------------------------------------------------------------------
(* The list of packets.                                                     *)

\* The stream starts at a non-zero sequence number and ends before the numbers
\* that compareTCPSeq treats as close to the wrap-around.
NoWrap == Isn > 0 /\ Isn + MaxBytes <= maxTCPSeq - SeqWindow

\* Without a wrap-around sequence numbers are positions shifted by Isn, and
\* the code compares them as positions.
LEMMA SeqIsPosition ==
  ASSUME NoWrap, NEW x \in 0 .. MaxBytes, NEW y \in 0 .. MaxBytes
  PROVE  /\ SeqAt(x) = Isn + x
         /\ SeqAt(x) \in SeqNumber
         /\ compareTCPSeq(SeqAt(x), SeqAt(y)) = x - y
<1>1. /\ Isn \in Nat /\ MaxBytes \in Nat /\ HalfModulus \in Nat /\ SeqWindow \in Nat
      /\ maxTCPSeq = 2 * HalfModulus - 1 /\ MaxBytes < HalfModulus
  BY SeqAssumption, WindowAssumption DEF SeqNumber, maxTCPSeq, SeqModulus
<1>2. SeqAt(x) = Isn + x /\ SeqAt(y) = Isn + y
  BY <1>1 DEF NoWrap, SeqAt, SeqAdd
<1>3. ~Straddle(Isn + x, Isn + y) /\ ~Straddle(Isn + y, Isn + x)
  BY <1>1 DEF NoWrap, Straddle
<1>4. compareTCPSeq(Isn + x, Isn + y) = x - y
  <2>1. compareTCPSeq(Isn + x, Isn + y) = AsInt32(SeqSub(Isn + x, Isn + y))
    BY <1>3 DEF compareTCPSeq
  <2> QED
    BY <1>1, <2>1 DEF AsInt32, SeqSub, SeqModulus
<1> QED
  BY <1>1, <1>2, <1>4 DEF SeqNumber, NoWrap

-----------------------------------------------------------------------------
(***************************************************************************)
(* The inductive invariant.  InOrder speaks of what was delivered; a step   *)
(* preserves it because expectBegin is the end of the last delivery and     *)
(* confirm trims a packet up to it.                                         *)
(***************************************************************************)
WellFormed(p) == p.seq = Isn + p.from /\ p.from < p.to

PendingWellFormed == \A i \in DOMAIN pending : WellFormed(pending[i])

ExpectIsEnd ==
  expectBegin = IF delivered = <<>> THEN 0
                ELSE Isn + delivered[Len(delivered)].to

Inv == TypeOK /\ PendingWellFormed /\ ExpectIsEnd /\ InOrder

\* Appending one delivery.
LEMMA AppendDelivery ==
  ASSUME NEW S, NEW s \in Seq(S), NEW d \in S
  PROVE  /\ Append(s, d) \in Seq(S)
         /\ Append(s, d) # <<>>
         /\ DOMAIN s = 1 .. Len(s)
         /\ Len(s) \in Nat
         /\ Len(Append(s, d)) = Len(s) + 1
         /\ DOMAIN Append(s, d) = 1 .. Len(s) + 1
         /\ Append(s, d)[Len(s) + 1] = d
         /\ \A i \in 1 .. Len(s) : Append(s, d)[i] = s[i]
BY AppendProperties, LenProperties

\* What queueAt does to the list.
LEMMA Inserted ==
  ASSUME pending \in Seq(Packet), NEW p \in Packet, NEW i \in 0 .. Len(pending),
         pending' = InsertAt(pending, i + 1, p)
  PROVE  /\ DOMAIN pending = 1 .. Len(pending) /\ Len(pending) \in Nat
         /\ pending' \in Seq(Packet) /\ DOMAIN pending' = 1 .. Len(pending) + 1
         /\ \A k \in 1 .. i : pending'[k] = pending[k]
         /\ pending'[i + 1] = p
         /\ \A k \in i + 2 .. Len(pending) + 1 : pending'[k] = pending[k - 1]
<1>1. Len(pending) \in Nat /\ DOMAIN pending = 1 .. Len(pending)
  BY LenProperties
<1> DEFINE m == i + 1
<1>2. m \in 1 .. Len(pending) + 1 /\ m - 1 = i /\ m + 1 = i + 2
  BY <1>1
<1>3. pending' = InsertAt(pending, m, p)
  OBVIOUS
<1> HIDE DEF m
<1>4. /\ pending' \in Seq(Packet) /\ DOMAIN pending' = 1 .. Len(pending) + 1
      /\ \A k \in 1 .. m - 1 : pending'[k] = pending[k]
      /\ pending'[m] = p
      /\ \A k \in m + 1 .. Len(pending) + 1 : pending'[k] = pending[k - 1]
  <2> DEFINE t == InsertAt(pending, m, p)
  <2>1. /\ t \in Seq(Packet) /\ DOMAIN t = 1 .. Len(pending) + 1
        /\ \A k \in 1 .. m - 1 : t[k] = pending[k]
        /\ t[m] = p
        /\ \A k \in m + 1 .. Len(pending) + 1 : t[k] = pending[k - 1]
    BY ONLY pending \in Seq(Packet), p \in Packet, <1>2, InsertAtProperties
  <2>2. pending' = t
    BY <1>3
  <2> HIDE DEF t
  <2> QED
    BY <2>1, <2>2
<1> QED
  BY <1>1, <1>2, <1>4 DEF m

\* insert only adds a well-formed packet to the list.
LEMMA InvInsert ==
  ASSUME NoWrap, Inv, NEW g \in Segments, Insert(g)
  PROVE  Inv'
<1> DEFINE p == PacketOf(g)
<1>1. /\ g.from \in 0 .. MaxBytes /\ g.to \in 0 .. MaxBytes /\ g.from <= g.to
  BY WindowAssumption DEF Segments, Inv, TypeOK
<1>2. p \in Packet /\ p.seq = Isn + p.from /\ p.from = g.from /\ p.to = g.to
  BY <1>1, SeqIsPosition DEF PacketOf, Packet
<1>3. pending \in Seq(Packet) /\ UNCHANGED <<capture, expectBegin, lastAck, confirming, ack, delivered>>
  BY DEF Inv, TypeOK, Insert
<1>4. CASE pending' = pending
  BY <1>3, <1>4 DEF Inv, TypeOK, PendingWellFormed, WellFormed, ExpectIsEnd, InOrder,
                    Insert, BytesOf
<1>5. CASE /\ Size(p) # 0
           /\ \E i \in 0 .. Len(pending) : pending' = InsertAt(pending, i + 1, p)
  <2>1. PICK i \in 0 .. Len(pending) : pending' = InsertAt(pending, i + 1, p)
    BY <1>5
  <2>2. WellFormed(p)
    BY <1>1, <1>2, <1>5 DEF WellFormed, Size
  <2>3. /\ pending' \in Seq(Packet)
        /\ \A k \in DOMAIN pending' :
             pending'[k] = p \/ \E j \in DOMAIN pending : pending'[k] = pending[j]
    <3>1. p \in Packet /\ pending \in Seq(Packet)
      BY <1>2, <1>3
    <3> HIDE DEF p
    <3>2. /\ DOMAIN pending = 1 .. Len(pending) /\ Len(pending) \in Nat
          /\ pending' \in Seq(Packet) /\ DOMAIN pending' = 1 .. Len(pending) + 1
          /\ \A k \in 1 .. i : pending'[k] = pending[k]
          /\ pending'[i + 1] = p
          /\ \A k \in i + 2 .. Len(pending) + 1 : pending'[k] = pending[k - 1]
      BY <2>1, <3>1, Inserted
    <3>3. ASSUME NEW k \in DOMAIN pending'
          PROVE  pending'[k] = p \/ \E j \in DOMAIN pending : pending'[k] = pending[j]
      <4>1. k \in 1 .. i \/ k = i + 1 \/ k \in i + 2 .. Len(pending) + 1
        BY <3>2
      <4>2. ASSUME k \in i + 2 .. Len(pending) + 1 PROVE k - 1 \in DOMAIN pending
        BY <3>2, <4>2
      <4>3. ASSUME k \in 1 .. i PROVE k \in DOMAIN pending
        BY <3>2, <4>3
      <4> QED
        BY <3>2, <4>1, <4>2, <4>3
    <3> QED
      BY <3>2, <3>3
  <2>4. PendingWellFormed'
    BY <2>2, <2>3 DEF Inv, PendingWellFormed, WellFormed
  <2> QED
    BY <1>3, <2>3, <2>4 DEF Inv, TypeOK, ExpectIsEnd, InOrder, Insert, BytesOf
<1> QED
  BY <1>4, <1>5 DEF Insert, QueueAt

\* One iteration of confirm delivers nothing that was delivered before.
LEMMA InvConfirmNext ==
  ASSUME NoWrap, Inv, ConfirmNext
  PROVE  Inv'
<1> DEFINE p == Head(pending)
           d == [from |-> p.from + DuplicatedSize(p), to |-> p.to]
<1>0. Isn \in Nat /\ MaxBytes \in Nat /\ Isn > 0
  BY WindowAssumption DEF SeqNumber, NoWrap
<1>1. /\ pending \in Seq(Packet) /\ pending # <<>> /\ pending' = Tail(pending)
      /\ delivered \in Seq(Delivery)
      /\ UNCHANGED <<capture, lastAck, confirming, ack, reached>>
  BY DEF Inv, TypeOK, ConfirmNext, HeadConfirmed
<1>2. p \in Packet /\ WellFormed(p) /\ pending' \in Seq(Packet) /\ PendingWellFormed'
  <2>1. /\ p = pending[1] /\ 1 \in DOMAIN pending /\ p \in Packet
        /\ pending' \in Seq(Packet) /\ Len(pending') = Len(pending) - 1
        /\ \A i \in 1 .. Len(pending) - 1 : pending'[i] = pending[i + 1]
    BY <1>1, HeadTailProperties, EmptySeq, LenProperties
  <2>2. \A i \in DOMAIN pending' : pending'[i] = pending[i + 1] /\ i + 1 \in DOMAIN pending
    BY <1>1, <2>1, LenProperties
  <2> QED
    BY <2>1, <2>2 DEF Inv, PendingWellFormed
<1>3. p.from \in 0 .. MaxBytes /\ p.to \in 0 .. MaxBytes /\ p.from < p.to /\ p.seq = Isn + p.from
  BY <1>2 DEF Packet, WellFormed
<1>4. EndSeq(p) = Isn + p.to /\ EndSeq(p) \in SeqNumber
  <2>1. EndSeq(p) = SeqAdd(Isn + p.from, p.to - p.from)
    BY <1>3 DEF EndSeq, Size
  <2>2. SeqAdd(Isn + p.from, p.to - p.from) = SeqAt(p.to)
    <3>1. SeqAt(p.to) = Isn + p.to /\ Isn + p.to <= maxTCPSeq
      BY <1>3, SeqIsPosition DEF SeqNumber
    <3> QED
      BY <1>0, <1>3, <3>1, SeqAssumption DEF SeqAdd, maxTCPSeq, SeqModulus
  <2> QED
    BY <2>1, <2>2, <1>3, SeqIsPosition
<1>5. CASE DuplicatedSize(p) >= Size(p)
  BY <1>1, <1>2, <1>5
    DEF Inv, TypeOK, ConfirmNext, Deliver, ExpectIsEnd, InOrder
<1>6. CASE ~(DuplicatedSize(p) >= Size(p))
  <2>1. delivered' = Append(delivered, d) /\ expectBegin' = EndSeq(p)
    BY <1>6 DEF ConfirmNext, Deliver
  <2>2. /\ DuplicatedSize(p) \in Nat
        /\ delivered # <<>> => delivered[Len(delivered)].to <= p.from + DuplicatedSize(p)
    <3>1. CASE delivered = <<>>
      <4>1. expectBegin = 0
        BY <3>1 DEF Inv, ExpectIsEnd
      <4> QED
        BY <3>1, <4>1 DEF DuplicatedSize
    <3>2. CASE delivered # <<>>
      <4> DEFINE e == delivered[Len(delivered)].to
      <4>1. Len(delivered) \in DOMAIN delivered
        BY <1>1, <3>2, EmptySeq, LenProperties
      <4>2. e \in 0 .. MaxBytes
        <5>1. delivered[Len(delivered)] \in Delivery
          BY <1>1, <4>1, ElementOfSeq, LenProperties
        <5> QED
          BY <5>1 DEF Delivery
      <4>3. expectBegin = Isn + e
        BY <3>2 DEF Inv, ExpectIsEnd
      <4>4. compareTCPSeq(expectBegin, p.seq) = e - p.from /\ expectBegin # 0
        <5>1. SeqAt(e) = Isn + e /\ SeqAt(p.from) = Isn + p.from
          BY <1>3, <4>2, SeqIsPosition
        <5>2. compareTCPSeq(SeqAt(e), SeqAt(p.from)) = e - p.from
          BY <1>3, <4>2, SeqIsPosition
        <5> QED
          BY <1>0, <1>3, <4>2, <4>3, <5>1, <5>2
      <4>5. DuplicatedSize(p) = IF e > p.from THEN e - p.from ELSE 0
        BY <1>0, <1>3, <4>2, <4>3, <4>4 DEF DuplicatedSize, SeqSub
      <4> QED
        BY <1>3, <4>2, <4>5
    <3> QED
      BY <3>1, <3>2
  <2>3. d \in Delivery
    BY <1>3, <1>6, <2>2, <1>0 DEF Delivery, Size
  <2>4. /\ delivered' \in Seq(Delivery) /\ delivered' # <<>>
        /\ DOMAIN delivered = 1 .. Len(delivered)
        /\ Len(delivered) \in Nat
        /\ Len(delivered') = Len(delivered) + 1
        /\ DOMAIN delivered' = 1 .. Len(delivered) + 1
        /\ delivered'[Len(delivered) + 1] = d
        /\ \A i \in 1 .. Len(delivered) : delivered'[i] = delivered[i]
    BY SMTT(30), <1>1, <2>1, <2>3, AppendDelivery
  <2>6. ExpectIsEnd'
    BY <1>4, <2>1, <2>4 DEF ExpectIsEnd
  <2>7. \A i \in DOMAIN delivered : delivered[i].to <= d.from
    <3> SUFFICES ASSUME NEW i \in DOMAIN delivered
                 PROVE  delivered[i].to <= d.from
      OBVIOUS
    <3> DEFINE n == Len(delivered)
    <3>1. n \in DOMAIN delivered /\ delivered # <<>> /\ i \in 1 .. n
      BY <2>4
    <3>2. delivered[i] \in Delivery /\ delivered[n] \in Delivery
      BY <1>1, <2>4, <3>1, ElementOfSeq
    <3>3. delivered[i].to <= delivered[n].to
      <4>1. CASE i = n
        BY <3>2, <4>1 DEF Delivery
      <4>2. CASE i < n
        <5>1. delivered[i].to <= delivered[n].from
          BY <3>1, <4>2 DEF Inv, InOrder
        <5>2. delivered[n].from < delivered[n].to
          BY <3>2 DEF Delivery
        <5> QED
          BY <3>2, <5>1, <5>2 DEF Delivery
      <4> QED
        BY <2>4, <3>1, <4>1, <4>2
    <3>4. delivered[n].to <= d.from
      BY <2>2, <3>1
    <3> QED
      BY <2>3, <3>2, <3>3, <3>4 DEF Delivery
  <2>8. InOrder'
    <3> SUFFICES ASSUME NEW i \in DOMAIN delivered', NEW j \in DOMAIN delivered', i < j
                 PROVE  delivered'[i].to <= delivered'[j].from
      BY DEF InOrder
    <3>1. i \in DOMAIN delivered /\ delivered'[i] = delivered[i]
      BY <2>4
    <3>2. CASE j \in DOMAIN delivered
      BY <2>4, <3>1, <3>2 DEF Inv, InOrder
    <3>3. CASE j = Len(delivered) + 1
      BY <2>4, <2>7, <3>1, <3>3
    <3> QED
      BY <2>4, <3>2, <3>3
  <2> QED
    BY <1>1, <1>2, <1>4, <2>1, <2>4, <2>6, <2>8 DEF Inv, TypeOK, Delivery
<1> QED
  BY <1>5, <1>6

\* Inv is preserved by every step.
LEMMA InvInductive == NoWrap /\ Inv /\ [Next]_vars => Inv'
<1> SUFFICES ASSUME NoWrap, Inv, [Next]_vars
             PROVE  Inv'
  OBVIOUS
<1>1. ASSUME NEW g \in Segments, Insert(g)
      PROVE  Inv'
  BY <1>1, InvInsert
<1>2. ASSUME NEW position \in 0 .. MaxBytes, Confirm(position)
      PROVE  Inv'
  <2>1. ack' \in SeqNumber /\ UNCHANGED <<capture, pending, expectBegin, lastAck, delivered, reached>>
    BY <1>2, SeqIsPosition DEF Confirm
  <2>2. confirming' \in BOOLEAN
    BY <1>2 DEF Confirm
  <2> QED
    BY <2>1, <2>2 DEF Inv, TypeOK, PendingWellFormed, WellFormed, ExpectIsEnd, InOrder
<1>3. CASE ConfirmNext
  BY <1>3, InvConfirmNext
<1>4. CASE ConfirmDone
  BY <1>4 DEF ConfirmDone, Inv, TypeOK, PendingWellFormed, WellFormed, ExpectIsEnd, InOrder
<1>5. CASE UNCHANGED vars
  BY <1>5 DEF vars, Inv, TypeOK, PendingWellFormed, WellFormed, ExpectIsEnd, InOrder
<1> QED
  BY <1>1, <1>2, <1>3, <1>4, <1>5 DEF Next

\* Inv holds initially.
LEMMA InvInit == Init => Inv
<1> SUFFICES ASSUME Init PROVE Inv
  OBVIOUS
<1>1. 0 \in SeqNumber
  BY SeqAssumption DEF SeqNumber, maxTCPSeq, SeqModulus
<1>2. <<>> \in Seq(Packet) /\ <<>> \in Seq(Delivery)
  OBVIOUS
<1>3. TypeOK
  BY <1>1, <1>2 DEF Init, TypeOK
<1> QED
  BY <1>3 DEF Init, Inv, PendingWellFormed, ExpectIsEnd, InOrder

\* The reader gets the bytes of the stream in order and none of them twice,
\* for every segmentation, retransmission, reordering and loss.
THEOREM DeliveredInOrder == NoWrap => (Spec => []InOrder)
<1>1. Inv => InOrder
  BY DEF Inv
<1>2. NoWrap /\ Init => Inv
  BY InvInit
<1>3. ASSUME NoWrap
      PROVE  Spec => []InOrder
  <2>1. Inv /\ [Next]_vars => Inv'
    BY <1>3, InvInductive
  <2> QED
    BY <1>1, <2>1, InvInit, PTL DEF Spec
<1> QED
  BY <1>3

-----------------------------------------------------------------------------
(***************************************************************************)
(* Nothing the capture has seen is lost.  Complete speaks of the moments    *)
(* after confirm; what carries it there is that every captured byte is in   *)
(* the list or before the edge of what was delivered, that everything up to *)
(* this edge was delivered, and that the list is sorted: a captured byte in *)
(* a gap before the head of the list would have to be in a later packet.    *)
(***************************************************************************)
Sorted == \A i, j \in DOMAIN pending : i < j => pending[i].from < pending[j].from

AreSegments == \A i \in DOMAIN pending : \E g \in Segments : pending[i] = PacketOf(g)

\* The position after the last byte delivered.
Edge == IF delivered = <<>> THEN 0 ELSE delivered[Len(delivered)].to

Read(b) == \E i \in DOMAIN delivered : delivered[i].from <= b /\ b < delivered[i].to

Queued(b) == \E i \in DOMAIN pending : b \in BytesOf(pending[i])

ReadUpToEdge == \A b \in 0 .. Edge - 1 : Read(b)

ReachedKept == \A b \in reached : b < Edge \/ Queued(b)

\* An acknowledgment being processed confirms captured bytes only.
AckOfReached ==
  confirming => \E x \in 0 .. MaxBytes :
                  ack = SeqAt(x) /\ \A b \in 0 .. x - 1 : b \in reached

AckedRead ==
  lastAck = 0 \/ \E x \in 0 .. MaxBytes :
                   lastAck = SeqAt(x) /\ \A b \in 0 .. x - 1 : Read(b)

Whole == ReadUpToEdge /\ ReachedKept /\ AckOfReached /\ AckedRead

NothingLost == capture.lossless /\ NeverRecut => Whole

WholeInv == Inv /\ Sorted /\ AreSegments /\ NothingLost

\* The numbers the list and the acknowledgments are compared by.
LEMMA WindowTypes ==
  ASSUME NoWrap, Inv
  PROVE  /\ Isn \in Nat \ {0} /\ MaxBytes \in Nat
         /\ Edge \in 0 .. MaxBytes
         /\ expectBegin = IF delivered = <<>> THEN 0 ELSE Isn + Edge
         /\ delivered = <<>> => Edge = 0
         /\ pending \in Seq(Packet) /\ Len(pending) \in Nat /\ DOMAIN pending = 1 .. Len(pending)
         /\ delivered \in Seq(Delivery) /\ Len(delivered) \in Nat
         /\ DOMAIN delivered = 1 .. Len(delivered)
         /\ \A i \in DOMAIN pending :
              /\ pending[i].from \in 0 .. MaxBytes /\ pending[i].to \in 0 .. MaxBytes
              /\ pending[i].from < pending[i].to /\ pending[i].seq = Isn + pending[i].from
<1>1. Isn \in Nat \ {0} /\ MaxBytes \in Nat
  BY WindowAssumption DEF SeqNumber, NoWrap
<1>2. /\ pending \in Seq(Packet) /\ Len(pending) \in Nat /\ DOMAIN pending = 1 .. Len(pending)
      /\ delivered \in Seq(Delivery) /\ Len(delivered) \in Nat
      /\ DOMAIN delivered = 1 .. Len(delivered)
  BY LenProperties DEF Inv, TypeOK
<1>3. Edge \in 0 .. MaxBytes
  <2>1. CASE delivered = <<>>
    BY <1>1, <2>1 DEF Edge
  <2>2. CASE delivered # <<>>
    <3>1. Len(delivered) \in DOMAIN delivered
      BY <1>2, <2>2, EmptySeq
    <3>2. delivered[Len(delivered)] \in Delivery
      BY <1>2, <3>1, ElementOfSeq
    <3> QED
      BY <2>2, <3>2 DEF Edge, Delivery
  <2> QED
    BY <2>1, <2>2
<1>4. ASSUME NEW i \in DOMAIN pending
      PROVE  /\ pending[i].from \in 0 .. MaxBytes /\ pending[i].to \in 0 .. MaxBytes
             /\ pending[i].from < pending[i].to /\ pending[i].seq = Isn + pending[i].from
  <2>1. pending[i] \in Packet
    BY <1>2, ElementOfSeq
  <2> QED
    BY <2>1 DEF Packet, Inv, PendingWellFormed, WellFormed
<1>5. expectBegin = IF delivered = <<>> THEN 0 ELSE Isn + Edge
  BY DEF Inv, ExpectIsEnd, Edge
<1> QED
  BY <1>1, <1>2, <1>3, <1>4, <1>5 DEF Edge

\* The packet of a segment, and what insert compares.
LEMMA SegmentPacket ==
  ASSUME NoWrap, Inv, NEW g \in Segments
  PROVE  /\ g.from \in 0 .. MaxBytes /\ g.to \in 0 .. MaxBytes /\ g.from <= g.to
         /\ PacketOf(g) \in Packet
         /\ PacketOf(g).from = g.from /\ PacketOf(g).to = g.to
         /\ PacketOf(g).seq = Isn + g.from /\ EndSeq(PacketOf(g)) = Isn + g.to
<1>1. /\ g.from \in 0 .. MaxBytes /\ g.to \in 0 .. MaxBytes /\ g.from <= g.to
  BY WindowAssumption DEF Segments, Inv, TypeOK
<1>2. /\ PacketOf(g) \in Packet /\ PacketOf(g).seq = Isn + g.from
      /\ PacketOf(g).from = g.from /\ PacketOf(g).to = g.to
  BY <1>1, SeqIsPosition DEF PacketOf, Packet
<1>3. SeqAt(g.to) = Isn + g.to /\ Isn + g.to <= maxTCPSeq
  BY <1>1, SeqIsPosition DEF SeqNumber
<1>4. Isn \in Nat
  BY WindowAssumption DEF SeqNumber
<1>5. EndSeq(PacketOf(g)) = SeqAdd(Isn + g.from, g.to - g.from)
  BY <1>2 DEF EndSeq, Size
<1>6. EndSeq(PacketOf(g)) = Isn + g.to
  BY <1>1, <1>3, <1>4, <1>5, SeqAssumption DEF SeqAdd, maxTCPSeq, SeqModulus
<1> QED
  BY <1>1, <1>2, <1>6

\* insert keeps the list sorted, and what it leaves out is in the list or was
\* delivered.
LEMMA WholeInsert ==
  ASSUME NoWrap, WholeInv, NEW g \in Segments, Insert(g)
  PROVE  Sorted' /\ AreSegments' /\ NothingLost'
<1> DEFINE p == PacketOf(g)
<1>0. /\ Inv /\ Sorted /\ AreSegments
      /\ UNCHANGED <<capture, expectBegin, lastAck, confirming, ack, delivered>>
      /\ reached' = reached \union BytesOf(g)
  BY DEF WholeInv, Insert
<1>1. /\ Isn \in Nat \ {0} /\ MaxBytes \in Nat /\ Edge \in 0 .. MaxBytes
      /\ expectBegin = IF delivered = <<>> THEN 0 ELSE Isn + Edge
      /\ delivered = <<>> => Edge = 0
      /\ pending \in Seq(Packet) /\ Len(pending) \in Nat /\ DOMAIN pending = 1 .. Len(pending)
      /\ \A i \in DOMAIN pending :
           /\ pending[i].from \in 0 .. MaxBytes /\ pending[i].to \in 0 .. MaxBytes
           /\ pending[i].from < pending[i].to /\ pending[i].seq = Isn + pending[i].from
  BY <1>0, WindowTypes
<1>2. /\ g.from \in 0 .. MaxBytes /\ g.to \in 0 .. MaxBytes /\ g.from <= g.to
      /\ p \in Packet /\ p.from = g.from /\ p.to = g.to
      /\ p.seq = Isn + g.from /\ EndSeq(p) = Isn + g.to
  BY <1>0, SegmentPacket
<1>3. BytesOf(p) = BytesOf(g) /\ \A b \in BytesOf(g) : b \in Nat /\ g.from <= b /\ b < g.to
  BY <1>1, <1>2 DEF BytesOf, Positions
<1>4. Edge' = Edge /\ Segments' = Segments /\ NeverRecut' = NeverRecut
      /\ (\A b : Read(b)' = Read(b))
  BY <1>0 DEF Edge, Segments, NeverRecut, Read
<1> HIDE DEF p
<1>5. \A i \in DOMAIN pending : compareTCPSeq(pending[i].seq, p.seq) = pending[i].from - g.from
  <2> SUFFICES ASSUME NEW i \in DOMAIN pending
               PROVE  compareTCPSeq(pending[i].seq, p.seq) = pending[i].from - g.from
    OBVIOUS
  <2>1. pending[i].from \in 0 .. MaxBytes /\ pending[i].seq = Isn + pending[i].from
    BY <1>1
  <2>2. SeqAt(pending[i].from) = pending[i].seq /\ SeqAt(g.from) = p.seq
    BY <1>2, <2>1, SeqIsPosition
  <2> QED
    BY <1>2, <2>1, <2>2, SeqIsPosition
\* When p is the last ingredient that counts: its bytes are kept.
<1>6. ASSUME Sorted', AreSegments',
             \A b : Queued(b) => Queued(b)',
             NeverRecut => \A b \in BytesOf(g) : b < Edge \/ Queued(b)'
      PROVE  NothingLost'
  <2> SUFFICES ASSUME capture.lossless, NeverRecut PROVE Whole'
    BY <1>0, <1>4 DEF NothingLost
  <2>1. Whole
    BY DEF WholeInv, NothingLost
  <2>2. ReadUpToEdge'
    BY <1>4, <2>1 DEF Whole, ReadUpToEdge
  <2>3. ReachedKept'
    BY <1>0, <1>4, <1>6, <2>1 DEF Whole, ReachedKept
  <2>4. AckOfReached'
    BY <1>0, <2>1 DEF Whole, AckOfReached, Insert
  <2>5. AckedRead'
    BY <1>0, <1>4, <2>1 DEF Whole, AckedRead
  <2> QED
    BY <2>2, <2>3, <2>4, <2>5 DEF Whole
<1>7. CASE (Dropped(p) \/ Size(p) = 0) /\ UNCHANGED pending
  <2>1. Sorted' /\ AreSegments' /\ \A b : Queued(b)' = Queued(b)
    BY <1>0, <1>4, <1>7 DEF Sorted, AreSegments, Queued
  <2>2. ASSUME NEW b \in BytesOf(g) PROVE b < Edge
    <3>1. Size(p) # 0
      BY <1>2, <1>3 DEF Size
    <3>2. Dropped(p) /\ delivered # <<>>
      BY <1>1, <1>7, <3>1 DEF Dropped
    <3>3. compareTCPSeq(expectBegin, EndSeq(p)) = Edge - g.to
      <4>1. SeqAt(Edge) = expectBegin /\ SeqAt(g.to) = EndSeq(p)
        BY <1>1, <1>2, <3>2, SeqIsPosition
      <4>2. Edge \in 0 .. MaxBytes /\ g.to \in 0 .. MaxBytes
        BY <1>1, <1>2, <3>2
      <4>3. compareTCPSeq(SeqAt(Edge), SeqAt(g.to)) = Edge - g.to
        BY ONLY <4>2, SeqIsPosition, NoWrap
      <4> QED
        BY <4>1, <4>3
    <3>4. Edge >= g.to
      BY <1>1, <1>2, <3>2, <3>3 DEF Dropped
    <3> QED
      BY <1>1, <1>2, <1>3, <3>4
  <2> QED
    BY <1>6, <2>1, <2>2
<1>8. CASE /\ Size(p) # 0
           /\ \E i \in 0 .. Len(pending) : IsSlot(p, i) /\ QueueAt(p, i)
  <2>1. PICK i \in 0 .. Len(pending) : IsSlot(p, i) /\ QueueAt(p, i)
    BY <1>8
  <2>2. g.from < g.to
    BY <1>2, <1>8 DEF Size
  <2>3. CASE Duplicated(p, i)
    <3>1. pending' = pending /\ i \in DOMAIN pending /\ pending[i].from = g.from
      BY SMTT(30), <1>1, <1>2, <1>5, <2>1, <2>3 DEF QueueAt, Duplicated
    <3>2. Sorted' /\ AreSegments' /\ \A b : Queued(b)' = Queued(b)
      BY <1>0, <1>4, <3>1 DEF Sorted, AreSegments, Queued
    <3>3. ASSUME NeverRecut, NEW b \in BytesOf(g) PROVE Queued(b)'
      <4>1. PICK h \in Segments : pending[i] = PacketOf(h)
        BY <1>0, <3>1 DEF AreSegments
      <4>2. h.from = g.from /\ h.from < h.to
        <5>1. PacketOf(h).from = h.from /\ PacketOf(h).to = h.to
          BY <1>0, SegmentPacket
        <5> QED
          BY <1>1, <3>1, <4>1, <5>1
      <4>3. h = g
        BY <2>2, <3>3, <4>2 DEF NeverRecut
      <4>4. b \in BytesOf(pending[i])
        BY <1>3, <4>1, <4>3 DEF p
      <4> QED
        BY <3>1, <3>2, <4>4 DEF Queued
    <3> QED
      BY <1>6, <3>2, <3>3
  <2>4. CASE ~Duplicated(p, i)
    <3>1. pending' = InsertAt(pending, i + 1, p)
      BY <2>1, <2>4 DEF QueueAt
    <3>2. /\ pending' \in Seq(Packet) /\ DOMAIN pending' = 1 .. Len(pending) + 1
          /\ \A k \in 1 .. i : pending'[k] = pending[k]
          /\ pending'[i + 1] = p
          /\ \A k \in i + 2 .. Len(pending) + 1 : pending'[k] = pending[k - 1]
      BY <1>1, <1>2, <3>1, Inserted
    <3>3. \A j \in 1 .. i : pending[j].from < g.from
      <4>1. i > 0 => pending[i].from < g.from
        BY <1>1, <1>2, <1>5, <2>1, <2>4 DEF IsSlot, Duplicated
      <4>2. ASSUME NEW j \in 1 .. i PROVE pending[j].from < g.from
        <5>1. j \in DOMAIN pending /\ i \in DOMAIN pending /\ i > 0
          BY <1>1
        <5>2. j = i \/ pending[j].from < pending[i].from
          BY <1>0, <5>1 DEF Sorted
        <5> QED
          BY SMTT(30), <1>1, <1>2, <4>1, <5>1, <5>2
      <4> QED
        BY <4>2
    <3>4. ASSUME NEW j \in i + 1 .. Len(pending) PROVE pending[j].from > g.from
      <4>1. j \in DOMAIN pending /\ compareTCPSeq(pending[j].seq, p.seq) > 0
        BY <1>1, <2>1 DEF IsSlot
      <4>2. pending[j].from - g.from > 0
        BY <1>5, <4>1
      <4> QED
        BY <1>1, <1>2, <4>1, <4>2
    <3>5. \A k \in DOMAIN pending' :
            \/ k \in 1 .. i /\ k \in DOMAIN pending /\ pending'[k] = pending[k]
            \/ k = i + 1 /\ pending'[k] = p
            \/ k \in i + 2 .. Len(pending) + 1 /\ k - 1 \in i + 1 .. Len(pending)
               /\ k - 1 \in DOMAIN pending /\ pending'[k] = pending[k - 1]
      BY <1>1, <3>2
    <3>6. Sorted'
      <4> SUFFICES ASSUME NEW k \in DOMAIN pending', NEW l \in DOMAIN pending', k < l
                   PROVE  pending'[k].from < pending'[l].from
        BY DEF Sorted
      <4>1. CASE l \in 1 .. i
        <5>1. k \in 1 .. i /\ l \in DOMAIN pending /\ k \in DOMAIN pending
          BY <1>1, <3>2, <4>1
        <5>2. pending'[k] = pending[k] /\ pending'[l] = pending[l]
          BY <3>2, <4>1, <5>1
        <5> QED
          BY <1>0, <5>1, <5>2 DEF Sorted
      <4>2. CASE l = i + 1
        <5>1. k \in 1 .. i /\ pending'[k] = pending[k] /\ pending'[l] = p
          BY <3>5, <4>2
        <5> QED
          BY <1>2, <3>3, <5>1
      <4>3. CASE l \in i + 2 .. Len(pending) + 1
        <5>1. /\ l - 1 \in i + 1 .. Len(pending) /\ l - 1 \in DOMAIN pending
              /\ pending'[l] = pending[l - 1]
          BY <1>1, <3>5, <4>3
        <5>2. CASE k \in 1 .. i
          <6>1. pending'[k] = pending[k] /\ k \in DOMAIN pending /\ k < l - 1
            BY <1>1, <3>5, <4>3, <5>2
          <6> QED
            BY <1>0, <5>1, <6>1 DEF Sorted
        <5>3. CASE k = i + 1
          BY <1>2, <3>2, <3>4, <5>1, <5>3
        <5>4. CASE k \in i + 2 .. Len(pending) + 1
          <6>1. pending'[k] = pending[k - 1] /\ k - 1 \in DOMAIN pending /\ k - 1 < l - 1
            BY SMTT(30), <1>1, <3>2, <4>3, <5>4
          <6> QED
            BY <1>0, <5>1, <6>1 DEF Sorted
        <5> QED
          BY <3>5, <5>2, <5>3, <5>4
      <4> QED
        BY <3>5, <4>1, <4>2, <4>3
    <3>7. AreSegments'
      <4> SUFFICES ASSUME NEW k \in DOMAIN pending'
                   PROVE  \E h \in Segments : pending'[k] = PacketOf(h)
        BY <1>4 DEF AreSegments
      <4>1. CASE pending'[k] = p
        BY <4>1 DEF p
      <4>2. CASE \E j \in DOMAIN pending : pending'[k] = pending[j]
        BY <1>0, <4>2 DEF AreSegments
      <4> QED
        BY <3>5, <4>1, <4>2
    <3>8. ASSUME NEW b, Queued(b) PROVE Queued(b)'
      <4>1. PICK j \in DOMAIN pending : b \in BytesOf(pending[j])
        BY <3>8 DEF Queued
      <4>2. \E k \in DOMAIN pending' : pending'[k] = pending[j]
        <5>1. CASE j \in 1 .. i
          BY <1>1, <3>2, <5>1
        <5>2. CASE j \in i + 1 .. Len(pending)
          <6>1. j + 1 \in i + 2 .. Len(pending) + 1 /\ j + 1 \in DOMAIN pending' /\ (j + 1) - 1 = j
            BY <1>1, <3>2, <5>2
          <6> QED
            BY <3>2, <6>1
        <5> QED
          BY <1>1, <5>1, <5>2
      <4>3. PICK k \in DOMAIN pending' : pending'[k] = pending[j]
        BY <4>2
      <4>4. b \in BytesOf(pending'[k])
        BY <4>1, <4>3
      <4> QED
        BY <4>4 DEF Queued, BytesOf
    <3>9. ASSUME NEW b \in BytesOf(g) PROVE Queued(b)'
      <4>1. i + 1 \in DOMAIN pending' /\ b \in BytesOf(pending'[i + 1])
        BY <1>1, <1>3, <3>2
      <4> QED
        BY <4>1 DEF Queued, BytesOf
    <3> QED
      BY <1>6, <3>6, <3>7, <3>8, <3>9
  <2> QED
    BY <2>3, <2>4
<1> QED
  BY <1>7, <1>8 DEF Insert, p

\* A queued packet ends behind the edge and what precedes the edge is cut off
\* it; or all of it precedes the edge.
LEMMA DeliverFromEdge ==
  ASSUME NoWrap, Inv, NEW i \in DOMAIN pending, Deliver(pending[i])
  PROVE  \/ /\ Edge >= pending[i].to
            /\ UNCHANGED <<expectBegin, delivered>>
         \/ /\ Edge < pending[i].to
            /\ delivered' = Append(delivered,
                 [from |-> IF Edge > pending[i].from THEN Edge ELSE pending[i].from,
                  to |-> pending[i].to])
<1> DEFINE p == pending[i]
<1>1. /\ Isn \in Nat \ {0} /\ MaxBytes \in Nat /\ Edge \in 0 .. MaxBytes
      /\ expectBegin = IF delivered = <<>> THEN 0 ELSE Isn + Edge
      /\ delivered = <<>> => Edge = 0
      /\ p.from \in 0 .. MaxBytes /\ p.to \in 0 .. MaxBytes
      /\ p.from < p.to /\ p.seq = Isn + p.from
  BY WindowTypes
<1>2. Deliver(p)
  OBVIOUS
<1> HIDE DEF p
<1>3. DuplicatedSize(p) = IF Edge > p.from THEN Edge - p.from ELSE 0
  <2>1. CASE delivered = <<>>
    BY <1>1, <2>1 DEF DuplicatedSize
  <2>2. CASE delivered # <<>>
    <3>1. expectBegin = SeqAt(Edge) /\ p.seq = SeqAt(p.from) /\ expectBegin # 0
      <4>1. SeqAt(Edge) = Isn + Edge
        BY <1>1, SeqIsPosition
      <4>2. SeqAt(p.from) = Isn + p.from
        BY <1>1, SeqIsPosition
      <4> QED
        BY <1>1, <2>2, <4>1, <4>2
    <3>2. compareTCPSeq(expectBegin, p.seq) = Edge - p.from
      BY <1>1, <3>1, SeqIsPosition
    <3> QED
      BY <1>1, <2>2, <3>1, <3>2 DEF DuplicatedSize, SeqSub
  <2> QED
    BY <2>1, <2>2
<1>4. CASE DuplicatedSize(p) >= Size(p)
  <2>1. Edge >= p.to
    BY <1>1, <1>3, <1>4 DEF Size
  <2> QED
    BY <1>2, <1>4, <2>1 DEF Deliver, p
<1>5. CASE ~(DuplicatedSize(p) >= Size(p))
  <2>1. Edge < p.to
    BY <1>1, <1>3, <1>5 DEF Size
  <2>2. p.from + DuplicatedSize(p) = IF Edge > p.from THEN Edge ELSE p.from
    BY <1>1, <1>3
  <2>3. delivered' = Append(delivered, [from |-> p.from + DuplicatedSize(p), to |-> p.to])
    BY <1>2, <1>5 DEF Deliver
  <2> QED
    BY <2>1, <2>2, <2>3 DEF p
<1> QED
  BY <1>4, <1>5

\* The head of the list begins no later than the edge, when it is confirmed.
LEMMA NoGapBeforeHead ==
  ASSUME NoWrap, WholeInv, Whole, confirming, pending # <<>>,
         compareTCPSeq(pending[1].seq, ack) < 0
  PROVE  pending[1].from <= Edge
<1>1. /\ Isn \in Nat \ {0} /\ MaxBytes \in Nat /\ Edge \in 0 .. MaxBytes
      /\ pending \in Seq(Packet) /\ Len(pending) \in Nat /\ DOMAIN pending = 1 .. Len(pending)
      /\ \A i \in DOMAIN pending :
           /\ pending[i].from \in 0 .. MaxBytes /\ pending[i].to \in 0 .. MaxBytes
           /\ pending[i].from < pending[i].to /\ pending[i].seq = Isn + pending[i].from
  BY WindowTypes DEF WholeInv
<1>2. 1 \in DOMAIN pending
  BY <1>1, EmptySeq
<1>3. PICK x \in 0 .. MaxBytes : ack = SeqAt(x) /\ \A b \in 0 .. x - 1 : b \in reached
  BY DEF Whole, AckOfReached
<1>4. pending[1].from < x
  <2>1. SeqAt(pending[1].from) = pending[1].seq
    BY <1>1, <1>2, SeqIsPosition
  <2>2. compareTCPSeq(pending[1].seq, ack) = pending[1].from - x
    BY <1>1, <1>2, <1>3, <2>1, SeqIsPosition
  <2> QED
    BY <1>1, <1>2, <2>2
<1>5. SUFFICES ASSUME Edge < pending[1].from PROVE FALSE
  BY <1>1, <1>2
<1>6. Edge \in reached
  BY <1>1, <1>2, <1>3, <1>4, <1>5
<1>7. PICK i \in DOMAIN pending : Edge \in BytesOf(pending[i])
  BY <1>1, <1>6 DEF Whole, ReachedKept, Queued
<1>8. pending[i].from <= Edge
  BY <1>7 DEF BytesOf
<1>9. i = 1 \/ pending[1].from < pending[i].from
  BY <1>1, <1>2 DEF WholeInv, Sorted
<1> QED
  BY <1>1, <1>2, <1>5, <1>8, <1>9

\* An iteration of confirm moves the edge over the packet it takes.
LEMMA WholeConfirmNext ==
  ASSUME NoWrap, WholeInv, ConfirmNext
  PROVE  Sorted' /\ AreSegments' /\ NothingLost'
<1>0. /\ Inv /\ Sorted /\ AreSegments /\ confirming
      /\ pending # <<>> /\ pending' = Tail(pending)
      /\ UNCHANGED <<capture, lastAck, confirming, ack, reached>>
  BY DEF WholeInv, ConfirmNext, HeadConfirmed
<1>1. /\ Isn \in Nat \ {0} /\ MaxBytes \in Nat /\ Edge \in 0 .. MaxBytes
      /\ pending \in Seq(Packet) /\ Len(pending) \in Nat /\ DOMAIN pending = 1 .. Len(pending)
      /\ delivered \in Seq(Delivery) /\ Len(delivered) \in Nat
      /\ DOMAIN delivered = 1 .. Len(delivered)
      /\ \A i \in DOMAIN pending :
           /\ pending[i].from \in 0 .. MaxBytes /\ pending[i].to \in 0 .. MaxBytes
           /\ pending[i].from < pending[i].to /\ pending[i].seq = Isn + pending[i].from
  BY <1>0, WindowTypes
<1>2. /\ 1 \in DOMAIN pending /\ Head(pending) = pending[1]
      /\ DOMAIN pending' = 1 .. Len(pending) - 1
      /\ \A i \in DOMAIN pending' : pending'[i] = pending[i + 1] /\ i + 1 \in DOMAIN pending
  <2>1. /\ Len(pending) # 0 /\ Head(pending) = pending[1]
        /\ Tail(pending) \in Seq(Packet) /\ Len(Tail(pending)) = Len(pending) - 1
        /\ \A i \in 1 .. Len(pending) - 1 : Tail(pending)[i] = pending[i + 1]
    BY <1>0, <1>1, EmptySeq, HeadTailProperties
  <2>2. DOMAIN pending' = 1 .. Len(pending) - 1
    BY <1>0, <2>1, LenProperties
  <2> QED
    BY <1>0, <1>1, <2>1, <2>2
<1>3. Sorted'
  <2> SUFFICES ASSUME NEW i \in DOMAIN pending', NEW j \in DOMAIN pending', i < j
               PROVE  pending'[i].from < pending'[j].from
    BY DEF Sorted
  <2>1. i + 1 < j + 1 /\ i + 1 \in DOMAIN pending /\ j + 1 \in DOMAIN pending
    BY <1>1, <1>2
  <2> QED
    BY <1>0, <1>2, <2>1 DEF Sorted
<1>4. AreSegments'
  BY <1>0, <1>2 DEF AreSegments, Segments
<1>5. NothingLost'
  <2> SUFFICES ASSUME capture.lossless, NeverRecut PROVE Whole'
    BY <1>0 DEF NothingLost, NeverRecut, Segments
  <2> DEFINE p == pending[1]
  <2>1. Whole /\ p.from <= Edge
    <3>1. Whole
      BY DEF WholeInv, NothingLost
    <3> QED
      BY <1>0, <1>2, <3>1, NoGapBeforeHead DEF ConfirmNext, HeadConfirmed
  <2>2. /\ p.from \in 0 .. MaxBytes /\ p.to \in 0 .. MaxBytes /\ p.from < p.to
    BY <1>1, <1>2
  <2>3. \/ Edge >= p.to /\ UNCHANGED <<expectBegin, delivered>>
        \/ /\ Edge < p.to
           /\ delivered' = Append(delivered, [from |-> Edge, to |-> p.to])
    <3>1. Deliver(pending[1])
      BY <1>2 DEF ConfirmNext
    <3>2. \/ /\ Edge >= p.to
             /\ UNCHANGED <<expectBegin, delivered>>
          \/ /\ Edge < p.to
             /\ delivered' = Append(delivered,
                  [from |-> IF Edge > p.from THEN Edge ELSE p.from, to |-> p.to])
      BY <1>0, <1>2, <3>1, DeliverFromEdge
    <3>3. (IF Edge > p.from THEN Edge ELSE p.from) = Edge
      BY <1>1, <2>1, <2>2
    <3> QED
      BY <3>2, <3>3
  \* How the step changes the edge and what was read.
  <2>4. /\ Edge' \in 0 .. MaxBytes /\ Edge' >= Edge /\ Edge' >= p.to
        /\ \A b \in 0 .. Edge' - 1 : b < Edge \/ Read(b)'
        /\ \A b : Read(b) => Read(b)'
    <3>1. CASE Edge >= p.to /\ UNCHANGED <<expectBegin, delivered>>
      <4>1. Edge' = Edge
        BY <3>1 DEF Edge
      <4>2. \A b : Read(b) => Read(b)'
        BY <3>1 DEF Read
      <4> QED
        BY <1>1, <3>1, <4>1, <4>2
    <3>2. CASE /\ Edge < p.to
               /\ delivered' = Append(delivered, [from |-> Edge, to |-> p.to])
      <4> DEFINE d == [from |-> Edge, to |-> p.to]
      <4>1. d \in Delivery /\ d.from = Edge /\ d.to = p.to
        BY <1>1, <2>2, <3>2 DEF Delivery
      <4>2. delivered' = Append(delivered, d)
        BY <3>2
      <4> HIDE DEF d, p
      <4>3. /\ delivered' # <<>> /\ Len(delivered') = Len(delivered) + 1
            /\ DOMAIN delivered' = 1 .. Len(delivered) + 1
            /\ delivered'[Len(delivered) + 1] = d
            /\ \A i \in 1 .. Len(delivered) : delivered'[i] = delivered[i]
        BY <1>1, <4>1, <4>2, AppendDelivery
      <4>4. Edge' = p.to
        BY <4>1, <4>3 DEF Edge
      <4>5. \A b \in 0 .. p.to - 1 : b < Edge \/ Read(b)'
        BY <1>1, <2>2, <4>1, <4>3 DEF Read
      <4>6. \A b : Read(b) => Read(b)'
        BY <1>1, <4>3 DEF Read
      <4> QED
        BY <1>1, <2>2, <3>2, <4>4, <4>5, <4>6
    <3> QED
      BY <2>3, <3>1, <3>2
  <2>5. ReadUpToEdge'
    BY <1>1, <2>1, <2>4 DEF Whole, ReadUpToEdge
  <2>6. ReachedKept'
    <3> SUFFICES ASSUME NEW b \in reached PROVE b < Edge' \/ Queued(b)'
      BY <1>0 DEF ReachedKept
    <3>1. b \in Int
      BY <1>0 DEF Inv, TypeOK, Positions
    <3>2. CASE b < Edge
      BY <1>1, <2>4, <3>1, <3>2
    <3>3. ASSUME NEW i \in DOMAIN pending, b \in BytesOf(pending[i])
          PROVE  b < Edge' \/ Queued(b)'
      <4>1. CASE i = 1
        BY <1>1, <2>2, <2>4, <3>1, <3>3, <4>1 DEF BytesOf
      <4>2. CASE i # 1
        <5>1. i - 1 \in DOMAIN pending' /\ (i - 1) + 1 = i
          BY <1>1, <1>2, <4>2
        <5>2. pending'[i - 1] = pending[i]
          BY <1>2, <5>1
        <5>3. b \in BytesOf(pending'[i - 1])
          BY <3>3, <5>2
        <5> QED
          BY <5>1, <5>3 DEF Queued, BytesOf
      <4> QED
        BY <4>1, <4>2
    <3> QED
      BY <2>1, <3>2, <3>3 DEF Whole, ReachedKept, Queued
  <2>7. AckOfReached'
    BY <1>0, <2>1 DEF Whole, AckOfReached
  <2>8. AckedRead'
    BY <1>0, <2>1, <2>4 DEF Whole, AckedRead
  <2> QED
    BY <2>5, <2>6, <2>7, <2>8 DEF Whole
<1> QED
  BY <1>3, <1>4, <1>5

\* When confirm returns, what it confirmed has been read.
LEMMA WholeConfirmDone ==
  ASSUME NoWrap, WholeInv, ConfirmDone
  PROVE  Sorted' /\ AreSegments' /\ NothingLost'
<1>0. /\ Inv /\ Sorted /\ AreSegments /\ confirming /\ ~confirming'
      /\ UNCHANGED <<capture, pending, expectBegin, ack, delivered, reached>>
      /\ lastAck' = ack \/ lastAck' = lastAck
  BY DEF WholeInv, ConfirmDone
<1>1. /\ Isn \in Nat \ {0} /\ MaxBytes \in Nat /\ Edge \in 0 .. MaxBytes
      /\ pending \in Seq(Packet) /\ Len(pending) \in Nat /\ DOMAIN pending = 1 .. Len(pending)
      /\ \A i \in DOMAIN pending :
           /\ pending[i].from \in 0 .. MaxBytes /\ pending[i].to \in 0 .. MaxBytes
           /\ pending[i].from < pending[i].to /\ pending[i].seq = Isn + pending[i].from
  BY <1>0, WindowTypes
<1>2. Sorted' /\ AreSegments'
  BY <1>0 DEF Sorted, AreSegments, Segments
<1>3. NothingLost'
  <2> SUFFICES ASSUME capture.lossless, NeverRecut PROVE Whole'
    BY <1>0 DEF NothingLost, NeverRecut, Segments
  <2>1. Whole
    BY DEF WholeInv, NothingLost
  <2>2. Edge' = Edge /\ (\A b : Read(b)' = Read(b)) /\ (\A b : Queued(b)' = Queued(b))
    BY <1>0 DEF Edge, Read, Queued
  <2>3. PICK x \in 0 .. MaxBytes : ack = SeqAt(x) /\ \A b \in 0 .. x - 1 : b \in reached
    BY <1>0, <2>1 DEF Whole, AckOfReached
  <2>4. ASSUME NEW b \in 0 .. x - 1 PROVE Read(b)
    <3>1. SUFFICES ASSUME NEW i \in DOMAIN pending, b \in BytesOf(pending[i])
                   PROVE  FALSE
      BY <1>1, <2>1, <2>3 DEF Whole, ReadUpToEdge, ReachedKept, Queued
    <3>2. pending[i].from <= b
      BY <3>1 DEF BytesOf
    <3>3. /\ 1 \in DOMAIN pending /\ pending # <<>> /\ Head(pending) = pending[1]
          /\ pending[1].from <= pending[i].from
      <4>1. 1 \in DOMAIN pending /\ pending # <<>>
        BY <1>1, EmptySeq
      <4>2. i = 1 \/ 1 < i
        BY <1>1
      <4>3. 1 < i => pending[1].from < pending[i].from
        BY <1>0, <4>1 DEF Sorted
      <4> QED
        BY <1>1, <4>1, <4>2, <4>3, HeadTailProperties
    <3>4. pending[1].from >= x
      <4>1. ~(compareTCPSeq(pending[1].seq, ack) < 0)
        BY <3>3 DEF ConfirmDone, HeadConfirmed
      <4>2. SeqAt(pending[1].from) = pending[1].seq
        BY <1>1, <3>3, SeqIsPosition
      <4>3. pending[1].from \in 0 .. MaxBytes
        BY <1>1, <3>3
      <4>4. compareTCPSeq(SeqAt(pending[1].from), SeqAt(x)) = pending[1].from - x
        BY <4>3, SeqIsPosition
      <4> QED
        BY <2>3, <4>1, <4>2, <4>3, <4>4
    <3> QED
      BY SMTT(30), <1>1, <3>2, <3>3, <3>4
  <2>5. ReadUpToEdge' /\ ReachedKept'
    BY <1>0, <2>1, <2>2 DEF Whole, ReadUpToEdge, ReachedKept
  <2>6. AckOfReached'
    BY <1>0 DEF AckOfReached
  <2>7. AckedRead'
    <3>1. CASE lastAck' = ack
      BY <2>2, <2>3, <2>4, <3>1 DEF AckedRead
    <3>2. CASE lastAck' = lastAck
      BY <2>1, <2>2, <3>2 DEF Whole, AckedRead
    <3> QED
      BY <1>0, <3>1, <3>2
  <2> QED
    BY <2>5, <2>6, <2>7 DEF Whole
<1> QED
  BY <1>2, <1>3

\* WholeInv is preserved by every step.
LEMMA WholeInductive == NoWrap /\ WholeInv /\ [Next]_vars => WholeInv'
<1> SUFFICES ASSUME NoWrap, WholeInv, [Next]_vars
             PROVE  Sorted' /\ AreSegments' /\ NothingLost'
  BY InvInductive DEF WholeInv
<1>1. ASSUME NEW g \in Segments, Insert(g)
      PROVE  Sorted' /\ AreSegments' /\ NothingLost'
  BY <1>1, WholeInsert
<1>2. ASSUME NEW position \in 0 .. MaxBytes, Confirm(position)
      PROVE  Sorted' /\ AreSegments' /\ NothingLost'
  <2>1. /\ UNCHANGED <<capture, pending, expectBegin, lastAck, delivered, reached>>
        /\ capture.lossless => \A b \in 0 .. position - 1 : b \in reached
        /\ ack' = SeqAt(position)
    BY <1>2 DEF Confirm
  <2>2. Sorted' /\ AreSegments'
    BY <2>1 DEF WholeInv, Sorted, AreSegments, Segments
  <2>3. NothingLost'
    <3> SUFFICES ASSUME capture.lossless, NeverRecut PROVE Whole'
      BY <2>1 DEF NothingLost, NeverRecut, Segments
    <3>1. Whole
      BY DEF WholeInv, NothingLost
    <3>2. Edge' = Edge /\ (\A b : Read(b)' = Read(b)) /\ (\A b : Queued(b)' = Queued(b))
      BY <2>1 DEF Edge, Read, Queued
    <3>3. AckOfReached'
      BY <2>1 DEF AckOfReached
    <3> QED
      BY <2>1, <3>1, <3>2, <3>3 DEF Whole, ReadUpToEdge, ReachedKept, AckedRead
  <2> QED
    BY <2>2, <2>3
<1>3. CASE ConfirmNext
  BY <1>3, WholeConfirmNext
<1>4. CASE ConfirmDone
  BY <1>4, WholeConfirmDone
<1>5. CASE UNCHANGED vars
  <2>1. Edge' = Edge /\ (\A b : Read(b)' = Read(b)) /\ (\A b : Queued(b)' = Queued(b))
    BY <1>5 DEF vars, Edge, Read, Queued
  <2>2. Whole => Whole'
    BY <1>5, <2>1 DEF vars, Whole, ReadUpToEdge, ReachedKept, AckOfReached, AckedRead
  <2>3. Sorted' /\ AreSegments'
    BY <1>5 DEF vars, WholeInv, Sorted, AreSegments, Segments
  <2> QED
    BY <1>5, <2>2, <2>3 DEF vars, WholeInv, NothingLost, NeverRecut, Segments
<1> QED
  BY <1>1, <1>2, <1>3, <1>4, <1>5 DEF Next

\* WholeInv holds initially.
LEMMA WholeInit == Init => WholeInv
<1> SUFFICES ASSUME Init PROVE WholeInv
  OBVIOUS
<1>1. Inv
  BY InvInit
<1>2. Sorted /\ AreSegments
  BY DEF Init, Sorted, AreSegments
<1>3. Whole
  BY DEF Init, Whole, ReadUpToEdge, ReachedKept, AckOfReached, AckedRead, Edge
<1> QED
  BY <1>1, <1>2, <1>3 DEF WholeInv, NothingLost

\* With WholeInv everything before lastAck has been read, whenever confirm is
\* not running.
LEMMA WholeIsComplete == NoWrap /\ WholeInv => Complete
<1> SUFFICES ASSUME NoWrap, WholeInv, capture.lossless, NeverRecut, lastAck # 0,
                    NEW b \in 0 .. SeqSub(lastAck, Isn) - 1
             PROVE  Read(b)
  BY DEF Complete, AllDelivered, Read
<1>1. PICK x \in 0 .. MaxBytes : lastAck = SeqAt(x) /\ \A a \in 0 .. x - 1 : Read(a)
  BY DEF WholeInv, NothingLost, Whole, AckedRead
<1>2. SeqAt(x) = Isn + x /\ Isn \in Nat
  BY SeqIsPosition, WindowAssumption DEF SeqNumber
<1>3. SeqSub(lastAck, Isn) = x
  BY <1>1, <1>2 DEF SeqSub
<1> QED
  BY <1>1, <1>3

\* When confirm returns, every byte before lastAck has reached the reader if
\* the capture has seen it: reordering, retransmission and overlaps of any
\* number of segments make the window lose none of it.
THEOREM NothingConfirmedIsLost == NoWrap => (Spec => []Complete)
<1>1. ASSUME NoWrap
      PROVE  Spec => []Complete
  <2>1. WholeInv /\ [Next]_vars => WholeInv'
    BY <1>1, WholeInductive
  <2>2. WholeInv => Complete
    BY <1>1, WholeIsComplete
  <2> QED
    BY <2>1, <2>2, WholeInit, PTL DEF Spec
<1> QED
  BY <1>1
=============================================================================
