------------------------ MODULE ReceiveWindow_proofs -------------------------
(***************************************************************************)
(* The ring buffer of httpdump implements the ordered list of PacketWindow, *)
(* for every initial size, stream and capture, and what PacketWindow        *)
(* promises holds of the ring.                                              *)
(***************************************************************************)
EXTENDS ReceiveWindow, SequenceLemmas, FiniteSetTheorems

Packet == Window!Packet

\* Ring and list compare sequence numbers alike.
LEMMA SameComparison ==
  /\ \A a, b : Window!compareTCPSeq(a, b) = compareTCPSeq(a, b)
  /\ \A a, b : Window!SeqAdd(a, b) = SeqAdd(a, b)
  /\ Window!SeqNumber = SeqNumber
<1>1. \A a, b : Window!SeqAdd(a, b) = SeqAdd(a, b)
  BY DEF Window!SeqAdd, SeqAdd, Window!maxTCPSeq, maxTCPSeq, Window!SeqModulus, SeqModulus
<1>2. \A a, b : Window!SeqSub(a, b) = SeqSub(a, b)
  BY DEF Window!SeqSub, SeqSub, Window!SeqModulus, SeqModulus
<1>3. \A a, b : Window!Straddle(a, b) = Straddle(a, b)
  BY DEF Window!Straddle, Straddle, Window!maxTCPSeq, maxTCPSeq, Window!SeqModulus, SeqModulus
<1>4. \A u : Window!AsInt32(u) = AsInt32(u)
  BY DEF Window!AsInt32, AsInt32, Window!SeqModulus, SeqModulus
<1>5. Window!maxTCPSeq = maxTCPSeq
  BY DEF Window!maxTCPSeq, maxTCPSeq, Window!SeqModulus, SeqModulus
<1>6. \A a, b : Window!compareTCPSeq(a, b) = compareTCPSeq(a, b)
  BY <1>1, <1>2, <1>3, <1>4, <1>5 DEF Window!compareTCPSeq, compareTCPSeq
<1>7. Window!SeqNumber = SeqNumber
  BY <1>5 DEF Window!SeqNumber, SeqNumber
<1> QED
  BY <1>1, <1>6, <1>7

(***************************************************************************)
(* The arithmetic of the ring.  A ring of n slots is never asked for a slot *)
(* of 2 * n or more, so the modulus subtracts n at most once.               *)
(***************************************************************************)
Wrapped(x, n) == IF x < n THEN x ELSE x - n

\* The modulus of an index into a ring.
LEMMA ModOfRing ==
  ASSUME NEW n \in Nat \ {0}, NEW x \in 0 .. 2 * n - 1
  PROVE  x % n = Wrapped(x, n) /\ x % n \in 0 .. n - 1
<1>1. CASE x < n
  <2>1. x % n = x
    BY <1>1, SMT
  <2> QED
    BY <1>1, <2>1 DEF Wrapped
<1>2. CASE x >= n
  <2>1. x % n = x - n
    BY <1>2, SMT
  <2> QED
    BY <1>2, <2>1 DEF Wrapped
<1> QED
  BY <1>1, <1>2

\* A ring of n slots, used from its first slot on.
IsRing(ring, n, first) == ring \in [0 .. n - 1 -> Packet] /\ first \in 0 .. n - 1

\* The l-th packet of such a ring.
Slot(ring, n, first, l) == ring[Wrapped(l + first, n)]

\* Capacity is the number of slots.
LEMMA RingSize ==
  ASSUME NEW n \in Nat \ {0}, NEW S, NEW ring \in [0 .. n - 1 -> S]
  PROVE  Cardinality(DOMAIN ring) = n
BY FS_Interval

\* The code's index is the wrapped one.
LEMMA AtIsSlot ==
  ASSUME NEW n \in Nat \ {0}, IsRing(buffer, n, start), NEW l \in 0 .. n
  PROVE  /\ Capacity = n
         /\ Index(l) = Wrapped(l + start, n) /\ Index(l) \in 0 .. n - 1
         /\ At(l) = Slot(buffer, n, start, l) /\ At(l) \in Packet
<1>1. Capacity = n
  BY RingSize DEF IsRing, Capacity
<1>2. l + start \in 0 .. 2 * n - 1 /\ start \in Int
  BY DEF IsRing
<1>3. Index(l) = Wrapped(l + start, n) /\ Index(l) \in 0 .. n - 1
  BY <1>1, <1>2, ModOfRing DEF Index
<1> QED
  BY <1>1, <1>3 DEF IsRing, At, Slot

\* insert into a ring with room: p gets index i, the packets behind it up to
\* the newest move up by one, across the end of the ring too.
LEMMA PlaceSlots ==
  ASSUME NEW n \in Nat \ {0}, NEW ring, NEW first, IsRing(ring, n, first),
         NEW p \in Packet, size \in 0 .. n - 1, NEW i \in 0 .. size
  PROVE  /\ IsRing(Place(p, i, ring, first), n, first)
         /\ \A l \in 0 .. n - 1 :
              Slot(Place(p, i, ring, first), n, first, l) =
                IF l = i THEN p
                ELSE IF i < l /\ l <= size THEN Slot(ring, n, first, l - 1)
                ELSE Slot(ring, n, first, l)
<1> DEFINE b == Place(p, i, ring, first)
           Logical(k) == (k - first + n) % n
<1>1. Cardinality(DOMAIN ring) = n
  BY RingSize DEF IsRing
<1>2. b = [k \in 0 .. n - 1 |->
             CASE Logical(k) = i -> p
               [] i < Logical(k) /\ Logical(k) <= size -> ring[(k - 1 + n) % n]
               [] OTHER -> ring[k]]
  BY <1>1 DEF Place
<1>3. first \in 0 .. n - 1 /\ ring \in [0 .. n - 1 -> Packet]
  BY DEF IsRing
<1>4. ASSUME NEW k \in 0 .. n - 1
      PROVE  /\ Logical(k) = IF k < first THEN k - first + n ELSE k - first
             /\ (k - 1 + n) % n = IF k = 0 THEN n - 1 ELSE k - 1
  <2>1. k - first + n \in 0 .. 2 * n - 1 /\ k - 1 + n \in 0 .. 2 * n - 1
    BY <1>3
  <2>2. Logical(k) = Wrapped(k - first + n, n) /\ (k - 1 + n) % n = Wrapped(k - 1 + n, n)
    BY <2>1, ModOfRing
  <2> HIDE DEF Logical
  <2> QED
    BY <1>3, <2>2 DEF Wrapped
<1> HIDE DEF b, Logical
<1>5. b \in [0 .. n - 1 -> Packet]
  <2>1. \A k \in 0 .. n - 1 : ring[k] \in Packet /\ ring[(k - 1 + n) % n] \in Packet
    <3> SUFFICES ASSUME NEW k \in 0 .. n - 1
                 PROVE  ring[k] \in Packet /\ ring[(k - 1 + n) % n] \in Packet
      OBVIOUS
    <3>1. (k - 1 + n) % n \in 0 .. n - 1
      BY <1>4
    <3> QED
      BY <1>3, <3>1
  <2> QED
    BY <1>2, <2>1
<1>6. ASSUME NEW l \in 0 .. n - 1
      PROVE  Slot(b, n, first, l) = IF l = i THEN p
                                    ELSE IF i < l /\ l <= size THEN Slot(ring, n, first, l - 1)
                                    ELSE Slot(ring, n, first, l)
  <2> DEFINE k == Wrapped(l + first, n)
  <2>1. k \in 0 .. n - 1 /\ Slot(b, n, first, l) = b[k] /\ Slot(ring, n, first, l) = ring[k]
    BY <1>3 DEF Wrapped, Slot
  <2>2. (IF k < first THEN k - first + n ELSE k - first) = l
    BY <1>3 DEF Wrapped
  <2>3. l > 0 => Slot(ring, n, first, l - 1) = ring[IF k = 0 THEN n - 1 ELSE k - 1]
    BY <1>3 DEF Wrapped, Slot
  <2> HIDE DEF k
  <2>4. Logical(k) = l
    BY <1>4, <2>1, <2>2
  <2>5. b[k] = IF l = i THEN p
               ELSE IF i < l /\ l <= size THEN ring[(k - 1 + n) % n]
               ELSE ring[k]
    BY <1>2, <2>1, <2>4
  <2> QED
    BY <1>4, <2>1, <2>3, <2>5
<1> QED
  BY <1>3, <1>5, <1>6 DEF IsRing, b

\* expand keeps the packets of a full ring in their order, from slot 0 on.
LEMMA ExpandSlots ==
  ASSUME NEW n \in Nat \ {0}, IsRing(buffer, n, start), size = n, Nil \in Packet
  PROVE  /\ IsRing(Expand, 2 * n, 0)
         /\ \A l \in 0 .. n - 1 : Slot(Expand, 2 * n, 0, l) = Slot(buffer, n, start, l)
         /\ \A l \in n .. 2 * n - 1 : Slot(Expand, 2 * n, 0, l) = Nil
<1>1. Capacity = n /\ start \in 0 .. n - 1 /\ buffer \in [0 .. n - 1 -> Packet]
  BY RingSize DEF IsRing, Capacity
<1> DEFINE b == Expand
<1>2. b = [k \in 0 .. 2 * n - 1 |->
             CASE k < n - start -> buffer[start + k]
               [] k >= n - start /\ k < n -> buffer[k - (n - start)]
               [] OTHER -> Nil]
  BY <1>1 DEF Expand
<1> HIDE DEF b
<1>3. ASSUME NEW k \in 0 .. 2 * n - 1
      PROVE  b[k] = IF k < n THEN buffer[Wrapped(k + start, n)] ELSE Nil
  <2>1. CASE k < n - start
    <3>1. b[k] = buffer[start + k] /\ Wrapped(k + start, n) = start + k /\ k < n
      BY <1>1, <1>2, <2>1 DEF Wrapped
    <3> QED
      BY <3>1
  <2>2. CASE k >= n - start /\ k < n
    <3>1. b[k] = buffer[k - (n - start)] /\ Wrapped(k + start, n) = k - (n - start)
      BY <1>1, <1>2, <2>2 DEF Wrapped
    <3> QED
      BY <2>2, <3>1
  <2>3. CASE k >= n
    BY <1>1, <1>2, <2>3
  <2> QED
    BY <1>1, <2>1, <2>2, <2>3
<1>4. \A k \in 0 .. n - 1 : Wrapped(k + start, n) \in 0 .. n - 1
  BY <1>1 DEF Wrapped
<1>5. b \in [0 .. 2 * n - 1 -> Packet]
  <2>1. b = [k \in 0 .. 2 * n - 1 |-> b[k]]
    BY <1>2
  <2>2. \A k \in 0 .. 2 * n - 1 : b[k] \in Packet
    BY <1>1, <1>3, <1>4
  <2> QED
    BY <2>1, <2>2
<1>6. \A l \in 0 .. 2 * n - 1 : Wrapped(l + 0, 2 * n) = l
  BY DEF Wrapped
<1>7. 0 \in 0 .. 2 * n - 1
  OBVIOUS
<1> QED
  BY <1>3, <1>5, <1>6, <1>7 DEF IsRing, Slot, b

(***************************************************************************)
(* What every reachable ring looks like.  TypeOK alone is not inductive: a  *)
(* slot may be taken for free, or a free one be read, unless the ring is a  *)
(* function on a range of slots and confirm alone moves idx.                *)
(***************************************************************************)
IdleAtZero == ~confirming => idx = 0

RingInv ==
  /\ capture \in Captures
  /\ \E n \in Nat \ {0} : IsRing(buffer, n, start)
  /\ IdleAtZero
  /\ TypeOK

\* What the ring's variables say with its capacity named.
LEMMA RingFacts ==
  ASSUME RingInv
  PROVE  /\ Capacity \in Nat \ {0} /\ IsRing(buffer, Capacity, start)
         /\ size \in 0 .. Capacity /\ idx \in 0 .. size
         /\ \A l \in 0 .. Capacity - 1 :
              /\ At(l) = Slot(buffer, Capacity, start, l) /\ At(l) \in Packet
              /\ (At(l) # Nil) <=> (idx <= l /\ l < size)
<1>1. PICK n \in Nat \ {0} : IsRing(buffer, n, start)
  BY DEF RingInv
<1>2. Capacity = n /\ \A l \in 0 .. n : At(l) = Slot(buffer, n, start, l) /\ At(l) \in Packet
  BY <1>1, AtIsSlot
<1> QED
  BY <1>1, <1>2 DEF RingInv, TypeOK

\* The list that the ring holds.
LEMMA PendingIsList ==
  ASSUME RingInv
  PROVE  /\ Pending \in Seq(Packet) /\ Len(Pending) = size - idx
         /\ DOMAIN Pending = 1 .. size - idx
         /\ \A k \in 1 .. size - idx : Pending[k] = At(idx + k - 1)
<1>1. size - idx \in Nat /\ \A k \in 1 .. size - idx : At(idx + k - 1) \in Packet
  BY RingFacts
<1>2. Pending \in [1 .. size - idx -> Packet]
  BY <1>1 DEF Pending
<1>3. Pending \in Seq(Packet) /\ Len(Pending) = size - idx
  BY <1>1, <1>2, FunctionIsSeq
<1> QED
  BY <1>3 DEF Pending

\* The slots in use are those from the idx-th to the last.
Occupied(ring, n, first, from, to) ==
  \A l \in 0 .. n - 1 : (Slot(ring, n, first, l) # Nil) <=> (from <= l /\ l < to)

\* They hold the packets of a list.
Holds(ring, n, first, from, to, list) ==
  /\ list \in Seq(Packet)
  /\ Len(list) = to - from
  /\ \A k \in 1 .. to - from : Slot(ring, n, first, from + k - 1) = list[k]

\* A ring after a step holds the list that its slots hold.
LEMMA RingInvAgain ==
  ASSUME capture' \in Captures, IdleAtZero',
         NEW n \in Nat \ {0}, NEW ring, NEW first, IsRing(ring, n, first),
         NEW to \in 0 .. n, NEW from \in 0 .. to, Occupied(ring, n, first, from, to),
         NEW list, Holds(ring, n, first, from, to, list),
         buffer' = ring, start' = first, size' = to, idx' = from
  PROVE  RingInv' /\ Pending' = list
<1>0. ring \in [0 .. n - 1 -> Packet] /\ first \in 0 .. n - 1
  BY DEF IsRing
<1>1. Capacity' = n
  BY <1>0, RingSize DEF Capacity
<1>2. ASSUME NEW l \in 0 .. n
      PROVE  At(l)' = Slot(ring, n, first, l) /\ At(l)' \in Packet
  <2>1. l + first \in 0 .. 2 * n - 1
    BY <1>0
  <2>2. (l + first) % n = Wrapped(l + first, n) /\ (l + first) % n \in 0 .. n - 1
    BY <2>1, ModOfRing
  <2> QED
    BY <1>0, <1>1, <2>2 DEF At, Index, Slot
<1>3. TypeOK'
  <2>1. DOMAIN buffer' = 0 .. n - 1 /\ start' \in 0 .. n - 1
    BY <1>0
  <2>2. ASSUME NEW l \in 0 .. n - 1
        PROVE  (At(l)' # Nil) <=> (from <= l /\ l < to)
    <3>1. l \in 0 .. n
      OBVIOUS
    <3>2. At(l)' = Slot(ring, n, first, l)
      BY <1>2, <3>1
    <3> QED
      BY <3>2 DEF Occupied
  <2> QED
    BY <1>1, <2>1, <2>2 DEF TypeOK, Nil
<1>4. RingInv'
  BY <1>0, <1>3 DEF RingInv, IsRing
<1>5. Pending' = list
  <2> DEFINE m == to - from
  <2>1. m \in Nat /\ m <= n
    OBVIOUS
  <2>2. Pending' = [k \in 1 .. m |-> At(from + k - 1)']
    BY DEF Pending, At, Index
  <2>3. ASSUME NEW k \in 1 .. m PROVE At(from + k - 1)' = list[k]
    <3> DEFINE l == from + k - 1
    <3>1. l \in 0 .. n
      OBVIOUS
    <3>2. Slot(ring, n, first, l) = list[k]
      BY DEF Holds
    <3> HIDE DEF l
    <3>3. At(l)' = list[k]
      BY <1>2, <3>1, <3>2
    <3> QED
      BY <3>3 DEF l
  <2>4. list = [k \in 1 .. m |-> list[k]]
    <3>1. list \in [1 .. m -> Packet]
      BY <2>1, LenProperties DEF Holds
    <3> QED
      BY <3>1
  <2> HIDE DEF m
  <2> QED
    BY <2>2, <2>3, <2>4
<1> QED
  BY <1>4, <1>5

(***************************************************************************)
(* insert                                                                  *)
(***************************************************************************)

\* The packet of a segment of the capture is one, and not the empty slot.
LEMMA SegmentIsPacket ==
  ASSUME capture \in Captures, NEW g \in capture.segments
  PROVE  /\ Window!PacketOf(g) \in Packet
         /\ Window!Size(Window!PacketOf(g)) # 0 => Window!PacketOf(g) # Nil
<1>1. g.from \in 0 .. MaxBytes /\ g.to \in 0 .. MaxBytes
  BY WindowAssumption
<1>2. Isn \in SeqNumber /\ MaxBytes \in 0 .. HalfModulus - 1
  BY WindowAssumption
<1>3. Window!SeqAt(g.from) \in SeqNumber
  <2>1. Window!SeqAt(g.from) = SeqAdd(Isn, g.from)
    BY SameComparison DEF Window!SeqAt
  <2>2. SeqAdd(Isn, g.from) \in SeqNumber
    BY <1>1, <1>2, SeqAssumption DEF SeqAdd, SeqNumber, maxTCPSeq, SeqModulus
  <2> QED
    BY <2>1, <2>2
<1>4. Window!PacketOf(g) \in Packet
  BY <1>1, <1>3, SameComparison DEF Window!PacketOf, Packet, Window!Packet
<1>5. Window!Size(Nil) = 0
  BY DEF Window!Size, Nil
<1> QED
  BY <1>4, <1>5

\* The walk back from the newest packet stops at the same place in the ring as
\* in the list.
LEMMA IndexIsSlot ==
  ASSUME RingInv, idx = 0, NEW i \in 0 .. size, NEW p, IsIndex(p, i)
  PROVE  /\ Window!IsSlot(p, i)
         /\ Duplicated(p, i) => Window!Duplicated(p, i)
         /\ ~Duplicated(p, i) => ~Window!Duplicated(p, i)
<1>1. /\ Len(Pending) = size /\ size \in Nat
      /\ \A k \in 1 .. size : Pending[k] = At(k - 1)
  <2>1. /\ Len(Pending) = size - idx
        /\ \A k \in 1 .. size - idx : Pending[k] = At(idx + k - 1)
    BY PendingIsList
  <2>2. size \in Nat
    BY RingFacts
  <2>3. size - idx = size /\ \A k \in 1 .. size : idx + k - 1 = k - 1
    BY <2>2
  <2> QED
    BY <2>1, <2>2, <2>3
<1>2. i > 0 => Pending[i] = At(i - 1)
  BY <1>1
<1>3. ASSUME NEW j \in i + 1 .. size PROVE compareTCPSeq(Pending[j].seq, p.seq) > 0
  <2>1. j - 1 \in i .. size - 1 /\ Pending[j] = At(j - 1)
    BY <1>1
  <2> QED
    BY <2>1 DEF IsIndex
<1>4. Window!IsSlot(p, i)
  <2>1. i > 0 => compareTCPSeq(Pending[i].seq, p.seq) <= 0
    BY <1>2 DEF IsIndex
  <2> QED
    BY <1>1, <1>3, <2>1, SameComparison DEF Window!IsSlot
<1>5. /\ Duplicated(p, i) => Window!Duplicated(p, i)
      /\ ~Duplicated(p, i) => ~Window!Duplicated(p, i)
  BY <1>2, SameComparison DEF Duplicated, Window!Duplicated
<1> QED
  BY <1>4, <1>5

\* Nil is a packet as far as types go.
LEMMA NilIsPacket == Nil \in Packet
<1>1. 0 \in SeqNumber
  BY SeqAssumption DEF SeqNumber, maxTCPSeq, SeqModulus
<1>2. 0 \in 0 .. MaxBytes
  BY WindowAssumption
<1> QED
  BY <1>1, <1>2, SameComparison DEF Nil, Packet, Window!Packet

\* Moving up the packets from index i on, in a ring with room, inserts p into
\* the list.
LEMMA PlaceInserts ==
  ASSUME NEW n \in Nat \ {0}, NEW ring, NEW first, IsRing(ring, n, first),
         size \in 0 .. n - 1, NEW i \in 0 .. size, NEW p \in Packet, p # Nil,
         NEW list, Holds(ring, n, first, 0, size, list),
         Occupied(ring, n, first, 0, size)
  PROVE  /\ IsRing(Place(p, i, ring, first), n, first)
         /\ Holds(Place(p, i, ring, first), n, first, 0, size + 1, InsertAt(list, i + 1, p))
         /\ Occupied(Place(p, i, ring, first), n, first, 0, size + 1)
<1> DEFINE b == Place(p, i, ring, first)
<1>1. /\ IsRing(b, n, first)
      /\ \A l \in 0 .. n - 1 :
           Slot(b, n, first, l) = IF l = i THEN p
                                  ELSE IF i < l /\ l <= size THEN Slot(ring, n, first, l - 1)
                                  ELSE Slot(ring, n, first, l)
  BY PlaceSlots
<1> HIDE DEF b
<1>2. /\ list \in Seq(Packet) /\ Len(list) = size
      /\ \A k \in 1 .. size : Slot(ring, n, first, k - 1) = list[k]
  BY DEF Holds
<1>3. Occupied(b, n, first, 0, size + 1)
  <2> SUFFICES ASSUME NEW l \in 0 .. n - 1
               PROVE  (Slot(b, n, first, l) # Nil) <=> (l < size + 1)
    BY DEF Occupied
  <2>1. CASE l = i
    BY <1>1, <2>1
  <2>2. CASE i < l /\ l <= size
    <3>1. l - 1 \in 0 .. n - 1 /\ l - 1 < size /\ 0 <= l - 1
      BY <2>2
    <3>2. Slot(ring, n, first, l - 1) # Nil
      BY <3>1 DEF Occupied
    <3>3. Slot(b, n, first, l) = Slot(ring, n, first, l - 1)
      BY <1>1, <2>2
    <3> QED
      BY <2>2, <3>2, <3>3
  <2>3. CASE l < i
    <3>1. Slot(b, n, first, l) = Slot(ring, n, first, l) /\ l < size /\ 0 <= l
      BY <1>1, <2>3
    <3> QED
      BY <3>1 DEF Occupied
  <2>4. CASE l > size
    <3>1. Slot(b, n, first, l) = Slot(ring, n, first, l)
      BY <1>1, <2>4
    <3>2. ~(Slot(ring, n, first, l) # Nil)
      BY <2>4 DEF Occupied
    <3> QED
      BY <2>4, <3>1, <3>2
  <2> QED
    BY <2>1, <2>2, <2>3, <2>4
<1>4. Holds(b, n, first, 0, size + 1, InsertAt(list, i + 1, p))
  <2> DEFINE m == i + 1
             t == InsertAt(list, m, p)
  <2>1. m \in 1 .. Len(list) + 1 /\ m - 1 = i
    BY <1>2
  <2> HIDE DEF m
  <2>2. /\ t \in Seq(Packet) /\ Len(t) = size + 1
        /\ \A k \in 1 .. m - 1 : t[k] = list[k]
        /\ t[m] = p
        /\ \A k \in m + 1 .. size + 1 : t[k] = list[k - 1]
    <3>1. list \in Seq(Packet) /\ p \in Packet
      BY <1>2
    <3>2. /\ t \in Seq(Packet) /\ Len(t) = Len(list) + 1
          /\ \A k \in 1 .. m - 1 : t[k] = list[k]
          /\ t[m] = p
          /\ \A k \in m + 1 .. Len(list) + 1 : t[k] = list[k - 1]
      BY ONLY <2>1, <3>1, InsertAtProperties
    <3> QED
      BY <1>2, <3>2
  <2> HIDE DEF t
  <2>3. ASSUME NEW k \in 1 .. size + 1 PROVE Slot(b, n, first, 0 + k - 1) = t[k]
    <3>1. k - 1 \in 0 .. n - 1 /\ 0 + k - 1 = k - 1
      OBVIOUS
    <3>2. CASE k < m
      <4>1. Slot(b, n, first, k - 1) = Slot(ring, n, first, k - 1)
        BY <1>1, <2>1, <3>1, <3>2
      <4>2. k \in 1 .. size /\ k \in 1 .. m - 1
        BY <2>1, <3>2
      <4> QED
        BY <1>2, <2>2, <3>1, <4>1, <4>2
    <3>3. CASE k = m
      BY <1>1, <2>1, <2>2, <3>1, <3>3
    <3>4. CASE k > m
      <4>1. Slot(b, n, first, k - 1) = Slot(ring, n, first, (k - 1) - 1)
        BY <1>1, <2>1, <3>1, <3>4
      <4>2. k - 1 \in 1 .. size /\ k \in m + 1 .. size + 1
        BY <2>1, <3>4
      <4> QED
        BY <1>2, <2>2, <3>1, <4>1, <4>2
    <3> QED
      BY <2>1, <3>2, <3>3, <3>4
  <2> QED
    BY <2>2, <2>3 DEF Holds, t, m
<1> QED
  BY <1>1, <1>3, <1>4 DEF b

\* The slots in use hold the list, in terms of the ring alone.
LEMMA RingHolds ==
  ASSUME RingInv
  PROVE  /\ Holds(buffer, Capacity, start, idx, size, Pending)
         /\ Occupied(buffer, Capacity, start, idx, size)
<1>1. /\ Capacity \in Nat \ {0} /\ size \in 0 .. Capacity /\ idx \in 0 .. size
      /\ \A l \in 0 .. Capacity - 1 :
           /\ At(l) = Slot(buffer, Capacity, start, l) /\ At(l) \in Packet
           /\ (At(l) # Nil) <=> (idx <= l /\ l < size)
  BY RingFacts
<1>2. /\ Pending \in Seq(Packet) /\ Len(Pending) = size - idx
      /\ \A k \in 1 .. size - idx : Pending[k] = At(idx + k - 1)
  BY PendingIsList
<1>3. ASSUME NEW k \in 1 .. size - idx
      PROVE  Slot(buffer, Capacity, start, idx + k - 1) = Pending[k]
  <2>1. idx + k - 1 \in 0 .. Capacity - 1
    BY <1>1
  <2> QED
    BY <1>1, <1>2, <2>1
<1> QED
  BY <1>1, <1>2, <1>3 DEF Holds, Occupied

\* A step that leaves the ring alone.
LEMMA RingStays ==
  ASSUME RingInv, UNCHANGED ringVars, capture' = capture, IdleAtZero'
  PROVE  RingInv' /\ Pending' = Pending
<1>1. UNCHANGED <<buffer, start, size, idx>>
  BY DEF ringVars
<1>2. Capacity' = Capacity /\ Pending' = Pending /\ \A l : At(l)' = At(l)
  BY <1>1 DEF Capacity, Pending, At, Index, Capacity
<1>3. TypeOK'
  BY <1>1, <1>2 DEF RingInv, TypeOK, Nil
<1> QED
  BY <1>1, <1>2, <1>3 DEF RingInv, IsRing

\* Placing a packet, in the ring or in the expanded one, inserts it into the
\* list.
LEMMA PlaceInRingInserts ==
  ASSUME RingInv, idx = 0, capture' = capture, IdleAtZero',
         NEW i \in 0 .. size, NEW p \in Packet, p # Nil, PlaceInRing(p, i)
  PROVE  RingInv' /\ Pending' = InsertAt(Pending, i + 1, p)
<1> DEFINE n == Capacity
           list == InsertAt(Pending, i + 1, p)
<1>1. n \in Nat \ {0} /\ IsRing(buffer, n, start) /\ size \in 0 .. n /\ size \in Nat
  BY RingFacts
<1>2. Holds(buffer, n, start, 0, size, Pending) /\ Occupied(buffer, n, start, 0, size)
  BY RingHolds
<1>3. size' = size + 1 /\ idx' = 0 /\ capture' \in Captures
  BY DEF PlaceInRing, RingInv
<1> HIDE DEF n
<1>4. CASE size < n /\ buffer' = Place(p, i, buffer, start) /\ start' = start
  <2> DEFINE b == Place(p, i, buffer, start)
  <2>0. size \in 0 .. n - 1
    BY <1>1, <1>4
  <2>1. /\ IsRing(b, n, start)
        /\ Holds(b, n, start, 0, size + 1, list)
        /\ Occupied(b, n, start, 0, size + 1)
    BY <1>1, <1>2, <2>0, PlaceInserts
  <2>2. size + 1 \in 0 .. n /\ 0 \in 0 .. size + 1
    BY <1>1, <2>0
  <2> HIDE DEF b, list
  <2>3. buffer' = b
    BY <1>4 DEF b
  <2> QED
    BY <1>1, <1>3, <1>4, <2>1, <2>2, <2>3, RingInvAgain DEF list
<1>5. CASE size = n /\ buffer' = Place(p, i, Expand, 0) /\ start' = 0
  <2> DEFINE b == Place(p, i, Expand, 0)
             m == 2 * n
  <2>0. m \in Nat \ {0} /\ size \in 0 .. m - 1
    BY <1>1, <1>5
  <2>1. /\ IsRing(Expand, m, 0)
        /\ \A l \in 0 .. n - 1 : Slot(Expand, m, 0, l) = Slot(buffer, n, start, l)
        /\ \A l \in n .. m - 1 : Slot(Expand, m, 0, l) = Nil
    BY <1>1, <1>5, ExpandSlots, NilIsPacket
  <2> HIDE DEF m
  <2>2. Holds(Expand, m, 0, 0, size, Pending)
    <3>1. ASSUME NEW k \in 1 .. size PROVE Slot(Expand, m, 0, 0 + k - 1) = Pending[k]
      <4>1. k - 1 \in 0 .. n - 1 /\ 0 + k - 1 = k - 1 /\ k \in 1 .. size - 0
        BY <1>1, <1>5
      <4>2. Slot(buffer, n, start, 0 + k - 1) = Pending[k]
        BY <1>2, <4>1 DEF Holds
      <4> QED
        BY <2>1, <4>1, <4>2
    <3> QED
      BY <1>1, <1>2, <3>1 DEF Holds
  <2>3. Occupied(Expand, m, 0, 0, size)
    <3> SUFFICES ASSUME NEW l \in 0 .. m - 1
                 PROVE  (Slot(Expand, m, 0, l) # Nil) <=> (0 <= l /\ l < size)
      BY DEF Occupied
    <3>1. CASE l < n
      <4>1. l \in 0 .. n - 1 /\ Slot(Expand, m, 0, l) = Slot(buffer, n, start, l)
        BY <1>1, <2>1, <3>1
      <4> QED
        BY <1>2, <4>1 DEF Occupied
    <3>2. CASE l >= n
      <4>1. Slot(Expand, m, 0, l) = Nil
        BY <1>1, <2>1, <3>2
      <4> QED
        BY <1>5, <3>2, <4>1, <1>1
    <3> QED
      BY <1>1, <3>1, <3>2
  <2>4. /\ IsRing(b, m, 0)
        /\ Holds(b, m, 0, 0, size + 1, list)
        /\ Occupied(b, m, 0, 0, size + 1)
    BY <2>0, <2>1, <2>2, <2>3, PlaceInserts
  <2>5. size + 1 \in 0 .. m /\ 0 \in 0 .. size + 1
    BY <2>0
  <2> HIDE DEF b, list
  <2>6. buffer' = b
    BY <1>5 DEF b
  <2> QED
    BY <1>3, <1>5, <2>0, <2>4, <2>5, <2>6, RingInvAgain DEF list
<1> QED
  BY <1>4, <1>5 DEF PlaceInRing, n

\* PacketWindow's InsertAt is that of SequencesExt.
LEMMA SameInsertAt == \A s, k, e : Window!InsertAt(s, k, e) = InsertAt(s, k, e)
BY DEF Window!InsertAt, InsertAt

\* insert: a step of the ring is a step of the list.
LEMMA InsertStep ==
  ASSUME RingInv, NEW g \in capture.segments, Insert(g)
  PROVE  RingInv' /\ Window!Insert(g)
<1> DEFINE p == Window!PacketOf(g)
           ignored == Window!Dropped(p) \/ Window!Size(p) = 0
<1>1. /\ ~confirming /\ reached' = reached \union Window!BytesOf(g)
      /\ UNCHANGED <<capture, expectBegin, lastAck, confirming, ack, delivered>>
  BY DEF Insert
<1>2. idx = 0 /\ capture \in Captures
  BY <1>1 DEF RingInv, IdleAtZero
<1>3. p \in Packet /\ (~ignored => p # Nil)
  BY <1>2, SegmentIsPacket
<1>4. \/ ignored /\ UNCHANGED ringVars
      \/ /\ ~ignored
         /\ \E i \in 0 .. size :
              /\ IsIndex(p, i)
              /\ \/ Duplicated(p, i) /\ UNCHANGED ringVars
                 \/ ~Duplicated(p, i) /\ PlaceInRing(p, i)
  BY DEF Insert
<1>5. size \in Nat /\ Len(Pending) = size /\ Len(Pending) = size - idx
  <2>1. size \in Nat /\ Len(Pending) = size - idx
    BY RingFacts, PendingIsList
  <2> QED
    BY <1>2, <2>1
<1>6. CASE ignored /\ UNCHANGED ringVars
  <2>1. IdleAtZero'
    BY <1>2, <1>6 DEF IdleAtZero, ringVars
  <2>2. RingInv' /\ Pending' = Pending
    BY <1>1, <1>6, <2>1, RingStays
  <2> QED
    BY <1>1, <1>6, <2>2 DEF Window!Insert
<1>7. ASSUME ~ignored, NEW i \in 0 .. size, IsIndex(p, i),
             Duplicated(p, i) /\ UNCHANGED ringVars
      PROVE  RingInv' /\ Window!Insert(g)
  <2>1. IdleAtZero'
    BY <1>2, <1>7 DEF IdleAtZero, ringVars
  <2>2. RingInv' /\ Pending' = Pending
    BY <1>1, <1>7, <2>1, RingStays
  <2>3. Window!IsSlot(p, i) /\ Window!Duplicated(p, i)
    BY <1>2, <1>7, IndexIsSlot
  <2>4. Window!QueueAt(p, i)
    BY <2>2, <2>3 DEF Window!QueueAt
  <2> QED
    BY <1>1, <1>5, <1>7, <2>2, <2>3, <2>4 DEF Window!Insert
<1>8. ASSUME ~ignored, NEW i \in 0 .. size, IsIndex(p, i),
             ~Duplicated(p, i) /\ PlaceInRing(p, i)
      PROVE  RingInv' /\ Window!Insert(g)
  <2>1. IdleAtZero'
    BY <1>2, <1>8 DEF IdleAtZero, PlaceInRing
  <2>2. RingInv' /\ Pending' = InsertAt(Pending, i + 1, p)
    BY <1>1, <1>2, <1>3, <1>8, <2>1, PlaceInRingInserts
  <2>3. Window!IsSlot(p, i) /\ ~Window!Duplicated(p, i)
    BY <1>2, <1>8, IndexIsSlot
  <2>4. Window!QueueAt(p, i)
    BY <2>2, <2>3, SameInsertAt DEF Window!QueueAt
  <2> QED
    BY <1>1, <1>5, <1>8, <2>2, <2>3, <2>4 DEF Window!Insert
<1> QED
  BY <1>4, <1>6, <1>7, <1>8

(***************************************************************************)
(* confirm                                                                 *)
(***************************************************************************)

\* confirm's start leaves the ring alone.
LEMMA ConfirmStep ==
  ASSUME RingInv, NEW position \in 0 .. MaxBytes, Confirm(position)
  PROVE  RingInv'
<1>1. UNCHANGED ringVars /\ capture' = capture /\ confirming' = TRUE
  BY DEF Confirm, Window!Confirm
<1>2. IdleAtZero'
  BY <1>1 DEF IdleAtZero
<1> QED
  BY <1>1, <1>2, RingStays

\* The head of the list is the packet at idx, and it is confirmed in the one
\* when it is in the other.
LEMMA HeadIsAt ==
  ASSUME RingInv
  PROVE  /\ HeadConfirmed => Window!HeadConfirmed /\ Head(Pending) = At(idx)
         /\ ~HeadConfirmed => ~Window!HeadConfirmed
<1>1. size \in Nat /\ idx \in 0 .. size
  BY RingFacts
<1>2. /\ Pending \in Seq(Packet) /\ Len(Pending) = size - idx
      /\ \A k \in 1 .. size - idx : Pending[k] = At(idx + k - 1)
  BY PendingIsList
<1>3. CASE idx < size
  <2>1. 1 \in 1 .. size - idx /\ idx + 1 - 1 = idx /\ Len(Pending) # 0
    BY <1>1, <1>2, <1>3
  <2>2. Pending # <<>>
    BY <2>1
  <2>3. Head(Pending) = At(idx)
    BY <1>2, <2>1, <2>2
  <2> QED
    BY <1>3, <2>2, <2>3, SameComparison DEF HeadConfirmed, Window!HeadConfirmed
<1>4. CASE ~(idx < size)
  <2>1. Len(Pending) = 0
    BY <1>1, <1>2, <1>4
  <2>2. Pending = <<>>
    BY <1>2, <2>1, EmptySeq
  <2> QED
    BY <1>4, <2>2 DEF HeadConfirmed, Window!HeadConfirmed
<1> QED
  BY <1>3, <1>4

\* Setting the slot of the packet at idx free takes the head off the list.
LEMMA FreeingTakesHead ==
  ASSUME NEW n \in Nat \ {0}, NEW ring, NEW first, IsRing(ring, n, first),
         NEW to \in 0 .. n, NEW from \in 0 .. to, from < to,
         Occupied(ring, n, first, from, to),
         NEW list, Holds(ring, n, first, from, to, list)
  PROVE  LET b == [ring EXCEPT ![Wrapped(from + first, n)] = Nil]
         IN /\ IsRing(b, n, first)
            /\ Occupied(b, n, first, from + 1, to)
            /\ Holds(b, n, first, from + 1, to, Tail(list))
<1> DEFINE b == [ring EXCEPT ![Wrapped(from + first, n)] = Nil]
<1>1. ring \in [0 .. n - 1 -> Packet] /\ first \in 0 .. n - 1
  BY DEF IsRing
<1>2. IsRing(b, n, first)
  BY <1>1, NilIsPacket DEF IsRing
<1>3. ASSUME NEW l \in 0 .. n - 1
      PROVE  Slot(b, n, first, l) = IF l = from THEN Nil ELSE Slot(ring, n, first, l)
  <2>1. Wrapped(l + first, n) \in 0 .. n - 1
    BY <1>1 DEF Wrapped
  <2>2. l # from => Wrapped(l + first, n) # Wrapped(from + first, n)
    BY <1>1 DEF Wrapped
  <2> HIDE DEF Nil
  <2> QED
    BY <1>1, <2>1, <2>2 DEF Slot
<1> HIDE DEF b
<1>4. Occupied(b, n, first, from + 1, to)
  <2> SUFFICES ASSUME NEW l \in 0 .. n - 1
               PROVE  (Slot(b, n, first, l) # Nil) <=> (from + 1 <= l /\ l < to)
    BY DEF Occupied
  <2>1. CASE l = from
    BY <1>3, <2>1
  <2>2. CASE l # from
    <3>1. (Slot(ring, n, first, l) # Nil) <=> (from <= l /\ l < to)
      BY DEF Occupied
    <3>2. (from <= l) <=> (from + 1 <= l)
      BY <2>2
    <3> QED
      BY <1>3, <2>2, <3>1, <3>2
  <2> QED
    BY <2>1, <2>2
<1>5. Holds(b, n, first, from + 1, to, Tail(list))
  <2>1. /\ list \in Seq(Packet) /\ Len(list) = to - from
        /\ \A k \in 1 .. to - from : Slot(ring, n, first, from + k - 1) = list[k]
    BY DEF Holds
  <2>2. list # <<>>
    BY <2>1
  <2>3. /\ Tail(list) \in Seq(Packet) /\ Len(Tail(list)) = Len(list) - 1
        /\ \A k \in 1 .. Len(list) - 1 : Tail(list)[k] = list[k + 1]
    BY <2>1, <2>2, HeadTailProperties
  <2>4. Len(Tail(list)) = to - (from + 1) /\ Len(list) - 1 = to - (from + 1)
    BY <2>1, <2>3
  <2>5. ASSUME NEW k \in 1 .. to - (from + 1)
        PROVE  Slot(b, n, first, (from + 1) + k - 1) = Tail(list)[k]
    <3>1. /\ k + 1 \in 1 .. to - from /\ from + (k + 1) - 1 = (from + 1) + k - 1
          /\ (from + 1) + k - 1 \in 0 .. n - 1 /\ (from + 1) + k - 1 # from
      OBVIOUS
    <3>2. Slot(ring, n, first, (from + 1) + k - 1) = list[k + 1]
      BY <2>1, <3>1
    <3>3. Tail(list)[k] = list[k + 1]
      BY <2>3, <2>4
    <3> QED
      BY <1>3, <3>1, <3>2, <3>3
  <2> QED
    BY <2>3, <2>4, <2>5 DEF Holds
<1> QED
  BY <1>2, <1>4, <1>5 DEF b

\* One iteration of confirm.
LEMMA ConfirmNextStep ==
  ASSUME RingInv, ConfirmNext
  PROVE  RingInv' /\ Window!ConfirmNext
<1> DEFINE n == Capacity
           b == [buffer EXCEPT ![Wrapped(idx + start, n)] = Nil]
<1>1. /\ n \in Nat \ {0} /\ IsRing(buffer, n, start)
      /\ size \in 0 .. n /\ idx \in 0 .. size
  BY RingFacts
<1>2. /\ confirming /\ HeadConfirmed /\ Window!Deliver(At(idx))
      /\ buffer' = [buffer EXCEPT ![Index(idx)] = Nil] /\ idx' = idx + 1
      /\ UNCHANGED <<start, size, capture, lastAck, confirming, ack, reached>>
  BY DEF ConfirmNext
<1>3. idx < size
  BY <1>2 DEF HeadConfirmed
<1>4. Index(idx) = Wrapped(idx + start, n)
  <2>1. idx \in 0 .. n
    BY <1>1
  <2> HIDE DEF n
  <2> QED
    BY <1>1, <2>1, AtIsSlot
<1>5. buffer' = b
  BY <1>2, <1>4
<1>6. Holds(buffer, n, start, idx, size, Pending) /\ Occupied(buffer, n, start, idx, size)
  BY RingHolds
<1> HIDE DEF n
<1>7. /\ IsRing(b, n, start)
      /\ Occupied(b, n, start, idx + 1, size)
      /\ Holds(b, n, start, idx + 1, size, Tail(Pending))
  BY <1>1, <1>3, <1>6, FreeingTakesHead
<1> HIDE DEF b
<1>8. capture' \in Captures /\ IdleAtZero'
  BY <1>2 DEF RingInv, IdleAtZero
<1> DEFINE from == idx + 1
           list == Tail(Pending)
<1>9. from \in 0 .. size /\ idx' = from /\ start' = start /\ size' = size
  BY <1>1, <1>2, <1>3
<1>10. Occupied(b, n, start, from, size) /\ Holds(b, n, start, from, size, list)
  BY <1>7
<1> HIDE DEF from, list
<1>11. RingInv' /\ Pending' = list
  BY <1>1, <1>5, <1>7, <1>8, <1>9, <1>10, RingInvAgain
<1>12. Window!ConfirmNext
  BY <1>2, <1>11, HeadIsAt DEF Window!ConfirmNext, list
<1> QED
  BY <1>11, <1>12

\* A ring whose first slots are free is the same one from its first packet on.
LEMMA AdvancingKeepsList ==
  ASSUME NEW n \in Nat \ {0}, NEW first, IsRing(buffer, n, first),
         NEW to \in 0 .. n, NEW from \in 0 .. to,
         Occupied(buffer, n, first, from, to),
         NEW list, Holds(buffer, n, first, from, to, list),
         NEW next, next = Wrapped(from + first, n), NEW room, room = to - from
  PROVE  /\ IsRing(buffer, n, next)
         /\ Occupied(buffer, n, next, 0, room)
         /\ Holds(buffer, n, next, 0, room, list)
<1>1. first \in 0 .. n - 1 /\ room \in 0 .. n
  BY DEF IsRing
<1>2. next \in 0 .. n - 1
  BY <1>1 DEF Wrapped
<1>3. ASSUME NEW l \in 0 .. n - 1
      PROVE  Slot(buffer, n, next, l) = Slot(buffer, n, first, Wrapped(l + from, n))
  <2>1. Wrapped(l + next, n) = Wrapped(Wrapped(l + from, n) + first, n)
    BY <1>1, <1>2 DEF Wrapped
  <2> QED
    BY <2>1 DEF Slot
<1>4. Occupied(buffer, n, next, 0, room)
  <2> SUFFICES ASSUME NEW l \in 0 .. n - 1
               PROVE  (Slot(buffer, n, next, l) # Nil) <=> (0 <= l /\ l < room)
    BY DEF Occupied
  <2> DEFINE m == Wrapped(l + from, n)
  <2>1. m \in 0 .. n - 1
    BY DEF Wrapped
  <2>2. (from <= m /\ m < to) <=> (0 <= l /\ l < room)
    BY DEF Wrapped
  <2>3. Slot(buffer, n, next, l) = Slot(buffer, n, first, m)
    BY <1>3
  <2> HIDE DEF m
  <2>4. (Slot(buffer, n, first, m) # Nil) <=> (from <= m /\ m < to)
    BY <2>1 DEF Occupied
  <2> QED
    BY <2>2, <2>3, <2>4
<1>5. Holds(buffer, n, next, 0, room, list)
  <2>1. ASSUME NEW k \in 1 .. room PROVE Slot(buffer, n, next, 0 + k - 1) = list[k]
    <3> DEFINE l == 0 + k - 1
    <3>1. l \in 0 .. n - 1 /\ Wrapped(l + from, n) = from + k - 1 /\ k \in 1 .. to - from
      BY <1>1 DEF Wrapped
    <3> HIDE DEF l
    <3>2. Slot(buffer, n, next, l) = Slot(buffer, n, first, from + k - 1)
      BY <1>3, <3>1
    <3> QED
      BY <3>1, <3>2 DEF Holds, l
  <2>2. room - 0 = room
    BY <1>1
  <2> QED
    BY <2>1, <2>2 DEF Holds
<1> QED
  BY <1>2, <1>4, <1>5 DEF IsRing

\* The end of confirm: the first packet left becomes the first of the ring.
LEMMA ConfirmDoneStep ==
  ASSUME RingInv, ConfirmDone
  PROVE  RingInv' /\ Window!ConfirmDone
<1> DEFINE n == Capacity
           next == Wrapped(idx + start, n)
           room == size - idx
           list == Pending
<1>1. /\ n \in Nat \ {0} /\ IsRing(buffer, n, start)
      /\ size \in 0 .. n /\ idx \in 0 .. size
  BY RingFacts
<1>2. /\ confirming /\ ~HeadConfirmed /\ ~confirming'
      /\ buffer' = buffer /\ start' = Index(idx) /\ size' = room /\ idx' = 0
      /\ lastAck' = IF compareTCPSeq(lastAck, ack) < 0 \/ lastAck = 0
                    THEN ack ELSE lastAck
      /\ UNCHANGED <<capture, expectBegin, ack, delivered, reached>>
  BY DEF ConfirmDone
<1>3. start' = next
  <2>1. idx \in 0 .. n
    BY <1>1
  <2> HIDE DEF n
  <2>2. Index(idx) = Wrapped(idx + start, n)
    BY <1>1, <2>1, AtIsSlot
  <2> QED
    BY <1>2, <2>2
<1>4. Holds(buffer, n, start, idx, size, list) /\ Occupied(buffer, n, start, idx, size)
  BY RingHolds
<1> HIDE DEF n, list
<1>5. /\ IsRing(buffer, n, next)
      /\ Occupied(buffer, n, next, 0, room)
      /\ Holds(buffer, n, next, 0, room, list)
  BY <1>1, <1>4, AdvancingKeepsList
<1>6. room \in 0 .. n /\ 0 \in 0 .. room
  BY <1>1
<1>7. capture' \in Captures /\ IdleAtZero'
  BY <1>2 DEF RingInv, IdleAtZero
<1> HIDE DEF next, room
<1>8. RingInv' /\ Pending' = list
  BY <1>1, <1>2, <1>3, <1>5, <1>6, <1>7, RingInvAgain
<1>9. Window!ConfirmDone
  BY <1>2, <1>8, HeadIsAt, SameComparison DEF Window!ConfirmDone, list
<1> QED
  BY <1>8, <1>9

(***************************************************************************)
(* The refinement.                                                         *)
(***************************************************************************)

\* At first the ring holds nothing.
LEMMA RingInit == Init => RingInv /\ Window!Init
<1> SUFFICES ASSUME Init PROVE RingInv /\ Window!Init
  OBVIOUS
<1> DEFINE n == InitialSize
<1>1. n \in Nat \ {0}
  BY RingAssumption
<1>2. IsRing(buffer, n, start)
  BY <1>1, NilIsPacket DEF Init, IsRing
<1>3. Capacity = n
  BY <1>1, <1>2, RingSize DEF IsRing, Capacity
<1>4. ASSUME NEW l \in 0 .. n - 1 PROVE At(l) = Nil
  <2>1. At(l) = buffer[Index(l)] /\ Index(l) \in 0 .. n - 1
    <3>1. l \in 0 .. n
      BY <1>1
    <3> QED
      BY <1>1, <1>2, <3>1, AtIsSlot DEF At
  <2> QED
    BY <2>1 DEF Init
<1>5. TypeOK
  <2>1. start \in DOMAIN buffer /\ size = 0 /\ idx = 0
    BY <1>1 DEF Init
  <2>2. size \in 0 .. n /\ idx \in 0 .. size
    BY <1>1, <2>1
  <2>3. \A l \in 0 .. n - 1 : (At(l) # Nil) <=> (idx <= l /\ l < size)
    BY <1>4, <2>1
  <2> QED
    BY <1>3, <2>1, <2>2, <2>3 DEF TypeOK
<1>6. RingInv
  BY <1>1, <1>2, <1>5 DEF RingInv, Init, IdleAtZero
<1>7. Pending = <<>>
  <2>1. Pending \in Seq(Packet) /\ Len(Pending) = size - idx
    BY <1>6, PendingIsList
  <2>2. Len(Pending) = 0
    BY <2>1 DEF Init
  <2> QED
    BY <2>1, <2>2, EmptySeq
<1> QED
  BY <1>6, <1>7 DEF Init, Window!Init

\* A step of the ring is a step of the list, or leaves it alone.
LEMMA RingStep == RingInv /\ [Next]_vars => RingInv' /\ [Window!Next]_(Window!vars)
<1> SUFFICES ASSUME RingInv, [Next]_vars
             PROVE  RingInv' /\ [Window!Next]_(Window!vars)
  OBVIOUS
<1>1. ASSUME NEW g \in capture.segments, Insert(g)
      PROVE  RingInv' /\ Window!Next
  BY <1>1, InsertStep DEF Window!Next, Window!Segments
<1>2. ASSUME NEW position \in 0 .. MaxBytes, Confirm(position)
      PROVE  RingInv' /\ Window!Next
  BY <1>2, ConfirmStep DEF Window!Next, Confirm
<1>3. CASE ConfirmNext
  BY <1>3, ConfirmNextStep DEF Window!Next
<1>4. CASE ConfirmDone
  BY <1>4, ConfirmDoneStep DEF Window!Next
<1>5. CASE UNCHANGED vars
  <2>1. /\ UNCHANGED ringVars /\ capture' = capture /\ confirming' = confirming
        /\ UNCHANGED <<capture, expectBegin, lastAck, confirming, ack, delivered, reached>>
    BY <1>5 DEF vars, ringVars
  <2>2. IdleAtZero'
    BY <2>1 DEF RingInv, IdleAtZero, ringVars
  <2>3. RingInv' /\ Pending' = Pending
    BY <2>1, <2>2, RingStays
  <2> QED
    BY <2>1, <2>3 DEF Window!vars
<1> QED
  BY <1>1, <1>2, <1>3, <1>4, <1>5 DEF Next

\* The used slots of the ring are within it, in the order of its indices, and
\* the others are free, however often it wrapped and doubled.
THEOREM TypeCorrect == Spec => []TypeOK
<1>1. RingInv => TypeOK
  BY DEF RingInv
<1> QED
  BY <1>1, RingInit, RingStep, PTL DEF Spec

\* For every initial size, stream and capture the ring, with its moving start,
\* its shifts and its doubling, behaves as the ordered list: no packet is lost,
\* kept or reordered by the arithmetic of its indices.
THEOREM RingImplementsList == Spec => ImplementsPacketWindow
BY RingInit, RingStep, PTL DEF Spec, ImplementsPacketWindow, Window!Spec

(***************************************************************************)
(* What PacketWindow_proofs shows of the list holds of the ring.           *)
(***************************************************************************)
List == INSTANCE PacketWindow_proofs WITH pending <- Pending

\* The two instances of PacketWindow say the same.
LEMMA SameSequenceNumbers ==
  /\ \A a, b : Window!SeqAdd(a, b) = List!SeqAdd(a, b)
  /\ \A a, b : Window!SeqSub(a, b) = List!SeqSub(a, b)
  /\ \A a, b : Window!compareTCPSeq(a, b) = List!compareTCPSeq(a, b)
<1>1. Window!SeqModulus = List!SeqModulus /\ Window!maxTCPSeq = List!maxTCPSeq
  BY DEF Window!SeqModulus, List!SeqModulus, Window!maxTCPSeq, List!maxTCPSeq
<1>2. \A a, b : Window!SeqAdd(a, b) = List!SeqAdd(a, b)
  BY <1>1 DEF Window!SeqAdd, List!SeqAdd
<1>3. \A a, b : Window!SeqSub(a, b) = List!SeqSub(a, b)
  BY <1>1 DEF Window!SeqSub, List!SeqSub
<1>4. \A a, b : Window!Straddle(a, b) = List!Straddle(a, b)
  BY <1>1 DEF Window!Straddle, List!Straddle
<1>5. \A u : Window!AsInt32(u) = List!AsInt32(u)
  BY <1>1 DEF Window!AsInt32, List!AsInt32
<1> QED
  BY <1>1, <1>2, <1>3, <1>4, <1>5 DEF Window!compareTCPSeq, List!compareTCPSeq

\* So do their steps.
LEMMA SameSteps ==
  /\ Window!Init => List!Init
  /\ [Window!Next]_(Window!vars) => [List!Next]_(List!vars)
<1>1. Window!vars = List!vars /\ Window!vars' = List!vars'
  BY DEF Window!vars, List!vars
<1>2. Window!Init => List!Init
  BY DEF Window!Init, List!Init
<1>3. \A x : Window!SeqAt(x) = List!SeqAt(x)
  BY SameSequenceNumbers DEF Window!SeqAt, List!SeqAt
<1>4. \A p : /\ Window!Size(p) = List!Size(p) /\ Window!EndSeq(p) = List!EndSeq(p)
             /\ Window!Dropped(p) = List!Dropped(p)
             /\ Window!DuplicatedSize(p) = List!DuplicatedSize(p)
  BY SameSequenceNumbers DEF Window!Size, List!Size, Window!EndSeq, List!EndSeq,
     Window!Dropped, List!Dropped, Window!DuplicatedSize, List!DuplicatedSize
<1>5. \A g : Window!PacketOf(g) = List!PacketOf(g) /\ Window!BytesOf(g) = List!BytesOf(g)
  BY <1>3 DEF Window!PacketOf, List!PacketOf, Window!BytesOf, List!BytesOf,
     Window!Positions, List!Positions
<1>6. \A p, i : Window!IsSlot(p, i) /\ Window!QueueAt(p, i)
                  => List!IsSlot(p, i) /\ List!QueueAt(p, i)
  BY SameSequenceNumbers
  DEF Window!IsSlot, List!IsSlot, Window!QueueAt, List!QueueAt, Window!Duplicated,
      List!Duplicated, Window!InsertAt, List!InsertAt
<1>7. ASSUME NEW g \in Window!Segments, Window!Insert(g) PROVE List!Next
  <2>1. g \in List!Segments
    BY DEF Window!Segments, List!Segments
  <2>2. List!Insert(g)
    BY <1>4, <1>5, <1>6, <1>7 DEF Window!Insert, List!Insert
  <2> QED
    BY <2>1, <2>2 DEF List!Next
<1>8. ASSUME NEW position \in 0 .. MaxBytes, Window!Confirm(position) PROVE List!Next
  BY <1>3, <1>8 DEF Window!Confirm, List!Confirm, List!Next
<1>9. Window!HeadConfirmed = List!HeadConfirmed
  BY SameSequenceNumbers DEF Window!HeadConfirmed, List!HeadConfirmed
<1>10. ASSUME Window!ConfirmNext PROVE List!Next
  <2>1. List!ConfirmNext
    BY <1>4, <1>9, <1>10 DEF Window!ConfirmNext, List!ConfirmNext, Window!Deliver, List!Deliver
  <2> QED
    BY <2>1 DEF List!Next
<1>11. ASSUME Window!ConfirmDone PROVE List!Next
  <2>1. List!ConfirmDone
    BY <1>9, <1>11, SameSequenceNumbers DEF Window!ConfirmDone, List!ConfirmDone
  <2> QED
    BY <2>1 DEF List!Next
<1> QED
  BY <1>1, <1>2, <1>7, <1>8, <1>10, <1>11 DEF Window!Next

\* The constants of the list satisfy what PacketWindow assumes of them.
LEMMA ListAssumptions ==
  /\ Isn \in List!SeqNumber
  /\ MaxBytes \in 0 .. HalfModulus - 1
  /\ \A c \in Captures :
       /\ c.lossless \in BOOLEAN
       /\ c.segments \subseteq {g \in [from : 0 .. MaxBytes, to : 0 .. MaxBytes] :
                                  g.from <= g.to}
<1>1. List!SeqNumber = SeqNumber
  BY DEF List!SeqNumber, SeqNumber, List!maxTCPSeq, maxTCPSeq, List!SeqModulus, SeqModulus
<1> QED
  BY <1>1, WindowAssumption

\* The facts of PacketWindow_proofs that carry its theorems.
LEMMA ListFacts ==
  ASSUME List!NoWrap
  PROVE  /\ List!Init => List!WholeInv
         /\ List!WholeInv /\ [List!Next]_(List!vars) => List!WholeInv'
         /\ List!WholeInv => List!Complete /\ List!InOrder
<1>1. List!Init => List!WholeInv
  BY List!WholeInit, ListAssumptions, SeqAssumption
<1>2. List!WholeInv /\ [List!Next]_(List!vars) => List!WholeInv'
  BY List!WholeInductive, ListAssumptions, SeqAssumption
<1>3. List!WholeInv => List!Complete
  BY List!WholeIsComplete, ListAssumptions, SeqAssumption
<1>4. List!WholeInv => List!InOrder
  BY DEF List!WholeInv, List!Inv
<1> QED
  BY <1>1, <1>2, <1>3, <1>4

\* With RingInv, the list's invariant is one of the ring.
LEMMA ListInvOfRing ==
  ASSUME List!NoWrap
  PROVE  /\ Init => RingInv /\ List!WholeInv
         /\ RingInv /\ List!WholeInv /\ [Next]_vars => RingInv' /\ List!WholeInv'
         /\ RingInv /\ List!WholeInv => Complete /\ InOrder
<1>1. List!Complete => Complete
  BY SameSequenceNumbers
  DEF List!Complete, Complete, Window!Complete, List!AllDelivered, Window!AllDelivered,
      List!NeverRecut, Window!NeverRecut, List!Segments, Window!Segments
<1>2. List!InOrder => InOrder
  BY DEF List!InOrder, InOrder
<1> QED
  BY <1>1, <1>2, RingInit, RingStep, SameSteps, ListFacts

\* When confirm returns, every byte before lastAck has reached the reader if
\* the capture has seen it: reordering, retransmission and overlaps of any
\* number of segments, in a ring that wraps and doubles, lose none of it.
THEOREM NothingConfirmedIsLost == List!NoWrap => (Spec => []Complete)
<1>1. ASSUME List!NoWrap
      PROVE  Spec => []Complete
  <2>1. Init => RingInv /\ List!WholeInv
    BY <1>1, ListInvOfRing
  <2>2. RingInv /\ List!WholeInv /\ [Next]_vars => RingInv' /\ List!WholeInv'
    BY <1>1, ListInvOfRing
  <2>3. RingInv /\ List!WholeInv => Complete
    BY <1>1, ListInvOfRing
  <2> QED
    BY <2>1, <2>2, <2>3, PTL DEF Spec
<1> QED
  BY <1>1

\* The reader of the ring gets the bytes of the stream in order and none of
\* them twice, for every segmentation, retransmission, reordering and loss.
THEOREM DeliveredInOrder == List!NoWrap => (Spec => []InOrder)
<1>1. ASSUME List!NoWrap
      PROVE  Spec => []InOrder
  <2>1. Init => RingInv /\ List!WholeInv
    BY <1>1, ListInvOfRing
  <2>2. RingInv /\ List!WholeInv /\ [Next]_vars => RingInv' /\ List!WholeInv'
    BY <1>1, ListInvOfRing
  <2>3. RingInv /\ List!WholeInv => InOrder
    BY <1>1, ListInvOfRing
  <2> QED
    BY <2>1, <2>2, <2>3, PTL DEF Spec
<1> QED
  BY <1>1
=============================================================================
