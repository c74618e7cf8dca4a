---------------------------- MODULE ReceiveWindow ----------------------------
(***************************************************************************)
(* The receive window of httpdump as it is stored                          *)
(* (httpdump/receive_window.go): a ring buffer that doubles when it is     *)
(* full.  It implements PacketWindow: the list of pending packets is what  *)
(* the ring holds from start on, less the idx packets that a running       *)
(* confirm has already taken.                                              *)
(***************************************************************************)
EXTENDS Capture, Sequences, FiniteSets

CONSTANT InitialSize  \* newReceiveWindow(64, ...)

ASSUME RingAssumption == InitialSize \in Nat \ {0}

VARIABLES
  buffer,  \* the ring: slot -> packet, or Nil
  start,   \* slot of the first packet
  size,    \* packets in the ring
  idx,     \* loop variable of confirm
  \* as in PacketWindow
  capture, expectBegin, lastAck, confirming, ack, reached

ringVars == <<buffer, start, size, idx>>
vars == <<buffer, start, size, idx, capture,
          expectBegin, lastAck, confirming, ack, delivered, reached>>

Nil == [seq |-> 0, from |-> 0, to |-> 0]

Capacity == Cardinality(DOMAIN buffer)

\* (i + w.start) % len(w.buffer)
Index(i) == (i + start) % Capacity
At(i) == buffer[Index(i)]

Pending == [i \in 1 .. size - idx |-> At(idx + i - 1)]

Window == INSTANCE PacketWindow WITH pending <- Pending

Init ==
  /\ capture \in Captures
  /\ buffer = [k \in 0 .. InitialSize - 1 |-> Nil]
  /\ start = 0
  /\ size = 0
  /\ idx = 0
  /\ expectBegin = 0
  /\ lastAck = 0
  /\ confirming = FALSE
  /\ ack = 0
  /\ delivered = <<>>
  /\ reached = {}

\* The used slots are within the ring, the others are free.
TypeOK ==
  /\ start \in DOMAIN buffer
  /\ size \in 0 .. Capacity
  /\ idx \in 0 .. size
  /\ \A i \in 0 .. Capacity - 1 : (At(i) # Nil) <=> (idx <= i /\ i < size)

-----------------------------------------------------------------------------
(* insert                                                                  *)

\* Bug seeded for checking: a packet is placed behind all others.
IsIndexLast(p, i) == i = size

\* The loop, walking back from the newest packet, stops at index i.
IsIndex(p, i) ==
  /\ i > 0 => compareTCPSeq(At(i - 1).seq, p.seq) <= 0
  /\ \A j \in i .. size - 1 : compareTCPSeq(At(j).seq, p.seq) > 0

Duplicated(p, i) == i > 0 /\ compareTCPSeq(At(i - 1).seq, p.seq) = 0

\* Bug seeded for checking: the second copy skips the packet at slot 0.
ExpandLosesWrapped ==
  [k \in 0 .. 2 * Capacity - 1 |->
     CASE k < Capacity - start -> buffer[start + k]
       [] k >= Capacity - start /\ k < size -> buffer[k - (Capacity - start) + 1]
       [] OTHER -> Nil]

\* expand: the packets up to the end of the old ring, then the wrapped ones.
Expand ==
  [k \in 0 .. 2 * Capacity - 1 |->
     CASE k < Capacity - start -> buffer[start + k]
       [] k >= Capacity - start /\ k < size -> buffer[k - (Capacity - start)]
       [] OTHER -> Nil]

\* The ring with p at index i and the packets from i on moved up by one; first
\* is the slot of its first packet.
Place(p, i, ring, first) ==
  LET n == Cardinality(DOMAIN ring)
  IN [k \in 0 .. n - 1 |->
        LET logical == (k - first + n) % n
        IN CASE logical = i -> p
             [] i < logical /\ logical <= size -> ring[(k - 1 + n) % n]
             [] OTHER -> ring[k]]

PlaceInRing(p, i) ==
  /\ size' = size + 1
  /\ \/ /\ size = Capacity
        /\ buffer' = Place(p, i, Expand, 0)
        /\ start' = 0
     \/ /\ size < Capacity
        /\ buffer' = Place(p, i, buffer, start)
        /\ UNCHANGED start
  /\ UNCHANGED idx

Insert(g) ==
  LET p == Window!PacketOf(g)
      ignored == Window!Dropped(p) \/ Window!Size(p) = 0
  IN /\ ~confirming
     /\ reached' = reached \union Window!BytesOf(g)
     /\ \/ ignored /\ UNCHANGED ringVars
        \/ /\ ~ignored
           /\ \E i \in 0 .. size :
                /\ IsIndex(p, i)
                /\ \/ Duplicated(p, i) /\ UNCHANGED ringVars
                   \/ ~Duplicated(p, i) /\ PlaceInRing(p, i)
     /\ UNCHANGED <<capture, expectBegin, lastAck, confirming, ack, delivered>>

-----------------------------------------------------------------------------
(* confirm                                                                 *)

Confirm(position) ==
  /\ UNCHANGED ringVars
  /\ Window!Confirm(position)

HeadConfirmed == idx < size /\ compareTCPSeq(At(idx).seq, ack) < 0

ConfirmNext ==
  /\ confirming
  /\ HeadConfirmed
  /\ Window!Deliver(At(idx))
  /\ buffer' = [buffer EXCEPT ![Index(idx)] = Nil]
  /\ idx' = idx + 1
  /\ UNCHANGED <<start, size, capture, lastAck, confirming, ack, reached>>

\* Bug seeded for checking: start is advanced without its modulus.
ConfirmDoneNoModulus ==
  /\ confirming
  /\ ~HeadConfirmed
  /\ start' = start + idx
  /\ size' = size - idx
  /\ idx' = 0
  /\ confirming' = FALSE
  /\ lastAck' = IF compareTCPSeq(lastAck, ack) < 0 \/ lastAck = 0
                THEN ack ELSE lastAck
  /\ UNCHANGED <<buffer, capture, expectBegin, ack, delivered, reached>>

ConfirmDone ==
  /\ confirming
  /\ ~HeadConfirmed
  /\ start' = Index(idx)
  /\ size' = size - idx
  /\ idx' = 0
  /\ confirming' = FALSE
  /\ lastAck' = IF compareTCPSeq(lastAck, ack) < 0 \/ lastAck = 0
                THEN ack ELSE lastAck
  /\ UNCHANGED <<buffer, capture, expectBegin, ack, delivered, reached>>

Next ==
  \/ \E g \in capture.segments : Insert(g)
  \/ \E position \in 0 .. MaxBytes : Confirm(position)
  \/ ConfirmNext
  \/ ConfirmDone

Spec == Init /\ [][Next]_vars

-----------------------------------------------------------------------------
(* Properties; InOrder is Capture's.                                       *)

\* The ring, with its moving start, its shifts and its doubling, behaves as
\* the ordered list: no packet is lost, kept or reordered by the arithmetic.
ImplementsPacketWindow == Window!Spec

\* When confirm returns, every byte before lastAck has reached the reader,
\* if the capture has seen it and no segment is cut anew: insert and confirm
\* lose none of it to reordering, retransmission or overlaps.
Complete == Window!Complete

\* The same when segments are also cut anew for a retransmission.
CompleteAlways == Window!CompleteAlways
=============================================================================
