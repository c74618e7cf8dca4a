------------------------------- MODULE Capture -------------------------------
(***************************************************************************)
(* What a capture may show a receive window of httpdump: the segments of a *)
(* sender whose stream is MaxBytes long, in any order and any number of    *)
(* times, and the acknowledgments of the receiver.  What the sender        *)
(* transmits and whether the capture may miss any of it is one of          *)
(* Captures.  delivered is what the window makes of it.                    *)
(***************************************************************************)
EXTENDS TcpSeq

CONSTANTS
  Isn,         \* sequence number of the first byte of the stream
  MaxBytes,    \* bound: bytes of the stream
  Captures     \* segments: the segments [from, to) the sender transmits;
               \* lossless: every acknowledged byte is captured before its ack

VARIABLE delivered  \* the packets sent to the stream's channel, for its reader

ASSUME WindowAssumption ==
  /\ Isn \in SeqNumber
  /\ MaxBytes \in 0 .. HalfModulus - 1
  /\ \A c \in Captures :
       /\ c.lossless \in BOOLEAN
       /\ c.segments \subseteq {g \in [from : 0 .. MaxBytes, to : 0 .. MaxBytes] :
                                  g.from <= g.to}

\* The reader gets the stream's bytes in order, none of them twice, whatever
\* is retransmitted, reordered or cut into other segments.
InOrder ==
  \A i, j \in DOMAIN delivered : i < j => delivered[i].to <= delivered[j].from
=============================================================================
