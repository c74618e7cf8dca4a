------------------------------- MODULE TcpSeq -------------------------------
(***************************************************************************)
(* TCP sequence numbers and their comparison, as httpdump computes them    *)
(* (httpdump/receive_window.go compareTCPSeq, httpdump/tcp_assembly.go).   *)
(*                                                                         *)
(* A sequence number is a uint32: SeqModulus = 2^32.  The subtraction that *)
(* the comparison returns is reinterpreted as an int32 (last case) or      *)
(* widened to a 64-bit int, which keeps its value (the two wrap cases).    *)
(***************************************************************************)
EXTENDS Integers

CONSTANTS
  HalfModulus,  \* 2^31
  SeqWindow     \* tcpSeqWindow, 0xFFFF

ASSUME SeqAssumption ==
  /\ HalfModulus \in Nat \ {0}
  /\ SeqWindow \in Nat
  /\ 2 * SeqWindow <= HalfModulus

SeqModulus == 2 * HalfModulus
maxTCPSeq == SeqModulus - 1

SeqNumber == 0 .. maxTCPSeq

\* Addition and subtraction of two uint32.
SeqAdd(a, b) == IF a + b > maxTCPSeq THEN a + b - SeqModulus ELSE a + b
SeqSub(a, b) == IF a >= b THEN a - b ELSE a - b + SeqModulus

\* int32(u)
AsInt32(u) == IF u < HalfModulus THEN u ELSE u - SeqModulus

\* a is just past the wrap-around and b just before it.
Straddle(a, b) == a < SeqWindow /\ b > maxTCPSeq - SeqWindow

compareTCPSeq(seq1, seq2) ==
  CASE Straddle(seq1, seq2) -> SeqSub(SeqAdd(seq1, maxTCPSeq), seq2)
    [] Straddle(seq2, seq1) -> SeqSub(seq1, SeqAdd(maxTCPSeq, seq2))
    [] OTHER                -> AsInt32(SeqSub(seq1, seq2))

-----------------------------------------------------------------------------
(* What the comparison should say: the comment above compareTCPSeq asks    *)
(* for num < 0 when seq1 is earlier, 0 when they are equal, num > 0 when   *)
(* it is later.  a is earlier than b when b is reached from a by less than *)
(* half the sequence space (RFC 793).                                      *)

Earlier(a, b) == a # b /\ SeqSub(b, a) < HalfModulus

OrdersCorrectly(a, b) ==
  /\ Earlier(a, b) => compareTCPSeq(a, b) < 0
  /\ a = b => compareTCPSeq(a, b) = 0
  /\ Earlier(b, a) => compareTCPSeq(a, b) > 0
=============================================================================
