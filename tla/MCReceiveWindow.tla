--------------------------- MODULE MCReceiveWindow ---------------------------
(* Captures for checking ReceiveWindow. *)
EXTENDS ReceiveWindow

\* One way to cut the stream, retransmitted as it was sent; and a pure ack.
FixedSegments == {[from |-> 0, to |-> 1], [from |-> 1, to |-> 3],
                  [from |-> 3, to |-> 4], [from |-> 4, to |-> 6],
                  [from |-> 1, to |-> 1]}

\* Overlapping segments, no two of them from the same byte on.
OverlappingSegments == {[from |-> 0, to |-> 3], [from |-> 1, to |-> 2],
                        [from |-> 2, to |-> 4], [from |-> 4, to |-> 5]}

\* Any segment of the first four bytes.
AllSegments == {g \in [from : 0 .. 4, to : 0 .. 4] : g.from <= g.to}

\* Five single bytes, which fill the ring, and some overlapping segments.
SingleSegments ==
  {[from |-> b, to |-> b + 1] : b \in 0 .. 4}
    \union {[from |-> 0, to |-> 2], [from |-> 1, to |-> 4], [from |-> 2, to |-> 2]}

AnyCapture ==
  {[segments |-> FixedSegments, lossless |-> TRUE],
   [segments |-> OverlappingSegments, lossless |-> TRUE],
   [segments |-> AllSegments, lossless |-> FALSE],
   [segments |-> SingleSegments, lossless |-> FALSE]}

RecutCapture == {[segments |-> AllSegments, lossless |-> TRUE]}
=============================================================================
