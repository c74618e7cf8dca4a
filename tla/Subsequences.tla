---------------------------- MODULE Subsequences ----------------------------
(* The elements of a sequence that are in a set, as a recursive function that *)
(* walks the sequence as the loops of the code do.                            *)
EXTENDS Naturals, Sequences

\* The elements of s that are in S, in their order.
Among(s, S) ==
  LET kept[n \in 0 .. Len(s)] ==
        IF n = 0 THEN <<>>
        ELSE IF s[n] \in S THEN Append(kept[n - 1], s[n]) ELSE kept[n - 1]
  IN kept[Len(s)]
=============================================================================
