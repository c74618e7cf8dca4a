--------------------------- MODULE MCCorrelator -----------------------------
(* Model values for checking Correlator. *)
EXTENDS Correlator

CONSTANTS s1, s2

TwoStreams == {s1, s2}
=============================================================================
