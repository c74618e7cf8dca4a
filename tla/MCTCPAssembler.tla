---------------------------- MODULE MCTCPAssembler ----------------------------
(* Small instances for checking TCPAssembler. *)
EXTENDS TCPAssembler, TLC

CONSTANTS k1, k2

Traffic(first, second, orderly, lossy) ==
  [incarnations |-> k1 :> first @@ k2 :> second, orderly |-> orderly, lossy |-> lossy]

\* A pair of endpoints used twice, and two pairs used once, with resets and
\* losses; and a pair used twice beside another, without.
ThreeTraffics ==
  {Traffic(2, 0, FALSE, TRUE), Traffic(1, 1, FALSE, TRUE),
   Traffic(2, 1, TRUE, FALSE)}

\* A reset and the next connection of the same endpoints.
ResetTraffic == {Traffic(2, 0, FALSE, FALSE)}
=============================================================================
