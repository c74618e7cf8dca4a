--------------------------- MODULE MCHttpConnection ---------------------------
(* Small connections for checking HttpConnection. *)
EXTENDS HttpConnection

Message(d, kind, n, body) ==
  [dir |-> d, kind |-> kind, n |-> n, body |-> body, expect |-> FALSE]
Body(d, n) == Message(d, "body", n, 0)

\* Two exchanges: an upload of one packet, then a download of one packet.
TwoExchanges ==
  << Message("up", "request", 1, 1), Body("up", 1), Message("down", "response", 1, 0),
     Message("up", "request", 2, 0), Message("down", "response", 2, 1), Body("down", 2) >>

\* The server asks for the body with 100-continue.
ContinuedRequest == [Message("up", "request", 1, 1) EXCEPT !.expect = TRUE]

ContinuedExchange ==
  << ContinuedRequest, Message("down", "continue", 1, 0), Body("up", 1),
     Message("down", "response", 1, 1), Body("down", 1) >>

Connection(wire, channelSize, maxBurst, lossy, pauses) ==
  [wire |-> wire, channelSize |-> channelSize, maxBurst |-> maxBurst,
   lossy |-> lossy, pauses |-> pauses]

\* Everything is captured and the channels are large; they are small, and
\* acknowledgments come in bursts, and the connection may be silent; and
\* packets are lost as well, with acknowledgments that confirm one packet.
ThreeConnections ==
  {Connection(TwoExchanges, 4, 2, FALSE, FALSE),
   Connection(TwoExchanges, 2, 2, FALSE, TRUE),
   Connection(ContinuedExchange, 1, 1, TRUE, TRUE)}

\* An acknowledgment may confirm more packets than the channel has room for.
BurstyConnection == {Connection(TwoExchanges, 1, 2, FALSE, FALSE)}

\* Their peers speak HTTP/1.1.
ASSUME WellFormedWires ==
  \A k \in ThreeConnections \union BurstyConnection : WellFormed(k.wire)
=============================================================================
