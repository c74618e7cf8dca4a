----------------------------- MODULE Correlator -----------------------------
(***************************************************************************)
(* The correlator processor of the tshark engine                           *)
(* (tshark/correlator/processor.go).  One goroutine, correlate(), selects  *)
(* between the entries channel, the timeout ticker and the stop channel.   *)
(* It keeps one outstanding request per TCP stream, pairs it with the next *)
(* response of that stream, and hands the pair, or after ResponseTimeout   *)
(* the lone request, to the exporter.                                      *)
(*                                                                         *)
(* The wire side is the HTTP traffic of the captured streams.  Each stream *)
(* answers its requests in order (HTTP/1.1).  A client may, with           *)
(* Pipelining, send a request before its previous one is answered, and the *)
(* capture may miss messages; orderly records the streams on which neither *)
(* has happened.                                                           *)
(***************************************************************************)
EXTENDS Naturals, Sequences

CONSTANTS
  Streams,          \* the TCP stream numbers tshark assigns
  Pipelining,       \* clients may send a request before the last one is answered
  MaxRequests,      \* bound: requests sent on one stream
  ChannelBuffer,    \* capacity of the entries channel (flag channel-buffer)
  ResponseTimeout   \* flag response-timeout, in clock ticks

ASSUME ConstantsAssumption ==
  /\ Pipelining \in BOOLEAN
  /\ MaxRequests \in Nat
  /\ ChannelBuffer \in Nat \ {0}
  /\ ResponseTimeout \in Nat

VARIABLES
  asked,     \* asked[s]: requests the client of stream s has sent
  answered,  \* answered[s]: responses the server of stream s has sent
  orderly,   \* orderly[s]: no request pipelined and nothing lost so far
  captured,  \* the requests that reached the entries channel
  age,       \* age[r]: time since r's frame, saturating past ResponseTimeout
  entries,   \* the entries channel
  requests,  \* the map: stream -> number of its outstanding request, or None
  reported,  \* reported[r]: the transactions handed to the exporter for r
  stopped    \* the goroutine has received the stop message

vars == <<asked, answered, orderly, captured, age, entries, requests, reported, stopped>>

Request == [stream : Streams, n : 1 .. MaxRequests]

\* The n-th response of a stream answers the n-th request of that stream.
Entry == [kind : {"request", "response"}, stream : Streams, n : 1 .. MaxRequests]

\* No request in the map; in a transaction, no response.
None == 0

IdOf(e) == [stream |-> e.stream, n |-> e.n]

TypeOK ==
  /\ asked \in [Streams -> 0 .. MaxRequests]
  /\ answered \in [Streams -> 0 .. MaxRequests]
  /\ orderly \in [Streams -> BOOLEAN]
  /\ captured \subseteq Request
  /\ age \in [Request -> 0 .. ResponseTimeout + 1]
  /\ entries \in Seq(Entry)
  /\ requests \in [Streams -> 0 .. MaxRequests]
  /\ reported \in [Request -> Seq(0 .. MaxRequests)]
  /\ stopped \in BOOLEAN

Init ==
  /\ asked = [s \in Streams |-> 0]
  /\ answered = [s \in Streams |-> 0]
  /\ orderly = [s \in Streams |-> TRUE]
  /\ captured = {}
  /\ age = [r \in Request |-> 0]
  /\ entries = <<>>
  /\ requests = [s \in Streams |-> None]
  /\ reported = [r \in Request |-> <<>>]
  /\ stopped = FALSE

-----------------------------------------------------------------------------
(* The wire, and the bulk processor that calls Queue.                      *)

Queue(e) ==
  /\ Len(entries) < ChannelBuffer
  /\ entries' = Append(entries, e)

CaptureRequest(s) ==
  LET e == [kind |-> "request", stream |-> s, n |-> asked[s] + 1]
  IN /\ asked[s] < MaxRequests
     /\ Pipelining \/ answered[s] = asked[s]
     /\ asked' = [asked EXCEPT ![s] = @ + 1]
     /\ \/ /\ Queue(e)
           /\ captured' = captured \union {IdOf(e)}
           /\ orderly' = [orderly EXCEPT ![s] = @ /\ answered[s] = asked[s]]
        \/ /\ orderly' = [orderly EXCEPT ![s] = FALSE]
           /\ UNCHANGED <<entries, captured>>
     /\ UNCHANGED <<answered, age, requests, reported, stopped>>

CaptureResponse(s) ==
  LET e == [kind |-> "response", stream |-> s, n |-> answered[s] + 1]
  IN /\ answered[s] < asked[s]
     /\ answered' = [answered EXCEPT ![s] = @ + 1]
     /\ \/ Queue(e) /\ UNCHANGED orderly
        \/ orderly' = [orderly EXCEPT ![s] = FALSE] /\ UNCHANGED entries
     /\ UNCHANGED <<asked, captured, age, requests, reported, stopped>>

Sent(r) == r.n <= asked[r.stream]

\* One clock tick; only requests already sent grow older.
TimePasses ==
  /\ \E r \in Request : Sent(r) /\ age[r] <= ResponseTimeout
  /\ age' = [r \in Request |-> IF Sent(r) /\ age[r] <= ResponseTimeout
                               THEN age[r] + 1 ELSE age[r]]
  /\ UNCHANGED <<asked, answered, orderly, captured, entries, requests,
                 reported, stopped>>

-----------------------------------------------------------------------------
(* The goroutine's select loop.                                            *)

\* Hand a transaction of each request in rs to the exporter, with response m.
Report(rs, m) ==
  reported' = [r \in Request |-> IF r \in rs THEN Append(reported[r], m)
                                             ELSE reported[r]]

\* Bug seeded for checking: the map counts requests instead of keeping one.
UpdateRequestCounts(e) ==
  /\ requests' = [requests EXCEPT ![e.stream] = @ + e.n]
  /\ UNCHANGED reported

UpdateRequest(e) ==
  /\ requests' = [requests EXCEPT ![e.stream] = e.n]
  /\ UNCHANGED reported

Outstanding(s) == [stream |-> s, n |-> requests[s]]

\* Bug seeded for checking: the answered request stays in the map.
UpdateResponseKeepsRequest(e) ==
  IF requests[e.stream] = None
  THEN UNCHANGED <<requests, reported>>
  ELSE /\ Report({Outstanding(e.stream)}, e.n)
       /\ UNCHANGED requests

\* Bug seeded for checking: the response is not looked up by its stream.
UpdateResponseOfAnyStream(e) ==
  IF \A s \in Streams : requests[s] = None
  THEN UNCHANGED <<requests, reported>>
  ELSE \E s \in Streams :
         /\ requests[s] # None
         /\ Report({Outstanding(s)}, e.n)
         /\ requests' = [requests EXCEPT ![s] = None]

UpdateResponse(e) ==
  IF requests[e.stream] = None
  THEN UNCHANGED <<requests, reported>>
  ELSE /\ Report({Outstanding(e.stream)}, e.n)
       /\ requests' = [requests EXCEPT ![e.stream] = None]

UpdateEntry ==
  LET e == Head(entries)
  IN /\ ~stopped
     /\ entries # <<>>
     /\ entries' = Tail(entries)
     /\ \/ e.kind = "request" /\ UpdateRequest(e)
        \/ e.kind = "response" /\ UpdateResponse(e)
     /\ UNCHANGED <<asked, answered, orderly, captured, age, stopped>>

IsPending(r) == requests[r.stream] = r.n

Expired == {r \in Request : IsPending(r) /\ age[r] > ResponseTimeout}

\* Bug seeded for checking: the expired requests stay in the map.
CheckTimeoutsKeepsRequests ==
  /\ ~stopped
  /\ Report(Expired, None)
  /\ UNCHANGED <<asked, answered, orderly, captured, age, entries, requests, stopped>>

\* Bug seeded for checking: the expired requests are deleted unsent.
CheckTimeoutsForgets ==
  /\ ~stopped
  /\ requests' = [s \in Streams |-> IF Outstanding(s) \in Expired
                                    THEN None ELSE requests[s]]
  /\ UNCHANGED <<asked, answered, orderly, captured, age, entries, reported, stopped>>

CheckTimeouts ==
  /\ ~stopped
  /\ Report(Expired, None)
  /\ requests' = [s \in Streams |-> IF Outstanding(s) \in Expired
                                    THEN None ELSE requests[s]]
  /\ UNCHANGED <<asked, answered, orderly, captured, age, entries, stopped>>

Stop ==
  /\ ~stopped
  /\ stopped' = TRUE
  /\ UNCHANGED <<asked, answered, orderly, captured, age, entries, requests, reported>>

Next ==
  \/ \E s \in Streams : CaptureRequest(s) \/ CaptureResponse(s)
  \/ TimePasses
  \/ UpdateEntry
  \/ CheckTimeouts
  \/ Stop

\* The ticker and the select loop keep running and the clock advances.  The
\* select chooses uniformly among ready cases, so no ready case starves.
Fairness ==
  /\ WF_vars(TimePasses)
  /\ SF_vars(UpdateEntry)
  /\ SF_vars(CheckTimeouts)

Spec == Init /\ [][Next]_vars /\ Fairness

-----------------------------------------------------------------------------
(* Properties.                                                             *)

InChannel(r) ==
  \E i \in DOMAIN entries : entries[i].kind = "request" /\ IdOf(entries[i]) = r

MovesOneWay(r) ==
  /\ ~Sent(r) => ~InChannel(r) /\ ~IsPending(r) /\ reported[r] = <<>>
  /\ InChannel(r) => ~IsPending(r) /\ reported[r] = <<>>
  /\ IsPending(r) => reported[r] = <<>>

QueuedOnce ==
  \A i, j \in DOMAIN entries :
    entries[i].kind = "request" /\ entries[j] = entries[i] => i = j

\* A request is in one place at a time and moves one way: on the wire, in the
\* entries channel, in the map, exported.  No step of the goroutine takes it
\* back or leaves a copy behind.
OnePlace == QueuedOnce /\ \A r \in Request : MovesOneWay(r)

\* A captured request is exported at most once: the late answer of a request
\* that checkTimeouts has already exported, or a second response on its
\* stream, never makes updateResponse export it again.
AtMostOnce == \A r \in Request : Len(reported[r]) <= 1

IsAccounted(r) == InChannel(r) \/ IsPending(r) \/ reported[r] # <<>>

\* Every request the correlator was given is still queued, is outstanding, or
\* has been exported, as long as its stream has been captured in full and its
\* client waits for its answers.  updateRequest overwrites the map slot of the
\* stream, so this rests on the previous request having left it.
Accounted == \A r \in captured : orderly[r.stream] => IsAccounted(r)

\* The same with no hypothesis on what the capture misses, as the README promises
\* it: the request is exported with its response or, after the timeout, without
\* one.
AccountedAlways == \A r \in captured : IsAccounted(r)

\* On such a stream a response is attached to the request it answers.  The map
\* is keyed by stream alone, so a timed-out request, whose answer comes later,
\* must not leave that answer to be paired with the stream's next request.
PairedWithOwnResponse ==
  \A r \in Request : orderly[r.stream] =>
    \A i \in DOMAIN reported[r] : reported[r][i] \in {r.n, None}

\* A request in the map is eventually exported, answered or not, unless the
\* processor is stopped or the traffic of its stream turns disorderly.
EventuallyReported ==
  \A r \in Request :
    IsPending(r) ~> (reported[r] # <<>> \/ stopped \/ ~orderly[r.stream])
=============================================================================
