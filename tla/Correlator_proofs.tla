------------------------- MODULE Correlator_proofs --------------------------
(* Theorems about Correlator, for every value of its constants.            *)
EXTENDS Correlator, SequenceTheorems, TLAPS

(***************************************************************************)
(* What the two operators that change a sequence do.                       *)
(***************************************************************************)

\* Queue extends the entries channel by the entry it is given.
LEMMA QueueType ==
  ASSUME entries \in Seq(Entry), NEW e \in Entry, Queue(e)
  PROVE  entries' \in Seq(Entry)
BY AppendProperties DEF Queue

\* Report only appends to the transactions of the requests it is given.
LEMMA ReportType ==
  ASSUME reported \in [Request -> Seq(0 .. MaxRequests)],
         NEW rs, NEW m \in 0 .. MaxRequests, Report(rs, m)
  PROVE  reported' \in [Request -> Seq(0 .. MaxRequests)]
<1>1. ASSUME NEW r \in Request
      PROVE  (IF r \in rs THEN Append(reported[r], m) ELSE reported[r])
               \in Seq(0 .. MaxRequests)
  <2>1. reported[r] \in Seq(0 .. MaxRequests)
    OBVIOUS
  <2> QED
    BY <2>1, AppendProperties
<1> QED
  BY <1>1 DEF Report

\* TypeOK is preserved by every step of the correlator and of the wire.
LEMMA TypeInductive == TypeOK /\ [Next]_vars => TypeOK'
<1> SUFFICES ASSUME TypeOK, [Next]_vars
             PROVE  TypeOK'
  OBVIOUS
<1>0. MaxRequests \in Nat /\ ResponseTimeout \in Nat
  BY ConstantsAssumption
<1>1. ASSUME NEW s \in Streams, CaptureRequest(s)
      PROVE  TypeOK'
  <2> DEFINE e == [kind |-> "request", stream |-> s, n |-> asked[s] + 1]
  <2>1. asked[s] \in 0 .. MaxRequests /\ asked[s] + 1 \in 1 .. MaxRequests
    BY <1>0, <1>1 DEF TypeOK, CaptureRequest
  <2>2. e \in Entry /\ IdOf(e) \in Request
    BY <2>1 DEF Entry, IdOf, Request
  <2>3. asked' \in [Streams -> 0 .. MaxRequests]
    BY <2>1, <1>0, <1>1 DEF TypeOK, CaptureRequest
  <2>4. entries' \in Seq(Entry) /\ captured' \subseteq Request
    BY <2>2, <1>1, QueueType DEF TypeOK, CaptureRequest
  <2>5. orderly' \in [Streams -> BOOLEAN]
    <3>1. (orderly[s] /\ answered[s] = asked[s]) \in BOOLEAN
      OBVIOUS
    <3> QED
      BY <1>1, <3>1 DEF TypeOK, CaptureRequest
  <2> QED
    BY <1>1, <2>3, <2>4, <2>5 DEF TypeOK, CaptureRequest
<1>2. ASSUME NEW s \in Streams, CaptureResponse(s)
      PROVE  TypeOK'
  <2> DEFINE e == [kind |-> "response", stream |-> s, n |-> answered[s] + 1]
  <2>1. answered[s] \in 0 .. MaxRequests /\ answered[s] + 1 \in 1 .. MaxRequests
    BY <1>0, <1>2 DEF TypeOK, CaptureResponse
  <2>2. e \in Entry
    BY <2>1 DEF Entry
  <2>3. answered' \in [Streams -> 0 .. MaxRequests]
    BY <2>1, <1>0, <1>2 DEF TypeOK, CaptureResponse
  <2>4. entries' \in Seq(Entry)
    BY <2>2, <1>2, QueueType DEF TypeOK, CaptureResponse
  <2>5. orderly' \in [Streams -> BOOLEAN]
    BY <1>2 DEF TypeOK, CaptureResponse
  <2> QED
    BY <1>2, <2>3, <2>4, <2>5 DEF TypeOK, CaptureResponse
<1>3. CASE TimePasses
  <2>1. age' \in [Request -> 0 .. ResponseTimeout + 1]
    BY <1>0, <1>3 DEF TypeOK, TimePasses
  <2> QED
    BY <1>3, <2>1 DEF TypeOK, TimePasses
<1>4. CASE UpdateEntry
  <2> DEFINE e == Head(entries)
  <2>1. e \in Entry /\ entries' \in Seq(Entry)
    BY <1>4, HeadTailProperties DEF TypeOK, UpdateEntry
  <2>2. e.stream \in Streams /\ e.n \in 0 .. MaxRequests /\ None \in 0 .. MaxRequests
    BY <1>0, <2>1 DEF Entry, None
  <2>3. CASE e.kind = "request" /\ UpdateRequest(e)
    <3>1. requests' \in [Streams -> 0 .. MaxRequests] /\ UNCHANGED reported
      BY <2>2, <2>3 DEF TypeOK, UpdateRequest
    <3> QED
      BY <1>4, <2>1, <3>1 DEF TypeOK, UpdateEntry
  <2>4. CASE e.kind = "response" /\ UpdateResponse(e)
    <3>1. requests' \in [Streams -> 0 .. MaxRequests]
      BY <2>2, <2>4 DEF TypeOK, UpdateResponse
    <3>2. reported' \in [Request -> Seq(0 .. MaxRequests)]
      BY <2>2, <2>4, ReportType DEF TypeOK, UpdateResponse
    <3> QED
      BY <1>4, <2>1, <3>1, <3>2 DEF TypeOK, UpdateEntry
  <2> QED
    BY <1>4, <2>3, <2>4 DEF UpdateEntry
<1>5. CASE CheckTimeouts
  <2>1. None \in 0 .. MaxRequests
    BY <1>0 DEF None
  <2>2. requests' \in [Streams -> 0 .. MaxRequests]
    BY <1>5, <2>1 DEF TypeOK, CheckTimeouts
  <2>3. reported' \in [Request -> Seq(0 .. MaxRequests)]
    BY <1>5, <2>1, ReportType DEF TypeOK, CheckTimeouts
  <2> QED
    BY <1>5, <2>2, <2>3 DEF TypeOK, CheckTimeouts
<1>6. CASE Stop
  BY <1>6 DEF Stop, TypeOK
<1>7. CASE UNCHANGED vars
  BY <1>7 DEF vars, TypeOK
<1> QED
  BY <1>1, <1>2, <1>3, <1>4, <1>5, <1>6, <1>7 DEF Next

\* The initial state is well typed.
LEMMA TypeInit == Init => TypeOK
<1> SUFFICES ASSUME Init PROVE TypeOK
  OBVIOUS
<1>1. 0 \in 0 .. MaxRequests /\ 0 \in 0 .. ResponseTimeout + 1
  BY ConstantsAssumption
<1>2. <<>> \in Seq(Entry) /\ <<>> \in Seq(0 .. MaxRequests)
  OBVIOUS
<1> QED
  BY <1>1, <1>2 DEF Init, TypeOK, None

\* Every variable keeps its type: in particular the map holds at most one
\* request per stream and the channel only requests and responses.
THEOREM TypeCorrect == Spec => []TypeOK
BY TypeInit, TypeInductive, PTL DEF Spec

(***************************************************************************)
(* A request is exported at most once.  AtMostOnce is not inductive: that   *)
(* Report appends to an empty sequence follows from OnePlace.               *)
(***************************************************************************)
Inv == TypeOK /\ OnePlace /\ AtMostOnce

\* Queue(e) puts e behind what is in the channel and changes nothing else there.
LEMMA QueueChannel ==
  ASSUME entries \in Seq(Entry), NEW e \in Entry, Queue(e)
  PROVE  /\ DOMAIN entries = 1 .. Len(entries)
         /\ Len(entries) \in Nat
         /\ DOMAIN entries' = 1 .. Len(entries) + 1
         /\ \A i \in DOMAIN entries : entries'[i] = entries[i]
         /\ entries'[Len(entries) + 1] = e
BY AppendProperties, LenProperties DEF Queue

\* After Queue(e) a request is in the channel if it was there or if it is e.
LEMMA QueueInChannel ==
  ASSUME entries \in Seq(Entry), NEW e \in Entry, Queue(e), NEW r \in Request,
         InChannel(r)'
  PROVE  InChannel(r) \/ (e.kind = "request" /\ IdOf(e) = r)
<1>1. PICK i \in DOMAIN entries' :
        entries'[i].kind = "request" /\ IdOf(entries'[i]) = r
  BY DEF InChannel, IdOf
<1>2. CASE i \in DOMAIN entries
  BY <1>1, <1>2, QueueChannel DEF InChannel
<1>3. CASE i = Len(entries) + 1
  BY <1>1, <1>3, QueueChannel
<1> QED
  BY <1>1, <1>2, <1>3, QueueChannel

\* Receiving takes the head off the channel and moves the others up by one.
LEMMA ReceiveChannel ==
  ASSUME entries \in Seq(Entry), entries # <<>>, entries' = Tail(entries)
  PROVE  /\ Len(entries) \in Nat \ {0}
         /\ DOMAIN entries = 1 .. Len(entries)
         /\ DOMAIN entries' = 1 .. Len(entries) - 1
         /\ Head(entries) = entries[1]
         /\ \A i \in DOMAIN entries' : entries'[i] = entries[i + 1]
         /\ \A i \in DOMAIN entries' : i + 1 \in DOMAIN entries
<1>1. Len(entries) \in Nat \ {0} /\ DOMAIN entries = 1 .. Len(entries)
  BY LenProperties, EmptySeq
<1>2. entries' \in Seq(Entry) /\ Len(entries') = Len(entries) - 1
  BY HeadTailProperties
<1>3. DOMAIN entries' = 1 .. Len(entries) - 1
  BY <1>2, LenProperties
<1>4. \A i \in 1 .. Len(entries) - 1 : Tail(entries)[i] = entries[i + 1]
  BY HeadTailProperties
<1> QED
  BY <1>1, <1>3, <1>4

\* An entry is determined by its kind and the request it belongs to.
LEMMA EntryIdentity ==
  ASSUME NEW a \in Entry, NEW b \in Entry, a.kind = b.kind, IdOf(a) = IdOf(b)
  PROVE  a = b
<1>1. a.stream = b.stream /\ a.n = b.n
  BY DEF IdOf
<1> QED
  BY <1>1 DEF Entry

\* Receiving keeps the queued requests distinct, and removes the received one.
LEMMA ReceiveUnique ==
  ASSUME entries \in Seq(Entry), entries # <<>>, entries' = Tail(entries), QueuedOnce
  PROVE  /\ QueuedOnce'
         /\ Head(entries) \in Entry
         /\ \A r \in Request :
              /\ InChannel(r)' => InChannel(r)
              /\ Head(entries).kind = "request" /\ r = IdOf(Head(entries))
                   => InChannel(r) /\ ~InChannel(r)'
<1> DEFINE e == Head(entries)
<1>1. e \in Entry
  BY HeadTailProperties
<1>2. QueuedOnce'
  <2> SUFFICES ASSUME NEW i \in DOMAIN entries', NEW j \in DOMAIN entries',
                      entries'[i].kind = "request", entries'[j] = entries'[i]
               PROVE  i = j
    BY DEF QueuedOnce
  <2>1. /\ entries'[i] = entries[i + 1] /\ i + 1 \in DOMAIN entries
        /\ entries'[j] = entries[j + 1] /\ j + 1 \in DOMAIN entries
        /\ i \in Nat /\ j \in Nat
    BY ReceiveChannel
  <2>2. i + 1 = j + 1
    BY <2>1 DEF QueuedOnce
  <2> QED
    BY <2>1, <2>2
<1>3. ASSUME NEW r \in Request
      PROVE  InChannel(r)' => InChannel(r)
  BY ReceiveChannel DEF InChannel, IdOf
<1>4. ASSUME NEW r \in Request, e.kind = "request", r = IdOf(e)
      PROVE  InChannel(r)
  BY <1>4, ReceiveChannel DEF InChannel
<1>5. ASSUME NEW r \in Request, e.kind = "request", r = IdOf(e), InChannel(r)'
      PROVE  FALSE
  <2>1. PICK i \in DOMAIN entries' :
          entries'[i].kind = "request" /\ IdOf(entries'[i]) = r
    BY <1>5 DEF InChannel, IdOf
  <2>2. entries'[i] = entries[i + 1] /\ i + 1 \in DOMAIN entries /\ i \in Nat \ {0}
    BY ReceiveChannel
  <2>3. entries[i + 1] \in Entry
    BY <2>2, ElementOfSeq, ReceiveChannel
  <2>4. entries[i + 1] = e
    BY <1>1, <1>5, <2>1, <2>2, <2>3, EntryIdentity
  <2>5. 1 \in DOMAIN entries /\ entries[1] = e
    BY ReceiveChannel
  <2>6. i + 1 = 1
    BY <1>5, <2>2, <2>4, <2>5 DEF QueuedOnce
  <2> QED
    BY <2>2, <2>6
<1> QED
  BY <1>1, <1>2, <1>3, <1>4, <1>5

\* Queueing a response, or a request that is not queued yet, keeps the queued
\* requests distinct.
LEMMA QueueUnique ==
  ASSUME entries \in Seq(Entry), NEW e \in Entry, Queue(e), QueuedOnce,
         e.kind = "request" => ~InChannel(IdOf(e))
  PROVE  QueuedOnce'
<1> SUFFICES ASSUME NEW i \in DOMAIN entries', NEW j \in DOMAIN entries',
                    entries'[i].kind = "request", entries'[j] = entries'[i]
             PROVE  i = j
  BY DEF QueuedOnce
<1> DEFINE last == Len(entries) + 1
<1>1. \A k \in DOMAIN entries : entries[k].kind = "request" => entries[k] # e
  BY DEF InChannel
<1>2. i \in DOMAIN entries \/ i = last
  BY QueueChannel
<1>3. j \in DOMAIN entries \/ j = last
  BY QueueChannel
<1>4. entries'[last] = e /\ \A k \in DOMAIN entries : entries'[k] = entries[k]
  BY QueueChannel
<1> QED
  BY <1>1, <1>2, <1>3, <1>4 DEF QueuedOnce

\* A step that leaves the channel, the map and the transactions alone.
LEMMA InvStutter ==
  ASSUME OnePlace, AtMostOnce, UNCHANGED <<asked, entries, requests, reported>>
  PROVE  OnePlace' /\ AtMostOnce'
<1>1. ASSUME NEW r \in Request
      PROVE  MovesOneWay(r)'
  <2>1. InChannel(r)' <=> InChannel(r)
    BY DEF InChannel
  <2>2. IsPending(r)' <=> IsPending(r)
    BY DEF IsPending
  <2>3. Sent(r)' <=> Sent(r)
    BY DEF Sent
  <2> QED
    BY <2>1, <2>2, <2>3 DEF OnePlace, MovesOneWay
<1>2. QueuedOnce'
  BY DEF OnePlace, QueuedOnce
<1>3. AtMostOnce'
  BY DEF AtMostOnce
<1> QED
  BY <1>1, <1>2, <1>3 DEF OnePlace

\* Inv is preserved when the wire's messages reach the channel or are lost.
LEMMA InvCapture ==
  ASSUME Inv, NEW s \in Streams, CaptureRequest(s) \/ CaptureResponse(s)
  PROVE  OnePlace' /\ AtMostOnce'
<1>0. TypeOK /\ OnePlace /\ AtMostOnce /\ entries \in Seq(Entry) /\ QueuedOnce
  BY DEF Inv, TypeOK, OnePlace
<1>1. UNCHANGED <<requests, reported>>
  BY DEF CaptureRequest, CaptureResponse
<1>2. CASE CaptureRequest(s)
  <2> DEFINE e == [kind |-> "request", stream |-> s, n |-> asked[s] + 1]
  <2>1. asked[s] \in 0 .. MaxRequests /\ asked[s] + 1 \in 1 .. MaxRequests
    BY <1>0, <1>2, ConstantsAssumption DEF TypeOK, CaptureRequest
  <2>2. e \in Entry /\ IdOf(e) \in Request /\ ~Sent(IdOf(e))
    BY <2>1 DEF Entry, IdOf, Request, Sent
  <2>3. ASSUME NEW r \in Request
        PROVE  Sent(r)' <=> (Sent(r) \/ r = IdOf(e))
    BY <1>0, <1>2, <2>1 DEF TypeOK, CaptureRequest, Sent, IdOf, Request
  <2>4. ASSUME NEW r \in Request
        PROVE  InChannel(r)' => (InChannel(r) \/ r = IdOf(e))
    <3>1. CASE Queue(e)
      BY <1>0, <2>2, <3>1, QueueInChannel
    <3>2. CASE UNCHANGED entries
      BY <3>2 DEF InChannel
    <3> QED
      BY <1>2, <3>1, <3>2 DEF CaptureRequest
  <2>5. ASSUME NEW r \in Request
        PROVE  MovesOneWay(r)'
    BY <1>0, <1>1, <2>2, <2>3, <2>4 DEF OnePlace, MovesOneWay, IsPending
  <2>6. QueuedOnce'
    <3>1. CASE Queue(e)
      BY <1>0, <2>2, <3>1, QueueUnique DEF OnePlace, MovesOneWay
    <3>2. CASE UNCHANGED entries
      BY <1>0, <3>2 DEF QueuedOnce
    <3> QED
      BY <1>2, <3>1, <3>2 DEF CaptureRequest
  <2> QED
    BY <1>0, <1>1, <2>5, <2>6 DEF OnePlace, AtMostOnce
<1>3. CASE CaptureResponse(s)
  <2> DEFINE e == [kind |-> "response", stream |-> s, n |-> answered[s] + 1]
  <2>1. e \in Entry /\ e.kind # "request"
    <3>1. answered[s] + 1 \in 1 .. MaxRequests
      BY <1>0, <1>3, ConstantsAssumption DEF TypeOK, CaptureResponse
    <3> QED
      BY <3>1 DEF Entry
  <2>2. UNCHANGED asked
    BY <1>3 DEF CaptureResponse
  <2>3. ASSUME NEW r \in Request
        PROVE  InChannel(r)' => InChannel(r)
    <3>1. CASE Queue(e)
      BY <1>0, <2>1, <3>1, QueueInChannel
    <3>2. CASE UNCHANGED entries
      BY <3>2 DEF InChannel
    <3> QED
      BY <1>3, <3>1, <3>2 DEF CaptureResponse
  <2>4. ASSUME NEW r \in Request
        PROVE  MovesOneWay(r)'
    BY <1>0, <1>1, <2>2, <2>3 DEF OnePlace, MovesOneWay, IsPending, Sent
  <2>5. QueuedOnce'
    <3>1. CASE Queue(e)
      BY <1>0, <2>1, <3>1, QueueUnique
    <3>2. CASE UNCHANGED entries
      BY <1>0, <3>2 DEF QueuedOnce
    <3> QED
      BY <1>3, <3>1, <3>2 DEF CaptureResponse
  <2> QED
    BY <1>0, <1>1, <2>4, <2>5 DEF OnePlace, AtMostOnce
<1> QED
  BY <1>2, <1>3

\* Inv is preserved when the goroutine receives an entry.
LEMMA InvUpdateEntry ==
  ASSUME Inv, UpdateEntry
  PROVE  OnePlace' /\ AtMostOnce'
<1> DEFINE e == Head(entries)
<1>0. TypeOK /\ OnePlace /\ AtMostOnce /\ UNCHANGED asked
  BY DEF Inv, UpdateEntry
<1>1. /\ entries \in Seq(Entry) /\ entries # <<>> /\ entries' = Tail(entries)
      /\ QueuedOnce
  BY <1>0 DEF TypeOK, UpdateEntry, OnePlace
<1>2. e \in Entry /\ QueuedOnce'
  BY <1>1, ReceiveUnique
<1>3. IdOf(e) \in Request /\ e.stream \in Streams
  BY <1>2 DEF Entry, IdOf, Request
<1>4. ASSUME NEW r \in Request
      PROVE  /\ InChannel(r)' => InChannel(r)
             /\ e.kind = "request" /\ r = IdOf(e) => InChannel(r) /\ ~InChannel(r)'
             /\ Sent(r)' <=> Sent(r)
  BY <1>0, <1>1, ReceiveUnique DEF Sent
<1>5. CASE e.kind = "request" /\ UpdateRequest(e)
  <2>1. ASSUME NEW r \in Request
        PROVE  IsPending(r)' => r = IdOf(e) \/ IsPending(r)
    <3>1. requests'[r.stream] = IF r.stream = e.stream THEN e.n ELSE requests[r.stream]
      BY <1>0, <1>3, <1>5 DEF TypeOK, UpdateRequest, Request
    <3>2. r = [stream |-> r.stream, n |-> r.n]
      BY DEF Request
    <3> QED
      BY <3>1, <3>2 DEF IsPending, IdOf
  <2>2. UNCHANGED reported
    BY <1>5 DEF UpdateRequest
  <2>3. ASSUME NEW r \in Request
        PROVE  MovesOneWay(r)'
    BY <1>0, <1>3, <1>4, <1>5, <2>1, <2>2 DEF OnePlace, MovesOneWay
  <2> QED
    BY <1>0, <1>2, <2>2, <2>3 DEF OnePlace, AtMostOnce
<1>6. CASE /\ e.kind = "response" /\ UpdateResponse(e)
           /\ requests[e.stream] = None
  <2>1. UNCHANGED <<requests, reported>>
    BY <1>6 DEF UpdateResponse
  <2>2. ASSUME NEW r \in Request
        PROVE  MovesOneWay(r)'
    BY <1>0, <1>4, <2>1 DEF OnePlace, MovesOneWay, IsPending
  <2> QED
    BY <1>0, <1>2, <2>1, <2>2 DEF OnePlace, AtMostOnce
<1>7. CASE /\ e.kind = "response" /\ UpdateResponse(e)
           /\ requests[e.stream] # None
  <2> DEFINE o == Outstanding(e.stream)
  <2>1. o \in Request /\ IsPending(o)
    <3>1. requests[e.stream] \in 1 .. MaxRequests
      BY <1>0, <1>3, <1>7, ConstantsAssumption DEF TypeOK, None
    <3> QED
      BY <1>3, <3>1 DEF Outstanding, Request, IsPending
  <2>2. reported[o] = <<>> /\ ~InChannel(o) /\ Sent(o)
    BY <1>0, <2>1 DEF OnePlace, MovesOneWay
  <2>3. ASSUME NEW r \in Request
        PROVE  IsPending(r)' => IsPending(r) /\ r # o
    <3>1. requests'[r.stream] = IF r.stream = e.stream THEN None ELSE requests[r.stream]
      BY <1>0, <1>3, <1>7 DEF TypeOK, UpdateResponse, Request
    <3>2. r.n # None
      BY ConstantsAssumption DEF Request, None
    <3> QED
      BY <3>1, <3>2 DEF IsPending, Outstanding
  <2>4. /\ reported'[o] = Append(<<>>, e.n)
        /\ \A r \in Request : r # o => reported'[r] = reported[r]
    BY <1>7, <2>1, <2>2 DEF UpdateResponse, Report
  <2>5. AtMostOnce'
    <3>1. Len(Append(<<>>, e.n)) <= 1
      OBVIOUS
    <3> QED
      BY <1>0, <2>4, <3>1 DEF AtMostOnce
  <2>6. ASSUME NEW r \in Request
        PROVE  MovesOneWay(r)'
    BY <1>0, <1>4, <2>2, <2>3, <2>4 DEF OnePlace, MovesOneWay
  <2> QED
    BY <1>2, <2>5, <2>6 DEF OnePlace
<1> QED
  BY <1>5, <1>6, <1>7 DEF UpdateEntry

\* Inv is preserved when the ticker fires.
LEMMA InvCheckTimeouts ==
  ASSUME Inv, CheckTimeouts
  PROVE  OnePlace' /\ AtMostOnce'
<1>0. TypeOK /\ OnePlace /\ AtMostOnce /\ UNCHANGED <<asked, entries>>
  BY DEF Inv, CheckTimeouts
<1>1. ASSUME NEW r \in Request
      PROVE  IsPending(r)' => IsPending(r) /\ r \notin Expired
  <2>1. r.stream \in Streams /\ r.n # None /\ r = [stream |-> r.stream, n |-> r.n]
    BY ConstantsAssumption DEF Request, None
  <2>2. requests'[r.stream] = IF Outstanding(r.stream) \in Expired
                              THEN None ELSE requests[r.stream]
    BY <2>1 DEF CheckTimeouts
  <2>3. IsPending(r) => Outstanding(r.stream) = r
    BY <2>1 DEF IsPending, Outstanding
  <2> QED
    BY <2>1, <2>2, <2>3 DEF IsPending
<1>2. ASSUME NEW r \in Request
      PROVE  reported'[r] = IF r \in Expired THEN Append(<<>>, None) ELSE reported[r]
  BY <1>0 DEF CheckTimeouts, Report, Expired, OnePlace, MovesOneWay
<1>3. AtMostOnce'
  <2>1. Len(Append(<<>>, None)) <= 1
    OBVIOUS
  <2> QED
    BY <1>0, <1>2, <2>1 DEF AtMostOnce
<1>4. ASSUME NEW r \in Request
      PROVE  MovesOneWay(r)'
  <2>1. (InChannel(r)' <=> InChannel(r)) /\ (Sent(r)' <=> Sent(r))
    BY <1>0 DEF InChannel, Sent
  <2>2. r \in Expired => IsPending(r)
    BY DEF Expired
  <2> QED
    BY <1>0, <1>1, <1>2, <2>1, <2>2 DEF OnePlace, MovesOneWay
<1>5. QueuedOnce'
  BY <1>0 DEF OnePlace, QueuedOnce
<1> QED
  BY <1>3, <1>4, <1>5 DEF OnePlace

\* Inv is preserved by every step of the correlator and of the wire.
LEMMA InvInductive == Inv /\ [Next]_vars => Inv'
<1> SUFFICES ASSUME Inv, [Next]_vars
             PROVE  OnePlace' /\ AtMostOnce'
  BY TypeInductive DEF Inv
<1>1. ASSUME NEW s \in Streams, CaptureRequest(s) \/ CaptureResponse(s)
      PROVE  OnePlace' /\ AtMostOnce'
  BY <1>1, InvCapture
<1>2. CASE UpdateEntry
  BY <1>2, InvUpdateEntry
<1>3. CASE CheckTimeouts
  BY <1>3, InvCheckTimeouts
<1>4. CASE TimePasses \/ Stop \/ UNCHANGED vars
  <2>1. UNCHANGED <<asked, entries, requests, reported>>
    BY <1>4 DEF TimePasses, Stop, vars
  <2> QED
    BY <2>1, InvStutter DEF Inv
<1> QED
  BY <1>1, <1>2, <1>3, <1>4 DEF Next

\* Inv holds initially.
LEMMA InvInit == Init => Inv
<1> SUFFICES ASSUME Init PROVE Inv
  OBVIOUS
<1>1. OnePlace
  BY ConstantsAssumption
    DEF Init, OnePlace, QueuedOnce, MovesOneWay, InChannel, IsPending, Request, None
<1>2. AtMostOnce
  BY DEF Init, AtMostOnce
<1> QED
  BY <1>1, <1>2, TypeInit DEF Inv

\* A captured request is in one place at a time: in the channel, in the map or
\* exported; whatever the traffic, the losses and the timeouts.
THEOREM OnePlaceHolds == Spec => []OnePlace
<1>1. Inv => OnePlace
  BY DEF Inv
<1> QED
  BY <1>1, InvInit, InvInductive, PTL DEF Spec

\* No request is exported twice, for any number of streams and requests, any
\* channel capacity and timeout, pipelined or lossy traffic alike.
THEOREM ExportedAtMostOnce == Spec => []AtMostOnce
<1>1. Inv => AtMostOnce
  BY DEF Inv
<1> QED
  BY <1>1, InvInit, InvInductive, PTL DEF Spec

(***************************************************************************)
(* A stream captured in full, whose client waits for its answers.  Its      *)
(* messages are numbered in the order they are sent: request n is message   *)
(* 2n - 1 and response n is message 2n.  What the channel holds of them is  *)
(* the last of those sent so far, in order and without a gap; and while a   *)
(* request is outstanding the next of them to be received is its response.  *)
(* Neither Accounted nor PairedWithOwnResponse is inductive without it.     *)
(***************************************************************************)
Pos(e) == IF e.kind = "request" THEN 2 * e.n - 1 ELSE 2 * e.n

SentOn(s) == asked[s] + answered[s]

Of(s) == {i \in DOMAIN entries : entries[i].stream = s}

TakesTurns(s) == answered[s] <= asked[s] /\ asked[s] <= answered[s] + 1

InOrder(s) ==
  /\ \A i \in Of(s) : Pos(entries[i]) <= SentOn(s)
  /\ \A i, j \in Of(s) : i < j => Pos(entries[i]) < Pos(entries[j])
  /\ \A i \in Of(s) : Pos(entries[i]) < SentOn(s) =>
       \E j \in Of(s) : Pos(entries[j]) = Pos(entries[i]) + 1

ResponseNext(s) ==
  requests[s] # None =>
    /\ \A i \in Of(s) : Pos(entries[i]) >= 2 * requests[s]
    /\ SentOn(s) = 2 * requests[s] - 1 \/ \E i \in Of(s) : Pos(entries[i]) = 2 * requests[s]

Flow(s) == TakesTurns(s) /\ InOrder(s) /\ ResponseNext(s)

Alternating == \A s \in Streams : orderly[s] => Flow(s)

\* The numbers that Flow compares.
LEMMA FlowTypes ==
  ASSUME TypeOK, NEW s \in Streams
  PROVE  /\ asked[s] \in Nat /\ answered[s] \in Nat /\ SentOn(s) \in Nat
         /\ requests[s] \in Nat
         /\ \A i \in DOMAIN entries : i \in Nat \ {0} /\ entries[i] \in Entry
         /\ \A e \in Entry : Pos(e) \in Nat /\ e.n \in Nat \ {0}
                             /\ (e.kind = "request" \/ e.kind = "response")
<1>0. MaxRequests \in Nat
  BY ConstantsAssumption
<1>1. asked[s] \in Nat /\ answered[s] \in Nat /\ requests[s] \in Nat
  BY <1>0 DEF TypeOK
<1>2. SentOn(s) \in Nat
  BY <1>1 DEF SentOn
<1>3. \A i \in DOMAIN entries : i \in Nat \ {0} /\ entries[i] \in Entry
  BY LenProperties, ElementOfSeq DEF TypeOK
<1>4. ASSUME NEW e \in Entry
      PROVE  Pos(e) \in Nat /\ e.n \in Nat \ {0} /\ (e.kind = "request" \/ e.kind = "response")
  <2>1. e.n \in Nat \ {0} /\ (e.kind = "request" \/ e.kind = "response")
    BY <1>0 DEF Entry
  <2> QED
    BY <2>1 DEF Pos
<1> QED
  BY <1>1, <1>2, <1>3, <1>4

\* A stream none of whose messages is sent or received, and whose request, if
\* anything happens to it, is dropped from the map.
LEMMA FlowKept ==
  ASSUME NEW s \in Streams, Flow(s), entries' = entries,
         asked'[s] = asked[s], answered'[s] = answered[s],
         requests'[s] = requests[s] \/ requests'[s] = None
  PROVE  Flow(s)'
<1>1. Of(s)' = Of(s) /\ SentOn(s)' = SentOn(s)
  BY DEF Of, SentOn
<1>2. TakesTurns(s)'
  BY DEF Flow, TakesTurns
<1>3. InOrder(s)'
  BY <1>1 DEF Flow, InOrder
<1>4. ResponseNext(s)'
  BY <1>1 DEF Flow, ResponseNext
<1> QED
  BY <1>2, <1>3, <1>4 DEF Flow

\* A message of another stream goes into the channel.
LEMMA FlowQueueOther ==
  ASSUME TypeOK, NEW s \in Streams, Flow(s), NEW e \in Entry, e.stream # s, Queue(e),
         asked'[s] = asked[s], answered'[s] = answered[s], requests'[s] = requests[s]
  PROVE  Flow(s)'
<1>1. entries \in Seq(Entry)
  BY DEF TypeOK
<1>2. /\ DOMAIN entries = 1 .. Len(entries) /\ Len(entries) \in Nat
      /\ DOMAIN entries' = 1 .. Len(entries) + 1
      /\ \A i \in DOMAIN entries : entries'[i] = entries[i]
      /\ entries'[Len(entries) + 1] = e
  BY <1>1, QueueChannel
<1>3. Of(s)' = Of(s)
  BY <1>2 DEF Of
<1>4. \A i \in Of(s) : entries'[i] = entries[i]
  BY <1>2 DEF Of
<1>5. SentOn(s)' = SentOn(s)
  BY DEF SentOn
<1>6. TakesTurns(s)'
  BY DEF Flow, TakesTurns
<1>7. InOrder(s)'
  BY <1>3, <1>4, <1>5 DEF Flow, InOrder
<1>8. ResponseNext(s)'
  BY <1>3, <1>4, <1>5 DEF Flow, ResponseNext
<1> QED
  BY <1>6, <1>7, <1>8 DEF Flow

\* The next message of the stream itself goes into the channel.
LEMMA FlowQueue ==
  ASSUME TypeOK, NEW s \in Streams, Flow(s), NEW e \in Entry, e.stream = s, Queue(e),
         Pos(e) = SentOn(s) + 1, SentOn(s)' = SentOn(s) + 1, TakesTurns(s)',
         requests'[s] = requests[s]
  PROVE  Flow(s)'
<1> DEFINE last == Len(entries) + 1
<1>0. entries \in Seq(Entry)
  BY DEF TypeOK
<1>1. /\ DOMAIN entries = 1 .. Len(entries) /\ Len(entries) \in Nat
      /\ DOMAIN entries' = 1 .. last
      /\ \A i \in DOMAIN entries : entries'[i] = entries[i]
      /\ entries'[last] = e
  BY <1>0, QueueChannel
<1>2. Of(s)' = Of(s) \union {last} /\ entries'[last] = e
  BY <1>1 DEF Of
<1>3. \A i \in Of(s) : /\ entries'[i] = entries[i] /\ i \in Nat /\ i < last
                       /\ Pos(entries[i]) \in Nat
  BY <1>1, FlowTypes DEF Of
<1>4. SentOn(s) \in Nat /\ requests[s] \in Nat /\ last \in Nat
  BY <1>1, FlowTypes
<1> HIDE DEF last
<1>5. InOrder(s)'
  <2>1. ASSUME NEW i \in Of(s)' PROVE Pos(entries'[i]) <= SentOn(s)'
    BY <1>2, <1>3, <1>4, <2>1 DEF Flow, InOrder
  <2>2. ASSUME NEW i \in Of(s)', NEW j \in Of(s)', i < j
        PROVE  Pos(entries'[i]) < Pos(entries'[j])
    <3>1. CASE j = last
      <4>1. i \in Of(s) /\ Pos(entries[i]) <= SentOn(s)
        BY <1>2, <1>4, <2>2, <3>1 DEF Flow, InOrder
      <4> QED
        BY <1>2, <1>3, <1>4, <3>1, <4>1
    <3>2. CASE j # last
      <4>1. j \in Of(s) /\ i \in Of(s)
        BY <1>2, <1>3, <1>4, <2>2, <3>2
      <4> QED
        BY <1>3, <2>2, <4>1 DEF Flow, InOrder
    <3> QED
      BY <3>1, <3>2
  <2>3. ASSUME NEW i \in Of(s)', Pos(entries'[i]) < SentOn(s)'
        PROVE  \E j \in Of(s)' : Pos(entries'[j]) = Pos(entries'[i]) + 1
    <3>1. i \in Of(s)
      BY <1>2, <1>4, <2>3
    <3>2. CASE Pos(entries[i]) = SentOn(s)
      BY <1>2, <1>3, <3>1, <3>2
    <3>3. CASE Pos(entries[i]) < SentOn(s)
      <4>1. PICK j \in Of(s) : Pos(entries[j]) = Pos(entries[i]) + 1
        BY <3>1, <3>3 DEF Flow, InOrder
      <4> QED
        BY <1>2, <1>3, <3>1, <4>1
    <3> QED
      BY <1>3, <1>4, <2>3, <3>1, <3>2, <3>3
  <2> QED
    BY <2>1, <2>2, <2>3 DEF InOrder
<1>6. ResponseNext(s)'
  <2> SUFFICES ASSUME requests[s] # None
               PROVE  /\ \A i \in Of(s)' : Pos(entries'[i]) >= 2 * requests[s]
                      /\ \E i \in Of(s)' : Pos(entries'[i]) = 2 * requests[s]
    BY DEF ResponseNext
  <2>1. /\ \A i \in Of(s) : Pos(entries[i]) >= 2 * requests[s]
        /\ SentOn(s) = 2 * requests[s] - 1 \/ \E i \in Of(s) : Pos(entries[i]) = 2 * requests[s]
    BY DEF Flow, ResponseNext
  <2>2. CASE SentOn(s) = 2 * requests[s] - 1
    BY <1>2, <1>3, <1>4, <2>1, <2>2
  <2>3. ASSUME NEW i \in Of(s), Pos(entries[i]) = 2 * requests[s]
        PROVE  SentOn(s) >= 2 * requests[s] /\ Pos(entries'[i]) = 2 * requests[s] /\ i \in Of(s)'
    BY <1>2, <1>3, <1>4, <2>3 DEF Flow, InOrder
  <2> QED
    BY <1>2, <1>3, <1>4, <2>1, <2>2, <2>3
<1> QED
  BY <1>5, <1>6 DEF Flow

\* Receiving moves what is left of a stream's messages up by one.
LEMMA ReceiveFlow ==
  ASSUME TypeOK, NEW s \in Streams, entries # <<>>, entries' = Tail(entries)
  PROVE  /\ \A i \in Of(s)' : /\ i \in Nat /\ i + 1 \in Of(s) /\ 1 < i + 1
                              /\ entries'[i] = entries[i + 1]
         /\ \A i \in Of(s) : i # 1 =>
              i - 1 \in Of(s)' /\ entries'[i - 1] = entries[i]
         /\ Head(entries) = entries[1] /\ Head(entries) \in Entry
         /\ Head(entries).stream = s <=> 1 \in Of(s)
<1>1. entries \in Seq(Entry)
  BY DEF TypeOK
<1>2. /\ Len(entries) \in Nat \ {0}
      /\ DOMAIN entries = 1 .. Len(entries)
      /\ DOMAIN entries' = 1 .. Len(entries) - 1
      /\ Head(entries) = entries[1]
      /\ \A i \in DOMAIN entries' : entries'[i] = entries[i + 1]
  BY <1>1, ReceiveChannel
<1>3. Head(entries) \in Entry
  BY <1>1, HeadTailProperties
<1>4. ASSUME NEW i \in Of(s)'
      PROVE  i \in Nat /\ i + 1 \in Of(s) /\ 1 < i + 1 /\ entries'[i] = entries[i + 1]
  BY <1>2 DEF Of
<1>5. ASSUME NEW i \in Of(s), i # 1
      PROVE  i - 1 \in Of(s)' /\ entries'[i - 1] = entries[i]
  <2>1. i \in 1 .. Len(entries) /\ i - 1 \in 1 .. Len(entries) - 1 /\ (i - 1) + 1 = i
    BY <1>2, <1>5 DEF Of
  <2>2. entries'[i - 1] = entries[i]
    BY <1>2, <2>1
  <2> QED
    BY <1>2, <2>1, <2>2 DEF Of
<1>6. Head(entries).stream = s <=> 1 \in Of(s)
  BY <1>2 DEF Of
<1>7. \A i \in Of(s) : i \in Nat
  BY <1>2 DEF Of
<1> QED
  BY <1>2, <1>3, <1>4, <1>5, <1>6, <1>7

\* The messages of a stream stay in order when one is received: the received
\* one, if it is the stream's, comes before the others.
LEMMA ReceiveInOrder ==
  ASSUME TypeOK, NEW s \in Streams, Flow(s), entries # <<>>, entries' = Tail(entries),
         asked'[s] = asked[s], answered'[s] = answered[s]
  PROVE  /\ TakesTurns(s)' /\ InOrder(s)'
         /\ 1 \in Of(s) => \A i \in Of(s)' : Pos(entries'[i]) > Pos(entries[1])
<1>1. /\ \A i \in Of(s)' : /\ i \in Nat /\ i + 1 \in Of(s) /\ 1 < i + 1
                           /\ entries'[i] = entries[i + 1]
      /\ \A i \in Of(s) : i # 1 =>
           i - 1 \in Of(s)' /\ entries'[i - 1] = entries[i]
  BY ReceiveFlow
<1>2. SentOn(s)' = SentOn(s) /\ TakesTurns(s)'
  BY DEF SentOn, Flow, TakesTurns
<1>3. \A i \in Of(s) : i \in Nat \ {0} /\ Pos(entries[i]) \in Nat
  BY FlowTypes DEF Of
<1>4. ASSUME 1 \in Of(s), NEW i \in Of(s)' PROVE Pos(entries'[i]) > Pos(entries[1])
  BY <1>1, <1>3, <1>4 DEF Flow, InOrder
<1>5. ASSUME NEW i \in Of(s)' PROVE Pos(entries'[i]) <= SentOn(s)'
  BY <1>1, <1>2 DEF Flow, InOrder
<1>6. ASSUME NEW i \in Of(s)', NEW j \in Of(s)', i < j
      PROVE  Pos(entries'[i]) < Pos(entries'[j])
  <2>1. i + 1 < j + 1 /\ i + 1 \in Of(s) /\ j + 1 \in Of(s)
    BY <1>1, <1>6
  <2>2. Pos(entries[i + 1]) < Pos(entries[j + 1])
    BY <2>1 DEF Flow, InOrder
  <2> QED
    BY <1>1, <2>2
<1>7. ASSUME NEW i \in Of(s)', Pos(entries'[i]) < SentOn(s)'
      PROVE  \E j \in Of(s)' : Pos(entries'[j]) = Pos(entries'[i]) + 1
  <2>1. i + 1 \in Of(s) /\ entries'[i] = entries[i + 1]
    BY <1>1
  <2>2. PICK j \in Of(s) : Pos(entries[j]) = Pos(entries[i + 1]) + 1
    BY <1>2, <1>7, <2>1 DEF Flow, InOrder
  <2>3. j # 1
    <3>1. i \in Nat /\ 1 < i + 1
      BY <1>1
    <3>2. j = 1 => Pos(entries[j]) < Pos(entries[i + 1])
      BY <2>1, <3>1 DEF Flow, InOrder
    <3>3. Pos(entries[i + 1]) \in Nat
      BY <1>3, <2>1
    <3> QED
      BY <2>2, <3>2, <3>3
  <2>4. j - 1 \in Of(s)' /\ entries'[j - 1] = entries[j]
    BY <1>1, <2>3
  <2>5. Pos(entries'[j - 1]) = Pos(entries'[i]) + 1
    BY <2>1, <2>2, <2>4
  <2> QED
    BY <2>4, <2>5
<1> QED
  BY <1>2, <1>4, <1>5, <1>6, <1>7 DEF InOrder

\* While a request of the stream is outstanding, the first of the stream's
\* messages in the channel is its response.
LEMMA HeadAnswers ==
  ASSUME TypeOK, NEW s \in Streams, Flow(s), 1 \in Of(s), requests[s] # None
  PROVE  entries[1].kind = "response" /\ entries[1].n = requests[s]
<1> DEFINE k == requests[s]
<1>1. /\ \A i \in Of(s) : Pos(entries[i]) >= 2 * k
      /\ SentOn(s) = 2 * k - 1 \/ \E i \in Of(s) : Pos(entries[i]) = 2 * k
      /\ Pos(entries[1]) <= SentOn(s)
  BY DEF Flow, ResponseNext, InOrder
<1>2. /\ entries[1] \in Entry /\ k \in Nat /\ SentOn(s) \in Nat
      /\ \A i \in Of(s) : i \in Nat \ {0} /\ Pos(entries[i]) \in Nat
      /\ entries[1].n \in Nat \ {0}
      /\ (entries[1].kind = "request" \/ entries[1].kind = "response")
  BY FlowTypes DEF Of
<1> HIDE DEF k
<1>3. PICK i \in Of(s) : Pos(entries[i]) = 2 * k
  BY <1>1, <1>2
<1>4. i = 1 \/ Pos(entries[1]) < Pos(entries[i])
  BY <1>2 DEF Flow, InOrder
<1>5. Pos(entries[1]) = 2 * k
  BY <1>1, <1>2, <1>3, <1>4
<1>6. CASE entries[1].kind = "request"
  <2>1. 2 * entries[1].n - 1 = 2 * k
    BY <1>5, <1>6 DEF Pos
  <2> QED
    BY <1>2, <2>1
<1>7. CASE entries[1].kind = "response"
  <2>1. 2 * entries[1].n = 2 * k
    BY <1>5, <1>7 DEF Pos
  <2>2. entries[1].n = k
    BY <1>2, <2>1
  <2> QED
    BY <1>7, <2>2 DEF k
<1> QED
  BY <1>2, <1>6, <1>7

\* Receiving an entry, of whatever stream, keeps the flow of every stream.
LEMMA FlowUpdateEntry ==
  ASSUME TypeOK, NEW s \in Streams, Flow(s), UpdateEntry
  PROVE  Flow(s)'
<1> DEFINE e == Head(entries)
<1>0. entries # <<>> /\ entries' = Tail(entries) /\ UNCHANGED <<asked, answered>>
  BY DEF UpdateEntry
<1>1. /\ \A i \in Of(s)' : /\ i \in Nat /\ i + 1 \in Of(s) /\ 1 < i + 1
                           /\ entries'[i] = entries[i + 1]
      /\ \A i \in Of(s) : i # 1 =>
           i - 1 \in Of(s)' /\ entries'[i - 1] = entries[i]
      /\ e = entries[1] /\ e \in Entry
      /\ e.stream = s <=> 1 \in Of(s)
  BY <1>0, ReceiveFlow
<1>2. /\ TakesTurns(s)' /\ InOrder(s)'
      /\ 1 \in Of(s) => \A i \in Of(s)' : Pos(entries'[i]) > Pos(entries[1])
  BY <1>0, ReceiveInOrder
<1>3. SentOn(s)' = SentOn(s)
  BY <1>0 DEF SentOn
<1>4. /\ e.kind = "request" /\ requests' = [requests EXCEPT ![e.stream] = e.n]
      \/ /\ e.kind = "response"
         /\ requests' = requests \/ requests' = [requests EXCEPT ![e.stream] = None]
  BY DEF UpdateEntry, UpdateRequest, UpdateResponse
<1>5. requests \in [Streams -> 0 .. MaxRequests] /\ e.stream \in Streams
  BY <1>1 DEF TypeOK, Entry
<1>6. SentOn(s) \in Nat /\ e.n \in Nat \ {0} /\ \A i \in Of(s) : Pos(entries[i]) \in Nat
  BY <1>1, FlowTypes DEF Of
<1> HIDE DEF e
<1>7. CASE e.stream # s
  <2>1. requests'[s] = requests[s]
    BY <1>4, <1>5, <1>7
  <2>2. 1 \notin Of(s)
    BY <1>1, <1>7
  <2>3. ASSUME requests[s] # None
        PROVE  /\ \A i \in Of(s)' : Pos(entries'[i]) >= 2 * requests[s]
               /\ SentOn(s) = 2 * requests[s] - 1 \/ \E i \in Of(s)' : Pos(entries'[i]) = 2 * requests[s]
    <3>1. /\ \A i \in Of(s) : Pos(entries[i]) >= 2 * requests[s]
          /\ SentOn(s) = 2 * requests[s] - 1 \/ \E i \in Of(s) : Pos(entries[i]) = 2 * requests[s]
      BY <2>3 DEF Flow, ResponseNext
    <3>2. ASSUME NEW i \in Of(s), Pos(entries[i]) = 2 * requests[s]
          PROVE  \E j \in Of(s)' : Pos(entries'[j]) = 2 * requests[s]
      <4>1. i - 1 \in Of(s)' /\ entries'[i - 1] = entries[i]
        BY <1>1, <2>2
      <4> QED
        BY <3>2, <4>1
    <3> QED
      BY <1>1, <3>1, <3>2
  <2> QED
    BY <1>2, <1>3, <2>1, <2>3 DEF Flow, ResponseNext
<1>8. CASE e.stream = s /\ e.kind = "request"
  <2>1. requests'[s] = e.n /\ Pos(e) = 2 * e.n - 1 /\ 1 \in Of(s)
    BY <1>1, <1>4, <1>5, <1>8 DEF Pos
  <2>2. ASSUME NEW i \in Of(s)' PROVE Pos(entries'[i]) >= 2 * e.n
    <3>1. Pos(entries'[i]) > 2 * e.n - 1 /\ Pos(entries'[i]) \in Nat
      BY <1>1, <1>2, <1>6, <2>1
    <3> QED
      BY <1>6, <3>1
  <2>3. SentOn(s) = 2 * e.n - 1 \/ \E i \in Of(s)' : Pos(entries'[i]) = 2 * e.n
    <3>1. Pos(entries[1]) <= SentOn(s)
      BY <2>1 DEF Flow, InOrder
    <3>2. CASE Pos(entries[1]) < SentOn(s)
      <4>1. PICK j \in Of(s) : Pos(entries[j]) = Pos(entries[1]) + 1
        BY <2>1, <3>2 DEF Flow, InOrder
      <4>2. Pos(entries[j]) = 2 * e.n /\ j # 1
        BY <1>1, <1>6, <2>1, <4>1
      <4>3. j - 1 \in Of(s)' /\ entries'[j - 1] = entries[j]
        BY <1>1, <4>2
      <4> QED
        BY <4>2, <4>3
    <3> QED
      BY <1>1, <1>6, <2>1, <3>1, <3>2
  <2> QED
    BY <1>2, <1>3, <2>1, <2>2, <2>3 DEF Flow, ResponseNext
<1>9. CASE e.stream = s /\ e.kind = "response"
  <2>1. requests'[s] = requests[s] \/ requests'[s] = None
    BY <1>4, <1>5, <1>9
  <2>2. requests'[s] = None
    <3>1. CASE requests[s] = None
      BY <2>1, <3>1
    <3>2. CASE requests[s] # None
      <4>1. requests' = [requests EXCEPT ![e.stream] = None]
        BY <1>9, <3>2 DEF UpdateEntry, UpdateResponse, e
      <4> QED
        BY <1>5, <1>9, <4>1
    <3> QED
      BY <3>1, <3>2
  <2> QED
    BY <1>2, <2>2 DEF Flow, ResponseNext
<1> QED
  BY <1>4, <1>7, <1>8, <1>9

\* Sending a message, queued or lost, keeps the flow of every stream that is
\* still orderly afterwards.
LEMMA FlowCapture ==
  ASSUME TypeOK, NEW s \in Streams, NEW c \in Streams, Flow(s),
         CaptureRequest(c) \/ CaptureResponse(c), orderly'[s]
  PROVE  Flow(s)'
<1>1. /\ asked \in [Streams -> 0 .. MaxRequests] /\ answered \in [Streams -> 0 .. MaxRequests]
      /\ orderly \in [Streams -> BOOLEAN] /\ MaxRequests \in Nat
      /\ asked[s] \in Nat /\ answered[s] \in Nat /\ asked[c] \in Nat /\ answered[c] \in Nat
  BY ConstantsAssumption DEF TypeOK
<1>2. UNCHANGED requests
  BY DEF CaptureRequest, CaptureResponse
<1>3. CASE CaptureRequest(c)
  <2> DEFINE e == [kind |-> "request", stream |-> c, n |-> asked[c] + 1]
  <2>1. e \in Entry /\ e.stream = c /\ Pos(e) = 2 * (asked[c] + 1) - 1
    BY <1>1, <1>3 DEF CaptureRequest, Entry, Pos
  <2>2. asked' = [asked EXCEPT ![c] = @ + 1] /\ answered' = answered
    BY <1>3 DEF CaptureRequest
  <2>3. \/ Queue(e) /\ orderly' = [orderly EXCEPT ![c] = @ /\ answered[c] = asked[c]]
        \/ orderly' = [orderly EXCEPT ![c] = FALSE] /\ UNCHANGED entries
    BY <1>3 DEF CaptureRequest
  <2> HIDE DEF e
  <2>4. CASE c # s
    <3>1. asked'[s] = asked[s] /\ answered'[s] = answered[s] /\ requests'[s] = requests[s]
      BY <1>1, <1>2, <2>2, <2>4
    <3> QED
      BY <2>1, <2>3, <2>4, <3>1, FlowKept, FlowQueueOther
  <2>5. CASE c = s
    <3>1. Queue(e) /\ answered[s] = asked[s]
      BY <1>1, <2>3, <2>5
    <3>2. asked'[s] = asked[s] + 1 /\ answered'[s] = answered[s]
      BY <1>1, <2>2, <2>5
    <3>3. Pos(e) = SentOn(s) + 1 /\ SentOn(s)' = SentOn(s) + 1 /\ TakesTurns(s)'
      BY <1>1, <2>1, <2>5, <3>1, <3>2 DEF SentOn, TakesTurns
    <3> QED
      BY <1>2, <2>1, <2>5, <3>1, <3>3, FlowQueue
  <2> QED
    BY <2>4, <2>5
<1>4. CASE CaptureResponse(c)
  <2> DEFINE e == [kind |-> "response", stream |-> c, n |-> answered[c] + 1]
  <2>1. e \in Entry /\ e.stream = c /\ Pos(e) = 2 * (answered[c] + 1)
    BY <1>1, <1>4 DEF CaptureResponse, Entry, Pos
  <2>2. answered' = [answered EXCEPT ![c] = @ + 1] /\ asked' = asked /\ answered[c] < asked[c]
    BY <1>4 DEF CaptureResponse
  <2>3. \/ Queue(e)
        \/ orderly' = [orderly EXCEPT ![c] = FALSE] /\ UNCHANGED entries
    BY <1>4 DEF CaptureResponse
  <2> HIDE DEF e
  <2>4. CASE c # s
    <3>1. asked'[s] = asked[s] /\ answered'[s] = answered[s] /\ requests'[s] = requests[s]
      BY <1>1, <1>2, <2>2, <2>4
    <3> QED
      BY <2>1, <2>3, <2>4, <3>1, FlowKept, FlowQueueOther
  <2>5. CASE c = s
    <3>1. Queue(e)
      BY <1>1, <2>3, <2>5
    <3>2. asked'[s] = asked[s] /\ answered'[s] = answered[s] + 1 /\ asked[s] = answered[s] + 1
      BY <1>1, <2>2, <2>5 DEF Flow, TakesTurns
    <3>3. Pos(e) = SentOn(s) + 1 /\ SentOn(s)' = SentOn(s) + 1 /\ TakesTurns(s)'
      BY <1>1, <2>1, <2>5, <3>2 DEF SentOn, TakesTurns
    <3> QED
      BY <1>2, <2>1, <2>5, <3>1, <3>3, FlowQueue
  <2> QED
    BY <2>4, <2>5
<1> QED
  BY <1>3, <1>4

\* A stream that is orderly after a step was so before it.
LEMMA OrderlyBefore ==
  ASSUME TypeOK, [Next]_vars, NEW s \in Streams, orderly'[s]
  PROVE  orderly[s]
<1>1. orderly \in [Streams -> BOOLEAN]
  BY DEF TypeOK
<1>2. ASSUME NEW c \in Streams, CaptureRequest(c)
      PROVE  orderly[s]
  <2>1. CASE orderly' = [orderly EXCEPT ![c] = FALSE]
    BY <1>1, <2>1
  <2>2. CASE orderly' = [orderly EXCEPT ![c] = @ /\ answered[c] = asked[c]]
    BY <1>1, <2>2
  <2> QED
    BY <1>2, <2>1, <2>2 DEF CaptureRequest
<1>3. ASSUME NEW c \in Streams, CaptureResponse(c)
      PROVE  orderly[s]
  <2>1. CASE orderly' = [orderly EXCEPT ![c] = FALSE]
    BY <1>1, <2>1
  <2> QED
    BY <1>3, <2>1 DEF CaptureResponse
<1>4. CASE TimePasses \/ UpdateEntry \/ CheckTimeouts \/ Stop \/ UNCHANGED vars
  <2>1. orderly' = orderly
    BY <1>4 DEF TimePasses, UpdateEntry, CheckTimeouts, Stop, vars
  <2> QED
    BY <2>1
<1> QED
  BY <1>2, <1>3, <1>4 DEF Next

\* Every step keeps the flow of the orderly streams.
LEMMA AlternatingInductive == TypeOK /\ Alternating /\ [Next]_vars => Alternating'
<1> SUFFICES ASSUME TypeOK, Alternating, [Next]_vars, NEW s \in Streams, orderly'[s]
             PROVE  Flow(s)'
  BY DEF Alternating
<1>1. Flow(s)
  BY OrderlyBefore DEF Alternating
<1>2. ASSUME NEW c \in Streams, CaptureRequest(c) \/ CaptureResponse(c)
      PROVE  Flow(s)'
  BY <1>1, <1>2, FlowCapture
<1>3. CASE UpdateEntry
  BY <1>1, <1>3, FlowUpdateEntry
<1>4. CASE CheckTimeouts
  <2>1. /\ entries' = entries /\ asked' = asked /\ answered' = answered
        /\ requests'[s] = requests[s] \/ requests'[s] = None
    BY <1>4 DEF CheckTimeouts
  <2> QED
    BY <1>1, <2>1, FlowKept
<1>5. CASE TimePasses \/ Stop \/ UNCHANGED vars
  <2>1. UNCHANGED <<asked, answered, entries, requests>>
    BY <1>5 DEF TimePasses, Stop, vars
  <2> QED
    BY <1>1, <2>1, FlowKept
<1> QED
  BY <1>2, <1>3, <1>4, <1>5 DEF Next

(***************************************************************************)
(* No captured request is lost, and none is given another one's response.   *)
(***************************************************************************)
PairInv == Inv /\ Alternating /\ Accounted /\ PairedWithOwnResponse

\* A message put into the channel pushes no request out of it.
LEMMA QueueKeeps ==
  ASSUME entries \in Seq(Entry), NEW e \in Entry, Queue(e), NEW r
  PROVE  /\ InChannel(r) => InChannel(r)'
         /\ e.kind = "request" /\ IdOf(e) = r => InChannel(r)'
<1>1. /\ DOMAIN entries = 1 .. Len(entries) /\ Len(entries) \in Nat
      /\ DOMAIN entries' = 1 .. Len(entries) + 1
      /\ \A i \in DOMAIN entries : entries'[i] = entries[i]
      /\ entries'[Len(entries) + 1] = e
  BY QueueChannel
<1>2. Len(entries) + 1 \in DOMAIN entries' /\ DOMAIN entries \subseteq DOMAIN entries'
  BY <1>1
<1>3. ASSUME InChannel(r) PROVE InChannel(r)'
  <2>1. PICK i \in DOMAIN entries : entries[i].kind = "request" /\ IdOf(entries[i]) = r
    BY <1>3 DEF InChannel
  <2>2. i \in DOMAIN entries' /\ entries'[i].kind = "request" /\ IdOf(entries'[i]) = r
    BY <1>1, <1>2, <2>1
  <2> QED
    BY <2>2 DEF InChannel, IdOf
<1>4. ASSUME e.kind = "request", IdOf(e) = r PROVE InChannel(r)'
  BY <1>1, <1>2, <1>4 DEF InChannel, IdOf
<1> QED
  BY <1>3, <1>4

\* Receiving takes no request out of the channel but the one received.
LEMMA ReceiveKeeps ==
  ASSUME entries \in Seq(Entry), entries # <<>>, entries' = Tail(entries),
         NEW r, InChannel(r)
  PROVE  InChannel(r)' \/ (Head(entries).kind = "request" /\ IdOf(Head(entries)) = r)
<1>1. PICK i \in DOMAIN entries : entries[i].kind = "request" /\ IdOf(entries[i]) = r
  BY DEF InChannel
<1>2. /\ Len(entries) \in Nat \ {0} /\ DOMAIN entries = 1 .. Len(entries)
      /\ DOMAIN entries' = 1 .. Len(entries) - 1 /\ Head(entries) = entries[1]
      /\ \A k \in DOMAIN entries' : entries'[k] = entries[k + 1]
  BY ReceiveChannel
<1>3. CASE i # 1
  <2>1. i - 1 \in DOMAIN entries' /\ (i - 1) + 1 = i
    BY <1>2, <1>3
  <2>2. entries'[i - 1] = entries[i]
    BY <1>2, <2>1
  <2>3. entries'[i - 1].kind = "request" /\ IdOf(entries'[i - 1]) = r
    BY <1>1, <2>2
  <2> QED
    BY <2>1, <2>3 DEF InChannel, IdOf
<1> QED
  BY <1>1, <1>2, <1>3

\* What Report does to the transactions of one request.
LEMMA ReportOne ==
  ASSUME reported \in [Request -> Seq(0 .. MaxRequests)],
         NEW rs, NEW m \in 0 .. MaxRequests, Report(rs, m), NEW r \in Request
  PROVE  /\ reported[r] # <<>> => reported'[r] # <<>>
         /\ r \in rs => reported'[r] # <<>>
         /\ r \notin rs => reported'[r] = reported[r]
         /\ r \in rs /\ reported[r] = <<>> => reported'[r] = <<m>>
<1>1. reported'[r] = IF r \in rs THEN Append(reported[r], m) ELSE reported[r]
  BY DEF Report
<1>2. reported[r] \in Seq(0 .. MaxRequests)
  OBVIOUS
<1>3. Append(reported[r], m) # <<>>
  BY <1>2, AppendProperties
<1>4. Append(<<>>, m) = <<m>>
  OBVIOUS
<1> QED
  BY <1>1, <1>3, <1>4

\* A request of an orderly stream is not overwritten in the map, and a response
\* taken from the channel belongs to the request it finds there.
LEMMA ReceiveOrderly ==
  ASSUME PairInv, UpdateEntry, NEW s \in Streams, orderly[s],
         Head(entries).stream = s, requests[s] # None
  PROVE  Head(entries).kind = "response" /\ Head(entries).n = requests[s]
<1>1. TypeOK /\ Flow(s) /\ entries # <<>> /\ entries' = Tail(entries)
  BY DEF PairInv, Inv, Alternating, UpdateEntry
<1>2. 1 \in Of(s) /\ Head(entries) = entries[1]
  BY <1>1, ReceiveFlow
<1> QED
  BY <1>1, <1>2, HeadAnswers

\* Receiving an entry loses no request of an orderly stream.
LEMMA AccountedUpdateEntry ==
  ASSUME PairInv, UpdateEntry, NEW r \in Request, orderly[r.stream], IsAccounted(r)
  PROVE  IsAccounted(r)'
<1> DEFINE e == Head(entries)
<1>0. TypeOK
  BY DEF PairInv, Inv
<1>1. /\ entries \in Seq(Entry) /\ entries # <<>> /\ entries' = Tail(entries)
      /\ requests \in [Streams -> 0 .. MaxRequests]
      /\ reported \in [Request -> Seq(0 .. MaxRequests)]
  BY <1>0 DEF TypeOK, UpdateEntry
<1>2. e \in Entry /\ e.stream \in Streams /\ e.n \in 0 .. MaxRequests
  <2>1. e \in Entry
    BY <1>1, HeadTailProperties
  <2> QED
    BY <2>1, ConstantsAssumption DEF Entry
<1>3. r.stream \in Streams /\ r.n # None /\ r = [stream |-> r.stream, n |-> r.n]
  BY ConstantsAssumption DEF Request, None
<1>4. InChannel(r) => InChannel(r)' \/ (e.kind = "request" /\ IdOf(e) = r)
  BY <1>1, ReceiveKeeps
<1>5. IsPending(r) /\ e.stream = r.stream =>
        e.kind = "response" /\ e.n = r.n /\ Outstanding(e.stream) = r
  BY <1>3, ReceiveOrderly DEF IsPending, Outstanding
<1> HIDE DEF e
<1>6. CASE e.kind = "request" /\ UpdateRequest(e)
  <2>1. requests'[r.stream] = IF r.stream = e.stream THEN e.n ELSE requests[r.stream]
    BY <1>1, <1>2, <1>3, <1>6 DEF UpdateRequest
  <2>2. IdOf(e) = r => IsPending(r)'
    BY <1>3, <2>1 DEF IdOf, IsPending
  <2>3. IsPending(r) => IsPending(r)'
    BY <1>5, <1>6, <2>1 DEF IsPending
  <2>4. reported'[r] = reported[r]
    BY <1>6 DEF UpdateRequest
  <2> QED
    BY <1>4, <2>2, <2>3, <2>4 DEF IsAccounted
<1>7. CASE e.kind = "response" /\ UpdateResponse(e) /\ requests[e.stream] = None
  <2>1. UNCHANGED <<requests, reported>>
    BY <1>7 DEF UpdateResponse
  <2> QED
    BY <1>4, <1>7, <2>1 DEF IsAccounted, IsPending
<1>8. CASE e.kind = "response" /\ UpdateResponse(e) /\ requests[e.stream] # None
  <2>1. /\ Report({Outstanding(e.stream)}, e.n)
        /\ requests' = [requests EXCEPT ![e.stream] = None]
    BY <1>8 DEF UpdateResponse
  <2>2. /\ reported[r] # <<>> => reported'[r] # <<>>
        /\ r = Outstanding(e.stream) => reported'[r] # <<>>
    BY <1>1, <1>2, <2>1, ReportOne
  <2>3. e.stream # r.stream => (IsPending(r) => IsPending(r)')
    BY <1>1, <1>3, <2>1 DEF IsPending
  <2> QED
    BY <1>4, <1>5, <1>8, <2>2, <2>3 DEF IsAccounted
<1> QED
  BY <1>6, <1>7, <1>8 DEF UpdateEntry, e

\* The ticker loses no request.
LEMMA AccountedCheckTimeouts ==
  ASSUME TypeOK, CheckTimeouts, NEW r \in Request, IsAccounted(r)
  PROVE  IsAccounted(r)'
<1>1. r.stream \in Streams /\ r = [stream |-> r.stream, n |-> r.n]
  BY DEF Request
<1>2. reported \in [Request -> Seq(0 .. MaxRequests)] /\ None \in 0 .. MaxRequests
  BY ConstantsAssumption DEF TypeOK, None
<1>3. /\ reported[r] # <<>> => reported'[r] # <<>>
      /\ r \in Expired => reported'[r] # <<>>
  BY <1>2, ReportOne DEF CheckTimeouts
<1>4. IsPending(r) /\ r \notin Expired => IsPending(r)'
  <2>1. requests'[r.stream] = IF Outstanding(r.stream) \in Expired
                              THEN None ELSE requests[r.stream]
    BY <1>1 DEF CheckTimeouts
  <2>2. IsPending(r) => Outstanding(r.stream) = r
    BY <1>1 DEF IsPending, Outstanding
  <2> QED
    BY <2>1, <2>2 DEF IsPending
<1>5. InChannel(r)' = InChannel(r)
  BY DEF CheckTimeouts, InChannel
<1> QED
  BY <1>3, <1>4, <1>5 DEF IsAccounted

\* Every step accounts for the requests of the streams that stay orderly.
LEMMA AccountedInductive == PairInv /\ [Next]_vars => Accounted'
<1> SUFFICES ASSUME PairInv, [Next]_vars, NEW r \in captured', orderly'[r.stream]
             PROVE  IsAccounted(r)'
  BY DEF Accounted
<1>0. TypeOK /\ TypeOK'
  BY TypeInductive DEF PairInv, Inv
<1>1. r \in Request /\ r.stream \in Streams /\ entries \in Seq(Entry)
  BY <1>0 DEF TypeOK, Request
<1>2. orderly[r.stream]
  BY <1>0, <1>1, OrderlyBefore
<1>3. r \in captured => IsAccounted(r)
  BY <1>2 DEF PairInv, Accounted
<1>4. ASSUME NEW c \in Streams, CaptureRequest(c)
      PROVE  IsAccounted(r)'
  <2> DEFINE e == [kind |-> "request", stream |-> c, n |-> asked[c] + 1]
  <2>1. UNCHANGED <<requests, reported>> /\ e.kind = "request"
    BY <1>4 DEF CaptureRequest
  <2>2. e \in Entry
    BY <1>0, <1>4, ConstantsAssumption DEF TypeOK, CaptureRequest, Entry
  <2>3. CASE Queue(e) /\ captured' = captured \union {IdOf(e)}
    <3> HIDE DEF e
    <3>1. InChannel(r) => InChannel(r)'
      BY <1>1, <2>2, <2>3, QueueKeeps
    <3>2. r = IdOf(e) => InChannel(r)'
      BY <1>1, <2>1, <2>2, <2>3, QueueKeeps
    <3> QED
      BY <1>3, <2>1, <2>3, <3>1, <3>2 DEF IsAccounted, IsPending
  <2>4. CASE UNCHANGED <<entries, captured>>
    BY <1>3, <2>1, <2>4 DEF IsAccounted, InChannel, IsPending
  <2> QED
    BY <1>4, <2>3, <2>4 DEF CaptureRequest
<1>5. ASSUME NEW c \in Streams, CaptureResponse(c)
      PROVE  IsAccounted(r)'
  <2> DEFINE e == [kind |-> "response", stream |-> c, n |-> answered[c] + 1]
  <2>1. UNCHANGED <<requests, reported, captured>>
    BY <1>5 DEF CaptureResponse
  <2>2. e \in Entry
    BY <1>0, <1>5, ConstantsAssumption DEF TypeOK, CaptureResponse, Entry
  <2>3. InChannel(r) => InChannel(r)'
    <3>1. CASE Queue(e)
      BY <1>1, <2>2, <3>1, QueueKeeps
    <3>2. CASE UNCHANGED entries
      BY <3>2 DEF InChannel
    <3> QED
      BY <1>5, <3>1, <3>2 DEF CaptureResponse
  <2> QED
    BY <1>3, <2>1, <2>3 DEF IsAccounted, IsPending
<1>6. CASE UpdateEntry
  <2>1. captured' = captured
    BY <1>6 DEF UpdateEntry
  <2> QED
    BY <1>1, <1>2, <1>3, <1>6, <2>1, AccountedUpdateEntry
<1>7. CASE CheckTimeouts
  <2>1. captured' = captured
    BY <1>7 DEF CheckTimeouts
  <2> QED
    BY <1>0, <1>1, <1>3, <1>7, <2>1, AccountedCheckTimeouts
<1>8. CASE TimePasses \/ Stop \/ UNCHANGED vars
  <2>1. UNCHANGED <<captured, entries, requests, reported>>
    BY <1>8 DEF TimePasses, Stop, vars
  <2> QED
    BY <1>3, <2>1 DEF IsAccounted, InChannel, IsPending
<1> QED
  BY <1>4, <1>5, <1>6, <1>7, <1>8 DEF Next

\* Every step pairs the requests of the streams that stay orderly with their
\* own responses.
LEMMA PairedInductive == PairInv /\ [Next]_vars => PairedWithOwnResponse'
<1> SUFFICES ASSUME PairInv, [Next]_vars, NEW r \in Request, orderly'[r.stream]
             PROVE  \A i \in DOMAIN reported'[r] : reported'[r][i] \in {r.n, None}
  BY DEF PairedWithOwnResponse
<1>0. TypeOK /\ OnePlace /\ PairedWithOwnResponse
  BY DEF PairInv, Inv
<1>1. r.stream \in Streams /\ reported \in [Request -> Seq(0 .. MaxRequests)]
  BY <1>0 DEF TypeOK, Request
<1>2. orderly[r.stream]
  BY <1>0, <1>1, OrderlyBefore
<1>3. \A i \in DOMAIN reported[r] : reported[r][i] \in {r.n, None}
  BY <1>0, <1>2 DEF PairedWithOwnResponse
<1>4. ASSUME reported'[r] = <<r.n>> \/ reported'[r] = <<None>>
      PROVE  \A i \in DOMAIN reported'[r] : reported'[r][i] \in {r.n, None}
  <2>1. DOMAIN <<r.n>> = {1} /\ DOMAIN <<None>> = {1}
    OBVIOUS
  <2> QED
    BY <1>4, <2>1
<1>5. ASSUME NEW c \in Streams, CaptureRequest(c) \/ CaptureResponse(c)
      PROVE  reported' = reported
  BY <1>5 DEF CaptureRequest, CaptureResponse
<1>6. CASE UpdateEntry
  <2> DEFINE e == Head(entries)
  <2>1. e \in Entry /\ e.stream \in Streams /\ e.n \in 0 .. MaxRequests
    <3>1. e \in Entry
      BY <1>0, <1>6, HeadTailProperties DEF TypeOK, UpdateEntry
    <3> QED
      BY <3>1, ConstantsAssumption DEF Entry
  <2>2. CASE reported' = reported
    BY <1>3, <2>2
  <2>3. CASE requests[e.stream] # None /\ Report({Outstanding(e.stream)}, e.n)
    <3>1. CASE r # Outstanding(e.stream)
      <4>1. reported'[r] = reported[r]
        BY <1>1, <2>1, <2>3, <3>1, ReportOne
      <4> QED
        BY <1>3, <4>1
    <3>2. CASE r = Outstanding(e.stream)
      <4>1. r.stream = e.stream /\ r.n = requests[e.stream] /\ IsPending(r)
        BY <3>2 DEF Outstanding, IsPending
      <4>2. e.n = r.n
        BY <1>2, <1>1, <1>6, <2>3, <4>1, ReceiveOrderly
      <4>3. reported[r] = <<>>
        BY <1>0, <4>1 DEF OnePlace, MovesOneWay
      <4>4. reported'[r] = <<e.n>>
        BY <1>1, <2>1, <2>3, <3>2, <4>3, ReportOne
      <4> QED
        BY <1>4, <4>2, <4>4
    <3> QED
      BY <3>1, <3>2
  <2> QED
    BY <1>6, <2>2, <2>3 DEF UpdateEntry, UpdateRequest, UpdateResponse
<1>7. CASE CheckTimeouts
  <2>1. Report(Expired, None) /\ None \in 0 .. MaxRequests
    BY <1>7, ConstantsAssumption DEF CheckTimeouts, None
  <2>2. CASE r \notin Expired
    <3>1. reported'[r] = reported[r]
      BY <1>1, <2>1, <2>2, ReportOne
    <3> QED
      BY <1>3, <3>1
  <2>3. CASE r \in Expired
    <3>1. reported[r] = <<>>
      BY <1>0, <2>3 DEF OnePlace, MovesOneWay, Expired
    <3>2. reported'[r] = <<None>>
      BY <1>1, <2>1, <2>3, <3>1, ReportOne
    <3> QED
      BY <1>4, <3>2
  <2> QED
    BY <2>2, <2>3
<1>8. CASE TimePasses \/ Stop \/ UNCHANGED vars
  <2>1. reported' = reported
    BY <1>8 DEF TimePasses, Stop, vars
  <2> QED
    BY <1>3, <2>1
<1> QED
  BY <1>3, <1>5, <1>6, <1>7, <1>8 DEF Next

\* PairInv holds initially.
LEMMA PairInit == Init => PairInv
<1> SUFFICES ASSUME Init PROVE PairInv
  OBVIOUS
<1>1. Inv
  BY InvInit
<1>2. Alternating
  <2> SUFFICES ASSUME NEW s \in Streams PROVE Flow(s)
    BY DEF Alternating
  <2>1. asked[s] = 0 /\ answered[s] = 0 /\ requests[s] = None /\ Of(s) = {}
    BY DEF Init, Of
  <2> QED
    BY <2>1 DEF Flow, TakesTurns, InOrder, ResponseNext
<1>3. Accounted /\ PairedWithOwnResponse
  <2>1. captured = {} /\ \A r \in Request : DOMAIN reported[r] = {}
    BY DEF Init
  <2> QED
    BY <2>1 DEF Accounted, PairedWithOwnResponse
<1> QED
  BY <1>1, <1>2, <1>3 DEF PairInv

\* PairInv is inductive.
LEMMA PairInductive == PairInv /\ [Next]_vars => PairInv'
<1> SUFFICES ASSUME PairInv, [Next]_vars PROVE PairInv'
  OBVIOUS
<1>1. Inv'
  BY InvInductive DEF PairInv
<1>2. Alternating'
  BY AlternatingInductive DEF PairInv, Inv
<1>3. Accounted' /\ PairedWithOwnResponse'
  BY AccountedInductive, PairedInductive
<1> QED
  BY <1>1, <1>2, <1>3 DEF PairInv

\* On a stream captured in full whose client waits for its answers no request
\* the correlator was given is lost: it is queued, outstanding or exported.
\* updateRequest never overwrites an outstanding request of such a stream.
THEOREM NoRequestLost == Spec => []Accounted
<1>1. PairInv => Accounted
  BY DEF PairInv
<1> QED
  BY <1>1, PairInit, PairInductive, PTL DEF Spec

\* On such a stream every exported request carries its own response or, after
\* the timeout, none: the late answer of a timed-out request finds the slot of
\* its stream empty, whenever the ticker fires.
THEOREM OwnResponseOnly == Spec => []PairedWithOwnResponse
<1>1. PairInv => PairedWithOwnResponse
  BY DEF PairInv
<1> QED
  BY <1>1, PairInit, PairInductive, PTL DEF Spec
=============================================================================
