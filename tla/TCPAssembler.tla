----------------------------- MODULE TCPAssembler -----------------------------
(***************************************************************************)
(* The assembler of the httpdump engine (httpdump/tcp_assembly.go) and the *)
(* life of its connections (httpdump/tcp_connection.go): which connection  *)
(* object a captured packet reaches, and when one is created, closed and   *)
(* flushed.  What happens to a packet inside a connection is               *)
(* HttpConnection.                                                         *)
(*                                                                         *)
(* A key is a pair of endpoints, client and server.  Over time it is used  *)
(* by several TCP connections, its incarnations.  A packet is a SYN, the   *)
(* start of an HTTP request, other data (or a bare ACK), or a FIN or RST.  *)
(* The traffic is one of Traffics, chosen at the start.                    *)
(***************************************************************************)
EXTENDS Naturals, Sequences

CONSTANTS
  Keys,             \* pairs of endpoints
  MaxIncarnations,  \* bound: TCP connections of one key
  MaxConnections,   \* bound: connection objects of the program
  ResponseTimeout,  \* flag response-timeout, in clock ticks
  Traffics          \* incarnations[k]: bound, TCP connections of key k
                    \* orderly: no RST, and no request crosses a FIN
                    \* lossy: may the capture miss packets?

ASSUME AssemblerAssumption ==
  /\ MaxIncarnations \in Nat
  /\ MaxConnections \in Nat
  /\ ResponseTimeout \in Nat
  /\ Traffics \subseteq [incarnations : [Keys -> 0 .. MaxIncarnations],
                         orderly : BOOLEAN, lossy : BOOLEAN]

Endpoint == {"client", "server"}

VARIABLES
  traffic,         \* the one of Traffics that takes place
  incarnation,     \* incarnation[k]: the TCP connection that uses k
  ended,           \* ended[k]: endpoints that have sent its FIN or RST
  connectionDict,  \* key -> index of its connection object, or None
  connections      \* all connection objects created so far

wireVars == <<traffic, incarnation, ended>>
vars == <<wireVars, connectionDict, connections>>

Orderly == traffic.orderly
Lossy == traffic.lossy

None == 0

\* carried: the incarnations whose payload was given to the object's streams;
\* finishes: how often finish() has closed its channels.
Connection ==
  [key : Keys, isHTTP : BOOLEAN, closed : SUBSET Endpoint,
   age : 0 .. ResponseTimeout + 1, finishes : Nat,
   carried : SUBSET (1 .. MaxIncarnations)]

Init ==
  /\ traffic \in Traffics
  /\ incarnation = [k \in Keys |-> 0]
  /\ ended = [k \in Keys |-> Endpoint]
  /\ connectionDict = [k \in Keys |-> None]
  /\ connections = <<>>

-----------------------------------------------------------------------------
(* assemble: one captured packet of incarnation n of k, sent by src.       *)

\* Bug seeded for checking: connections are created without their own key.
NewConnectionUnkeyed(k) ==
  [key |-> CHOOSE any \in Keys : TRUE, isHTTP |-> FALSE, closed |-> {}, age |-> 0,
   finishes |-> 0, carried |-> {}]

NewConnection(k) ==
  [key |-> k, isHTTP |-> FALSE, closed |-> {}, age |-> 0,
   finishes |-> 0, carried |-> {}]

\* Before the first HTTP request everything is skipped, FIN and RST included.
OnReceive(x, kind, src, n) ==
  IF ~x.isHTTP /\ kind # "http"
  THEN [x EXCEPT !.age = 0]
  ELSE [x EXCEPT !.age = 0, !.isHTTP = TRUE,
                 !.carried = IF kind \in {"http", "data"} THEN @ \union {n} ELSE @,
                 !.closed = IF kind = "fin" THEN @ \union {src} ELSE @]

Finish(x) == [x EXCEPT !.finishes = @ + 1]

Located(k) == connectionDict[k] # None

\* retrieveConnection: the index and the value of the connection of k.
Retrieved(k) == IF Located(k) THEN connectionDict[k] ELSE Len(connections) + 1
Connected(k) == IF Located(k) THEN connections[connectionDict[k]] ELSE NewConnection(k)

\* Store x as connection i.
Store(i, x) ==
  connections' = [j \in DOMAIN connections \union {i} |-> IF j = i THEN x ELSE connections[j]]

CreatesNewConn(kind) == kind \in {"syn", "http"}

\* Bug seeded for checking: the closed connection stays in the dictionary.
AssembleKeepsClosed(k, kind, src, n) ==
  LET x == OnReceive(Connected(k), kind, src, n)
      isClosed == x.closed = Endpoint
  IN IF ~Located(k) /\ ~CreatesNewConn(kind)
     THEN UNCHANGED <<connectionDict, connections>>
     ELSE /\ Store(Retrieved(k), IF isClosed THEN Finish(x) ELSE x)
          /\ connectionDict' = [connectionDict EXCEPT ![k] = Retrieved(k)]

Assemble(k, kind, src, n) ==
  LET x == OnReceive(Connected(k), kind, src, n)
      isClosed == x.closed = Endpoint
  IN IF ~Located(k) /\ ~CreatesNewConn(kind)
     THEN UNCHANGED <<connectionDict, connections>>
     ELSE /\ Store(Retrieved(k), IF isClosed THEN Finish(x) ELSE x)
          /\ connectionDict' = [connectionDict EXCEPT ![k] = IF isClosed THEN None ELSE Retrieved(k)]

-----------------------------------------------------------------------------
(* The wire.                                                               *)

Captured(k, kind, src, n) ==
  \/ /\ Retrieved(k) <= MaxConnections
     /\ Assemble(k, kind, src, n)
  \/ /\ Lossy
     /\ UNCHANGED <<connectionDict, connections>>

\* The endpoints of k open a TCP connection; the previous one has ended.
Open(k) ==
  /\ incarnation[k] < traffic.incarnations[k]
  /\ ended[k] = Endpoint
  /\ incarnation' = [incarnation EXCEPT ![k] = @ + 1]
  /\ ended' = [ended EXCEPT ![k] = {}]
  /\ Captured(k, "syn", "client", incarnation[k] + 1)
  /\ UNCHANGED traffic

SendHttp(k) ==
  /\ "client" \notin ended[k]
  /\ Orderly => ended[k] = {}
  /\ Captured(k, "http", "client", incarnation[k])
  /\ UNCHANGED wireVars

\* A response, a further packet of a message, or a bare acknowledgment.
SendData(k, src) ==
  /\ src \notin ended[k]
  /\ Captured(k, "data", src, incarnation[k])
  /\ UNCHANGED wireVars

SendFin(k, src) ==
  /\ src \notin ended[k]
  /\ ended' = [ended EXCEPT ![k] = @ \union {src}]
  /\ Captured(k, "fin", src, incarnation[k])
  /\ UNCHANGED <<traffic, incarnation>>

\* RST ends the TCP connection for both endpoints; no FIN answers it.
SendRst(k, src) ==
  /\ ~Orderly
  /\ src \notin ended[k]
  /\ ended' = [ended EXCEPT ![k] = Endpoint]
  /\ Captured(k, "fin", src, incarnation[k])
  /\ UNCHANGED <<traffic, incarnation>>

-----------------------------------------------------------------------------
(* Time and flushOlderThan.                                                *)

Tick ==
  /\ \E i \in DOMAIN connections : connections[i].age <= ResponseTimeout
  /\ connections' = [i \in DOMAIN connections |->
       [connections[i] EXCEPT !.age = IF @ <= ResponseTimeout THEN @ + 1 ELSE @]]
  /\ UNCHANGED <<wireVars, connectionDict>>

OldKeys ==
  {k \in Keys : Located(k) /\ connections[connectionDict[k]].age > ResponseTimeout}

\* Bug seeded for checking: a half-closed connection is left to its second FIN.
ForceCloseOpenOnly(x) ==
  IF x.closed = {} THEN Finish([x EXCEPT !.closed = Endpoint]) ELSE x

ForceClose(x) == Finish([x EXCEPT !.closed = Endpoint])

\* Bug seeded for checking: only connections that carried HTTP are flushed.
FlushOnlyHTTP ==
  LET old == {k \in OldKeys : connections[connectionDict[k]].isHTTP}
      flushed == {connectionDict[k] : k \in old}
  IN /\ old # {}
     /\ connectionDict' = [k \in Keys |-> IF k \in old THEN None ELSE connectionDict[k]]
     /\ connections' = [i \in DOMAIN connections |->
          IF i \in flushed THEN ForceClose(connections[i]) ELSE connections[i]]
     /\ UNCHANGED wireVars

FlushOlderThan ==
  LET flushed == {connectionDict[k] : k \in OldKeys}
  IN /\ OldKeys # {}
     /\ connectionDict' = [k \in Keys |-> IF k \in OldKeys THEN None ELSE connectionDict[k]]
     /\ connections' = [i \in DOMAIN connections |->
          IF i \in flushed THEN ForceClose(connections[i]) ELSE connections[i]]
     /\ UNCHANGED wireVars

-----------------------------------------------------------------------------
Next ==
  \/ \E k \in Keys : Open(k) \/ SendHttp(k)
  \/ \E k \in Keys, src \in Endpoint : SendData(k, src) \/ SendFin(k, src) \/ SendRst(k, src)
  \/ Tick
  \/ FlushOlderThan

\* Time passes and the flush ticker of RunHttpDump runs; the wire owes nothing.
Fairness == WF_vars(Tick) /\ WF_vars(FlushOlderThan)

Spec == Init /\ [][Next]_vars /\ Fairness

-----------------------------------------------------------------------------
(* Properties.                                                             *)

TypeOK ==
  /\ traffic \in Traffics
  /\ incarnation \in [Keys -> 0 .. MaxIncarnations]
  /\ ended \in [Keys -> SUBSET Endpoint]
  /\ connections \in Seq(Connection) /\ Len(connections) <= MaxConnections
  /\ connectionDict \in [Keys -> None .. Len(connections)]
  /\ \A k \in Keys : Located(k) => connections[connectionDict[k]].key = k

\* The channels of a connection are closed exactly when it leaves the
\* dictionary, and once: a packet never reaches a closed channel and close
\* never panics, and no handler goroutine is left behind with open channels.
FinishedIffGone ==
  \A i \in DOMAIN connections :
    connections[i].finishes = IF \E k \in Keys : connectionDict[k] = i THEN 0 ELSE 1

Unmixed ==
  \A i \in DOMAIN connections :
    \A m, n \in connections[i].carried : m = n

\* One connection object carries the payload of one TCP connection, when all
\* packets are captured and every connection is closed by two FINs.
OneIncarnation == Orderly /\ ~Lossy => Unmixed

\* The same when a connection may also be reset, which ends it at once
\* (tcp_assembly.go, "create new one if is new connection").
OneIncarnationAlways == ~Lossy => Unmixed

\* The end of a TCP connection, seen or missed, empties the dictionary: a pair
\* of endpoints that has no connection any more has no connection object.
EndedIsForgotten ==
  \A k \in Keys : <>[](ended[k] = Endpoint) => <>[](~Located(k))
=============================================================================
