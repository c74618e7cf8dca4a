---------------------------- MODULE Httpdump_proofs ----------------------------
(***************************************************************************)
(* Theorems about the two halves of the httpdump engine, for every value   *)
(* of their constants: TCPAssembler, which gives a captured packet to its  *)
(* connection object (any number of pairs of endpoints, incarnations and   *)
(* connection objects, any set of traffics, any response timeout), and     *)
(* HttpConnection, which takes it from there to the reported transactions  *)
(* (any wires, sizes of channels and bursts).                              *)
(***************************************************************************)
EXTENDS TCPAssembler, HttpConnection, SequenceLemmas

-----------------------------------------------------------------------------
(* The assembler.                                                          *)

\* The connection object that the dictionary holds for k, when it holds one.
ConnectionOf(k) == connections[connectionDict[k]]

\* Endpoints that have not opened a connection yet send nothing.
NoneBefore == \A k \in Keys : incarnation[k] = 0 => ended[k] = Endpoint

\* A connection that has not seen an HTTP request is as it was created.
Skipping(x) == x.isHTTP \/ (x.closed = {} /\ x.carried = {})

\* A connection in the dictionary is not closed by both its endpoints.
Serving ==
  \A k \in Keys : Located(k) =>
    /\ ConnectionOf(k).closed # Endpoint
    /\ Skipping(ConnectionOf(k))

\* In an orderly traffic that is captured whole, a connection in the dictionary
\* that has seen an HTTP request has seen every FIN of the TCP connection that
\* now uses its endpoints, and payload of no other.
Following ==
  Orderly /\ ~Lossy =>
    \A k \in Keys : Located(k) /\ ConnectionOf(k).isHTTP =>
      /\ ConnectionOf(k).closed = ended[k]
      /\ ConnectionOf(k).carried \subseteq {incarnation[k]}

AssemblerInv == TypeOK /\ NoneBefore /\ Serving /\ FinishedIffGone /\ Following /\ OneIncarnation

Kind == {"syn", "http", "data", "fin"}

(***************************************************************************)
(* What the operators of the assembler return.                             *)
(***************************************************************************)

\* The object that a packet of k reaches, found or created: it is open, it is
\* its own key's, and its index is the one under which it will be stored.
LEMMA ConnectedType ==
  ASSUME TypeOK, Serving, FinishedIffGone, NEW k \in Keys
  PROVE  /\ Connected(k) \in Connection
         /\ Connected(k).key = k
         /\ Connected(k).finishes = 0
         /\ Connected(k).closed # Endpoint
         /\ Skipping(Connected(k))
         /\ Retrieved(k) \in 1 .. Len(connections) + 1
<1>0. Len(connections) \in Nat /\ DOMAIN connections = 1 .. Len(connections)
  BY LenProperties DEF TypeOK
<1>1. CASE Located(k)
  <2>1. connectionDict[k] \in DOMAIN connections
    BY <1>0, <1>1 DEF TypeOK, Located, None
  <2>2. ConnectionOf(k) \in Connection /\ ConnectionOf(k).key = k
    BY <1>0, <1>1, <2>1, ElementOfSeq DEF TypeOK, ConnectionOf
  <2>3. ConnectionOf(k).finishes = 0
    BY <2>1 DEF FinishedIffGone, ConnectionOf
  <2> QED
    BY <1>0, <1>1, <2>1, <2>2, <2>3 DEF Connected, Retrieved, Serving, ConnectionOf
<1>2. CASE ~Located(k)
  <2>1. NewConnection(k) \in Connection
    BY AssemblerAssumption DEF NewConnection, Connection
  <2> QED
    BY <1>0, <1>2, <2>1 DEF Connected, Retrieved, NewConnection, Endpoint, Skipping
<1> QED
  BY <1>1, <1>2

\* A packet changes neither the key of a connection nor what it has finished,
\* and only the first HTTP request lets anything else through.
LEMMA OnReceiveType ==
  ASSUME NEW x \in Connection, NEW kind \in Kind, NEW src \in Endpoint,
         NEW n \in 1 .. MaxIncarnations,
         x.closed # Endpoint, Skipping(x),
         NEW y, y = OnReceive(x, kind, src, n)
  PROVE  /\ y \in Connection
         /\ y.key = x.key /\ y.finishes = x.finishes
         /\ y.isHTTP = (x.isHTTP \/ kind = "http")
         /\ y.carried \subseteq x.carried \union {n}
         /\ x.isHTTP /\ kind = "fin" => y.closed = x.closed \union {src}
         /\ ~(x.isHTTP /\ kind = "fin") => y.closed = x.closed
         /\ Skipping(y)
<1>0. ResponseTimeout \in Nat /\ 0 \in 0 .. ResponseTimeout + 1
  BY AssemblerAssumption
<1>1. CASE ~x.isHTTP /\ kind # "http"
  <2>1. y = [x EXCEPT !.age = 0]
    BY <1>1 DEF OnReceive
  <2>2. y \in Connection /\ y.key = x.key /\ y.finishes = x.finishes
    BY <1>0, <2>1 DEF Connection
  <2>3. /\ y.isHTTP = FALSE /\ x.isHTTP = FALSE
        /\ y.carried = x.carried /\ y.closed = x.closed
    BY <1>1, <2>1 DEF Connection
  <2> QED
    BY <1>1, <2>2, <2>3 DEF Skipping
<1>2. CASE x.isHTTP \/ kind = "http"
  <2> DEFINE carried == IF kind \in {"http", "data"} THEN x.carried \union {n} ELSE x.carried
             both == IF kind = "fin" THEN x.closed \union {src} ELSE x.closed
  <2>0. carried \in SUBSET (1 .. MaxIncarnations) /\ both \in SUBSET Endpoint
    BY DEF Connection
  <2>1. y = [key |-> x.key, isHTTP |-> TRUE, closed |-> both, age |-> 0,
             finishes |-> x.finishes, carried |-> carried]
    BY <1>2, Zenon DEF OnReceive, Connection
  <2>2. /\ y.key = x.key /\ y.finishes = x.finishes /\ y.age = 0 /\ y.isHTTP = TRUE
        /\ y.carried = carried /\ y.closed = both
    BY <2>1
  <2>3. y \in Connection
    BY <1>0, <2>0, <2>1 DEF Connection
  <2>4. (x.isHTTP \/ kind = "http") = TRUE
    BY <1>2
  <2>5. x.closed = {} \/ x.isHTTP
    BY DEF Skipping
  <2> QED
    BY <1>2, <2>2, <2>3, <2>4, <2>5 DEF Skipping
<1> QED
  BY <1>1, <1>2 DEF Connection

\* An assembled packet stores one object, under the index of its key, and
\* leaves every other key and object alone; the object leaves the dictionary,
\* finished once, exactly when the packet has closed it.
LEMMA AssembleStep ==
  ASSUME TypeOK, Serving, FinishedIffGone,
         NEW k \in Keys, NEW kind \in Kind, NEW src \in Endpoint,
         NEW n \in 1 .. MaxIncarnations,
         Retrieved(k) <= MaxConnections, Assemble(k, kind, src, n)
  PROVE  LET y == OnReceive(Connected(k), kind, src, n)
         IN /\ connections' \in Seq(Connection) /\ Len(connections') <= MaxConnections
            /\ connectionDict' \in [Keys -> None .. Len(connections')]
            /\ \A j \in Keys \ {k} :
                 /\ connectionDict'[j] = connectionDict[j]
                 /\ Located(j) => ConnectionOf(j)' = ConnectionOf(j)
            /\ Located(k)' => ConnectionOf(k)' = y /\ y.closed # Endpoint
            /\ \A i \in DOMAIN connections' :
                 \/ i \in DOMAIN connections /\ connections'[i].carried = connections[i].carried
                 \/ connections'[i].carried = y.carried
            /\ FinishedIffGone'
<1> DEFINE y == OnReceive(Connected(k), kind, src, n)
           r == Retrieved(k)
           isClosed == y.closed = Endpoint
           z == IF isClosed THEN Finish(y) ELSE y
<1>0. /\ Len(connections) \in Nat /\ DOMAIN connections = 1 .. Len(connections)
      /\ \A i \in DOMAIN connections : connections[i] \in Connection
      /\ connectionDict \in [Keys -> None .. Len(connections)]
      /\ None = 0
  BY LenProperties, ElementOfSeq DEF TypeOK, None
<1>1. CASE ~Located(k) /\ ~CreatesNewConn(kind)
  <2>1. UNCHANGED <<connectionDict, connections>>
    BY <1>1 DEF Assemble
  <2>2. ~Located(k)'
    BY <1>1, <2>1 DEF Located
  <2> QED
    BY <1>0, <2>1, <2>2 DEF TypeOK, FinishedIffGone, ConnectionOf
<1>2. CASE Located(k) \/ CreatesNewConn(kind)
  <2>1. /\ Store(r, z)
        /\ connectionDict' = [connectionDict EXCEPT ![k] = IF isClosed THEN None ELSE r]
    BY <1>2, Zenon DEF Assemble
  <2>2. /\ y \in Connection /\ y.key = k /\ y.finishes = 0
        /\ r \in 1 .. Len(connections) + 1
    <3>1. /\ Connected(k) \in Connection /\ Connected(k).key = k
          /\ Connected(k).finishes = 0 /\ Connected(k).closed # Endpoint
          /\ Skipping(Connected(k)) /\ r \in 1 .. Len(connections) + 1
      BY ConnectedType
    <3>2. y \in Connection /\ y.key = Connected(k).key /\ y.finishes = Connected(k).finishes
      BY <3>1, OnReceiveType
    <3> QED
      BY <3>1, <3>2
  <2>3. /\ z \in Connection /\ z.key = k /\ z.carried = y.carried
        /\ z.finishes = IF isClosed THEN 1 ELSE 0
    BY <2>2 DEF Finish, Connection
  <2>4. PICK len \in Nat : /\ len <= MaxConnections /\ len >= Len(connections)
                           /\ 1 .. len = DOMAIN connections \union {r}
    <3>1. CASE r \in DOMAIN connections
      <4>1. 1 .. Len(connections) = DOMAIN connections \union {r}
        BY <1>0, <3>1
      <4>2. Len(connections) <= MaxConnections
        BY DEF TypeOK
      <4> QED
        BY <1>0, <4>1, <4>2
    <3>2. CASE r = Len(connections) + 1
      <4>1. 1 .. Len(connections) + 1 = DOMAIN connections \union {r}
        BY <1>0, <3>2
      <4> QED
        BY <1>0, <3>2, <4>1
    <3> QED
      BY <1>0, <2>2, <3>1, <3>2
  <2>5. /\ DOMAIN connections' = 1 .. len
        /\ connections' \in [1 .. len -> Connection]
        /\ connections'[r] = z
        /\ \A i \in DOMAIN connections \ {r} : connections'[i] = connections[i]
    BY <1>0, <2>1, <2>3, <2>4 DEF Store
  <2>6. connections' \in Seq(Connection) /\ Len(connections') = len
    BY <2>5, FunctionIsSeq
  <2>7. connectionDict' \in [Keys -> None .. Len(connections')]
    BY <1>0, <2>1, <2>2, <2>4, <2>5, <2>6
  <2>8. ASSUME NEW j \in Keys \ {k}
        PROVE  /\ connectionDict'[j] = connectionDict[j]
               /\ Located(j) => ConnectionOf(j)' = ConnectionOf(j)
    <3>1. connectionDict'[j] = connectionDict[j]
      BY <1>0, <2>1
    <3>2. ASSUME Located(j)
          PROVE  connectionDict[j] \in DOMAIN connections \ {r}
      <4>1. connectionDict[j] \in DOMAIN connections /\ ConnectionOf(j).key = j
        BY <1>0, <3>2 DEF TypeOK, Located, ConnectionOf
      <4>2. connectionDict[j] # r
        BY <1>0, <4>1, ConnectedType DEF Connected, Retrieved, Located, ConnectionOf
      <4> QED
        BY <4>1, <4>2
    <3> QED
      BY <2>5, <3>1, <3>2 DEF ConnectionOf
  <2>9. Located(k)' => ConnectionOf(k)' = y /\ ~isClosed
    BY <1>0, <2>1, <2>5 DEF Located, ConnectionOf
  <2>10. ASSUME NEW i \in DOMAIN connections'
         PROVE  \/ i \in DOMAIN connections /\ connections'[i].carried = connections[i].carried
                \/ connections'[i].carried = y.carried
    BY <2>3, <2>4, <2>5
  <2>11. ASSUME NEW i \in DOMAIN connections'
         PROVE  connections'[i].finishes = IF \E j \in Keys : connectionDict'[j] = i THEN 0 ELSE 1
    <3>1. CASE i = r
      <4>1. \A j \in Keys \ {k} : connectionDict'[j] # r
        <5> SUFFICES ASSUME NEW j \in Keys \ {k}, connectionDict[j] = r PROVE FALSE
          BY <2>8
        <5>1. Located(j) /\ r \in DOMAIN connections
          BY <1>0, <2>2 DEF Located
        <5>2. ConnectionOf(j).key = j /\ ConnectionOf(j) = connections[r]
          BY <5>1 DEF TypeOK, ConnectionOf
        <5>3. connections[r].key = k
          BY <1>0, <5>1, ConnectedType DEF Connected, Retrieved
        <5> QED
          BY <5>2, <5>3
      <4>2. connectionDict'[k] = r <=> ~isClosed
        BY <1>0, <2>1, <2>2
      <4> QED
        BY <2>3, <2>5, <3>1, <4>1, <4>2
    <3>2. CASE i # r
      <4>1. i \in DOMAIN connections /\ connections'[i] = connections[i] /\ i # 0
        BY <1>0, <2>4, <2>5, <3>2
      <4>2. connectionDict[k] # i /\ connectionDict'[k] # i
        BY <1>0, <2>1, <3>2, <4>1 DEF Retrieved, Located
      <4>3. \A j \in Keys : connectionDict[j] = i <=> connectionDict'[j] = i
        BY <2>8, <4>2
      <4> QED
        BY <4>1, <4>3 DEF FinishedIffGone
    <3> QED
      BY <3>1, <3>2
  <2>12. FinishedIffGone'
    BY <2>11 DEF FinishedIffGone
  <2> QED
    BY <2>4, <2>6, <2>7, <2>8, <2>9, <2>10, <2>12
<1> QED
  BY <1>1, <1>2

(***************************************************************************)
(* The inductive invariant.                                                *)
(***************************************************************************)

\* What a packet of kind, sent by src over incarnation n of k, does to the wire.
OnWire(k, kind, src, n) ==
  /\ traffic' = traffic
  /\ incarnation' = [incarnation EXCEPT ![k] = n]
  /\ ended' \in [Keys -> SUBSET Endpoint]
  /\ \A j \in Keys \ {k} : ended'[j] = ended[j]
  /\ kind = "syn" => ended[k] = Endpoint
  /\ kind # "syn" => n = incarnation[k]
  /\ kind # "fin" /\ kind # "syn" => ended'[k] = ended[k]
  /\ Orderly /\ kind = "fin" => ended'[k] = ended[k] \union {src}
  /\ Orderly /\ kind = "http" => ended[k] = {}

\* A captured packet, assembled or missed, preserves the invariant.
LEMMA InvCaptured ==
  ASSUME AssemblerInv, NEW k \in Keys, NEW kind \in Kind, NEW src \in Endpoint,
         NEW n \in 1 .. MaxIncarnations,
         OnWire(k, kind, src, n), Captured(k, kind, src, n)
  PROVE  AssemblerInv'
<1>0. /\ traffic' \in Traffics /\ Orderly' = Orderly /\ Lossy' = Lossy
      /\ incarnation' \in [Keys -> 0 .. MaxIncarnations]
      /\ ended' \in [Keys -> SUBSET Endpoint]
  BY AssemblerAssumption DEF AssemblerInv, TypeOK, OnWire, Orderly, Lossy
<1>1. incarnation'[k] = n /\ n # 0 /\ \A j \in Keys \ {k} : incarnation'[j] = incarnation[j]
  BY AssemblerAssumption DEF AssemblerInv, TypeOK, OnWire
<1>2. NoneBefore'
  BY <1>1 DEF AssemblerInv, NoneBefore, OnWire
<1>3. CASE UNCHANGED <<connectionDict, connections>> /\ Lossy
  <2>1. TypeOK'
    BY <1>0, <1>3 DEF AssemblerInv, TypeOK, Located
  <2>2. Serving' /\ FinishedIffGone'
    BY <1>3 DEF AssemblerInv, Serving, FinishedIffGone, ConnectionOf, Located
  <2>3. Following' /\ OneIncarnation'
    BY <1>0, <1>3 DEF Following, OneIncarnation
  <2> QED
    BY <1>2, <2>1, <2>2, <2>3 DEF AssemblerInv
<1>4. CASE Retrieved(k) <= MaxConnections /\ Assemble(k, kind, src, n)
  <2> DEFINE x == Connected(k)
             y == OnReceive(x, kind, src, n)
  <2>1. /\ x \in Connection /\ x.key = k /\ x.closed # Endpoint /\ Skipping(x)
    BY ConnectedType DEF AssemblerInv
  <2>2. /\ y \in Connection /\ y.key = k /\ Skipping(y)
        /\ y.isHTTP = (x.isHTTP \/ kind = "http")
        /\ y.carried \subseteq x.carried \union {n}
        /\ x.isHTTP /\ kind = "fin" => y.closed = x.closed \union {src}
        /\ ~(x.isHTTP /\ kind = "fin") => y.closed = x.closed
    BY <2>1, OnReceiveType
  <2>3. /\ connections' \in Seq(Connection) /\ Len(connections') <= MaxConnections
        /\ connectionDict' \in [Keys -> None .. Len(connections')]
        /\ \A j \in Keys \ {k} :
             /\ connectionDict'[j] = connectionDict[j]
             /\ Located(j) => ConnectionOf(j)' = ConnectionOf(j)
        /\ Located(k)' => ConnectionOf(k)' = y /\ y.closed # Endpoint
        /\ \A i \in DOMAIN connections' :
             \/ i \in DOMAIN connections /\ connections'[i].carried = connections[i].carried
             \/ connections'[i].carried = y.carried
        /\ FinishedIffGone'
    BY <1>4, AssembleStep DEF AssemblerInv
  <2>4. \A j \in Keys \ {k} : Located(j)' = Located(j)
    BY <2>3 DEF Located
  <2> HIDE DEF x, y
  <2>5. TypeOK'
    <3>1. ASSUME NEW j \in Keys, Located(j)'
          PROVE  ConnectionOf(j)'.key = j
      <4>1. CASE j = k
        BY <2>2, <2>3, <3>1, <4>1
      <4>2. CASE j # k
        <5>1. Located(j) /\ ConnectionOf(j)' = ConnectionOf(j)
          BY <2>3, <2>4, <3>1, <4>2
        <5> QED
          BY <5>1 DEF AssemblerInv, TypeOK, ConnectionOf
      <4> QED
        BY <4>1, <4>2
    <3> QED
      BY <1>0, <2>3, <3>1 DEF TypeOK, ConnectionOf
  <2>6. Serving'
    <3>1. ASSUME NEW j \in Keys, Located(j)'
          PROVE  ConnectionOf(j)'.closed # Endpoint /\ Skipping(ConnectionOf(j))'
      BY <2>2, <2>3, <2>4, <3>1 DEF AssemblerInv, Serving, Skipping
    <3> QED
      BY <3>1 DEF Serving
  <2>7. ASSUME Orderly, ~Lossy
        PROVE  /\ x.carried \subseteq {n}
               /\ y.isHTTP => y.closed = ended'[k]
    <3>1. CASE x.isHTTP
      <4>1. Located(k) /\ x = ConnectionOf(k)
        BY <3>1 DEF x, Connected, NewConnection, ConnectionOf
      <4>2. x.closed = ended[k] /\ x.carried \subseteq {incarnation[k]}
        BY <2>7, <3>1, <4>1 DEF AssemblerInv, Following
      <4>3. n = incarnation[k] /\ kind # "syn"
        BY <2>1, <4>2 DEF OnWire
      <4> QED
        BY <2>2, <2>7, <3>1, <4>2, <4>3 DEF OnWire
    <3>2. CASE ~x.isHTTP
      <4>1. x.closed = {} /\ x.carried = {}
        BY <2>1, <3>2 DEF Skipping
      <4>2. kind = "http" => ended'[k] = {}
        BY <2>7 DEF OnWire
      <4> QED
        BY <2>2, <3>2, <4>1, <4>2
    <3> QED
      BY <3>1, <3>2
  <2>8. Following'
    <3> SUFFICES ASSUME Orderly, ~Lossy, NEW j \in Keys,
                        Located(j)', ConnectionOf(j)'.isHTTP
                 PROVE  /\ ConnectionOf(j)'.closed = ended'[j]
                        /\ ConnectionOf(j)'.carried \subseteq {incarnation'[j]}
      BY <1>0 DEF Following
    <3>1. CASE j = k
      BY <1>1, <2>2, <2>3, <2>7, <3>1
    <3>2. CASE j # k
      BY <1>1, <2>3, <2>4, <3>2 DEF AssemblerInv, Following, OnWire
    <3> QED
      BY <3>1, <3>2
  <2>9. OneIncarnation'
    <3> SUFFICES ASSUME Orderly, ~Lossy, NEW i \in DOMAIN connections'
                 PROVE  \A l, m \in connections'[i].carried : l = m
      BY <1>0 DEF OneIncarnation, Unmixed
    <3>1. CASE i \in DOMAIN connections /\ connections'[i].carried = connections[i].carried
      BY <3>1 DEF AssemblerInv, OneIncarnation, Unmixed
    <3>2. CASE connections'[i].carried = y.carried
      BY <2>2, <2>7, <3>2
    <3> QED
      BY <2>3, <3>1, <3>2
  <2> QED
    BY <1>2, <2>3, <2>5, <2>6, <2>8, <2>9 DEF AssemblerInv
<1> QED
  BY <1>3, <1>4 DEF Captured

\* Time only ages the objects.
LEMMA InvTick == AssemblerInv /\ Tick => AssemblerInv'
<1> SUFFICES ASSUME AssemblerInv, Tick PROVE AssemblerInv'
  OBVIOUS
<1>0. /\ Len(connections) \in Nat /\ DOMAIN connections = 1 .. Len(connections)
      /\ \A i \in DOMAIN connections : connections[i] \in Connection
      /\ connectionDict \in [Keys -> None .. Len(connections)]
      /\ None = 0 /\ ResponseTimeout \in Nat
  BY AssemblerAssumption, LenProperties, ElementOfSeq DEF AssemblerInv, TypeOK, None
<1>1. ASSUME NEW i \in DOMAIN connections
      PROVE  /\ connections'[i] \in Connection
             /\ connections'[i].key = connections[i].key
             /\ connections'[i].isHTTP = connections[i].isHTTP
             /\ connections'[i].closed = connections[i].closed
             /\ connections'[i].finishes = connections[i].finishes
             /\ connections'[i].carried = connections[i].carried
  <2> DEFINE age == IF connections[i].age <= ResponseTimeout
                    THEN connections[i].age + 1 ELSE connections[i].age
  <2>1. age \in 0 .. ResponseTimeout + 1
    BY <1>0 DEF Connection
  <2>2. connections'[i] = [connections[i] EXCEPT !.age = age]
    BY <1>0 DEF Tick, Connection
  <2> HIDE DEF age
  <2> QED
    BY <1>0, <2>1, <2>2 DEF Connection
<1>2. connections' \in Seq(Connection) /\ Len(connections') = Len(connections)
  <2>1. connections' \in [1 .. Len(connections) -> Connection]
    BY <1>0, <1>1 DEF Tick
  <2> QED
    BY <1>0, <2>1, FunctionIsSeq
<1>3. DOMAIN connections' = DOMAIN connections /\ UNCHANGED <<wireVars, connectionDict>>
  BY DEF Tick
<1>4. \A k \in Keys : Located(k) => connectionDict[k] \in DOMAIN connections
  BY <1>0 DEF Located
<1>5. TypeOK'
  BY <1>1, <1>2, <1>3, <1>4 DEF AssemblerInv, TypeOK, Located, wireVars
<1>6. NoneBefore'
  BY <1>3 DEF AssemblerInv, NoneBefore, wireVars
<1>7. Serving'
  BY <1>1, <1>3, <1>4 DEF AssemblerInv, Serving, Skipping, ConnectionOf, Located
<1>8. FinishedIffGone'
  BY <1>1, <1>3 DEF AssemblerInv, FinishedIffGone
<1>9. Following'
  BY <1>1, <1>3, <1>4 DEF AssemblerInv, Following, ConnectionOf, Located, Orderly, Lossy, wireVars
<1>10. OneIncarnation'
  BY <1>1, <1>3 DEF AssemblerInv, OneIncarnation, Unmixed, Orderly, Lossy, wireVars
<1> QED
  BY <1>5, <1>6, <1>7, <1>8, <1>9, <1>10 DEF AssemblerInv

\* A forced close finishes the connection and keeps what it carried.
LEMMA ForceCloseType ==
  ASSUME NEW x \in Connection, NEW y, y = ForceClose(x)
  PROVE  /\ y \in Connection
         /\ y.key = x.key /\ y.carried = x.carried
         /\ y.finishes = x.finishes + 1
<1> DEFINE z == [x EXCEPT !.closed = Endpoint]
<1>1. /\ z \in Connection
      /\ z.key = x.key /\ z.carried = x.carried /\ z.finishes = x.finishes
  BY DEF Connection
<1>2. y = Finish(z)
  BY DEF ForceClose
<1> HIDE DEF z
<1> QED
  BY <1>1, <1>2 DEF Finish, Connection

\* A flush finishes the objects it takes out of the dictionary, each of which
\* only one key held, and leaves every other alone.
LEMMA InvFlush == AssemblerInv /\ FlushOlderThan => AssemblerInv'
<1> SUFFICES ASSUME AssemblerInv, FlushOlderThan PROVE AssemblerInv'
  OBVIOUS
<1> DEFINE flushed == {connectionDict[k] : k \in OldKeys}
<1>0. /\ Len(connections) \in Nat /\ DOMAIN connections = 1 .. Len(connections)
      /\ \A i \in DOMAIN connections : connections[i] \in Connection
      /\ connectionDict \in [Keys -> None .. Len(connections)]
      /\ None = 0
  BY LenProperties, ElementOfSeq DEF AssemblerInv, TypeOK, None
<1>1. /\ connections' = [i \in DOMAIN connections |->
                           IF i \in flushed THEN ForceClose(connections[i]) ELSE connections[i]]
      /\ connectionDict' = [k \in Keys |-> IF k \in OldKeys THEN None ELSE connectionDict[k]]
      /\ UNCHANGED wireVars
  BY DEF FlushOlderThan
<1>2. OldKeys \subseteq Keys /\ \A k \in OldKeys : Located(k)
  BY DEF OldKeys
<1>3. \A k \in Keys : Located(k) => connectionDict[k] \in DOMAIN connections
  BY <1>0 DEF Located
<1>4. ASSUME NEW j \in Keys, Located(j)
      PROVE  connectionDict[j] \in flushed <=> j \in OldKeys
  <2>1. ASSUME NEW k \in OldKeys, connectionDict[j] = connectionDict[k]
        PROVE  j = k
    BY <1>2, <1>4, <2>1 DEF AssemblerInv, TypeOK
  <2> QED
    BY <2>1
<1>5. ASSUME NEW i \in DOMAIN connections
      PROVE  /\ connections'[i] \in Connection
             /\ connections'[i].key = connections[i].key
             /\ connections'[i].carried = connections[i].carried
             /\ i \in flushed => connections'[i].finishes = connections[i].finishes + 1
             /\ i \notin flushed => connections'[i] = connections[i]
  <2>1. i \notin flushed => connections'[i] = connections[i]
    BY <1>1
  <2>2. i \in flushed => connections'[i] = ForceClose(connections[i])
    BY <1>1
  <2> HIDE DEF flushed
  <2> QED
    BY <1>0, <2>1, <2>2, ForceCloseType
<1>6. DOMAIN connections' = DOMAIN connections
  BY <1>1
<1>7. connections' \in Seq(Connection) /\ Len(connections') = Len(connections)
  <2>1. connections' \in [1 .. Len(connections) -> Connection]
    BY <1>0, <1>1, <1>5
  <2> QED
    BY <1>0, <2>1, FunctionIsSeq
<1>8. /\ connectionDict' \in [Keys -> None .. Len(connections)]
      /\ \A k \in Keys : Located(k)' => /\ Located(k) /\ k \notin OldKeys
                                        /\ connectionDict'[k] = connectionDict[k]
  BY <1>0, <1>1 DEF Located
<1>9. ASSUME NEW k \in Keys, Located(k)'
      PROVE  ConnectionOf(k)' = ConnectionOf(k)
  BY <1>3, <1>4, <1>5, <1>8, <1>9 DEF ConnectionOf
<1>10. TypeOK'
  BY <1>1, <1>7, <1>8, <1>9 DEF AssemblerInv, TypeOK, ConnectionOf, wireVars
<1>11. NoneBefore'
  BY <1>1 DEF AssemblerInv, NoneBefore, wireVars
<1>12. Serving'
  BY <1>8, <1>9 DEF AssemblerInv, Serving, Skipping
<1>13. ASSUME NEW i \in DOMAIN connections
       PROVE  connections'[i].finishes = IF \E k \in Keys : connectionDict'[k] = i THEN 0 ELSE 1
  <2>1. CASE i \in flushed
    <3>1. PICK k \in OldKeys : connectionDict[k] = i
      BY <2>1
    <3>2. connections[i].finishes = 0
      BY <1>2, <3>1 DEF AssemblerInv, FinishedIffGone
    <3>3. \A j \in Keys : connectionDict'[j] # i
      <4> SUFFICES ASSUME NEW j \in Keys, connectionDict'[j] = i PROVE FALSE
        OBVIOUS
      <4>1. Located(j)'
        BY <1>0 DEF Located
      <4> QED
        BY <1>4, <1>8, <2>1, <4>1
    <3> QED
      BY <1>5, <2>1, <3>2, <3>3
  <2>2. CASE i \notin flushed
    <3>1. \A k \in Keys : connectionDict'[k] = i <=> connectionDict[k] = i
      BY <1>0, <1>1, <2>2
    <3> QED
      BY <1>5, <2>2, <3>1 DEF AssemblerInv, FinishedIffGone
  <2> QED
    BY <2>1, <2>2
<1>14. FinishedIffGone'
  BY <1>6, <1>13 DEF FinishedIffGone
<1>15. Following'
  BY <1>1, <1>8, <1>9 DEF AssemblerInv, Following, Orderly, Lossy, wireVars
<1>16. OneIncarnation'
  BY <1>1, <1>5, <1>6 DEF AssemblerInv, OneIncarnation, Unmixed, Orderly, Lossy, wireVars
<1> QED
  BY <1>10, <1>11, <1>12, <1>14, <1>15, <1>16 DEF AssemblerInv

\* Every step preserves the invariant.
LEMMA InvInductive == AssemblerInv /\ [Next]_vars => AssemblerInv'
<1> SUFFICES ASSUME AssemblerInv, [Next]_vars PROVE AssemblerInv'
  OBVIOUS
<1>0. /\ MaxIncarnations \in Nat /\ Kind = {"syn", "http", "data", "fin"}
      /\ Endpoint = {"client", "server"}
      /\ traffic \in Traffics
      /\ incarnation \in [Keys -> 0 .. MaxIncarnations]
      /\ ended \in [Keys -> SUBSET Endpoint]
  BY AssemblerAssumption DEF Kind, Endpoint, AssemblerInv, TypeOK
<1>1. ASSUME NEW k \in Keys
      PROVE  ended[k] # Endpoint => incarnation[k] \in 1 .. MaxIncarnations
  BY <1>0 DEF AssemblerInv, NoneBefore
<1>2. ASSUME NEW k \in Keys, Open(k) PROVE AssemblerInv'
  <2>1. traffic.incarnations[k] \in 0 .. MaxIncarnations
    BY <1>0, AssemblerAssumption
  <2>2. incarnation[k] + 1 \in 1 .. MaxIncarnations
    BY <1>0, <1>2, <2>1 DEF Open
  <2>3. OnWire(k, "syn", "client", incarnation[k] + 1)
    BY <1>0, <1>2 DEF Open, OnWire
  <2> QED
    BY <1>0, <1>2, <2>2, <2>3, InvCaptured DEF Open
<1>3. ASSUME NEW k \in Keys, SendHttp(k) PROVE AssemblerInv'
  <2>1. incarnation[k] \in 1 .. MaxIncarnations
    BY <1>0, <1>1, <1>3 DEF SendHttp
  <2>2. OnWire(k, "http", "client", incarnation[k])
    BY <1>0, <1>3 DEF SendHttp, OnWire, wireVars
  <2> QED
    BY <1>0, <1>3, <2>1, <2>2, InvCaptured DEF SendHttp
<1>4. ASSUME NEW k \in Keys, NEW src \in Endpoint, SendData(k, src) PROVE AssemblerInv'
  <2>1. incarnation[k] \in 1 .. MaxIncarnations
    BY <1>0, <1>1, <1>4 DEF SendData
  <2>2. OnWire(k, "data", src, incarnation[k])
    BY <1>0, <1>4 DEF SendData, OnWire, wireVars
  <2> QED
    BY <1>0, <1>4, <2>1, <2>2, InvCaptured DEF SendData
<1>5. ASSUME NEW k \in Keys, NEW src \in Endpoint, SendFin(k, src) PROVE AssemblerInv'
  <2>1. incarnation[k] \in 1 .. MaxIncarnations
    BY <1>0, <1>1, <1>5 DEF SendFin
  <2>2. OnWire(k, "fin", src, incarnation[k])
    BY <1>0, <1>5 DEF SendFin, OnWire
  <2> QED
    BY <1>0, <1>5, <2>1, <2>2, InvCaptured DEF SendFin
<1>6. ASSUME NEW k \in Keys, NEW src \in Endpoint, SendRst(k, src) PROVE AssemblerInv'
  <2>1. incarnation[k] \in 1 .. MaxIncarnations
    BY <1>0, <1>1, <1>6 DEF SendRst
  <2>2. OnWire(k, "fin", src, incarnation[k])
    BY <1>0, <1>6 DEF SendRst, OnWire
  <2> QED
    BY <1>0, <1>6, <2>1, <2>2, InvCaptured DEF SendRst
<1>7. CASE UNCHANGED vars
  BY <1>7 DEF vars, wireVars, AssemblerInv, TypeOK, NoneBefore, Serving, Skipping, FinishedIffGone,
              Following, OneIncarnation, Unmixed, ConnectionOf, Located, Orderly, Lossy
<1> QED
  BY <1>2, <1>3, <1>4, <1>5, <1>6, <1>7, InvTick, InvFlush DEF Next

\* The invariant holds before the first packet.
LEMMA InvInit == Init => AssemblerInv
<1> SUFFICES ASSUME Init PROVE AssemblerInv
  OBVIOUS
<1>1. connections = <<>> /\ <<>> \in Seq(Connection) /\ Len(<<>>) = 0 /\ DOMAIN <<>> = {}
  BY EmptySeq DEF Init
<1>2. \A k \in Keys : ~Located(k)
  BY DEF Init, Located
<1>3. TypeOK
  BY <1>1, <1>2, AssemblerAssumption DEF Init, TypeOK, None
<1>4. NoneBefore
  BY DEF Init, NoneBefore
<1> QED
  BY <1>1, <1>2, <1>3, <1>4 DEF AssemblerInv, Serving, FinishedIffGone, Following, OneIncarnation, Unmixed

(***************************************************************************)
(* The theorems.                                                           *)
(***************************************************************************)

\* The invariant holds in every reachable state.
THEOREM InvHolds == Spec => []AssemblerInv
BY InvInit, InvInductive, PTL DEF Spec

\* Every variable keeps its type; in particular the dictionary never holds a
\* dangling index, nor the connection of one pair of endpoints under another.
THEOREM TypeCorrect == Spec => []TypeOK
<1>1. AssemblerInv => TypeOK
  BY DEF AssemblerInv
<1> QED
  BY <1>1, InvHolds, PTL

\* The channels of a connection are closed exactly when it leaves the
\* dictionary, by its second FIN, a reset or a flush, and never twice.
THEOREM FinishedWhenGone == Spec => []FinishedIffGone
<1>1. AssemblerInv => FinishedIffGone
  BY DEF AssemblerInv
<1> QED
  BY <1>1, InvHolds, PTL

\* With every packet captured and every TCP connection closed by two FINs, no
\* object is given the payload of two TCP connections of its endpoints.
THEOREM NeverMixed == Spec => []OneIncarnation
<1>1. AssemblerInv => OneIncarnation
  BY DEF AssemblerInv
<1> QED
  BY <1>1, InvHolds, PTL

-----------------------------------------------------------------------------
(* One connection: the types of its variables.                             *)

HandlerPlace == {"request", "response", "requestBody", "responseBody", "realResponse",
                 "realBody", "discardDown", "discardUp", "done"}
Sent == ToSet(Wire)
Pair == [request : Nat, response : Nat]

\* An acknowledgment confirms what is pending: Head(pending[target]) exists.
HttpTyped ==
  /\ conn \in Connections
  /\ next \in 1 .. Len(Wire) + 1
  /\ pending \in [Dir -> Seq(Sent)] /\ c \in [Dir -> Seq(Sent)]
  /\ ignore \in [Dir -> BOOLEAN] /\ eofSimulated \in [Dir -> BOOLEAN]
  /\ target \in Dir
  /\ burst \in Nat
  /\ mainPc \in {"wait", "send"} => burst <= Len(pending[target])
  /\ hpc \in HandlerPlace
  /\ req \in Sent \union {NoPacket} /\ reqLeft \in Nat
  /\ resp \in Sent \union {NoPacket} /\ respLeft \in Nat
  /\ reported \in Seq(Pair)

\* What is captured of stream d and not read yet.
Content(d) == c[d] \o pending[d]

\* The wire of a connection is a sequence of packets.
LEMMA WireFacts ==
  ASSUME conn \in Connections
  PROVE  /\ Wire \in Seq(Packet) /\ Len(Wire) \in Nat /\ DOMAIN Wire = 1 .. Len(Wire)
         /\ Sent \subseteq Packet /\ NoPacket \in Packet
         /\ \A i \in 1 .. Len(Wire) : Wire[i] \in Sent
         /\ ChannelSize \in Nat \ {0} /\ MaxBurst \in Nat \ {0}
         /\ NumberedInOrder(Wire)
<1>1. /\ Wire \in Seq(Packet) /\ ChannelSize \in Nat \ {0} /\ MaxBurst \in Nat \ {0}
      /\ NumberedInOrder(Wire)
  BY ConnectionAssumption DEF Wire, ChannelSize, MaxBurst
<1>2. DOMAIN Wire = 1 .. Len(Wire) /\ Len(Wire) \in Nat
  BY <1>1, LenProperties
<1>3. Sent \subseteq Packet /\ \A i \in 1 .. Len(Wire) : Wire[i] \in Sent
  BY <1>1, <1>2, ElementOfSeq DEF Sent, ToSet
<1>4. NoPacket \in Packet
  BY DEF NoPacket, Packet, Dir
<1> QED
  BY <1>1, <1>2, <1>3, <1>4

\* What is not read yet, packet by packet.
LEMMA ContentFacts ==
  ASSUME HttpTyped, NEW d \in Dir
  PROVE  /\ Content(d) \in Seq(Sent) /\ c[d] \in Seq(Sent) /\ pending[d] \in Seq(Sent)
         /\ Len(c[d]) \in Nat /\ Len(pending[d]) \in Nat
         /\ Len(Content(d)) = Len(c[d]) + Len(pending[d])
         /\ DOMAIN Content(d) = 1 .. Len(c[d]) + Len(pending[d])
         /\ \A i \in 1 .. Len(c[d]) + Len(pending[d]) :
              Content(d)[i] = IF i <= Len(c[d]) THEN c[d][i] ELSE pending[d][i - Len(c[d])]
<1> DEFINE s == c[d]
           t == pending[d]
<1>1. s \in Seq(Sent) /\ t \in Seq(Sent)
  BY DEF HttpTyped
<1> HIDE DEF s, t
<1>2. /\ s \o t \in Seq(Sent) /\ Len(s) \in Nat /\ Len(t) \in Nat
      /\ Len(s \o t) = Len(s) + Len(t) /\ DOMAIN (s \o t) = 1 .. Len(s \o t)
      /\ \A i \in 1 .. Len(s) + Len(t) : (s \o t)[i] = IF i <= Len(s) THEN s[i] ELSE t[i - Len(s)]
  BY <1>1, ConcatProperties, LenProperties
<1> QED
  BY <1>1, <1>2 DEF Content, s, t

\* A step of the main goroutine that captures nothing new moves packets from the
\* receive window to the channel, or nothing.
Moves ==
  /\ next' = next
  /\ \A d \in Dir : Content(d)' = Content(d) /\ (Takes(d)' => Takes(d))

\* A captured packet joins what is not read yet, unless the stream takes no more
\* packets or the capture misses it.
Captures ==
  /\ next <= Len(Wire) /\ next' = next + 1
  /\ \A d \in Dir : Takes(d)' = Takes(d)
  /\ \/ conn.lossy /\ \A d \in Dir : Content(d)' = Content(d)
     \/ \A d \in Dir : Content(d)' = IF d = Wire[next].dir /\ Takes(d)
                                    THEN Append(Content(d), Wire[next]) ELSE Content(d)

\* The handler takes the oldest packet of stream d.
Consumes(d) ==
  /\ next' = next
  /\ Content(d) # <<>> /\ Content(d)' = Tail(Content(d))
  /\ \A e \in Dir \ {d} : Content(e)' = Content(e)
  /\ \A e \in Dir : Takes(e)' = Takes(e)

\* Nothing pending is reordered, lost or invented by the main goroutine.
LEMMA MainStepMoves ==
  ASSUME HttpTyped, ReceiveData \/ (\E d \in Dir : ReceiveControl(d)) \/ ForceCloseSilent \/ MainStep
  PROVE  HttpTyped' /\ UNCHANGED <<conn, handlerVars>> /\ (Moves \/ Captures)
<1>w. /\ Wire \in Seq(Packet) /\ Len(Wire) \in Nat /\ Sent \subseteq Packet
      /\ \A i \in 1 .. Len(Wire) : Wire[i] \in Sent
      /\ MaxBurst \in Nat
  BY WireFacts DEF HttpTyped
<1>t. ASSUME UNCHANGED <<conn, handlerVars>>, next' \in 1 .. Len(Wire) + 1,
             pending' \in [Dir -> Seq(Sent)], c' \in [Dir -> Seq(Sent)],
             ignore' \in [Dir -> BOOLEAN], eofSimulated' \in [Dir -> BOOLEAN],
             target' \in Dir, burst' \in Nat,
             mainPc' \in {"wait", "send"} => burst' <= Len(pending'[target'])
      PROVE  HttpTyped'
  BY <1>t DEF HttpTyped, handlerVars, Wire, Sent
<1>o. \A d \in Dir : Opposite(d) \in Dir /\ Opposite(d) # d
  BY DEF Opposite, Dir
<1>1. CASE ReceiveData
  <2> DEFINE p == Wire[next]
  <2>1. next \in 1 .. Len(Wire) /\ next' = next + 1 /\ next' \in 1 .. Len(Wire) + 1
    BY <1>1, <1>w DEF ReceiveData, HttpTyped
  <2>2. p \in Sent /\ p.dir \in Dir
    BY <2>1, <1>w DEF Packet
  <2>u. UNCHANGED <<conn, handlerVars, c, ignore, eofSimulated>>
    BY <1>1 DEF ReceiveData
  <2>3. \A d \in Dir : Takes(d)' = Takes(d)
    BY <2>u DEF Takes
  <2>4. CASE UNCHANGED <<pending, mainPc, target, burst, fin>> /\ conn.lossy
    <3>1. HttpTyped'
      BY <2>1, <2>4, <2>u, <1>t DEF HttpTyped
    <3>2. Captures
      BY <2>1, <2>3, <2>4, <2>u DEF Captures, Content
    <3> QED
      BY <3>1, <3>2, <2>u
  <2>5. CASE /\ pending' = IF Takes(p.dir) THEN [pending EXCEPT ![p.dir] = Append(@, p)] ELSE pending
             /\ \E k \in 0 .. MaxBurst : Acknowledge(p.dir, k, FALSE)
    <3>1. pending' \in [Dir -> Seq(Sent)]
      BY <2>5, <2>2, AppendProperties DEF HttpTyped
    <3>2. PICK k \in 0 .. MaxBurst : Acknowledge(p.dir, k, FALSE)
      BY <2>5
    <3>3. target' = Opposite(p.dir) /\ burst' = k /\ k <= Len(pending[Opposite(p.dir)])
      BY <3>2 DEF Acknowledge
    <3>4. target' \in Dir /\ burst' \in Nat /\ pending'[target'] = pending[target']
      BY <3>3, <2>2, <1>o, <1>w, <2>5 DEF HttpTyped
    <3>5. HttpTyped'
      BY <3>1, <3>3, <3>4, <2>1, <2>u, <1>t DEF HttpTyped
    <3>6. ASSUME NEW d \in Dir
          PROVE  Content(d)' = IF d = p.dir /\ Takes(d) THEN Append(Content(d), p) ELSE Content(d)
      <4>1. CASE d = p.dir /\ Takes(d)
        <5>1. Content(d)' = c[d] \o Append(pending[d], p)
          BY <4>1, <2>5, <2>u, <2>2 DEF Content, HttpTyped
        <5>2. c[d] \in Seq(Sent) /\ pending[d] \in Seq(Sent)
          BY DEF HttpTyped
        <5>3. c[d] \o Append(pending[d], p) = Append(c[d] \o pending[d], p)
          <6> DEFINE s == c[d]
                     t == pending[d]
          <6>1. s \in Seq(Sent) /\ t \in Seq(Sent) /\ p \in Sent
            BY <5>2, <2>2
          <6> HIDE DEF s, t, p
          <6>2. s \o Append(t, p) = Append(s \o t, p)
            BY ONLY <6>1, AppendLast
          <6> QED
            BY <6>2 DEF s, t
        <5> QED
          BY <4>1, <5>1, <5>3 DEF Content
      <4>2. CASE ~(d = p.dir /\ Takes(d))
        BY <4>2, <2>5, <2>u, <2>2 DEF Content, HttpTyped
      <4> QED
        BY <4>1, <4>2
    <3>7. Captures
      BY <3>6, <2>1, <2>3 DEF Captures
    <3> QED
      BY <3>5, <3>7, <2>u
  <2> QED
    BY <1>1, <2>4, <2>5 DEF ReceiveData
<1>2. ASSUME NEW d \in Dir, ReceiveControl(d)
      PROVE  HttpTyped' /\ UNCHANGED <<conn, handlerVars>> /\ Moves
  <2>1. PICK k \in 0 .. MaxBurst, f \in BOOLEAN : Acknowledge(d, k, f)
    BY <1>2 DEF ReceiveControl
  <2>2. target' = Opposite(d) /\ burst' = k /\ k <= Len(pending[Opposite(d)])
    BY <2>1 DEF Acknowledge
  <2>u. UNCHANGED <<conn, next, pending, handlerVars, c, ignore, eofSimulated>>
    BY <1>2 DEF ReceiveControl
  <2>3. target' \in Dir /\ burst' \in Nat /\ burst' <= Len(pending'[target'])
    BY <2>2, <2>u, <1>o, <1>w
  <2>5. HttpTyped'
    BY <2>3, <2>u, <1>t DEF HttpTyped
  <2>4. Moves
    BY <2>u DEF Moves, Content, Takes
  <2> QED
    BY <2>5, <2>4, <2>u
<1>3. CASE ForceCloseSilent
  <2>u. UNCHANGED <<conn, next, pending, mainPc, target, burst, handlerVars, c, ignore, eofSimulated>>
    BY <1>3 DEF ForceCloseSilent
  <2>1. HttpTyped'
    BY <2>u, <1>t DEF HttpTyped
  <2>2. Moves
    BY <2>u DEF Moves, Content, Takes
  <2> QED
    BY <2>1, <2>2, <2>u
<1>4. CASE MainStep
  <2>c. UNCHANGED conn
    BY <1>4 DEF MainStep
  <2>1. CASE SpaceFound \/ SendDone \/ CloseStream
    <3>u. UNCHANGED <<next, pending, target, handlerVars, c, ignore, eofSimulated>>
      BY <2>1 DEF SpaceFound, SendDone, CloseStream
    <3>1. burst' \in Nat /\ (mainPc' \in {"wait", "send"} => burst' <= Len(pending'[target']))
      <4>1. CASE SpaceFound
        BY <4>1, <3>u DEF SpaceFound, HttpTyped
      <4>2. CASE SendDone
        BY <4>2, <3>u DEF SendDone, HttpTyped
      <4>3. CASE CloseStream
        BY <4>3, <3>u DEF CloseStream
      <4> QED
        BY <2>1, <4>1, <4>2, <4>3
    <3>2. HttpTyped'
      BY <3>1, <3>u, <2>c, <1>t DEF HttpTyped
    <3>3. Moves
      BY <3>u DEF Moves, Content, Takes
    <3> QED
      BY <3>2, <3>3, <3>u, <2>c
  <2>2. CASE AbandonData
    <3>u. UNCHANGED <<next, pending, target, handlerVars, c, eofSimulated>>
      BY <2>2 DEF AbandonData
    <3>1. /\ burst' = 0 /\ mainPc' = "close"
          /\ ignore' \in [Dir -> BOOLEAN] /\ \A d \in Dir : ignore[d] => ignore'[d]
      BY <2>2 DEF AbandonData, HttpTyped
    <3>2. HttpTyped'
      BY <3>1, <3>u, <2>c, <1>t DEF HttpTyped
    <3>3. Moves
      BY <3>u, <3>1 DEF Moves, Content, Takes
    <3> QED
      BY <3>2, <3>3, <3>u, <2>c
  <2>3. CASE SendPacket
    <3> DEFINE s == pending[target]
    <3>u. /\ UNCHANGED <<next, target, handlerVars, ignore, eofSimulated>>
          /\ c' = [c EXCEPT ![target] = Append(@, Head(s))]
          /\ pending' = [pending EXCEPT ![target] = Tail(@)]
          /\ burst' = burst - 1 /\ burst > 0 /\ mainPc = "send"
      BY <2>3 DEF SendPacket
    <3>1. s \in Seq(Sent) /\ Len(s) \in Nat /\ burst <= Len(s) /\ burst \in Nat /\ target \in Dir
          /\ c[target] \in Seq(Sent)
      BY <3>u, LenProperties DEF HttpTyped
    <3>2. s # <<>>
      BY <3>1, <3>u
    <3>3. Head(s) \in Sent /\ Tail(s) \in Seq(Sent) /\ Len(Tail(s)) = Len(s) - 1
          /\ s = <<Head(s)>> \o Tail(s)
      BY <3>1, <3>2, HeadTailProperties
    <3> HIDE DEF s
    <3>4. c' \in [Dir -> Seq(Sent)] /\ pending' \in [Dir -> Seq(Sent)]
      BY <3>u, <3>1, <3>3, AppendProperties DEF HttpTyped
    <3>5. pending'[target'] = Tail(s)
      BY <3>u, <3>1 DEF HttpTyped, s
    <3>6. burst' \in Nat /\ burst' <= Len(pending'[target'])
      BY <3>u, <3>1, <3>3, <3>5
    <3>7. HttpTyped'
      BY <3>u, <3>4, <3>6, <2>c, <1>t DEF HttpTyped
    <3>8. ASSUME NEW d \in Dir PROVE Content(d)' = Content(d)
      <4>1. CASE d = target
        <5>1. Content(d)' = Append(c[d], Head(s)) \o Tail(s)
          BY <4>1, <3>u DEF Content, HttpTyped, s
        <5>2. Append(c[d], Head(s)) = c[d] \o <<Head(s)>>
          BY <4>1, <3>1, <3>3, AppendIsConcat
        <5>3. <<Head(s)>> \in Seq(Sent)
          BY <3>3
        <5>4. (c[d] \o <<Head(s)>>) \o Tail(s) = c[d] \o (<<Head(s)>> \o Tail(s))
          BY <4>1, <5>3, <3>1, <3>3, ConcatAssociative
        <5> QED
          BY <4>1, <5>1, <5>2, <5>4, <3>3 DEF Content, s
      <4>2. CASE d # target
        BY <4>2, <3>u DEF Content, HttpTyped
      <4> QED
        BY <4>1, <4>2
    <3>9. Moves
      BY <3>8, <3>u DEF Moves, Takes
    <3> QED
      BY <3>7, <3>9, <3>u, <2>c
  <2> QED
    BY <1>4, <2>1, <2>2, <2>3 DEF MainStep
<1> QED
  BY <1>1, <1>2, <1>3, <1>4

HandlerOnly == UNCHANGED <<conn, next, pending, mainPc, target, burst>>

\* The handler keeps its types where it stops to read nothing.
LEMMA HandlerTyped ==
  ASSUME HttpTyped, HandlerOnly, c' \in [Dir -> Seq(Sent)],
         ignore' \in [Dir -> BOOLEAN], eofSimulated' \in [Dir -> BOOLEAN],
         hpc' \in HandlerPlace,
         req' \in Sent \union {NoPacket}, reqLeft' \in Nat,
         resp' \in Sent \union {NoPacket}, respLeft' \in Nat, reported' \in Seq(Pair)
  PROVE  HttpTyped'
BY DEF HttpTyped, HandlerOnly, Wire, Sent

\* What the handler reports are numbers of packets.
LEMMA ReportType ==
  ASSUME HttpTyped, NEW r \in Nat, Report(r)
  PROVE  /\ reported' = Append(reported, [request |-> req.n, response |-> r])
         /\ reported' \in Seq(Pair)
         /\ Len(reported') = Len(reported) + 1 /\ DOMAIN reported' = 1 .. Len(reported) + 1
         /\ \A i \in DOMAIN reported : reported'[i] = reported[i]
         /\ reported'[Len(reported) + 1] = [request |-> req.n, response |-> r]
<1> DEFINE e == [request |-> req.n, response |-> r]
<1>1. req \in Packet
  BY WireFacts DEF HttpTyped
<1>2. e \in Pair
  BY <1>1 DEF Pair, Packet
<1>3. reported \in Seq(Pair) /\ reported' = Append(reported, e)
  BY DEF HttpTyped, Report
<1> HIDE DEF e
<1>4. /\ Append(reported, e) \in Seq(Pair) /\ Len(Append(reported, e)) = Len(reported) + 1
      /\ \A i \in 1 .. Len(reported) : Append(reported, e)[i] = reported[i]
      /\ Append(reported, e)[Len(reported) + 1] = e
  BY <1>2, <1>3, AppendProperties
<1>5. DOMAIN reported = 1 .. Len(reported) /\ DOMAIN Append(reported, e) = 1 .. Len(Append(reported, e))
  BY <1>3, <1>4, LenProperties
<1> QED
  BY <1>3, <1>4, <1>5 DEF e

\* Parsing a packet keeps the types.
LEMMA ParseTyped ==
  ASSUME HttpTyped, HandlerOnly, NEW d \in Dir, Reads(d), NEW p \in Sent, Parse(p),
         c' \in [Dir -> Seq(Sent)], UNCHANGED <<ignore, eofSimulated>>
  PROVE  HttpTyped'
<1>1. p.body \in Nat /\ Sent \subseteq Packet
  BY WireFacts DEF HttpTyped, Packet
<1>2. hpc = "requestBody" => reqLeft > 0
  BY DEF Reads
<1>3. hpc \in {"responseBody", "realBody"} => respLeft > 0
  BY DEF Reads
<1>r. ASSUME Report(0) PROVE reported' \in Seq(Pair)
  BY <1>r, ReportType
<1>4. /\ hpc' \in HandlerPlace
      /\ req' \in Sent \union {NoPacket} /\ reqLeft' \in Nat
      /\ resp' \in Sent \union {NoPacket} /\ respLeft' \in Nat /\ reported' \in Seq(Pair)
  <2> USE DEF HandlerPlace
  <2>t. /\ hpc \in HandlerPlace
        /\ req \in Sent \union {NoPacket} /\ reqLeft \in Nat
        /\ resp \in Sent \union {NoPacket} /\ respLeft \in Nat /\ reported \in Seq(Pair)
    BY DEF HttpTyped
  <2>1. CASE hpc = "request"
    BY <1>1, <2>1, <2>t DEF Parse
  <2>2. CASE hpc = "response"
    BY <1>1, <2>2, <2>t DEF Parse
  <2>3. CASE hpc = "requestBody"
    BY <1>2, <2>3, <2>t DEF Parse
  <2>4. CASE hpc \in {"responseBody", "realBody"}
    BY <1>3, <2>4, <2>t DEF Parse
  <2>5. CASE hpc = "realResponse"
    BY <1>1, <1>r, <2>5, <2>t DEF Parse
  <2>6. CASE hpc \in {"discardDown", "discardUp"}
    BY <2>6, <2>t DEF Parse
  <2> QED
    BY <2>1, <2>2, <2>3, <2>4, <2>5, <2>6 DEF Parse
<1> QED
  BY <1>4, HandlerTyped DEF HttpTyped

\* What a step of the handler is: it reads a packet or the end of a stream, or
\* it waits, or it has read a body.
Waits == UNCHANGED <<hpc, req, reqLeft, resp, respLeft, reported>>

LEMMA HandlerCases ==
  ASSUME HttpTyped, HandlerStep
  PROVE  /\ HttpTyped' /\ HandlerOnly
         /\ \/ \E d \in Dir : /\ Reads(d) /\ Consumes(d)
                              /\ Content(d)[1] \in Sent /\ Parse(Content(d)[1])
            \/ \E d \in Dir : Reads(d) /\ Moves /\ ParseEOF /\ UNCHANGED <<req, reqLeft>>
            \/ Moves /\ Waits
            \/ Moves /\ RequestBodyRead
            \/ Moves /\ ResponseBodyRead
<1>t. /\ hpc \in HandlerPlace
      /\ req \in Sent \union {NoPacket} /\ reqLeft \in Nat
      /\ resp \in Sent \union {NoPacket} /\ respLeft \in Nat /\ reported \in Seq(Pair)
      /\ ignore \in [Dir -> BOOLEAN] /\ eofSimulated \in [Dir -> BOOLEAN]
      /\ c \in [Dir -> Seq(Sent)] /\ resp \in Packet
  BY WireFacts DEF HttpTyped
<1>c. UNCHANGED conn
  BY DEF HandlerStep
<1>r. ASSUME NEW r \in {0, resp.n}, Report(r) PROVE reported' \in Seq(Pair)
  <2>1. r \in Nat
    BY <1>t DEF Packet
  <2> QED
    BY <1>r, <2>1, ReportType
<1>1. ASSUME NEW d \in Dir, ReadPacket(d)
      PROVE  /\ HttpTyped' /\ HandlerOnly /\ Reads(d) /\ Consumes(d)
             /\ Content(d)[1] \in Sent /\ Parse(Content(d)[1])
  <2> DEFINE s == c[d]
             t == pending[d]
  <2>1. /\ s \in Seq(Sent) /\ t \in Seq(Sent) /\ s # <<>> /\ HandlerOnly
        /\ c' = [c EXCEPT ![d] = Tail(@)] /\ pending' = pending /\ next' = next
        /\ Reads(d) /\ Parse(Head(s)) /\ UNCHANGED <<ignore, eofSimulated>>
    BY <1>1, <1>c DEF ReadPacket, HttpTyped, HandlerOnly, mainVars
  <2> HIDE DEF s, t
  <2>2. /\ Head(s) \in Sent /\ Tail(s) \in Seq(Sent) /\ Head(s) = s[1]
        /\ Len(s) \in Nat /\ Len(s) >= 1 /\ Len(t) \in Nat
    BY <2>1, HeadTailProperties, LenProperties
  <2>3. s \o t \in Seq(Sent) /\ s \o t # <<>> /\ (s \o t)[1] = s[1] /\ Tail(s \o t) = Tail(s) \o t
    <3>1. /\ s \o t \in Seq(Sent) /\ Len(s \o t) = Len(s) + Len(t) /\ (s \o t)[1] = s[1]
          /\ \A i \in 1 .. Len(s) + Len(t) :
               (s \o t)[i] = IF i <= Len(s) THEN s[i] ELSE t[i - Len(s)]
      BY <2>1, <2>2, ConcatProperties
    <3>2. s \o t # <<>>
      BY <3>1, <2>2
    <3>3. /\ Tail(s \o t) \in Seq(Sent) /\ Len(Tail(s \o t)) = Len(s) + Len(t) - 1
          /\ \A i \in 1 .. Len(s) + Len(t) - 1 : Tail(s \o t)[i] = (s \o t)[i + 1]
      BY <3>1, <3>2, HeadTailProperties
    <3>4. /\ Len(Tail(s)) = Len(s) - 1 /\ \A i \in 1 .. Len(s) - 1 : Tail(s)[i] = s[i + 1]
      BY <2>1, HeadTailProperties
    <3>5. /\ Tail(s) \o t \in Seq(Sent) /\ Len(Tail(s) \o t) = Len(s) + Len(t) - 1
          /\ \A i \in 1 .. Len(s) + Len(t) - 1 :
               (Tail(s) \o t)[i] = IF i <= Len(s) - 1 THEN Tail(s)[i] ELSE t[i - (Len(s) - 1)]
      <4>1. /\ Tail(s) \o t \in Seq(Sent) /\ Len(Tail(s) \o t) = Len(Tail(s)) + Len(t)
            /\ \A i \in 1 .. Len(Tail(s)) + Len(t) :
                 (Tail(s) \o t)[i] = IF i <= Len(Tail(s)) THEN Tail(s)[i] ELSE t[i - Len(Tail(s))]
        BY <2>1, <2>2, ConcatProperties
      <4> QED
        BY <2>2, <3>4, <4>1
    <3>6. \A i \in 1 .. Len(s) + Len(t) - 1 : Tail(s \o t)[i] = (Tail(s) \o t)[i]
      <4> SUFFICES ASSUME NEW i \in 1 .. Len(s) + Len(t) - 1
                   PROVE  Tail(s \o t)[i] = (Tail(s) \o t)[i]
        OBVIOUS
      <4>1. Tail(s \o t)[i] = IF i + 1 <= Len(s) THEN s[i + 1] ELSE t[i + 1 - Len(s)]
        BY <2>2, <3>1, <3>3
      <4>2. (Tail(s) \o t)[i] = IF i + 1 <= Len(s) THEN s[i + 1] ELSE t[i + 1 - Len(s)]
        BY <2>2, <3>4, <3>5
      <4> QED
        BY <4>1, <4>2
    <3> QED
      BY <2>2, <3>1, <3>2, <3>3, <3>5, <3>6, SeqEqual
  <2>4. Content(d) = s \o t /\ Content(d)' = Tail(s) \o t
    BY <2>1, <1>t DEF Content, s, t
  <2>5. \A e \in Dir \ {d} : Content(e)' = Content(e)
    BY <2>1, <1>t DEF Content
  <2>6. Consumes(d)
    BY <2>1, <2>3, <2>4, <2>5 DEF Consumes, Takes
  <2>7. c' \in [Dir -> Seq(Sent)]
    BY <2>1, <2>2, <1>t DEF s
  <2>8. HttpTyped'
    BY <2>1, <2>2, <2>7, ParseTyped
  <2> QED
    BY <2>1, <2>2, <2>3, <2>4, <2>6, <2>8
<1>2. ASSUME NEW d \in Dir, Reads(d), EndOfFile(d)
      PROVE  HttpTyped' /\ HandlerOnly /\ Moves /\ ParseEOF /\ UNCHANGED <<req, reqLeft>>
  <2>u. /\ HandlerOnly /\ UNCHANGED <<req, reqLeft, c>> /\ ParseEOF
        /\ eofSimulated' = [eofSimulated EXCEPT ![d] = TRUE]
    BY <1>2, <1>c DEF EndOfFile, HandlerOnly, mainVars
  <2>1. ignore' = ignore \/ ignore' = [e \in Dir |-> TRUE]
    BY <2>u DEF ParseEOF
  <2>2. Moves
    BY <2>u, <2>1, <1>t DEF Moves, HandlerOnly, Content, Takes
  <2>3. hpc' \in HandlerPlace /\ resp' \in Sent \union {NoPacket} /\ respLeft' \in Nat
        /\ reported' \in Seq(Pair)
    <3> USE DEF HandlerPlace
    <3>1. CASE hpc = "request" \/ hpc \in {"discardDown", "discardUp"}
      BY <2>u, <1>t, <3>1 DEF ParseEOF
    <3>2. CASE hpc = "response"
      BY <2>u, <1>t, <3>2 DEF ParseEOF
    <3>3. CASE hpc = "requestBody"
      BY <2>u, <1>t, <3>3 DEF ParseEOF, AfterReport
    <3>4. CASE hpc = "responseBody"
      BY <2>u, <1>t, <1>r, <3>4 DEF ParseEOF, AfterReport
    <3>5. CASE hpc \in {"realBody", "realResponse"}
      BY <2>u, <1>t, <1>r, <3>5 DEF ParseEOF
    <3> QED
      BY <2>u, <3>1, <3>2, <3>3, <3>4, <3>5 DEF ParseEOF
  <2>4. ignore' \in [Dir -> BOOLEAN] /\ eofSimulated' \in [Dir -> BOOLEAN]
    BY <2>u, <2>1, <1>t
  <2>5. HttpTyped'
    BY <2>u, <2>3, <2>4, <1>t, HandlerTyped
  <2> QED
    BY <2>u, <2>2, <2>5
<1>3. ASSUME NEW d \in Dir, ReadTimeout(d) \/ CheckStuck(d)
      PROVE  \/ Reads(d) /\ EndOfFile(d)
             \/ HttpTyped' /\ HandlerOnly /\ Moves /\ Waits
  <2>1. CASE Reads(d) /\ EndOfFile(d)
    BY <2>1
  <2>2. CASE /\ UNCHANGED <<hpc, req, reqLeft, resp, respLeft, reported,
                            mainVars, c, ignore, eofSimulated>>
    <3>1. HandlerOnly /\ Waits
      BY <2>2, <1>c DEF HandlerOnly, Waits, mainVars
    <3>2. Moves
      BY <2>2, <3>1 DEF Moves, HandlerOnly, Content, Takes
    <3>3. HttpTyped'
      BY <2>2, <3>1, <1>t, HandlerTyped
    <3> QED
      BY <3>1, <3>2, <3>3
  <2> QED
    BY <1>3, <2>1, <2>2 DEF ReadTimeout, CheckStuck
<1>4. ASSUME RequestBodyRead \/ ResponseBodyRead
      PROVE  HttpTyped' /\ HandlerOnly /\ Moves
  <2>u. HandlerOnly /\ UNCHANGED <<req, reqLeft, resp, respLeft, c, ignore, eofSimulated>>
    BY <1>4, <1>c DEF RequestBodyRead, ResponseBodyRead, HandlerOnly, mainVars
  <2>1. Moves
    BY <2>u DEF Moves, HandlerOnly, Content, Takes
  <2>2. hpc' \in HandlerPlace /\ reported' \in Seq(Pair)
    <3>1. CASE RequestBodyRead
      BY <1>r, <1>t, <3>1 DEF RequestBodyRead, HandlerPlace
    <3>2. CASE ResponseBodyRead
      BY <1>r, <1>t, <3>2 DEF ResponseBodyRead, AfterReport, HandlerPlace
    <3> QED
      BY <1>4, <3>1, <3>2
  <2>3. HttpTyped'
    BY <2>u, <2>2, <1>t, HandlerTyped
  <2> QED
    BY <2>u, <2>1, <2>3
<1> QED
  <2>1. CASE \E d \in Dir : ReadPacket(d)
    BY <2>1, <1>1
  <2>2. CASE \E d \in Dir : ReadClosed(d) \/ ReadTimeout(d) \/ CheckStuck(d)
    <3>1. PICK d \in Dir : ReadClosed(d) \/ ReadTimeout(d) \/ CheckStuck(d)
      BY <2>2
    <3>2. (Reads(d) /\ EndOfFile(d)) \/ (HttpTyped' /\ HandlerOnly /\ Moves /\ Waits)
      BY <3>1, <1>3 DEF ReadClosed
    <3> QED
      BY <3>2, <1>2
  <2>3. CASE RequestBodyRead \/ ResponseBodyRead
    BY <2>3, <1>4
  <2> QED
    BY <2>1, <2>2, <2>3 DEF HandlerStep

(***************************************************************************)
(* Requests are reported in their order.  The invariant says where the     *)
(* next one is: what is not read yet comes after the request that is being *)
(* handled, and what was reported before it.                               *)
(***************************************************************************)
IsRequest(p) == p.kind = "request"
Handling == hpc \in {"response", "requestBody", "responseBody"}

\* The requests of the connection that are still to be read come in order after
\* the one that was read last.
Ahead ==
  /\ \A i \in DOMAIN Content("up") :
       /\ IsRequest(Content("up")[i]) => Content("up")[i].n > req.n
       /\ \A j \in DOMAIN Content("up") :
            i < j /\ IsRequest(Content("up")[i]) /\ IsRequest(Content("up")[j])
              => Content("up")[i].n < Content("up")[j].n
  /\ \A i \in next .. Len(Wire) :
       IsRequest(Wire[i]) =>
         /\ Wire[i].n > req.n
         /\ \A j \in DOMAIN Content("up") :
              IsRequest(Content("up")[j]) => Content("up")[j].n < Wire[i].n

\* What was reported comes before it; the request being handled was not reported.
Behind ==
  ~ExpectsContinue =>
    /\ hpc \notin {"realResponse", "realBody"}
    /\ \A i \in DOMAIN reported :
         reported[i].request <= req.n /\ (Handling => reported[i].request < req.n)
    /\ OnceInOrder

OrderInv == HttpTyped /\ Ahead /\ Behind

\* What the handler holds and what it has reported have numbers.
LEMMA HandlerFacts ==
  ASSUME HttpTyped
  PROVE  /\ req \in Packet /\ resp \in Packet
         /\ req.n \in Nat /\ resp.n \in Nat
         /\ Len(reported) \in Nat /\ DOMAIN reported = 1 .. Len(reported)
         /\ \A i \in DOMAIN reported : reported[i].request \in Nat /\ reported[i].response \in Nat
<1>1. req \in Packet /\ resp \in Packet
  BY WireFacts DEF HttpTyped
<1>2. reported \in Seq(Pair)
  BY DEF HttpTyped
<1>3. Len(reported) \in Nat /\ DOMAIN reported = 1 .. Len(reported)
      /\ \A i \in 1 .. Len(reported) : reported[i] \in Pair
  BY <1>2, LenProperties, ElementOfSeq
<1> QED
  BY <1>1, <1>3 DEF Packet, Pair

\* Nothing has been read at the start.
LEMMA HttpTypedInit ==
  ASSUME HttpInit
  PROVE  HttpTyped /\ \A d \in Dir : Content(d) = <<>>
<1>1. conn \in Connections /\ next = 1
  BY DEF HttpInit
<1>2. Len(Wire) \in Nat
  BY <1>1, WireFacts
<1>3. <<>> \in Seq(Sent) /\ <<>> \in Seq(Pair) /\ <<>> \o <<>> = <<>>
  OBVIOUS
<1> QED
  BY <1>1, <1>2, <1>3 DEF HttpInit, HttpTyped, HandlerPlace, Dir, Content

LEMMA OrderInit == HttpInit => OrderInv
<1> SUFFICES ASSUME HttpInit PROVE OrderInv
  OBVIOUS
<1>1. HttpTyped /\ Content("up") = <<>>
  BY HttpTypedInit DEF Dir
<1>2. req.n = 0 /\ reported = <<>> /\ hpc = "request"
  BY DEF HttpInit, NoPacket
<1>3. DOMAIN Content("up") = {} /\ DOMAIN reported = {}
  BY <1>1, <1>2
<1>4. NumberedInOrder(Wire) /\ Len(Wire) \in Nat /\ DOMAIN Wire = 1 .. Len(Wire) /\ next = 1
  BY <1>1, WireFacts DEF HttpTyped, HttpInit
<1>5. Ahead
  BY <1>2, <1>3, <1>4 DEF Ahead, NumberedInOrder, IsRequest
<1>6. Behind
  BY <1>2, <1>3 DEF Behind, OnceInOrder
<1> QED
  BY <1>1, <1>5, <1>6 DEF OrderInv

\* The main goroutine keeps the order.
LEMMA OrderMain ==
  ASSUME OrderInv, HttpTyped', UNCHANGED <<conn, handlerVars>>, Moves \/ Captures
  PROVE  OrderInv'
<1> DEFINE s == Content("up")
           w == Wire[next]
<1>u. Wire' = Wire /\ req' = req /\ hpc' = hpc /\ reported' = reported
  BY DEF Wire, handlerVars
<1>1. /\ s \in Seq(Sent) /\ Len(s) \in Nat /\ DOMAIN s = 1 .. Len(s)
      /\ Len(Wire) \in Nat /\ DOMAIN Wire = 1 .. Len(Wire) /\ NumberedInOrder(Wire)
      /\ Sent \subseteq Packet /\ \A i \in 1 .. Len(Wire) : Wire[i] \in Sent
      /\ next \in 1 .. Len(Wire) + 1 /\ req.n \in Nat
  <2>1. HttpTyped /\ "up" \in Dir
    BY DEF OrderInv, Dir
  <2>2. s \in Seq(Sent)
    BY <2>1, ContentFacts
  <2>3. req \in Packet
    BY <2>1, WireFacts DEF HttpTyped
  <2> QED
    BY <2>1, <2>2, <2>3, WireFacts, LenProperties DEF HttpTyped, Packet
<1>2. Behind'
  BY <1>u DEF OrderInv, Behind, Handling, OnceInOrder, ExpectsContinue
<1>3. /\ \A i \in DOMAIN s :
           /\ IsRequest(s[i]) => s[i].n > req.n
           /\ \A j \in DOMAIN s :
                i < j /\ IsRequest(s[i]) /\ IsRequest(s[j]) => s[i].n < s[j].n
      /\ \A i \in next .. Len(Wire) :
           IsRequest(Wire[i]) =>
             /\ Wire[i].n > req.n
             /\ \A j \in DOMAIN s : IsRequest(s[j]) => s[j].n < Wire[i].n
  BY DEF OrderInv, Ahead
<1> HIDE DEF s
<1>4. CASE s' = s /\ next' \in {next, next + 1}
  <2>1. \A i \in next' .. Len(Wire) : i \in next .. Len(Wire)
    BY <1>1, <1>4
  <2>2. Ahead'
    BY <1>3, <1>4, <1>u, <2>1 DEF Ahead, s
  <2> QED
    BY <1>2, <2>2 DEF OrderInv
<1>5. CASE s' = Append(s, w) /\ next <= Len(Wire) /\ next' = next + 1
  <2>1. w \in Sent
    BY <1>1, <1>5
  <2> HIDE DEF w
  <2>2. /\ DOMAIN s' = 1 .. Len(s) + 1 /\ s'[Len(s) + 1] = w
        /\ \A i \in 1 .. Len(s) : s'[i] = s[i]
    <3>1. /\ Append(s, w) \in Seq(Sent) /\ Len(Append(s, w)) = Len(s) + 1
          /\ Append(s, w)[Len(s) + 1] = w /\ \A i \in 1 .. Len(s) : Append(s, w)[i] = s[i]
      BY <1>1, <2>1, AppendProperties
    <3>2. DOMAIN Append(s, w) = 1 .. Len(Append(s, w))
      BY <3>1, LenProperties
    <3> QED
      BY <1>5, <3>1, <3>2
  <2>3. IsRequest(w) => w.n > req.n /\ \A j \in DOMAIN s : IsRequest(s[j]) => s[j].n < w.n
    BY <1>1, <1>3, <1>5 DEF w
  <2>4. \A i \in next' .. Len(Wire) : i \in next .. Len(Wire) /\ Wire[i] \in Packet
    BY <1>1, <1>5
  <2>5. \A i \in next' .. Len(Wire) : IsRequest(Wire[i]) /\ IsRequest(w) => w.n < Wire[i].n
    BY <1>1, <1>5 DEF NumberedInOrder, IsRequest, w
  <2>6. /\ \A i \in DOMAIN s' :
             /\ IsRequest(s'[i]) => s'[i].n > req.n
             /\ \A j \in DOMAIN s' :
                  i < j /\ IsRequest(s'[i]) /\ IsRequest(s'[j]) => s'[i].n < s'[j].n
        /\ \A i \in next' .. Len(Wire) :
             IsRequest(Wire[i]) =>
               /\ Wire[i].n > req.n
               /\ \A j \in DOMAIN s' : IsRequest(s'[j]) => s'[j].n < Wire[i].n
    BY <1>1, <1>3, <2>2, <2>3, <2>4, <2>5, SMTT(30)
  <2>7. Ahead'
    BY <2>6, <1>u DEF Ahead, s
  <2> QED
    BY <1>2, <2>7 DEF OrderInv
<1>6. (s' = s /\ next' \in {next, next + 1})
        \/ (s' = Append(s, w) /\ next <= Len(Wire) /\ next' = next + 1)
  BY DEF Moves, Captures, Dir, s
<1> QED
  BY <1>2, <1>4, <1>5, <1>6 DEF OrderInv

\* Reporting the request that is being handled keeps the order of the reports.
LEMMA ReportKeepsOrder ==
  ASSUME HttpTyped, UNCHANGED <<conn, req>>, NEW r \in Nat, Report(r),
         \A i \in DOMAIN reported : reported[i].request < req.n, OnceInOrder
  PROVE  /\ \A i \in DOMAIN reported' : reported'[i].request <= req.n
         /\ OnceInOrder'
<1>1. /\ DOMAIN reported' = 1 .. Len(reported) + 1
      /\ \A i \in DOMAIN reported : reported'[i] = reported[i]
      /\ reported'[Len(reported) + 1].request = req.n
  <2> DEFINE e == [request |-> req.n, response |-> r]
  <2>1. /\ DOMAIN reported' = 1 .. Len(reported) + 1
        /\ \A i \in DOMAIN reported : reported'[i] = reported[i]
        /\ reported'[Len(reported) + 1] = e
    BY ReportType
  <2>2. e.request = req.n
    OBVIOUS
  <2> QED
    BY <2>1, <2>2
<1>2. DOMAIN reported = 1 .. Len(reported) /\ Len(reported) \in Nat
      /\ (\A i \in DOMAIN reported : reported[i].request \in Nat) /\ req.n \in Nat
  BY HandlerFacts
<1>3. ExpectsContinue' = ExpectsContinue
  BY DEF ExpectsContinue, Wire
<1> QED
  BY <1>1, <1>2, <1>3 DEF OnceInOrder

\* The handler keeps it.
LEMMA OrderHandler ==
  ASSUME OrderInv, HandlerStep
  PROVE  OrderInv'
<1> DEFINE s == Content("up")
<1>0. HttpTyped
  BY DEF OrderInv
<1>t. HttpTyped' /\ HandlerOnly
  BY <1>0, HandlerCases
<1>u. Wire' = Wire /\ next' = next /\ conn' = conn
      /\ ExpectsContinue' = ExpectsContinue
  BY <1>t DEF HandlerOnly, Wire, ExpectsContinue
<1>1. /\ s \in Seq(Sent) /\ Len(s) \in Nat /\ DOMAIN s = 1 .. Len(s)
      /\ Len(Wire) \in Nat /\ Sent \subseteq Packet
      /\ (\A i \in 1 .. Len(Wire) : Wire[i] \in Sent)
      /\ next \in 1 .. Len(Wire) + 1 /\ req \in Packet /\ resp \in Packet
      /\ \A i \in DOMAIN reported : reported[i].request \in Nat
  <2>1. s \in Seq(Sent)
    BY <1>0, ContentFacts DEF Dir
  <2>2. Len(s) \in Nat /\ DOMAIN s = 1 .. Len(s)
    BY <2>1, LenProperties
  <2>3. next \in 1 .. Len(Wire) + 1 /\ conn \in Connections
    BY <1>0 DEF HttpTyped
  <2> QED
    BY <1>0, <2>1, <2>2, <2>3, WireFacts, HandlerFacts
<1>2. req.n \in Nat /\ resp.n \in Nat
  BY <1>0, HandlerFacts
<1>3. ~ExpectsContinue => ~req.expect
  <2>1. \A p \in Sent : ~ExpectsContinue => ~p.expect
    BY DEF ExpectsContinue, Sent, ToSet
  <2> QED
    BY <1>0, <2>1 DEF HttpTyped, NoPacket
<1>4. ASSUME ~ExpectsContinue
      PROVE  /\ hpc \notin {"realResponse", "realBody"} /\ OnceInOrder
             /\ \A i \in DOMAIN reported : reported[i].request <= req.n
             /\ Handling => \A i \in DOMAIN reported : reported[i].request < req.n
  BY <1>4 DEF OrderInv, Behind
\* Ahead is about what was not read.
<1>5. ASSUME Moves, req' = req PROVE Ahead'
  BY <1>5, <1>u DEF OrderInv, Ahead, Moves, Dir
<1>6. ASSUME s # <<>>, s' = Tail(s), req' = req \/ (IsRequest(s[1]) /\ req' = s[1])
      PROVE  Ahead'
  <2>1. Len(s) >= 1 /\ DOMAIN s' = 1 .. Len(s) - 1 /\ \A i \in DOMAIN s' : s'[i] = s[i + 1]
    <3> HIDE DEF s
    <3>1. /\ Tail(s) \in Seq(Sent) /\ Len(Tail(s)) = Len(s) - 1
          /\ \A i \in 1 .. Len(Tail(s)) : Tail(s)[i] = s[i + 1]
      BY <1>1, <1>6, HeadTailProperties
    <3>2. DOMAIN Tail(s) = 1 .. Len(Tail(s)) /\ Len(Tail(s)) \in Nat
      BY <3>1, LenProperties
    <3> QED
      BY <1>1, <1>6, <3>1, <3>2
  <2>2. /\ \A i \in DOMAIN s :
             /\ IsRequest(s[i]) => s[i].n > req.n
             /\ \A j \in DOMAIN s :
                  i < j /\ IsRequest(s[i]) /\ IsRequest(s[j]) => s[i].n < s[j].n
        /\ \A i \in next .. Len(Wire) :
             IsRequest(Wire[i]) =>
               /\ Wire[i].n > req.n
               /\ \A j \in DOMAIN s : IsRequest(s[j]) => s[j].n < Wire[i].n
    BY DEF OrderInv, Ahead
  <2> HIDE DEF s
  <2>3. 1 \in DOMAIN s /\ \A i \in DOMAIN s' : i + 1 \in DOMAIN s /\ 1 < i + 1
    BY <1>1, <2>1
  <2>4. /\ \A i \in DOMAIN s' :
             /\ IsRequest(s'[i]) => s'[i].n > req'.n
             /\ \A j \in DOMAIN s' :
                  i < j /\ IsRequest(s'[i]) /\ IsRequest(s'[j]) => s'[i].n < s'[j].n
        /\ \A i \in next .. Len(Wire) :
             IsRequest(Wire[i]) =>
               /\ Wire[i].n > req'.n
               /\ \A j \in DOMAIN s' : IsRequest(s'[j]) => s'[j].n < Wire[i].n
    <3>1. CASE req' = req
      BY <1>1, <2>1, <2>2, <2>3, <3>1
    <3>2. CASE IsRequest(s[1]) /\ req' = s[1]
      BY <1>1, <2>1, <2>2, <2>3, <3>2, SMTT(30)
    <3> QED
      BY <1>6, <3>1, <3>2
  <2> QED
    BY <2>4, <1>u DEF Ahead, s
\* Steps that neither read a request nor report.
<1>7. ASSUME req' = req, reported' = reported,
             ~ExpectsContinue => hpc' \notin {"realResponse", "realBody"},
             ~ExpectsContinue /\ Handling' => Handling
      PROVE  Behind'
  BY <1>7, <1>4, <1>u DEF Behind, OnceInOrder, Handling
\* Steps that report.
<1>8. ASSUME NEW r \in Nat, Report(r), req' = req, ~ExpectsContinue => Handling,
             ~ExpectsContinue => hpc' \in {"request", "discardDown"}
      PROVE  Behind'
  <2>1. ASSUME ~ExpectsContinue
        PROVE  (\A i \in DOMAIN reported' : reported'[i].request <= req.n) /\ OnceInOrder'
    BY <1>0, <1>4, <1>8, <1>u, <2>1, ReportKeepsOrder
  <2> QED
    BY <1>8, <1>u, <2>1 DEF Behind, Handling
<1>a. AfterReport /\ ~ExpectsContinue => hpc' \in {"request", "discardDown"}
  BY <1>3 DEF AfterReport
<1>9. ASSUME NEW d \in Dir, Reads(d), Consumes(d), Parse(Content(d)[1]) PROVE Ahead' /\ Behind'
  <2> DEFINE p == Content(d)[1]
  <2>1. CASE hpc = "request" /\ IsRequest(p)
    <3>1. d = "up" /\ req' = s[1] /\ IsRequest(s[1]) /\ hpc' = "response" /\ reported' = reported
      BY <1>9, <2>1 DEF Reads, Parse, IsRequest
    <3>2. s # <<>> /\ s' = Tail(s)
      BY <1>9, <3>1 DEF Consumes
    <3>3. Ahead'
      BY <3>1, <3>2, <1>6
    <3>4. req'.n > req.n /\ req'.n \in Nat
      <4>1. 1 \in DOMAIN s /\ s[1] \in Sent
        BY <1>1, <3>2, ElementOfSeq
      <4> QED
        BY <1>1, <3>1, <4>1 DEF OrderInv, Ahead, Packet
    <3>5. Behind'
      BY <1>1, <1>2, <1>4, <1>u, <3>1, <3>4 DEF Behind, OnceInOrder, Handling
    <3> QED
      BY <3>3, <3>5
  <2>2. CASE ~(hpc = "request" /\ IsRequest(p))
    <3>1. req' = req
      BY <1>9, <2>2 DEF Parse, IsRequest
    <3>2. Ahead'
      <4>1. CASE d = "up"
        BY <1>9, <3>1, <4>1, <1>6 DEF Consumes
      <4>2. CASE d # "up"
        BY <1>9, <3>1, <4>2, <1>u DEF OrderInv, Ahead, Consumes, Dir
      <4> QED
        BY <4>1, <4>2
    <3>3. Behind'
      <4>1. CASE hpc = "realResponse"
        BY <1>4, <4>1, <1>u DEF Behind
      <4>2. CASE hpc # "realResponse"
        <5>1. reported' = reported /\ (hpc' = hpc \/ hpc' = "discardDown"
                \/ (hpc = "response" /\ hpc' = "requestBody"))
          BY <1>9, <2>2, <4>2 DEF Parse, IsRequest
        <5> QED
          BY <1>4, <1>7, <3>1, <5>1 DEF Handling
      <4> QED
        BY <4>1, <4>2
    <3> QED
      BY <3>2, <3>3
  <2> QED
    BY <2>1, <2>2
<1>10. ASSUME NEW d \in Dir, Reads(d), Moves, ParseEOF, UNCHANGED <<req, reqLeft>>
       PROVE  Ahead' /\ Behind'
  <2>1. Ahead'
    BY <1>10, <1>5
  <2>2. CASE hpc \in {"request", "response", "discardDown", "discardUp"}
    <3>1. reported' = reported /\ hpc' \in {"discardDown", "requestBody", "discardUp", "done"}
          /\ (hpc' = "requestBody" => hpc = "response")
      BY <1>10, <2>2 DEF ParseEOF
    <3> QED
      BY <1>10, <1>7, <2>1, <3>1 DEF Handling
  <2>3. CASE hpc = "requestBody"
    <3>1. reported' = reported /\ AfterReport
      BY <1>10, <2>3 DEF ParseEOF
    <3> QED
      BY <1>10, <1>7, <1>a, <2>1, <3>1 DEF Handling
  <2>4. CASE hpc = "responseBody"
    <3>1. Report(resp.n) /\ AfterReport
      BY <1>10, <2>4 DEF ParseEOF
    <3> QED
      BY <1>10, <1>2, <1>8, <1>a, <2>1, <2>4, <3>1 DEF Handling
  <2>5. CASE hpc \in {"realBody", "realResponse"}
    BY <1>4, <1>u, <2>1, <2>5 DEF Behind
  <2> QED
    BY <1>10, <2>2, <2>3, <2>4, <2>5 DEF ParseEOF
<1>11. ASSUME Moves, Waits PROVE Ahead' /\ Behind'
  BY <1>4, <1>5, <1>7, <1>11 DEF Waits, Handling
<1>12. ASSUME Moves, RequestBodyRead PROVE Ahead' /\ Behind'
  <2>1. req' = req /\ hpc = "requestBody"
        /\ \/ Report(0) /\ hpc' = "discardDown"
           \/ hpc' = "responseBody" /\ reported' = reported
    BY <1>12 DEF RequestBodyRead
  <2>2. Ahead'
    BY <1>5, <1>12, <2>1
  <2>3. Behind'
    BY <1>7, <1>8, <2>1 DEF Handling
  <2> QED
    BY <2>2, <2>3
<1>13. ASSUME Moves, ResponseBodyRead PROVE Ahead' /\ Behind'
  <2>1. req' = req /\ Report(resp.n)
        /\ ((hpc = "responseBody" /\ AfterReport) \/ hpc = "realBody")
    BY <1>13 DEF ResponseBodyRead
  <2>2. Ahead'
    BY <1>5, <1>13, <2>1
  <2>3. Behind'
    BY <1>2, <1>4, <1>8, <1>a, <2>1 DEF Handling
  <2> QED
    BY <2>2, <2>3
<1> QED
  BY <1>0, <1>t, <1>9, <1>10, <1>11, <1>12, <1>13, HandlerCases DEF OrderInv

LEMMA OrderStep ==
  ASSUME OrderInv, [HttpNext]_httpVars
  PROVE  OrderInv'
<1>0. HttpTyped
  BY DEF OrderInv
<1>1. CASE ReceiveData \/ (\E d \in Dir : ReceiveControl(d)) \/ ForceCloseSilent \/ MainStep
  BY <1>0, <1>1, MainStepMoves, OrderMain
<1>2. CASE HandlerStep
  BY <1>2, OrderHandler
<1>3. CASE UNCHANGED httpVars
  <2>1. UNCHANGED <<conn, handlerVars, next, pending, c, ignore, eofSimulated, mainPc, target, burst>>
    BY <1>3 DEF httpVars, mainVars
  <2>2. HttpTyped'
    BY <1>0, <2>1 DEF HttpTyped, handlerVars, Wire, Sent
  <2>3. Moves
    BY <2>1 DEF Moves, Content, Takes
  <2> QED
    BY <2>1, <2>2, <2>3, OrderMain
<1> QED
  BY <1>1, <1>2, <1>3 DEF HttpNext

\* Requests of a connection are reported in the order they were sent and each
\* once, whatever is lost, cut short or given up, for every connection whose
\* requests do not wait for "100 continue".
THEOREM ReportedOnceInOrder == HttpSpec => []OnceInOrder
<1>1. OrderInv => OnceInOrder
  BY DEF OrderInv, Behind, OnceInOrder
<1> QED
  BY <1>1, OrderInit, OrderStep, PTL DEF HttpSpec

(***************************************************************************)
(* A response is reported with its own request.  The invariant says where  *)
(* in its two streams the handler is: at u and w, positions that the code  *)
(* does not keep.  What is not read yet of a stream follows its position,  *)
(* and when the handler begins with the next exchange it stands in both    *)
(* streams before the messages of the same exchange, or in one of them     *)
(* before the rest of a body, which net/http takes for no message.         *)
(***************************************************************************)
CapturedOf(d) == StreamOf(SubSeq(Wire, 1, next - 1), d)

\* s is a piece of t, from position p on.
PieceAt(s, t, p) ==
  /\ p + Len(s) <= Len(t)
  /\ \A i \in DOMAIN s : s[i] = t[p + i]

\* p packets of stream d have been read; the captured ones after them are still
\* to be read, all of them unless the stream takes no more packets.
Piece(d, p) ==
  /\ PieceAt(Content(d), CapturedOf(d), p)
  /\ Takes(d) => p + Len(Content(d)) = Len(CapturedOf(d))

\* After position p stream s has the left packets of the body of h that were not
\* read, and then the head that follows h.
Rest(s, p, left, h) ==
  /\ \A i \in DOMAIN s : p < i /\ i <= p + left => s[i].kind = "body"
  /\ p + left + 1 \in DOMAIN s =>
       s[p + left + 1].kind # "body" /\ Succeeds(h, s[p + left + 1])

\* A stream of the wire is a sequence of packets, and a longer capture shows
\* more of it.
LEMMA StreamFacts ==
  ASSUME HttpTyped, NEW d \in Dir
  PROVE  /\ StreamOf(Wire, d) \in Seq(Packet) /\ CapturedOf(d) \in Seq(Packet)
         /\ Len(CapturedOf(d)) <= Len(StreamOf(Wire, d))
         /\ \A i \in 1 .. Len(CapturedOf(d)) : CapturedOf(d)[i] = StreamOf(Wire, d)[i]
<1> DEFINE a == SubSeq(Wire, 1, next - 1)
           b == SubSeq(Wire, next, Len(Wire))
           S == {p \in Packet : p.dir = d}
<1>1. Wire \in Seq(Packet) /\ Len(Wire) \in Nat /\ next \in 1 .. Len(Wire) + 1
      /\ \A i \in 1 .. Len(Wire) : Wire[i] \in Packet
  BY WireFacts DEF HttpTyped
<1>2. a \in Seq(Packet)
  BY <1>1, SubSeqProperties
<1>3. b \in Seq(Packet)
  BY <1>1, SubSeqProperties
<1>4. Wire = a \o b
  <2>1. 1 \in 1 .. Len(Wire) + 1 /\ next - 1 \in 1 - 1 .. Len(Wire)
        /\ Len(Wire) \in next - 1 .. Len(Wire) /\ (next - 1) + 1 = next
    BY <1>1
  <2>2. a \o b = SubSeq(Wire, 1, Len(Wire))
    BY <1>1, <2>1, ConcatAdjacentSubSeq
  <2> QED
    BY <1>1, <2>2, SubSeqFull
<1> HIDE DEF a, b, S
<1>5. Among(a, S) \in Seq(Packet) /\ Among(b, S) \in Seq(Packet) /\ Among(Wire, S) \in Seq(Packet)
  BY <1>1, <1>2, <1>3, AmongType
<1>6. Among(Wire, S) = Among(a, S) \o Among(b, S)
  BY <1>2, <1>3, <1>4, AmongConcat
<1>7. /\ Len(Among(a, S) \o Among(b, S)) = Len(Among(a, S)) + Len(Among(b, S))
      /\ \A i \in 1 .. Len(Among(a, S)) + Len(Among(b, S)) :
           (Among(a, S) \o Among(b, S))[i] =
             IF i <= Len(Among(a, S)) THEN Among(a, S)[i] ELSE Among(b, S)[i - Len(Among(a, S))]
      /\ Len(Among(a, S)) \in Nat /\ Len(Among(b, S)) \in Nat
  BY <1>5, ConcatProperties, LenProperties
<1>8. StreamOf(Wire, d) = Among(Wire, S) /\ CapturedOf(d) = Among(a, S)
  BY DEF StreamOf, CapturedOf, S, a
<1> QED
  BY <1>5, <1>6, <1>7, <1>8

\* The next packet of the wire comes last in its stream.
LEMMA CapturedGrows ==
  ASSUME HttpTyped, conn' = conn, next <= Len(Wire), next' = next + 1, NEW d \in Dir
  PROVE  CapturedOf(d)' = IF Wire[next].dir = d THEN Append(CapturedOf(d), Wire[next])
                                              ELSE CapturedOf(d)
<1> DEFINE a == SubSeq(Wire, 1, next - 1)
           S == {p \in Packet : p.dir = d}
           q == Wire[next]
<1>1. Wire \in Seq(Packet) /\ Len(Wire) \in Nat /\ next \in 1 .. Len(Wire)
      /\ (\A i \in 1 .. Len(Wire) : Wire[i] \in Packet) /\ Wire' = Wire
  <2>1. Wire \in Seq(Packet) /\ Len(Wire) \in Nat /\ next \in 1 .. Len(Wire)
    BY WireFacts DEF HttpTyped
  <2>2. (\A i \in 1 .. Len(Wire) : Wire[i] \in Packet) /\ Wire' = Wire
    BY <2>1, ElementOfSeq DEF Wire
  <2> QED
    BY <2>1, <2>2
<1>2. a \in Seq(Packet) /\ q \in Packet
  <2>1. a \in Seq(Packet)
    BY <1>1, SubSeqProperties
  <2>2. q \in Packet
    BY <1>1
  <2> QED
    BY <2>1, <2>2
<1>3. SubSeq(Wire, 1, next) = Append(a, q)
  <2>1. Len(a) = next - 1 /\ \A i \in 1 .. next - 1 : a[i] = Wire[i]
    BY <1>1, SubSeqProperties
  <2>2. /\ SubSeq(Wire, 1, next) \in Seq(Packet) /\ Len(SubSeq(Wire, 1, next)) = next
        /\ \A i \in 1 .. next : SubSeq(Wire, 1, next)[i] = Wire[i]
    BY <1>1, SubSeqProperties
  <2> HIDE DEF a
  <2>3. /\ Append(a, q) \in Seq(Packet) /\ Len(Append(a, q)) = Len(a) + 1
        /\ \A i \in 1 .. Len(a) : Append(a, q)[i] = a[i]
        /\ Append(a, q)[Len(a) + 1] = q
    BY <1>2, AppendProperties
  <2>4. \A i \in 1 .. next : Append(a, q)[i] = Wire[i]
    BY <1>1, <2>1, <2>3
  <2> QED
    BY <1>1, <2>1, <2>2, <2>3, <2>4, SeqEqual
<1>4. CapturedOf(d)' = Among(Append(a, q), S) /\ CapturedOf(d) = Among(a, S)
  <2>1. next' - 1 = next
    BY <1>1
  <2> QED
    BY <1>1, <1>3, <2>1 DEF CapturedOf, StreamOf
<1>5. q \in S <=> q.dir = d
  BY <1>2
<1> HIDE DEF a, S, q
<1>6. Among(Append(a, q), S) = IF q \in S THEN Append(Among(a, S), q) ELSE Among(a, S)
  BY <1>2, AmongAppend
<1> QED
  BY <1>4, <1>5, <1>6 DEF q

\* A piece stays one when the sequence grows; the last piece may grow with it.
LEMMA PieceGrows ==
  ASSUME NEW S, NEW T, NEW s \in Seq(S), NEW t \in Seq(T), NEW p \in Nat, PieceAt(s, t, p),
         NEW e, e \in S, e \in T
  PROVE  /\ PieceAt(s, Append(t, e), p)
         /\ p + Len(s) = Len(t) => /\ PieceAt(Append(s, e), Append(t, e), p)
                                   /\ p + Len(Append(s, e)) = Len(Append(t, e))
<1> DEFINE u == Append(s, e)
           v == Append(t, e)
<1>1. /\ Len(s) \in Nat /\ DOMAIN s = 1 .. Len(s) /\ Len(t) \in Nat
      /\ p + Len(s) <= Len(t) /\ \A i \in 1 .. Len(s) : s[i] = t[p + i]
  BY LenProperties DEF PieceAt
<1>2. /\ Len(u) = Len(s) + 1 /\ DOMAIN u = 1 .. Len(s) + 1
      /\ u[Len(s) + 1] = e /\ \A i \in 1 .. Len(s) : u[i] = s[i]
  <2>1. /\ u \in Seq(S) /\ Len(u) = Len(s) + 1
        /\ u[Len(s) + 1] = e /\ \A i \in 1 .. Len(s) : u[i] = s[i]
    BY AppendProperties
  <2> HIDE DEF u
  <2> QED
    BY <2>1, LenProperties
<1>3. /\ Len(v) = Len(t) + 1 /\ v[Len(t) + 1] = e /\ \A i \in 1 .. Len(t) : v[i] = t[i]
  BY AppendProperties
<1> HIDE DEF u, v
<1>4. ASSUME NEW i \in 1 .. Len(s) PROVE s[i] = v[p + i]
  <2>1. p + i \in 1 .. Len(t)
    BY <1>1
  <2> QED
    BY <1>1, <1>3, <2>1
<1>5. PieceAt(s, v, p)
  BY <1>1, <1>3, <1>4 DEF PieceAt
<1>6. ASSUME p + Len(s) = Len(t) PROVE PieceAt(u, v, p) /\ p + Len(u) = Len(v)
  <2>1. u[Len(s) + 1] = v[p + (Len(s) + 1)]
    <3>1. p + (Len(s) + 1) = Len(t) + 1
      <4>1. Len(s) \in Nat /\ Len(t) \in Nat
        BY <1>1
      <4> QED
        BY ONLY <1>6, <4>1, p \in Nat
    <3> QED
      BY <1>2, <1>3, <3>1
  <2>2. \A i \in 1 .. Len(s) + 1 : u[i] = v[p + i]
    <3> SUFFICES ASSUME NEW i \in 1 .. Len(s) + 1 PROVE u[i] = v[p + i]
      OBVIOUS
    <3>1. CASE i = Len(s) + 1
      BY <2>1, <3>1
    <3>2. CASE i # Len(s) + 1
      <4>1. i \in 1 .. Len(s)
        BY <1>1, <3>2
      <4> QED
        BY <1>2, <1>4, <4>1
    <3> QED
      BY <3>1, <3>2
  <2>3. p + Len(u) = Len(v) /\ p + Len(u) <= Len(v)
    <3>1. /\ Len(u) = Len(s) + 1 /\ Len(v) = Len(t) + 1 /\ p + Len(s) = Len(t)
          /\ Len(s) \in Nat /\ Len(t) \in Nat
      BY <1>1, <1>2, <1>3, <1>6
    <3> QED
      BY ONLY <3>1, p \in Nat
  <2> QED
    BY <1>2, <2>2, <2>3 DEF PieceAt
<1> QED
  BY <1>5, <1>6 DEF u, v

\* The main goroutine moves no position.
LEMMA PieceMain ==
  ASSUME HttpTyped, conn' = conn, ~conn.lossy, Moves \/ Captures,
         NEW d \in Dir, NEW p \in Nat, Piece(d, p)
  PROVE  Piece(d, p)'
<1> DEFINE s == Content(d)
           t == CapturedOf(d)
           q == Wire[next]
<1>1. s \in Seq(Sent) /\ t \in Seq(Packet)
  BY ContentFacts, StreamFacts
<1>2. PieceAt(s, t, p) /\ (Takes(d) => p + Len(s) = Len(t))
  BY DEF Piece
<1>p. Piece(d, p)' <=> PieceAt(s', t', p) /\ (Takes(d)' => p + Len(s') = Len(t'))
  BY DEF Piece, PieceAt
<1>3. CASE Moves
  <2>1. s' = s /\ t' = t /\ (Takes(d)' => Takes(d))
    BY <1>3 DEF Moves, CapturedOf, Wire
  <2> QED
    BY <1>2, <1>p, <2>1
<1>4. CASE Captures
  <2>1. /\ next <= Len(Wire) /\ next' = next + 1 /\ Takes(d)' = Takes(d)
        /\ s' = IF d = q.dir /\ Takes(d) THEN Append(s, q) ELSE s
    BY <1>4 DEF Captures
  <2>2. t' = IF q.dir = d THEN Append(t, q) ELSE t
    BY <2>1, CapturedGrows
  <2>3. q \in Sent /\ q \in Packet
    <3>1. next \in 1 .. Len(Wire)
      BY <2>1, WireFacts DEF HttpTyped
    <3> QED
      BY <3>1, WireFacts DEF HttpTyped
  <2> HIDE DEF s, t, q
  <2>4. /\ PieceAt(s, Append(t, q), p)
        /\ p + Len(s) = Len(t) => /\ PieceAt(Append(s, q), Append(t, q), p)
                                  /\ p + Len(Append(s, q)) = Len(Append(t, q))
    BY ONLY <1>1, <1>2, <2>3, p \in Nat, PieceGrows
  <2>5. CASE d = q.dir /\ Takes(d)
    BY <1>2, <1>p, <2>1, <2>2, <2>4, <2>5
  <2>6. CASE d = q.dir /\ ~Takes(d)
    BY <1>2, <1>p, <2>1, <2>2, <2>4, <2>6
  <2>7. CASE d # q.dir
    BY <1>2, <1>p, <2>1, <2>2, <2>7
  <2> QED
    BY <2>5, <2>6, <2>7
<1> QED
  BY <1>3, <1>4

\* Reading a packet advances the position of its stream, and only that.
LEMMA PieceConsumes ==
  ASSUME HttpTyped, conn' = conn, NEW d \in Dir, Consumes(d)
  PROVE  /\ \A p \in Nat : Piece(d, p) =>
              /\ Piece(d, p + 1)' /\ p + 1 \in DOMAIN StreamOf(Wire, d)
              /\ StreamOf(Wire, d)[p + 1] = Content(d)[1]
         /\ \A e \in Dir \ {d}, p \in Nat : Piece(e, p) => Piece(e, p)'
<1>1. Wire' = Wire /\ next' = next /\ \A e \in Dir : CapturedOf(e)' = CapturedOf(e)
  BY DEF Consumes, Wire, CapturedOf
<1>2. ASSUME NEW p \in Nat, Piece(d, p)
      PROVE  /\ Piece(d, p + 1)' /\ p + 1 \in DOMAIN StreamOf(Wire, d)
             /\ StreamOf(Wire, d)[p + 1] = Content(d)[1]
  <2> DEFINE s == Content(d)
             t == CapturedOf(d)
             u == StreamOf(Wire, d)
  <2>1. /\ s \in Seq(Sent) /\ Len(s) \in Nat /\ DOMAIN s = 1 .. Len(s)
        /\ t \in Seq(Packet) /\ Len(t) \in Nat /\ DOMAIN t = 1 .. Len(t)
        /\ u \in Seq(Packet) /\ Len(u) \in Nat /\ DOMAIN u = 1 .. Len(u)
        /\ Len(t) <= Len(u) /\ \A i \in 1 .. Len(t) : t[i] = u[i]
    BY ContentFacts, StreamFacts, LenProperties
  <2>2. /\ p + Len(s) <= Len(t) /\ \A i \in 1 .. Len(s) : s[i] = t[p + i]
        /\ Takes(d) => p + Len(s) = Len(t)
    BY <1>2, <2>1 DEF Piece, PieceAt
  <2>3. s # <<>> /\ s' = Tail(s) /\ t' = t /\ Takes(d)' = Takes(d)
    BY <1>1 DEF Consumes
  <2>4. Piece(d, p + 1)' <=> /\ p + 1 + Len(s') <= Len(t')
                             /\ \A i \in DOMAIN s' : s'[i] = t'[p + 1 + i]
                             /\ Takes(d)' => p + 1 + Len(s') = Len(t')
    BY DEF Piece, PieceAt
  <2> HIDE DEF s, t, u
  <2>5. /\ Tail(s) \in Seq(Sent) /\ Len(Tail(s)) = Len(s) - 1
        /\ \A i \in 1 .. Len(Tail(s)) : Tail(s)[i] = s[i + 1]
    BY <2>1, <2>3, HeadTailProperties
  <2>6. DOMAIN Tail(s) = 1 .. Len(s) - 1 /\ Len(s) >= 1
    BY <2>1, <2>3, <2>5, LenProperties
  <2>7. \A i \in DOMAIN s' : s'[i] = t'[p + 1 + i]
    <3> SUFFICES ASSUME NEW i \in 1 .. Len(s) - 1 PROVE Tail(s)[i] = t[p + 1 + i]
      BY <2>3, <2>6
    <3>1. i \in 1 .. Len(Tail(s)) /\ i + 1 \in 1 .. Len(s) /\ p + (i + 1) = p + 1 + i
      BY <2>1, <2>5
    <3>2. Tail(s)[i] = s[i + 1] /\ s[i + 1] = t[p + (i + 1)]
      BY <2>2, <2>5, <3>1
    <3> QED
      BY <3>1, <3>2
  <2>8. Piece(d, p + 1)'
    <3>1. p + 1 + Len(s') = p + Len(s) /\ Len(t') = Len(t)
      <4>1. Len(s) \in Nat /\ Len(s') = Len(s) - 1 /\ Len(t') = Len(t)
        BY <2>1, <2>3, <2>5
      <4> QED
        BY ONLY <4>1, p \in Nat
    <3> QED
      BY <2>2, <2>3, <2>4, <2>7, <3>1
  <2>9. p + 1 \in DOMAIN u /\ u[p + 1] = s[1]
    <3>1. Len(s) \in Nat /\ Len(s) >= 1 /\ Len(t) \in Nat /\ p + Len(s) <= Len(t)
      BY <2>1, <2>2, <2>6
    <3>2. p + 1 \in 1 .. Len(t) /\ 1 \in 1 .. Len(s)
      BY ONLY <3>1, p \in Nat
    <3> QED
      BY <2>1, <2>2, <3>2
  <2> QED
    BY <2>8, <2>9 DEF s, u
<1>3. ASSUME NEW e \in Dir \ {d}, NEW p \in Nat, Piece(e, p) PROVE Piece(e, p)'
  BY <1>1, <1>3 DEF Piece, PieceAt, Consumes
<1> QED
  BY <1>2, <1>3

\* A packet of a body is read.
LEMMA RestRead ==
  ASSUME NEW s \in Seq(Packet), NEW p \in Nat, NEW left \in Nat \ {0}, NEW h, Rest(s, p, left, h)
  PROVE  Rest(s, p + 1, left - 1, h)
<1>1. (p + 1) + (left - 1) = p + left /\ (p + 1) + (left - 1) + 1 = p + left + 1
  OBVIOUS
<1>2. ASSUME NEW i \in DOMAIN s, p + 1 < i, i <= p + left PROVE s[i].kind = "body"
  <2>1. i \in Nat
    BY LenProperties
  <2>2. p < i
    BY <1>2, <2>1
  <2> QED
    BY <1>2, <2>2 DEF Rest
<1> QED
  BY <1>1, <1>2 DEF Rest

\* The first packet after a body is no body, a packet of the body is one.
LEMMA RestNext ==
  ASSUME NEW s, NEW p \in Nat, NEW left \in Nat, NEW h, Rest(s, p, left, h), p + 1 \in DOMAIN s
  PROVE  IF left = 0 THEN s[p + 1].kind # "body" /\ Succeeds(h, s[p + 1])
                     ELSE s[p + 1].kind = "body"
<1>1. CASE left = 0
  BY <1>1 DEF Rest
<1>2. CASE left # 0
  BY <1>2 DEF Rest
<1> QED
  BY <1>1, <1>2

\* A head is read: its body follows, and then the next head.
LEMMA RestOfHead ==
  ASSUME NEW s \in Seq(Packet), Framed(s), Consecutive(s), NEW p \in DOMAIN s, s[p].kind # "body"
  PROVE  Rest(s, p, s[p].body, s[p])
<1>1. /\ DOMAIN s = 1 .. Len(s) /\ Len(s) \in Nat /\ p \in 1 .. Len(s)
      /\ \A i \in DOMAIN s : s[i].body \in Nat
  <2>1. DOMAIN s = 1 .. Len(s) /\ Len(s) \in Nat /\ \A i \in 1 .. Len(s) : s[i] \in Packet
    BY LenProperties, ElementOfSeq
  <2> QED
    BY <2>1 DEF Packet
<1>2. ASSUME NEW i \in DOMAIN s, p < i, i <= p + s[p].body PROVE s[i].kind = "body"
  <2>1. p \in 1 .. i - 1
    BY <1>1, <1>2
  <2> QED
    BY <1>2, <2>1 DEF Framed
<1>3. ASSUME p + s[p].body + 1 \in DOMAIN s
      PROVE  s[p + s[p].body + 1].kind # "body" /\ Succeeds(s[p], s[p + s[p].body + 1])
  <2> DEFINE i == p + s[p].body + 1
  <2>1. i \in DOMAIN s /\ p \in 1 .. i - 1
    BY <1>1, <1>3
  <2>2. Succeeds(s[p], s[i])
    BY <2>1 DEF Consecutive
  <2>3. ASSUME s[i].kind = "body" PROVE FALSE
    <3>1. PICK h \in 1 .. i - 1 : s[h].kind # "body" /\ i <= h + s[h].body
      BY <2>1, <2>3 DEF Framed
    <3>2. h \in DOMAIN s /\ s[h].body \in Nat /\ s[p].body \in Nat
      BY <1>1, <2>1, <3>1
    <3>3. CASE h = p
      BY <1>1, <3>1, <3>2, <3>3
    <3>4. CASE h > p
      BY <1>1, <1>2, <3>1, <3>2, <3>4
    <3>5. CASE h < p
      <4>1. h \in 1 .. p - 1 /\ p <= h + s[h].body
        BY <1>1, <3>1, <3>2, <3>5
      <4> QED
        BY <3>1, <4>1 DEF Framed
    <3> QED
      BY <1>1, <3>2, <3>3, <3>4, <3>5
  <2> QED
    BY <2>2, <2>3
<1> QED
  BY <1>2, <1>3 DEF Rest

\* Before anything is read.
LEMMA RestInit ==
  ASSUME NEW s \in Seq(Packet), Framed(s), Consecutive(s)
  PROVE  Rest(s, 0, 0, NoPacket)
<1>1. DOMAIN s = 1 .. Len(s) /\ Len(s) \in Nat
  BY LenProperties
<1>2. 1 \in DOMAIN s => s # <<>> /\ s[1].kind # "body"
  BY <1>1 DEF Framed
<1>3. 1 \in DOMAIN s => Succeeds(NoPacket, s[1])
  BY <1>2 DEF Consecutive, Succeeds, NoPacket
<1> QED
  BY <1>1, <1>2, <1>3 DEF Rest

(***************************************************************************)
(* Which message of its streams the handler holds.                         *)
(***************************************************************************)
UpStream == StreamOf(Wire, "up")
DownStream == StreamOf(Wire, "down")

Parsing == {"request", "response", "requestBody", "responseBody", "realResponse", "realBody"}

\* handle() waits for no response, or there was none that net/http could read.
NoAnswer == hpc = "requestBody" /\ resp = NoPacket

\* What the handler has read of its streams, u and w packets, ends in the
\* messages that it holds.
Parsed(u, w) ==
  hpc \in Parsing =>
    /\ Rest(UpStream, u, reqLeft, req)
    /\ ~NoAnswer => Rest(DownStream, w, respLeft, resp)

\* The messages that the handler holds belong together.
Matching ==
  /\ req.kind # "continue"
  /\ hpc = "request" /\ reqLeft = 0 /\ respLeft = 0 => resp.n = req.n /\ resp.kind # "continue"
  /\ hpc = "response" =>
       /\ \E j \in DOMAIN UpStream : UpStream[j] = req /\ req.kind = "request"
       /\ respLeft = 0 => req.n = resp.n + 1 /\ resp.kind # "continue"
  /\ hpc \in {"requestBody", "responseBody"} /\ ~NoAnswer =>
       resp.n = req.n /\ (resp.kind = "continue" => req.expect /\ respLeft = 0)
  /\ hpc = "realResponse" => resp.n = req.n /\ resp.kind = "continue" /\ respLeft = 0
  /\ hpc = "realBody" => resp.n = req.n /\ resp.kind # "continue"

Positioned == \E u, w \in Nat : Piece("up", u) /\ Piece("down", w) /\ Parsed(u, w)

HttpPairInv ==
  /\ HttpTyped
  /\ ~conn.lossy => PairedWithOwnResponse /\ Matching /\ Positioned

\* What a connection of peers that speak HTTP/1.1 sends.
LEMMA WellFormedFacts ==
  ASSUME HttpTyped, WellFormed(Wire)
  PROVE  /\ UpStream \in Seq(Packet) /\ Framed(UpStream) /\ Consecutive(UpStream)
         /\ DownStream \in Seq(Packet) /\ Framed(DownStream) /\ Consecutive(DownStream)
         /\ \A i \in DOMAIN DownStream :
              DownStream[i].kind = "continue" =>
                /\ DownStream[i].body = 0
                /\ \A j \in DOMAIN UpStream :
                     UpStream[j].kind = "request" /\ UpStream[j].n = DownStream[i].n
                       => UpStream[j].expect
<1>1. UpStream \in Seq(Packet) /\ DownStream \in Seq(Packet)
  BY StreamFacts DEF Dir, UpStream, DownStream
<1> QED
  BY <1>1 DEF WellFormed, UpStream, DownStream

\* A step that the streams' positions survive, and the pairs reported.
LEMMA StepFacts ==
  ASSUME conn' = conn
  PROVE  /\ UpStream' = UpStream /\ DownStream' = DownStream
         /\ \A u, w : Parsed(u, w)' <=>
              (hpc' \in Parsing =>
                 /\ Rest(UpStream, u, reqLeft', req')
                 /\ ~(hpc' = "requestBody" /\ resp' = NoPacket) => Rest(DownStream, w, respLeft', resp'))
         /\ reported' = reported /\ PairedWithOwnResponse => PairedWithOwnResponse'
<1>1. UpStream' = UpStream /\ DownStream' = DownStream
  BY DEF UpStream, DownStream, Wire
<1>2. \A u, w : Parsed(u, w)' <=>
        (hpc' \in Parsing =>
           /\ Rest(UpStream, u, reqLeft', req')
           /\ ~(hpc' = "requestBody" /\ resp' = NoPacket) => Rest(DownStream, w, respLeft', resp'))
  BY <1>1 DEF Parsed, NoAnswer, Rest
<1>3. reported' = reported /\ PairedWithOwnResponse => PairedWithOwnResponse'
  BY DEF PairedWithOwnResponse
<1> QED
  BY <1>1, <1>2, <1>3

\* A report of the request's own response, or of none.
LEMMA ReportKeepsPairs ==
  ASSUME HttpTyped, conn' = conn, NEW r \in Nat, Report(r), r \in {0, req.n}, PairedWithOwnResponse
  PROVE  PairedWithOwnResponse'
<1>1. /\ DOMAIN reported' = 1 .. Len(reported) + 1
      /\ \A i \in DOMAIN reported : reported'[i] = reported[i]
      /\ reported'[Len(reported) + 1] = [request |-> req.n, response |-> r]
      /\ Len(reported) \in Nat /\ DOMAIN reported = 1 .. Len(reported)
  BY ReportType, HandlerFacts
<1>2. ASSUME NEW i \in DOMAIN reported', ~conn.lossy
      PROVE  reported'[i].response \in {0, reported'[i].request}
  <2>1. CASE i \in DOMAIN reported
    BY <1>1, <1>2, <2>1 DEF PairedWithOwnResponse
  <2>2. CASE i = Len(reported) + 1
    BY <1>1, <2>2
  <2> QED
    BY <1>1, <2>1, <2>2
<1> QED
  BY <1>2 DEF PairedWithOwnResponse

\* The handler reads a packet of the requests.
LEMMA PairsReadUp ==
  ASSUME HttpTyped, conn' = conn, WellFormed(Wire),
         PairedWithOwnResponse, Matching,
         Reads("up"), Consumes("up"), NEW p \in Packet, p = Content("up")[1], Parse(p),
         NEW u \in Nat, NEW w \in Nat, Piece("up", u), Piece("down", w), Parsed(u, w)
  PROVE  PairedWithOwnResponse' /\ Matching' /\ Positioned'
<1>u. /\ UpStream' = UpStream
      /\ \A i, j : Parsed(i, j)' <=>
           (hpc' \in Parsing =>
              /\ Rest(UpStream, i, reqLeft', req')
              /\ ~(hpc' = "requestBody" /\ resp' = NoPacket) => Rest(DownStream, j, respLeft', resp'))
      /\ reported' = reported => PairedWithOwnResponse'
  BY StepFacts
<1>1. /\ Piece("up", u + 1)' /\ Piece("down", w)'
      /\ u + 1 \in DOMAIN UpStream /\ UpStream[u + 1] = p
  BY PieceConsumes DEF Dir, UpStream
<1>2. ASSUME Parsed(u + 1, w)' PROVE Positioned'
  BY <1>1, <1>2 DEF Positioned
<1>w. UpStream \in Seq(Packet) /\ Framed(UpStream) /\ Consecutive(UpStream)
  BY WellFormedFacts
<1>t. reqLeft \in Nat /\ req.n \in Nat
  BY HandlerFacts DEF HttpTyped
<1>3. CASE hpc = "request" /\ p.kind = "request"
  <2>1. /\ req' = p /\ reqLeft' = p.body /\ hpc' = "response"
        /\ resp' = resp /\ respLeft' = respLeft /\ reported' = reported
    BY <1>3 DEF Parse
  <2>2. Rest(UpStream, u, reqLeft, req) /\ Rest(DownStream, w, respLeft, resp)
    BY <1>3 DEF Parsed, Parsing, NoAnswer
  <2>3. reqLeft = 0 /\ Succeeds(req, p)
    <3>1. IF reqLeft = 0 THEN p.kind # "body" /\ Succeeds(req, p) ELSE p.kind = "body"
      BY <1>1, <1>w, <1>t, <2>2, RestNext
    <3> QED
      BY <1>3, <3>1
  <2>4. p.n = req.n + 1
    BY <2>3 DEF Succeeds, Matching
  <2>5. Rest(UpStream, u + 1, p.body, p)
    BY <1>1, <1>3, <1>w, RestOfHead
  <2>6. Parsed(u + 1, w)'
    BY <1>u, <2>1, <2>2, <2>5
  <2>7. Matching'
    <3>1. respLeft = 0 => p.n = resp.n + 1 /\ resp.kind # "continue"
      BY <1>3, <2>3, <2>4 DEF Matching
    <3> QED
      BY <1>u, <1>1, <1>3, <2>1, <3>1 DEF Matching
  <2> QED
    BY <1>u, <1>2, <2>1, <2>6, <2>7
<1>4. CASE (hpc = "request" /\ p.kind # "request") \/ hpc = "discardUp"
  <2>1. /\ hpc' \in {"discardDown", "discardUp"} /\ req' = req /\ reported' = reported
    BY <1>4 DEF Parse
  <2>2. Parsed(u + 1, w)'
    BY <1>u, <2>1 DEF Parsing
  <2>3. Matching'
    BY <2>1 DEF Matching
  <2> QED
    BY <1>u, <1>2, <2>1, <2>2, <2>3
<1>5. CASE hpc = "requestBody"
  <2>1. /\ reqLeft' = reqLeft - 1 /\ reqLeft \in Nat \ {0}
        /\ hpc' = hpc /\ req' = req /\ resp' = resp /\ respLeft' = respLeft /\ reported' = reported
    BY <1>5, <1>t DEF Parse, Reads
  <2>2. Rest(UpStream, u, reqLeft, req) /\ (resp # NoPacket => Rest(DownStream, w, respLeft, resp))
    BY <1>5 DEF Parsed, Parsing, NoAnswer
  <2>3. Rest(UpStream, u + 1, reqLeft - 1, req)
    BY <1>w, <2>1, <2>2, RestRead
  <2>4. Parsed(u + 1, w)'
    <3>1. reqLeft' = reqLeft - 1 /\ req' = req /\ resp' = resp /\ respLeft' = respLeft
      BY <2>1
    <3>2. Rest(UpStream, u + 1, reqLeft', req')
      BY <2>3, <3>1
    <3>3. resp' # NoPacket => Rest(DownStream, w, respLeft', resp')
      BY <2>2, <3>1
    <3>4. hpc' = "requestBody"
      BY <1>5, <2>1
    <3> QED
      BY <1>u, <3>2, <3>3, <3>4
  <2>5. Matching'
    BY <1>5, <2>1 DEF Matching, NoAnswer
  <2> QED
    BY <1>u, <1>2, <2>1, <2>4, <2>5
<1> QED
  BY <1>3, <1>4, <1>5 DEF Reads

\* The handler reads a packet of the responses.
LEMMA PairsReadDown ==
  ASSUME HttpTyped, conn' = conn, WellFormed(Wire),
         PairedWithOwnResponse, Matching,
         Reads("down"), Consumes("down"), NEW p \in Packet, p = Content("down")[1], Parse(p),
         NEW u \in Nat, NEW w \in Nat, Piece("up", u), Piece("down", w), Parsed(u, w)
  PROVE  PairedWithOwnResponse' /\ Matching' /\ Positioned'
<1>u. /\ UpStream' = UpStream
      /\ \A i, j : Parsed(i, j)' <=>
           (hpc' \in Parsing =>
              /\ Rest(UpStream, i, reqLeft', req')
              /\ ~(hpc' = "requestBody" /\ resp' = NoPacket) => Rest(DownStream, j, respLeft', resp'))
      /\ reported' = reported => PairedWithOwnResponse'
  BY StepFacts
<1>1. /\ Piece("up", u)' /\ Piece("down", w + 1)'
      /\ w + 1 \in DOMAIN DownStream /\ DownStream[w + 1] = p
  BY PieceConsumes DEF Dir, DownStream
<1>2. ASSUME Parsed(u, w + 1)' PROVE Positioned'
  BY <1>1, <1>2 DEF Positioned
<1>w. /\ DownStream \in Seq(Packet) /\ Framed(DownStream) /\ Consecutive(DownStream)
      /\ p.kind = "continue" =>
           /\ p.body = 0
           /\ \A j \in DOMAIN UpStream :
                UpStream[j].kind = "request" /\ UpStream[j].n = p.n => UpStream[j].expect
  BY <1>1, WellFormedFacts
<1>t. respLeft \in Nat /\ req.n \in Nat /\ resp.n \in Nat
  BY HandlerFacts DEF HttpTyped
<1>n. IsResponse(p) => p # NoPacket /\ p.kind # "body"
  BY DEF IsResponse, NoPacket
<1>h. IsResponse(p) => Rest(DownStream, w + 1, p.body, p)
  BY <1>1, <1>n, <1>w, RestOfHead
<1>3. CASE hpc = "response"
  <2>1. /\ resp' = (IF IsResponse(p) THEN p ELSE NoPacket)
        /\ respLeft' = (IF IsResponse(p) THEN p.body ELSE 0)
        /\ hpc' = "requestBody" /\ req' = req /\ reqLeft' = reqLeft /\ reported' = reported
    BY <1>3 DEF Parse
  <2>2. Rest(UpStream, u, reqLeft, req) /\ Rest(DownStream, w, respLeft, resp)
    BY <1>3 DEF Parsed, Parsing, NoAnswer
  <2>3. IF respLeft = 0 THEN p.kind # "body" /\ Succeeds(resp, p) ELSE p.kind = "body"
    BY <1>1, <1>w, <1>t, <2>2, RestNext
  <2>4. Parsed(u, w + 1)'
    BY <1>u, <1>h, <1>n, <2>1, <2>2
  <2>5. Matching'
    <3>1. CASE IsResponse(p)
      <4>1. respLeft = 0 /\ Succeeds(resp, p)
        BY <1>n, <2>3, <3>1
      <4>2. p.n = req.n
        BY <1>3, <1>t, <4>1 DEF Matching, Succeeds
      <4>3. p.kind = "continue" => req.expect /\ p.body = 0
        BY <1>3, <1>w, <4>2 DEF Matching
      <4> QED
        BY <2>1, <3>1, <4>2, <4>3 DEF Matching
    <3>2. CASE ~IsResponse(p)
      BY <2>1, <3>2 DEF Matching, NoAnswer
    <3> QED
      BY <3>1, <3>2
  <2> QED
    BY <1>u, <1>2, <2>1, <2>4, <2>5
<1>4. CASE hpc \in {"responseBody", "realBody"}
  <2>1. /\ respLeft' = respLeft - 1 /\ respLeft \in Nat \ {0}
        /\ hpc' = hpc /\ req' = req /\ reqLeft' = reqLeft /\ resp' = resp /\ reported' = reported
    BY <1>4, <1>t DEF Parse, Reads
  <2>2. Rest(UpStream, u, reqLeft, req) /\ Rest(DownStream, w, respLeft, resp)
    BY <1>4 DEF Parsed, Parsing, NoAnswer
  <2>3. Rest(DownStream, w + 1, respLeft - 1, resp)
    BY <1>w, <2>1, <2>2, RestRead
  <2>4. Parsed(u, w + 1)'
    BY <1>u, <2>1, <2>2, <2>3
  <2>5. Matching'
    BY <1>4, <2>1 DEF Matching, NoAnswer
  <2> QED
    BY <1>u, <1>2, <2>1, <2>4, <2>5
<1>5. CASE hpc = "realResponse" /\ IsResponse(p)
  <2>1. /\ resp' = p /\ respLeft' = p.body /\ hpc' = "realBody"
        /\ req' = req /\ reqLeft' = reqLeft /\ reported' = reported
    BY <1>5 DEF Parse
  <2>2. Rest(UpStream, u, reqLeft, req) /\ Rest(DownStream, w, respLeft, resp)
    BY <1>5 DEF Parsed, Parsing, NoAnswer
  <2>3. IF respLeft = 0 THEN p.kind # "body" /\ Succeeds(resp, p) ELSE p.kind = "body"
    BY <1>1, <1>w, <1>t, <2>2, RestNext
  <2>4. p.n = req.n /\ p.kind = "response"
    BY <1>5, <2>3 DEF Matching, Succeeds
  <2>5. Parsed(u, w + 1)'
    BY <1>u, <1>5, <1>h, <2>1, <2>2
  <2>6. Matching'
    BY <2>1, <2>4 DEF Matching
  <2> QED
    BY <1>u, <1>2, <2>1, <2>5, <2>6
<1>6. CASE (hpc = "realResponse" /\ ~IsResponse(p)) \/ hpc = "discardDown"
  <2>1. hpc' = "discardDown" /\ req' = req /\ (reported' = reported \/ Report(0))
    BY <1>6 DEF Parse
  <2>2. Parsed(u, w + 1)'
    BY <1>u, <2>1 DEF Parsing
  <2>3. Matching'
    BY <2>1 DEF Matching
  <2>4. PairedWithOwnResponse'
    BY <1>u, <2>1, ReportKeepsPairs
  <2> QED
    BY <1>2, <2>2, <2>3, <2>4
<1> QED
  BY <1>3, <1>4, <1>5, <1>6 DEF Reads

\* The handler reads nothing: it meets the end of a stream, waits, or has read a
\* body.
LEMMA PairsUnread ==
  ASSUME HttpTyped, conn' = conn, Moves, ~conn.lossy,
         PairedWithOwnResponse, Matching, Positioned,
         UNCHANGED <<req, reqLeft>>,
         \/ (\E d \in Dir : Reads(d)) /\ ParseEOF
         \/ Waits \/ RequestBodyRead \/ ResponseBodyRead
  PROVE  PairedWithOwnResponse' /\ Matching' /\ Positioned'
<1>1. PICK u \in Nat, w \in Nat : Piece("up", u) /\ Piece("down", w) /\ Parsed(u, w)
  BY DEF Positioned
<1>2. Piece("up", u)' /\ Piece("down", w)'
  BY <1>1, PieceMain DEF Dir
<1>u. /\ UpStream' = UpStream
      /\ Parsed(u, w)' <=>
           (hpc' \in Parsing =>
              /\ Rest(UpStream, u, reqLeft', req')
              /\ ~(hpc' = "requestBody" /\ resp' = NoPacket) => Rest(DownStream, w, respLeft', resp'))
      /\ reported' = reported => PairedWithOwnResponse'
  BY StepFacts
<1>p. ASSUME Parsed(u, w)' PROVE Positioned'
  BY <1>2, <1>p DEF Positioned
<1>t. req.n \in Nat /\ resp.n \in Nat
  BY HandlerFacts
<1>r. /\ Report(0) => PairedWithOwnResponse'
      /\ resp.n = req.n /\ Report(resp.n) => PairedWithOwnResponse'
  BY <1>t, ReportKeepsPairs
\* The handler goes on with the messages it holds, or gives the connection up.
<1>k. ASSUME ~NoAnswer, hpc \in Parsing, resp' = resp, respLeft' = respLeft
      PROVE  Parsed(u, w)'
  BY <1>1, <1>u, <1>k DEF Parsed
<1>d. ASSUME hpc' \in {"discardDown", "discardUp", "done"} PROVE Parsed(u, w)' /\ Matching'
  <2>1. Parsed(u, w)'
    BY <1>u, <1>d DEF Parsing
  <2>2. Matching'
    BY <1>d DEF Matching
  <2> QED
    BY <2>1, <2>2
\* After the first report.
<1>a. ASSUME hpc \in {"requestBody", "responseBody"}, AfterReport, resp' = resp, respLeft' = respLeft
      PROVE  Parsed(u, w)' /\ Matching'
  <2>1. CASE resp = NoPacket
    BY <1>a, <1>d, <2>1 DEF AfterReport
  <2>2. CASE resp # NoPacket
    <3>1. ~NoAnswer /\ hpc \in Parsing
      BY <1>a, <2>2 DEF NoAnswer, Parsing
    <3>2. Parsed(u, w)'
      BY <1>a, <1>k, <3>1
    <3>3. resp.n = req.n /\ (resp.kind = "continue" => req.expect /\ respLeft = 0)
      BY <1>a, <3>1 DEF Matching
    <3>4. \/ hpc' = "realResponse" /\ resp.kind = "continue"
          \/ hpc' = "request" /\ ~(req.expect /\ resp.kind = "continue")
      BY <1>a, <2>2 DEF AfterReport
    <3>5. Matching'
      BY <1>a, <3>3, <3>4 DEF Matching
    <3> QED
      BY <3>2, <3>5
  <2> QED
    BY <2>1, <2>2
<1>3. CASE (\E d \in Dir : Reads(d)) /\ ParseEOF
  <2>1. CASE hpc \in {"request", "discardDown", "discardUp"}
    <3>1. hpc' \in {"discardDown", "discardUp", "done"} /\ reported' = reported
      BY <1>3, <2>1 DEF ParseEOF
    <3> QED
      BY <1>d, <1>p, <1>u, <3>1
  <2>2. CASE hpc = "response"
    <3>1. hpc' = "requestBody" /\ resp' = NoPacket /\ reported' = reported
      BY <1>3, <2>2 DEF ParseEOF
    <3>2. Parsed(u, w)'
      BY <1>1, <1>u, <2>2, <3>1 DEF Parsed, Parsing
    <3>3. Matching'
      BY <3>1 DEF Matching, NoAnswer
    <3> QED
      BY <1>p, <1>u, <3>1, <3>2, <3>3
  <2>3. CASE hpc = "requestBody"
    <3>1. AfterReport /\ resp' = resp /\ respLeft' = respLeft /\ reported' = reported
      BY <1>3, <2>3 DEF ParseEOF
    <3> QED
      BY <1>a, <1>p, <1>u, <2>3, <3>1
  <2>4. CASE hpc = "responseBody"
    <3>1. AfterReport /\ resp' = resp /\ respLeft' = respLeft /\ Report(resp.n)
      BY <1>3, <2>4 DEF ParseEOF
    <3>2. resp.n = req.n
      BY <2>4 DEF Matching, NoAnswer
    <3> QED
      BY <1>a, <1>p, <1>r, <2>4, <3>1, <3>2
  <2>5. CASE hpc = "realBody"
    <3>1. hpc' = "request" /\ resp' = resp /\ respLeft' = respLeft /\ Report(resp.n)
      BY <1>3, <2>5 DEF ParseEOF
    <3>2. resp.n = req.n /\ resp.kind # "continue"
      BY <2>5 DEF Matching
    <3>3. Parsed(u, w)'
      BY <1>k, <2>5, <3>1 DEF NoAnswer, Parsing
    <3>4. Matching'
      BY <3>1, <3>2 DEF Matching
    <3> QED
      BY <1>p, <1>r, <3>1, <3>2, <3>3, <3>4
  <2>6. CASE hpc = "realResponse"
    <3>1. hpc' = "discardDown" /\ Report(0)
      BY <1>3, <2>6 DEF ParseEOF
    <3> QED
      BY <1>d, <1>p, <1>r, <3>1
  <2> QED
    BY <1>3, <2>1, <2>2, <2>3, <2>4, <2>5, <2>6 DEF ParseEOF
<1>4. CASE Waits
  <2>1. Parsed(u, w)'
    BY <1>1, <1>u, <1>4 DEF Waits, Parsed, NoAnswer
  <2>2. Matching'
    BY <1>u, <1>4 DEF Waits, Matching, NoAnswer
  <2> QED
    BY <1>4, <1>p, <1>u, <2>1, <2>2 DEF Waits
<1>5. CASE RequestBodyRead
  <2>1. CASE resp = NoPacket
    <3>1. hpc' = "discardDown" /\ Report(0)
      BY <1>5, <2>1 DEF RequestBodyRead
    <3> QED
      BY <1>d, <1>p, <1>r, <3>1
  <2>2. CASE resp # NoPacket
    <3>1. /\ hpc = "requestBody" /\ hpc' = "responseBody"
          /\ resp' = resp /\ respLeft' = respLeft /\ reported' = reported
      BY <1>5, <2>2 DEF RequestBodyRead
    <3>2. Parsed(u, w)'
      BY <1>k, <2>2, <3>1 DEF NoAnswer, Parsing
    <3>3. Matching'
      BY <2>2, <3>1 DEF Matching, NoAnswer
    <3> QED
      BY <1>p, <1>u, <3>1, <3>2, <3>3
  <2> QED
    BY <2>1, <2>2
<1>6. CASE ResponseBodyRead
  <2>1. resp' = resp /\ respLeft' = respLeft /\ respLeft = 0 /\ Report(resp.n)
    BY <1>6 DEF ResponseBodyRead
  <2>2. CASE hpc = "responseBody"
    <3>1. AfterReport /\ resp.n = req.n
      BY <1>6, <2>2 DEF ResponseBodyRead, Matching, NoAnswer
    <3> QED
      BY <1>a, <1>p, <1>r, <2>1, <2>2, <3>1
  <2>3. CASE hpc = "realBody"
    <3>1. hpc' = "request" /\ resp.n = req.n /\ resp.kind # "continue"
      BY <1>6, <2>3 DEF ResponseBodyRead, Matching
    <3>2. Parsed(u, w)'
      BY <1>k, <2>1, <2>3 DEF NoAnswer, Parsing
    <3>3. Matching'
      BY <2>1, <3>1 DEF Matching
    <3> QED
      BY <1>p, <1>r, <2>1, <3>1, <3>2, <3>3
  <2> QED
    BY <1>6, <2>2, <2>3 DEF ResponseBodyRead
<1> QED
  BY <1>3, <1>4, <1>5, <1>6

\* Nothing is reported and nothing is read at the start.
LEMMA PairsInit ==
  ASSUME HttpInit, ~conn.lossy => WellFormed(Wire)
  PROVE  HttpPairInv
<1>1. HttpTyped /\ (\A d \in Dir : Content(d) = <<>>) /\ next = 1
      /\ hpc = "request" /\ req = NoPacket /\ resp = NoPacket /\ reqLeft = 0 /\ respLeft = 0
      /\ reported = <<>>
  BY HttpTypedInit DEF HttpInit
<1> SUFFICES ASSUME ~conn.lossy PROVE PairedWithOwnResponse /\ Matching /\ Positioned
  BY <1>1 DEF HttpPairInv
<1>2. PairedWithOwnResponse
  <2>1. DOMAIN reported = {}
    BY <1>1
  <2> QED
    BY <2>1 DEF PairedWithOwnResponse
<1>3. Matching
  BY <1>1 DEF Matching, NoPacket
<1>4. ASSUME NEW d \in Dir PROVE Piece(d, 0)
  <2>1. SubSeq(Wire, 1, next - 1) = <<>>
    <3>1. Wire \in Seq(Packet) /\ next - 1 = 0
      BY <1>1, WireFacts DEF HttpTyped
    <3> QED
      BY <3>1, SubSeqEmpty
  <2>2. CapturedOf(d) = <<>>
    BY <2>1, AmongEmpty DEF CapturedOf, StreamOf
  <2>3. Len(<<>>) = 0 /\ DOMAIN <<>> = {}
    OBVIOUS
  <2> QED
    BY <1>1, <2>2, <2>3 DEF Piece, PieceAt
<1>5. Rest(UpStream, 0, 0, NoPacket) /\ Rest(DownStream, 0, 0, NoPacket)
  BY <1>1, WellFormedFacts, RestInit
<1>6. Positioned
  BY <1>1, <1>4, <1>5 DEF Positioned, Parsed, Dir
<1> QED
  BY <1>2, <1>3, <1>6

\* No step pairs a request with the response of another.
LEMMA PairsStep ==
  ASSUME HttpPairInv, ~conn.lossy => WellFormed(Wire), [HttpNext]_httpVars
  PROVE  HttpPairInv' /\ UNCHANGED conn
<1>t. HttpTyped
  BY DEF HttpPairInv
<1>1. CASE UNCHANGED httpVars
  <2>1. UNCHANGED <<conn, next, pending, c, ignore, eofSimulated, mainPc, target, burst>>
        /\ UNCHANGED <<hpc, req, reqLeft, resp, respLeft, reported>>
    BY <1>1 DEF httpVars, mainVars, handlerVars
  <2>2. HttpTyped' /\ Moves /\ Waits
    BY <1>t, <2>1 DEF HttpTyped, Moves, Waits, Content, Takes, Wire, Sent
  <2>3. CASE conn.lossy
    BY <2>1, <2>2, <2>3 DEF HttpPairInv
  <2>4. CASE ~conn.lossy
    BY <1>t, <2>1, <2>2, <2>4, PairsUnread DEF HttpPairInv
  <2> QED
    BY <2>3, <2>4
<1>2. CASE ReceiveData \/ (\E d \in Dir : ReceiveControl(d)) \/ ForceCloseSilent \/ MainStep
  <2>1. HttpTyped' /\ UNCHANGED <<conn, handlerVars>> /\ (Moves \/ Captures)
    BY <1>t, <1>2, MainStepMoves
  <2>2. CASE conn.lossy
    BY <2>1, <2>2 DEF HttpPairInv
  <2>3. CASE ~conn.lossy
    <3>0. PairedWithOwnResponse /\ Matching /\ Positioned
      BY <2>3 DEF HttpPairInv
    <3>1. PICK u \in Nat, w \in Nat : Piece("up", u) /\ Piece("down", w) /\ Parsed(u, w)
      BY <3>0 DEF Positioned
    <3>2. Piece("up", u)' /\ Piece("down", w)'
      BY <1>t, <2>1, <2>3, <3>1, PieceMain DEF Dir
    <3>3. UNCHANGED <<hpc, req, reqLeft, resp, respLeft, reported>>
      BY <2>1 DEF handlerVars
    <3>4. UpStream' = UpStream /\ Parsed(u, w)' /\ PairedWithOwnResponse'
      <4>1. /\ UpStream' = UpStream
            /\ Parsed(u, w)' <=>
                 (hpc' \in Parsing =>
                    /\ Rest(UpStream, u, reqLeft', req')
                    /\ ~(hpc' = "requestBody" /\ resp' = NoPacket)
                         => Rest(DownStream, w, respLeft', resp'))
            /\ reported' = reported => PairedWithOwnResponse'
        BY <2>1, <3>0, StepFacts
      <4> QED
        BY <3>1, <3>3, <4>1 DEF Parsed, NoAnswer
    <3>5. Matching'
      BY <3>0, <3>3, <3>4 DEF Matching, NoAnswer
    <3>6. Positioned'
      BY <3>2, <3>4 DEF Positioned
    <3> QED
      BY <2>1, <3>4, <3>5, <3>6 DEF HttpPairInv
  <2> QED
    BY <2>2, <2>3
<1>3. CASE HandlerStep
  <2>1. /\ HttpTyped' /\ conn' = conn
        /\ \/ \E d \in Dir : /\ Reads(d) /\ Consumes(d)
                             /\ Content(d)[1] \in Sent /\ Parse(Content(d)[1])
           \/ \E d \in Dir : Reads(d) /\ Moves /\ ParseEOF /\ UNCHANGED <<req, reqLeft>>
           \/ Moves /\ Waits
           \/ Moves /\ RequestBodyRead
           \/ Moves /\ ResponseBodyRead
    BY <1>t, <1>3, HandlerCases DEF HandlerOnly
  <2>2. CASE conn.lossy
    BY <2>1, <2>2 DEF HttpPairInv
  <2>3. CASE ~conn.lossy
    <3>0. PairedWithOwnResponse /\ Matching /\ Positioned /\ WellFormed(Wire)
      BY <2>3 DEF HttpPairInv
    <3>1. CASE \E d \in Dir : /\ Reads(d) /\ Consumes(d)
                              /\ Content(d)[1] \in Sent /\ Parse(Content(d)[1])
      <4>1. PICK u \in Nat, w \in Nat : Piece("up", u) /\ Piece("down", w) /\ Parsed(u, w)
        BY <3>0 DEF Positioned
      <4>2. Sent \subseteq Packet
        BY <1>t, WireFacts DEF HttpTyped
      <4>3. CASE Reads("up") /\ Consumes("up") /\ Content("up")[1] \in Sent /\ Parse(Content("up")[1])
        <5>1. PairedWithOwnResponse' /\ Matching' /\ Positioned'
          BY <1>t, <2>1, <3>0, <4>1, <4>2, <4>3, PairsReadUp
        <5> QED
          BY <2>1, <5>1 DEF HttpPairInv
      <4>4. CASE Reads("down") /\ Consumes("down") /\ Content("down")[1] \in Sent
                 /\ Parse(Content("down")[1])
        <5>1. PairedWithOwnResponse' /\ Matching' /\ Positioned'
          BY <1>t, <2>1, <3>0, <4>1, <4>2, <4>4, PairsReadDown
        <5> QED
          BY <2>1, <5>1 DEF HttpPairInv
      <4> QED
        BY <3>1, <4>3, <4>4 DEF Dir
    <3>2. CASE ~\E d \in Dir : /\ Reads(d) /\ Consumes(d)
                               /\ Content(d)[1] \in Sent /\ Parse(Content(d)[1])
      <4>1. /\ Moves /\ UNCHANGED <<req, reqLeft>>
            /\ ((\E d \in Dir : Reads(d)) /\ ParseEOF) \/ Waits \/ RequestBodyRead \/ ResponseBodyRead
        BY <2>1, <3>2 DEF Waits, RequestBodyRead, ResponseBodyRead
      <4>2. PairedWithOwnResponse' /\ Matching' /\ Positioned'
        BY <1>t, <2>1, <2>3, <3>0, <4>1, PairsUnread
      <4> QED
        BY <2>1, <4>2 DEF HttpPairInv
    <3> QED
      BY <3>1, <3>2
  <2> QED
    BY <2>2, <2>3
<1> QED
  BY <1>1, <1>2, <1>3 DEF HttpNext, MainStep, HttpTyped

\* Wherever nothing is lost between peers that speak HTTP/1.1, whatever the
\* messages, their bodies, the size of the channels and the interleaving of main
\* and handler: a response is reported with the request it answers
\* (http_traffic_handler.go handle and report).
THEOREM ResponseOfItsRequest ==
  (\A k \in Connections : ~k.lossy => WellFormed(k.wire))
    => (HttpSpec => []PairedWithOwnResponse)
<1> SUFFICES ASSUME \A k \in Connections : ~k.lossy => WellFormed(k.wire)
             PROVE  HttpSpec => []PairedWithOwnResponse
  OBVIOUS
<1>1. HttpInit => HttpPairInv
  BY PairsInit DEF HttpInit, Wire
<1>2. HttpPairInv /\ [HttpNext]_httpVars => HttpPairInv'
  BY PairsStep DEF HttpPairInv, HttpTyped, Wire
<1>3. HttpPairInv => PairedWithOwnResponse
  BY DEF HttpPairInv, PairedWithOwnResponse
<1> QED
  BY <1>1, <1>2, <1>3, PTL DEF HttpSpec
=============================================================================
