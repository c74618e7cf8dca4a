---------------------------- MODULE HttpConnection ----------------------------
(***************************************************************************)
(* One HTTP connection of the httpdump engine: the main goroutine that     *)
(* dispatches captured packets (httpdump/tcp_connection.go onReceive,      *)
(* httpdump/network_stream.go appendPacket .. finish) and the goroutine    *)
(* that parses the two streams (network_stream.go Read and Close,          *)
(* httpdump/http_traffic_handler.go).  They share the two channels and the *)
(* unlocked flags ignore and eofSimulated of the streams.                  *)
(*                                                                         *)
(* The connection is one of Connections, chosen at the start.  Its wire is *)
(* what client and server send, in order.  A packet is the head of         *)
(* a message, which says how many body packets follow, or a body packet.   *)
(* Each stream's receive window is reduced to the list of its packets that *)
(* are not acknowledged yet (PacketWindow says what it does to them).      *)
(* net/http reads one packet for a head and one for each packet of a body. *)
(***************************************************************************)
EXTENDS Naturals, Sequences, FiniteSets, Subsequences

CONSTANT
  Connections   \* wire: the packets of the connection
                \* channelSize: flag network-stream-channel-size
                \* maxBurst: bound, packets one acknowledgment confirms
                \* lossy: may the capture miss packets?
                \* pauses: may it be silent for ResponseTimeout?

Dir == {"up", "down"}
Opposite(d) == IF d = "up" THEN "down" ELSE "up"

Packet == [dir : Dir, kind : {"request", "response", "continue", "body"},
           n : Nat, body : Nat, expect : BOOLEAN]

\* A client's requests are numbered in the order it sends them.
NumberedInOrder(wire) ==
  \A j \in {i \in DOMAIN wire : wire[i].kind = "request"} :
    /\ wire[j].n > 0
    /\ \A i \in 1 .. j - 1 : wire[i].kind = "request" => wire[i].n < wire[j].n

ASSUME ConnectionAssumption ==
  \A k \in Connections :
    /\ k.wire \in Seq(Packet)
    /\ {k.channelSize, k.maxBurst} \subseteq Nat \ {0}
    /\ {k.lossy, k.pauses} \subseteq BOOLEAN
    /\ NumberedInOrder(k.wire)

VARIABLES
  conn,          \* the one of Connections that takes place
  next,          \* index in Wire of the next packet
  pending,       \* pending[d]: captured packets of d not acknowledged yet
  c,             \* c[d]: the channel of stream d
  ignore,        \* ignore[d]: the stream takes no more packets
  eofSimulated,  \* eofSimulated[d]: the reader of d was given EOF
  closed,        \* closed[d]: FIN or RST seen
  finished,      \* the connection left the assembler, its channels are closed
  mainPc,        \* main goroutine: "idle", "wait" for space, "send", "close"
  target,        \* the stream it is confirming
  burst,         \* packets it still has to send
  fin,           \* the packet being dispatched carries FIN or RST
  hpc,           \* handler goroutine
  timedOut,      \* the select of Read took the timeout case
  req, reqLeft,  \* request being handled, body packets not read yet
  resp, respLeft,
  reported       \* the transactions handed to the processor

mainVars == <<next, pending, closed, finished, mainPc, target, burst, fin>>
handlerVars == <<hpc, timedOut, req, reqLeft, resp, respLeft, reported>>
httpVars == <<conn, mainVars, handlerVars, c, ignore, eofSimulated>>

Wire == conn.wire
ChannelSize == conn.channelSize
MaxBurst == conn.maxBurst
Pauses == conn.pauses

NoPacket == [dir |-> "up", kind |-> "body", n |-> 0, body |-> 0, expect |-> FALSE]

HttpInit ==
  /\ conn \in Connections
  /\ next = 1
  /\ pending = [d \in Dir |-> <<>>]
  /\ c = [d \in Dir |-> <<>>]
  /\ ignore = [d \in Dir |-> FALSE]
  /\ eofSimulated = [d \in Dir |-> FALSE]
  /\ closed = [d \in Dir |-> FALSE]
  /\ finished = FALSE
  /\ mainPc = "idle"
  /\ target = "up"
  /\ burst = 0
  /\ fin = FALSE
  /\ hpc = "request"
  /\ timedOut = FALSE
  /\ req = NoPacket /\ reqLeft = 0
  /\ resp = NoPacket /\ respLeft = 0
  /\ reported = <<>>

-----------------------------------------------------------------------------
(* Main goroutine: onReceive for one captured packet.                      *)

Takes(d) == ~ignore[d] /\ ~eofSimulated[d]

\* The packet's acknowledgment confirms k packets of the other stream; it is
\* not looked at when that stream takes no more packets.
Acknowledge(d, k, f) ==
  /\ target' = Opposite(d)
  /\ k <= Len(pending[Opposite(d)])
  /\ burst' = k
  /\ fin' = f
  /\ mainPc' = IF Takes(Opposite(d)) THEN "wait" ELSE "close"

\* A packet with payload.
ReceiveData ==
  /\ mainPc = "idle" /\ ~finished
  /\ next <= Len(Wire)
  /\ next' = next + 1
  /\ LET p == Wire[next]
     IN \/ /\ pending' = IF Takes(p.dir)
                         THEN [pending EXCEPT ![p.dir] = Append(@, p)]
                         ELSE pending
           /\ \E k \in 0 .. MaxBurst : Acknowledge(p.dir, k, FALSE)
        \/ /\ conn.lossy
           /\ UNCHANGED <<pending, mainPc, target, burst, fin>>
  /\ UNCHANGED <<conn, closed, finished, handlerVars, c, ignore, eofSimulated>>

\* Without losses d closes when everything was sent and its own data has been
\* acknowledged, and acknowledges the rest of the other side's.
ClosesGracefully(d, k) ==
  /\ next > Len(Wire)
  /\ pending[d] = <<>>
  /\ k = Len(pending[Opposite(d)])

\* A packet without payload; f when it carries FIN or RST.
ReceiveControl(d) ==
  /\ mainPc = "idle" /\ ~finished
  /\ \E k \in 0 .. MaxBurst, f \in BOOLEAN :
       /\ f => conn.lossy \/ ClosesGracefully(d, k)
       /\ Acknowledge(d, k, f)
  /\ UNCHANGED <<conn, next, pending, closed, finished, handlerVars, c, ignore,
                 eofSimulated>>

\* waitForChannelSpace finds room.
SpaceFound ==
  /\ mainPc = "wait"
  /\ Len(c[target]) < ChannelSize
  /\ mainPc' = "send"
  /\ UNCHANGED <<next, pending, closed, finished, target, burst, fin,
                 handlerVars, c, ignore, eofSimulated>>

\* Bug seeded for checking: waitForChannelSpace never gives up.
AbandonNever == FALSE /\ UNCHANGED httpVars

\* waitForChannelSpace gives up after FullChannelTimeout.
AbandonData ==
  /\ mainPc = "wait"
  /\ Len(c[target]) >= ChannelSize
  /\ ignore' = [ignore EXCEPT ![target] = TRUE]
  /\ mainPc' = "close"
  /\ burst' = 0
  /\ UNCHANGED <<next, pending, closed, finished, target, fin, handlerVars, c, eofSimulated>>

\* ReceiveWindow.confirm: each send waits for room in the channel.
SendPacket ==
  /\ mainPc = "send" /\ burst > 0
  /\ Len(c[target]) < ChannelSize
  /\ c' = [c EXCEPT ![target] = Append(@, Head(pending[target]))]
  /\ pending' = [pending EXCEPT ![target] = Tail(@)]
  /\ burst' = burst - 1
  /\ UNCHANGED <<next, closed, finished, mainPc, target, fin, handlerVars,
                 ignore, eofSimulated>>

SendDone ==
  /\ mainPc = "send" /\ burst = 0
  /\ mainPc' = "close"
  /\ UNCHANGED <<next, pending, closed, finished, target, burst, fin,
                 handlerVars, c, ignore, eofSimulated>>

\* The end of onReceive and of assemble: the second FIN or RST finishes the
\* connection.
CloseStream ==
  /\ mainPc = "close"
  /\ closed' = IF fin THEN [closed EXCEPT ![Opposite(target)] = TRUE] ELSE closed
  /\ finished' = \A d \in Dir : closed'[d]
  /\ mainPc' = "idle"
  /\ burst' = 0
  /\ fin' = FALSE
  /\ UNCHANGED <<next, pending, target, handlerVars, c, ignore, eofSimulated>>

\* flushOlderThan and forceClose, for a connection that has been silent.
ForceCloseSilent ==
  /\ mainPc = "idle" /\ ~finished
  /\ Pauses
  /\ closed' = [d \in Dir |-> TRUE]
  /\ finished' = TRUE
  /\ UNCHANGED <<conn, next, pending, mainPc, target, burst, fin, handlerVars, c,
                 ignore, eofSimulated>>

MainStep ==
  /\ SpaceFound \/ AbandonData \/ SendPacket \/ SendDone \/ CloseStream
  /\ UNCHANGED conn

-----------------------------------------------------------------------------
(* Handler goroutine.                                                      *)

\* The handler is inside NetworkStream.Read of stream d.
Reads(d) ==
  \/ d = "up" /\ hpc \in {"request", "discardUp"}
  \/ d = "up" /\ hpc = "requestBody" /\ reqLeft > 0
  \/ d = "down" /\ hpc \in {"response", "realResponse", "discardDown"}
  \/ d = "down" /\ hpc \in {"responseBody", "realBody"} /\ respLeft > 0

Report(response) ==
  reported' = Append(reported, [request |-> req.n, response |-> response])

\* Bug seeded for checking: the real response is always waited for.
AfterReportExpects ==
  hpc' = IF resp = NoPacket THEN "discardDown" ELSE "realResponse"

\* Where handle() goes after its first report.
AfterReport ==
  hpc' = CASE resp = NoPacket -> "discardDown"
           [] resp # NoPacket /\ req.expect /\ resp.kind = "continue" -> "realResponse"
           [] OTHER -> "request"

IsResponse(p) == p.kind \in {"response", "continue"}

\* net/http parses the packet that Read returned.
Parse(p) ==
  \/ /\ hpc = "request"
     /\ \/ /\ p.kind = "request"
           /\ req' = p /\ reqLeft' = p.body
           /\ hpc' = "response"
        \/ /\ p.kind # "request"
           /\ hpc' = "discardDown"
           /\ UNCHANGED <<req, reqLeft>>
     /\ UNCHANGED <<resp, respLeft, reported>>
  \/ /\ hpc = "response"
     /\ resp' = IF IsResponse(p) THEN p ELSE NoPacket
     /\ respLeft' = IF IsResponse(p) THEN p.body ELSE 0
     /\ hpc' = "requestBody"
     /\ UNCHANGED <<req, reqLeft, reported>>
  \/ /\ hpc = "requestBody"
     /\ reqLeft' = reqLeft - 1
     /\ UNCHANGED <<hpc, req, resp, respLeft, reported>>
  \/ /\ hpc \in {"responseBody", "realBody"}
     /\ respLeft' = respLeft - 1
     /\ UNCHANGED <<hpc, req, reqLeft, resp, reported>>
  \/ /\ hpc = "realResponse"
     /\ \/ /\ IsResponse(p)
           /\ resp' = p /\ respLeft' = p.body
           /\ hpc' = "realBody"
           /\ UNCHANGED reported
        \/ /\ ~IsResponse(p)
           /\ Report(0)
           /\ hpc' = "discardDown"
           /\ UNCHANGED <<resp, respLeft>>
     /\ UNCHANGED <<req, reqLeft>>
  \/ /\ hpc \in {"discardDown", "discardUp"}
     /\ UNCHANGED <<hpc, req, reqLeft, resp, respLeft, reported>>

\* net/http is given EOF.  A request whose body is cut short is not reported,
\* a response whose body is cut short is (with the body "UNKNOWN").  When both
\* streams are discarded, the deferred Close of each makes it ignore packets.
ParseEOF ==
  \/ /\ hpc = "request" /\ hpc' = "discardDown"
     /\ UNCHANGED <<resp, respLeft, reported, ignore>>
  \/ /\ hpc = "response" /\ hpc' = "requestBody"
     /\ resp' = NoPacket /\ respLeft' = 0
     /\ UNCHANGED <<reported, ignore>>
  \/ /\ hpc = "requestBody" /\ AfterReport
     /\ UNCHANGED <<resp, respLeft, reported, ignore>>
  \/ /\ hpc = "responseBody" /\ Report(resp.n) /\ AfterReport
     /\ UNCHANGED <<resp, respLeft, ignore>>
  \/ /\ hpc = "realBody" /\ Report(resp.n) /\ hpc' = "request"
     /\ UNCHANGED <<resp, respLeft, ignore>>
  \/ /\ hpc = "realResponse" /\ Report(0) /\ hpc' = "discardDown"
     /\ UNCHANGED <<resp, respLeft, ignore>>
  \/ /\ hpc = "discardDown" /\ hpc' = "discardUp"
     /\ UNCHANGED <<resp, respLeft, reported, ignore>>
  \/ /\ hpc = "discardUp" /\ hpc' = "done"
     /\ ignore' = [d \in Dir |-> TRUE]
     /\ UNCHANGED <<resp, respLeft, reported>>

EndOfFile(d) ==
  /\ eofSimulated' = [eofSimulated EXCEPT ![d] = TRUE]
  /\ timedOut' = FALSE
  /\ ParseEOF
  /\ UNCHANGED <<req, reqLeft, mainVars, c>>

\* The select of Read takes a packet.
ReadPacket(d) ==
  /\ Reads(d) /\ ~timedOut
  /\ c[d] # <<>>
  /\ c' = [c EXCEPT ![d] = Tail(@)]
  /\ Parse(Head(c[d]))
  /\ UNCHANGED <<timedOut, mainVars, ignore, eofSimulated>>

\* Bug seeded for checking: finish closes the channel of the up stream only.
ReadClosedUpOnly(d) ==
  /\ d = "up"
  /\ Reads(d) /\ ~timedOut
  /\ c[d] = <<>> /\ finished
  /\ EndOfFile(d)

\* The select of Read finds the channel closed.
ReadClosed(d) ==
  /\ Reads(d) /\ ~timedOut
  /\ c[d] = <<>> /\ finished
  /\ EndOfFile(d)

\* The select of Read takes the timeout case: nothing came for
\* NetworkStreamChannelTimeout.
ReadTimeout(d) ==
  /\ Reads(d) /\ ~timedOut
  /\ c[d] = <<>> /\ ~finished
  /\ timedOut' = TRUE
  /\ UNCHANGED <<hpc, req, reqLeft, resp, respLeft, reported,
                 mainVars, c, ignore, eofSimulated>>

OppositeFull(d) == Len(c[Opposite(d)]) = ChannelSize

\* Bug seeded for checking: every timeout ends the stream.
CheckStuckAlways(d) ==
  /\ Reads(d) /\ timedOut
  /\ EndOfFile(d)

\* The body of the timeout case, which runs concurrently with main.
CheckStuck(d) ==
  /\ Reads(d) /\ timedOut
  /\ \/ /\ OppositeFull(d) \/ Pauses
        /\ EndOfFile(d)
     \/ /\ ~OppositeFull(d)
        /\ timedOut' = FALSE
        /\ UNCHANGED <<hpc, req, reqLeft, resp, respLeft, reported,
                       mainVars, c, ignore, eofSimulated>>

\* Bug seeded for checking: a request without response does not end the loop.
RequestBodyReadContinues ==
  /\ hpc = "requestBody" /\ reqLeft = 0
  /\ \/ /\ resp = NoPacket
        /\ Report(0)
        /\ hpc' = "request"
     \/ /\ resp # NoPacket
        /\ hpc' = "responseBody"
        /\ UNCHANGED reported
  /\ UNCHANGED <<timedOut, req, reqLeft, resp, respLeft, mainVars, c, ignore, eofSimulated>>

\* report() has read the request's body.
RequestBodyRead ==
  /\ hpc = "requestBody" /\ reqLeft = 0
  /\ \/ /\ resp = NoPacket
        /\ Report(0)
        /\ hpc' = "discardDown"
     \/ /\ resp # NoPacket
        /\ hpc' = "responseBody"
        /\ UNCHANGED reported
  /\ UNCHANGED <<timedOut, req, reqLeft, resp, respLeft, mainVars, c, ignore, eofSimulated>>

\* report() has read the response's body.
ResponseBodyRead ==
  /\ respLeft = 0
  /\ \/ hpc = "responseBody" /\ AfterReport
     \/ hpc = "realBody" /\ hpc' = "request"
  /\ Report(resp.n)
  /\ UNCHANGED <<timedOut, req, reqLeft, resp, respLeft, mainVars, c, ignore, eofSimulated>>

HandlerStep ==
  /\ \/ \E d \in Dir : ReadPacket(d) \/ ReadClosed(d) \/ ReadTimeout(d) \/ CheckStuck(d)
     \/ RequestBodyRead
     \/ ResponseBodyRead
  /\ UNCHANGED conn

-----------------------------------------------------------------------------
HttpNext ==
  \/ ReceiveData
  \/ \E d \in Dir : ReceiveControl(d)
  \/ ForceCloseSilent
  \/ MainStep
  \/ HandlerStep

\* Both goroutines run; the capture owes nothing.
HttpFairness == WF_httpVars(MainStep) /\ WF_httpVars(HandlerStep)

HttpSpec == HttpInit /\ [][HttpNext]_httpVars /\ HttpFairness

-----------------------------------------------------------------------------
(* Properties.                                                             *)

(* A connection of peers that speak HTTP/1.1.                              *)

StreamOf(wire, d) == Among(wire, {p \in Packet : p.dir = d})

\* Every head is followed by the packets of its body and by nothing else.
Framed(s) ==
  \A i \in DOMAIN s :
    s[i].kind = "body" <=> \E h \in 1 .. i - 1 : s[h].kind # "body" /\ i <= h + s[h].body

\* q is the head that follows head p in a stream: "100 continue" comes before
\* the answer to the same request.
Succeeds(p, q) ==
  IF p.kind = "continue" THEN q.kind = "response" /\ q.n = p.n ELSE q.n = p.n + 1

\* The messages of a stream are numbered from 1 on.
Consecutive(s) ==
  /\ s # <<>> => s[1].n = 1
  /\ \A i \in DOMAIN s : \A h \in 1 .. i - 1 :
       i = h + s[h].body + 1 /\ s[h].kind # "body" => Succeeds(s[h], s[i])

\* Requests and their bodies one way, answers the other way, in the order of the
\* requests; "100 continue" has no body and only a request that expects it gets it.
WellFormed(wire) ==
  LET up == StreamOf(wire, "up")
      down == StreamOf(wire, "down")
  IN /\ Framed(up) /\ Consecutive(up)
     /\ Framed(down) /\ Consecutive(down)
     /\ \A i \in DOMAIN up : up[i].kind \in {"request", "body"}
     /\ \A i \in DOMAIN down :
          /\ down[i].kind \in {"response", "continue", "body"}
          /\ down[i].kind = "continue" =>
               /\ down[i].body = 0
               /\ \A j \in DOMAIN up :
                    up[j].kind = "request" /\ up[j].n = down[i].n => up[j].expect

-----------------------------------------------------------------------------
\* When nothing is lost, a response is reported with the request it answers,
\* however the two streams are interleaved, cut short or given up.
PairedWithOwnResponse ==
  \A i \in DOMAIN reported :
    ~conn.lossy => reported[i].response \in {0, reported[i].request}

ExpectsContinue == \E i \in DOMAIN Wire : Wire[i].expect

\* Requests are reported in the order they were sent, each once; but a request
\* that waits for "100 continue" is reported with that and with the answer.
OnceInOrder ==
  \A i, j \in DOMAIN reported :
    i < j /\ ~ExpectsContinue => reported[i].request < reported[j].request

\* Dispatching a packet ends: the main goroutine gets back to its select, so
\* one connection never stops the capture, as long as an acknowledgment
\* confirms one packet at a time: waitForChannelSpace waits for room for one.
MainKeepsRunning == mainPc # "idle" /\ MaxBurst = 1 ~> mainPc = "idle"

\* The same for acknowledgments of any size (README, "The httpdump bug").
MainKeepsRunningAlways == mainPc # "idle" ~> mainPc = "idle"

\* When its connection is finished the handler goroutine ends, whatever it was
\* reading and whatever is left in the channels.
HandlerEnds == finished ~> hpc = "done"

RequestsSent == {Wire[i].n : i \in {j \in DOMAIN Wire : Wire[j].kind = "request"}}

SentBy(d) == {i \in DOMAIN Wire : Wire[i].dir = d}

\* Neither stream can fill its channel, which Read takes for a lost packet.
ChannelsSuffice == \A d \in Dir : Cardinality(SentBy(d)) < ChannelSize

AllConfirmed ==
  next > Len(Wire) /\ mainPc = "idle" /\ \A d \in Dir : pending[d] = <<>>

\* When everything was captured and acknowledged, every request of the
\* connection ends up reported with its response.
AllReported ==
  ~conn.lossy /\ ~Pauses /\ ChannelsSuffice /\ AllConfirmed
    ~> \A n \in RequestsSent :
         \E i \in DOMAIN reported : reported[i] = [request |-> n, response |-> n]
=============================================================================
