------------------------------- MODULE Pipeline -------------------------------
(***************************************************************************)
(* The tshark engine from end to end: the goroutine that reads tshark's    *)
(* output (tshark/command.go), the line, bulk and correlator processors    *)
(* (tshark/line, tshark/bulk, tshark/correlator), each a goroutine behind  *)
(* a bounded channel, the exporter (Exporter), and the main goroutine that *)
(* stops them in order on a signal (server/entrypoint.go).                 *)
(*                                                                         *)
(* Lines is what tshark prints.  A record is opened, continued and closed  *)
(* by lines of its number rec; the lines between records have kind         *)
(* "other".  Record[rec] says what the bulk processor finds in it: its     *)
(* kind, and which of the fields that convert reads are absent or do not   *)
(* parse.  The timeouts of the correlator are a choice here; Correlator    *)
(* has its clock.                                                          *)
(***************************************************************************)
EXTENDS Naturals, Sequences, SequencesExt, Subsequences

CONSTANTS
  Lines,          \* the output of tshark
  Record,         \* Record[rec] = [kind, stream, absent, bad]
  ChannelBuffer,  \* flag channel-buffer
  Settings        \* as in Exporter

Records == DOMAIN Record
Streams == {Record[rec].stream : rec \in Records}

ASSUME PipelineAssumption ==
  /\ Lines \in Seq([kind : {"open", "inside", "close", "other"}, rec : Nat])
  /\ IsFiniteSet(Records)
  /\ \A rec \in Records :
       /\ Record[rec].kind \in {"request", "response", "neither", "malformed"}
       /\ Record[rec].absent \subseteq {"time", "stream", "ip", "port", "code"}
       /\ Record[rec].bad \subseteq {"time", "stream", "port", "code"}
  /\ ChannelBuffer \in Nat \ {0}

\* The fields that convert reads, in its order, and those it reads without
\* looking whether they are there.
FieldsRead(kind) ==
  <<"time", "stream">> \o CASE kind = "request" -> <<"ip", "port">>
                            [] kind = "response" -> <<"code">>
                            [] OTHER -> <<>>
Unchecked == {"time", "ip", "port"}

\* What convert makes of a record; the first wrong field decides.
Outcome(rec) ==
  LET r == Record[rec]
      wrong == SelectSeq(FieldsRead(r.kind), LAMBDA f : f \in r.absent \union r.bad)
  IN CASE r.kind = "malformed" -> "dropped"
       [] r.kind # "malformed" /\ wrong = <<>> ->
            IF r.kind = "neither" THEN "dropped" ELSE "converted"
       [] OTHER -> IF Head(wrong) \in Unchecked \intersect r.absent THEN "panics"
                                                                   ELSE "dropped"

Requests ==
  {rec \in Records : Record[rec].kind = "request" /\ Outcome(rec) = "converted"}

VARIABLES
  next,      \* index in Lines of the line that streamRead hands on next
  ch,        \* ch[s]: the channel of stage s
  at,        \* at[s]: where the goroutine of stage s is
  out,       \* out[s]: what its handler still has to send on
  collect, collected,  \* the line processor is inside a record; its lines
  requests,  \* the correlator's map: stream -> record of the request, or None
  sent,      \* the requests of the transactions given to the exporter, in order
  mainPc     \* main goroutine: "running", the stage it stops, or how it ended

VARIABLES
  setting, queued, input, transactions, stopChannel, stopped, pc, held,
  toExport, har, proc, emptied, delivered, stopPc  \* as in Exporter

exporterVars == <<setting, queued, input, transactions, stopChannel, stopped, pc,
                  held, toExport, har, proc, emptied, delivered, stopPc>>
stageVars == <<next, ch, at, out, collect, collected, requests, sent>>
vars == <<stageVars, mainPc, exporterVars>>

Exporter == INSTANCE Exporter WITH
  NumTransactions <- Cardinality(Requests),
  AppId <- [t \in 1 .. Cardinality(Requests) |-> "app"]

Stage == {"line", "bulk", "correlator"}
None == 0

\* The process, and with it every goroutine, is there.
Alive == mainPc \notin {"terminated", "exited", "panicked"}

Init ==
  /\ next = 1
  /\ ch = [s \in Stage |-> <<>>]
  /\ at = [s \in Stage |-> "select"]
  /\ out = [s \in Stage |-> <<>>]
  /\ collect = FALSE /\ collected = <<>>
  /\ requests = [s \in Streams |-> None]
  /\ sent = <<>>
  /\ mainPc = "running"
  /\ Exporter!Init

-----------------------------------------------------------------------------
(* Taking from the channel of a stage, and handing on to the next one.     *)

\* streamRead of the standard output.
ReadLine ==
  /\ Alive
  /\ next <= Len(Lines)
  /\ Len(ch["line"]) < ChannelBuffer
  /\ ch' = [ch EXCEPT !["line"] = Append(@, Lines[next])]
  /\ next' = next + 1
  /\ UNCHANGED <<at, out, collect, collected, requests, sent, mainPc, exporterVars>>

\* streamRead reaches the end of one of tshark's outputs: Fatal exits at once.
ReadFails ==
  /\ Alive
  /\ mainPc' = "exited"
  /\ UNCHANGED <<stageVars, exporterVars>>

\* The handler of stage s returns when everything in results is sent.
Handles(s, results) ==
  /\ out' = [out EXCEPT ![s] = results]
  /\ at' = [at EXCEPT ![s] = IF results = <<>> THEN "select" ELSE "send"]

Receives(s) ==
  /\ at[s] = "select"
  /\ ch[s] # <<>>
  /\ ch' = [ch EXCEPT ![s] = Tail(@)]

NextStage == [line |-> "bulk", bulk |-> "correlator"]

SendOn(s) ==
  /\ at[s] = "send"
  /\ Len(ch[NextStage[s]]) < ChannelBuffer
  /\ ch' = [ch EXCEPT ![NextStage[s]] = Append(@, Head(out[s]))]
  /\ Handles(s, Tail(out[s]))
  /\ UNCHANGED <<next, collect, collected, requests, sent, mainPc, exporterVars>>

Export ==
  /\ at["correlator"] = "send"
  /\ UNCHANGED <<next, ch, collect, collected, requests, mainPc>>
  /\ sent' = Append(sent, Head(out["correlator"]))
  /\ Handles("correlator", Tail(out["correlator"]))
  /\ Exporter!Queue

-----------------------------------------------------------------------------
(* The handlers.                                                           *)

\* Bug seeded for checking: collecting goes on after the end of a record.
CollectForever(line) ==
  LET on == collect \/ line.kind = "open"
      all == IF on THEN Append(collected, line) ELSE collected
  IN /\ collected' = IF line.kind = "close" THEN <<>> ELSE all
     /\ collect' = on
     /\ Handles("line", IF line.kind = "close" THEN <<all>> ELSE <<>>)

\* aggregate() of the line processor.
Collect(line) ==
  LET on == collect \/ line.kind = "open"
      all == IF on THEN Append(collected, line) ELSE collected
      ends == line.kind = "close"
  IN /\ collected' = IF ends THEN <<>> ELSE all
     /\ collect' = (on /\ ~ends)
     /\ Handles("line", IF ends THEN <<all>> ELSE <<>>)

CollectLine ==
  /\ Receives("line")
  /\ Collect(Head(ch["line"]))
  /\ UNCHANGED <<next, requests, sent, mainPc, exporterVars>>

LineOf(rec) == {line \in ToSet(Lines) : line.rec = rec /\ line.kind # "other"}

\* The lines of each record, from its first to its last.
LinesOf == [rec \in Records |-> Among(Lines, LineOf(rec))]

\* The records of which data is the whole, with this outcome.
WithOutcome(data, outcome) ==
  {rec \in Records : data = LinesOf[rec] /\ Outcome(rec) = outcome}

ParseJson ==
  /\ Receives("bulk")
  /\ WithOutcome(Head(ch["bulk"]), "panics") = {}
  /\ Handles("bulk", SetToSeq(WithOutcome(Head(ch["bulk"]), "converted")))
  /\ UNCHANGED <<next, collect, collected, requests, sent, mainPc, exporterVars>>

\* An index out of range ends the process.
ParsePanics ==
  /\ at["bulk"] = "select" /\ ch["bulk"] # <<>>
  /\ WithOutcome(Head(ch["bulk"]), "panics") # {}
  /\ mainPc' = "panicked"
  /\ UNCHANGED <<stageVars, exporterVars>>

UpdateEntry ==
  LET rec == Head(ch["correlator"])
      s == Record[rec].stream
  IN /\ Receives("correlator")
     /\ \/ /\ Record[rec].kind = "request"
           /\ requests' = [requests EXCEPT ![s] = rec]
           /\ Handles("correlator", <<>>)
        \/ /\ Record[rec].kind = "response"
           /\ requests' = [requests EXCEPT ![s] = None]
           /\ Handles("correlator",
                      IF requests[s] = None THEN <<>> ELSE <<requests[s]>>)
     /\ UNCHANGED <<next, collect, collected, sent, mainPc, exporterVars>>

Outstanding == {s \in Streams : requests[s] # None}

\* Bug seeded for checking: the expired requests are lost when the exporter's
\* channel is full.
SendExpiredDrops(expired) ==
  /\ requests' = [s \in Streams |-> IF s \in expired THEN None ELSE requests[s]]
  /\ Handles("correlator", IF Len(input) < ChannelBuffer
                           THEN SetToSeq({requests[s] : s \in expired}) ELSE <<>>)

SendExpired(expired) ==
  /\ requests' = [s \in Streams |-> IF s \in expired THEN None ELSE requests[s]]
  /\ \E order \in SetToSeqs({requests[s] : s \in expired}) : Handles("correlator", order)

CheckTimeouts ==
  /\ at["correlator"] = "select"
  /\ \E expired \in SUBSET Outstanding \ {{}} : SendExpired(expired)
  /\ UNCHANGED <<next, ch, collect, collected, sent, mainPc, exporterVars>>

-----------------------------------------------------------------------------
(* EntryPoint.Run after the signal.                                        *)

\* Bug seeded for checking: the processors are stopped from the far end on.
StopNextReversed ==
  [running |-> "correlator", correlator |-> "bulk", bulk |-> "line",
   line |-> "exporter", exporter |-> "terminated"]

StopNext ==
  [running |-> "line", line |-> "bulk", bulk |-> "correlator",
   correlator |-> "exporter", exporter |-> "terminated"]

Signal ==
  /\ mainPc = "running"
  /\ mainPc' = StopNext["running"]
  /\ UNCHANGED <<stageVars, exporterVars>>

\* Stop of a processor: the send on its unbuffered channel meets the select,
\* the loop ends, and Wait returns.
StopStage(s) ==
  /\ mainPc = s
  /\ at[s] = "select"
  /\ at' = [at EXCEPT ![s] = "done"]
  /\ mainPc' = StopNext[s]
  /\ UNCHANGED <<next, ch, out, collect, collected, requests, sent, exporterVars>>

StopExporter ==
  /\ mainPc = "exporter"
  /\ UNCHANGED stageVars
  /\ \/ Exporter!StopSend /\ UNCHANGED mainPc
     \/ Exporter!StopReturn /\ mainPc' = StopNext["exporter"]

LineStep == Alive /\ (CollectLine \/ SendOn("line"))
BulkStep == Alive /\ (ParseJson \/ ParsePanics \/ SendOn("bulk"))
CorrelatorStep == Alive /\ (UpdateEntry \/ CheckTimeouts \/ Export)

AggregateStep == Alive /\ UNCHANGED <<stageVars, mainPc>> /\ Exporter!AggregateStep
ExportStep == Alive /\ UNCHANGED <<stageVars, mainPc>> /\ Exporter!ExportStep
TakeStop(g) == Alive /\ UNCHANGED <<stageVars, mainPc>> /\ Exporter!TakeStop(g)

Next ==
  \/ ReadLine \/ ReadFails
  \/ LineStep \/ BulkStep \/ CorrelatorStep
  \/ AggregateStep \/ ExportStep
  \/ Signal
  \/ \E s \in Stage : StopStage(s)
  \/ StopExporter

\* Every goroutine runs, and a select with several ready cases picks one at
\* random; the main goroutine stops one stage at a time.  tshark and the signal
\* owe nothing.
Fairness ==
  /\ WF_vars(LineStep) /\ WF_vars(BulkStep) /\ WF_vars(CorrelatorStep)
  /\ SF_vars(Alive /\ CheckTimeouts)
  /\ WF_vars(AggregateStep) /\ WF_vars(ExportStep)
  /\ \A g \in {"aggregate", "export"} : SF_vars(TakeStop(g))
  /\ SF_vars(\E s \in Stage : StopStage(s))
  /\ WF_vars(StopExporter)

Spec == Init /\ [][Next]_vars /\ Fairness

-----------------------------------------------------------------------------
(* Properties.                                                             *)

\* The line processor is inside a record after the first n lines.
InRecord(n) == n # 0 /\ Lines[n].kind \in {"open", "inside"}

\* tshark prints a record in one go, from the line that opens it to the one that
\* closes it, and only once; the last one may be cut.
PrintsRecords ==
  \A n \in DOMAIN Lines :
    /\ Lines[n].kind # "other" => Lines[n].rec \in Records
    /\ InRecord(n - 1) <=> Lines[n].kind \in {"inside", "close"}
    /\ InRecord(n - 1) => Lines[n].rec = Lines[n - 1].rec
    /\ \A m \in 1 .. n - 1 :
         Lines[n].kind # "other" /\ Lines[m] \in LineOf(Lines[n].rec) =>
           Lines[n].kind # "open" /\ Lines[m].kind # "close"

\* What reaches the bulk processor is exactly the lines of one record,
\* whatever is printed between the records; and what it hands on are requests
\* and responses without a wrong field.
RecordsIntact ==
  /\ \A data \in ToSet(ch["bulk"]) \union ToSet(out["line"]) :
       \E rec \in Records : data = LinesOf[rec]
  /\ \A rec \in ToSet(ch["correlator"]) \union ToSet(out["bulk"]) :
       Outcome(rec) = "converted"

\* After the signal the program terminates, whichever channels are full and
\* whichever goroutine is blocked sending: no stage is left sending to a stage
\* that has stopped.
Terminates == mainPc # "running" ~> ~Alive

Delivered(rec) ==
  \E t \in DOMAIN sent :
    /\ sent[t] = rec
    /\ \A p \in DOMAIN setting.processors \ setting.failing :
         t \in ToSet(Exporter!Numbers(delivered[p]))

Precedes(a, b) ==
  \E m, n \in DOMAIN Lines : m < n /\ Lines[m] \in LineOf(a) /\ Lines[n] \in LineOf(b)

\* Before the next request of its stream comes a response that is converted; the
\* correlator has one place for each stream.
AnsweredFirst(rec) ==
  \A later \in Requests \ {rec} :
    Record[later].stream = Record[rec].stream /\ Precedes(rec, later) =>
      \E answer \in Records :
        /\ Record[answer].kind = "response" /\ Outcome(answer) = "converted"
        /\ Record[answer].stream = Record[rec].stream
        /\ Precedes(rec, answer) /\ Precedes(answer, later)

\* A request that the bulk processor has been given, and that the next one of its
\* stream cannot overtake (processor.go:81), reaches the har processors unless the
\* program is stopped or has panicked, whatever other records are dropped.
ReadIsExported ==
  \A rec \in {r \in Requests : AnsweredFirst(r)} :
    (\E i \in DOMAIN ch["bulk"] : ch["bulk"][i] = LinesOf[rec])
      ~> (Delivered(rec) \/ mainPc # "running")
=============================================================================
