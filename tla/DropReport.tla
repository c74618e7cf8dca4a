------------------------------ MODULE DropReport ------------------------------
(***************************************************************************)
(* dumpcap's report of dropped packets across restarts of the program.     *)
(* The goroutine that reads the standard error of a capture appends the    *)
(* report to a file (tshark/command.go); the next start publishes the last *)
(* line of that file in a goroutine of its own (server/entrypoint.go).     *)
(* The process may end at any moment: by a signal, by the Fatal of either  *)
(* reader at the end of tshark's output, or by a panic.                    *)
(*                                                                         *)
(* The capture of start n prints report n.  A line is what getPacketDrop-  *)
(* Stats makes of it: a report, or NoPipe and NoParen for one that was cut *)
(* before its "|" or its "(", or Wrong for one that continues a line that  *)
(* was cut.                                                                *)
(***************************************************************************)
EXTENDS Naturals, Sequences, SequencesExt

CONSTANTS
  MaxStarts,   \* bound: starts of the program
  MaxFailures  \* bound: calls of the file system that fail

ASSUME DropReportAssumption == MaxStarts \in Nat /\ MaxFailures \in Nat

Reports == 1 .. MaxStarts
NoPipe == MaxStarts + 1
NoParen == MaxStarts + 2
Wrong == MaxStarts + 3
Metrics == {"received", "dropped"}

VARIABLES
  up,         \* the process is there
  starts,     \* starts so far, the current one included
  reader,     \* where the reader of the standard error is
  reporter,   \* where reportDroppedPackets is, and the line it has read
  exists,     \* the file is there
  file,       \* its lines: what they say, and whether they are terminated
  persisted,  \* the last report written in full, 0 when there is none
  published,  \* what was published, as <<metric, line>>
  refused,    \* what was put by a call of CloudWatch that failed, likewise
  failures,   \* calls of the file system that failed
  torn,       \* the process ended between creating the file and writing to it
  panicked    \* starts that panicked

fileVars == <<exists, file, persisted>>
dropVars == <<up, starts, reader, reporter, fileVars, published, refused, failures, torn, panicked>>

At(step) == [at |-> step, line |-> 0]

DropInit ==
  /\ up = FALSE /\ starts = 0
  /\ reader = "reading" /\ reporter = At("done")
  /\ exists = FALSE /\ file = <<>> /\ persisted = 0
  /\ published = {} /\ refused = {} /\ failures = 0 /\ torn = FALSE /\ panicked = {}

\* Bug seeded for checking: the file is opened once, at the start.
StartOpensFile ==
  /\ ~up /\ starts < MaxStarts
  /\ up' = TRUE
  /\ starts' = starts + 1
  /\ reader' = "reading" /\ reporter' = At("read")
  /\ exists' = TRUE
  /\ UNCHANGED <<file, persisted, published, refused, failures, torn, panicked>>

\* EntryPoint.Run, of a process that whoever supervises the program starts.
Start ==
  /\ ~up /\ starts < MaxStarts
  /\ up' = TRUE
  /\ starts' = starts + 1
  /\ reader' = "reading" /\ reporter' = At("read")
  /\ UNCHANGED <<fileVars, published, refused, failures, torn, panicked>>

Exit ==
  /\ up
  /\ up' = FALSE
  /\ torn' = (torn \/ (reader = "write" /\ file = <<>>))
  /\ UNCHANGED <<starts, reader, reporter, fileVars, published, refused, failures, panicked>>

-----------------------------------------------------------------------------
(* streamRead of the standard error, and persistDroppedPacketsPct.         *)

\* The line of the report, which dumpcap prints when its capture ends.
ReadReport ==
  /\ up /\ reader = "reading"
  /\ reader' = "open"
  /\ UNCHANGED <<up, starts, reporter, fileVars, published, refused, failures, torn, panicked>>

OpenFile ==
  /\ up /\ reader = "open"
  /\ \/ reader' = "write" /\ exists' = TRUE /\ UNCHANGED failures
     \/ /\ failures < MaxFailures
        /\ failures' = failures + 1
        /\ reader' = "done" /\ UNCHANGED exists
  /\ UNCHANGED <<up, starts, reporter, file, persisted, published, refused, torn, panicked>>

\* Text that is appended to a line that was not terminated.
Continued(says, more) ==
  CASE says = NoPipe -> more
    [] says = NoParen -> IF more \in Reports THEN Wrong ELSE NoParen
    [] OTHER -> says

WithText(says, ended) ==
  IF file # <<>> /\ ~Last(file).ended
  THEN Front(file) \o <<[says |-> Continued(Last(file).says, says), ended |-> ended]>>
  ELSE Append(file, [says |-> says, ended |-> ended])

\* The write, in full or, when the disk is full, of a part or nothing.
WriteString ==
  /\ up /\ reader = "write"
  /\ reader' = "done"
  /\ \/ /\ file' = WithText(starts, TRUE)
        /\ persisted' = starts
        /\ UNCHANGED failures
     \/ /\ failures < MaxFailures
        /\ failures' = failures + 1
        /\ \/ UNCHANGED file
           \/ \E says \in {NoPipe, NoParen, starts} : file' = WithText(says, FALSE)
        /\ UNCHANGED persisted
  /\ UNCHANGED <<up, starts, reporter, exists, published, refused, torn, panicked>>

-----------------------------------------------------------------------------
(* reportDroppedPackets.                                                   *)

\* Bug seeded for checking: the first line is taken.
FirstLine == Head(file).says

LastLine == Last(file).says

\* Without a line, or without a "(" in the last one, an index is out of range.
Readable == exists => file # <<>> /\ LastLine # NoParen

\* fileExists and readLines, which may fail.
ReadLines ==
  /\ up /\ reporter.at = "read"
  /\ \/ /\ Readable
        /\ reporter' = IF ~exists \/ LastLine = NoPipe THEN At("done")
                       ELSE [at |-> "received", line |-> LastLine]
        /\ UNCHANGED failures
     \/ /\ exists /\ failures < MaxFailures
        /\ failures' = failures + 1
        /\ reporter' = At("done")
  /\ UNCHANGED <<up, starts, reader, fileVars, published, refused, torn, panicked>>

ReadPanics ==
  /\ up /\ reporter.at = "read"
  /\ ~Readable
  /\ up' = FALSE
  /\ panicked' = panicked \union {starts}
  /\ torn' = (torn \/ (reader = "write" /\ file = <<>>))
  /\ UNCHANGED <<starts, reader, reporter, fileVars, published, refused, failures>>

\* What PutMetric is called with.
Datum == <<reporter.at, reporter.line>>

\* Bug seeded for checking: the reporter returns after a first metric that fails.
PutMetricReturns ==
  /\ up /\ reporter.at \in Metrics
  /\ \/ published' = published \union {Datum} /\ UNCHANGED refused
        /\ reporter' = [reporter EXCEPT !.at = IF @ = "received" THEN "dropped" ELSE "done"]
     \/ refused' = refused \union {Datum} /\ UNCHANGED published
        /\ reporter' = At("done")
  /\ UNCHANGED <<up, starts, reader, fileVars, failures, torn, panicked>>

\* PutMetric, which may fail; its error is logged, and the second metric is put all the same.
PutMetric ==
  /\ up /\ reporter.at \in Metrics
  /\ \/ published' = published \union {Datum} /\ UNCHANGED refused
     \/ refused' = refused \union {Datum} /\ UNCHANGED published
  /\ reporter' = [reporter EXCEPT !.at = IF @ = "received" THEN "dropped" ELSE "done"]
  /\ UNCHANGED <<up, starts, reader, fileVars, failures, torn, panicked>>

ReaderStep == ReadReport \/ OpenFile \/ WriteString
ReporterStep == ReadLines \/ ReadPanics \/ PutMetric

DropNext == Start \/ Exit \/ ReaderStep \/ ReporterStep

\* The goroutine of reportDroppedPackets runs.
DropSpec == DropInit /\ [][DropNext]_dropVars /\ WF_dropVars(ReporterStep)

-----------------------------------------------------------------------------
(* Properties.                                                             *)

\* A start panics only when an earlier process, or this one, has ended or been
\* overtaken between creating the file and its first line, or a write failed
\* (entrypoint.go, "before we try using it to prevent further errors").
PanicsOnlyTorn ==
  panicked # {} => failures > 0 \/ torn

\* Unless a write failed, the file ends with the last report that was persisted,
\* and a start publishes nothing but a whole report, the last one of those that
\* were in the file before its own.
PublishesReports ==
  failures = 0 =>
    /\ persisted # 0 => Last(file).says = persisted
    /\ \A m \in published : m[2] \in 1 .. persisted
    /\ up /\ reporter.at \in Metrics => reporter.line = persisted \/ persisted = starts

\* A start that finds a persisted report puts both metrics of it, or of a later
\* one written meanwhile, the second one also when the call for the first fails
\* (entrypoint.go only logs PutMetric's error), unless a call of the file system
\* fails or something other than the reporter ends the process first.
Published ==
  \A r \in Reports :
    up /\ reporter.at = "read" /\ persisted = r ~>
      \/ \E later \in r .. MaxStarts : Metrics \X {later} \subseteq published \union refused
      \/ failures > 0
      \/ ~up /\ starts \notin panicked
=============================================================================
