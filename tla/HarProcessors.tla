---------------------------- MODULE HarProcessors ----------------------------
(***************************************************************************)
(* The exporter with its har processors: the calls of Process that         *)
(* Exporter abstracts to Call are those of the file writer                 *)
(* (exporters/har_to_file.go), of S3Client and of Statistics, and the      *)
(* goroutines that the processors and the aggregated log start run next to *)
(* the exporter's two.  The har processors of a setting are of different   *)
(* kinds.  The process ends when Stop has returned.                        *)
(*                                                                         *)
(* A setting also has                                                      *)
(*   splitByAppId  flag split-by-appid                                     *)
(*   paced         no two export cycles write files in the same second     *)
(*   badQueries    transactions whose query string does not parse          *)
(***************************************************************************)
EXTENDS Exporter, S3Client, Statistics

ASSUME HarAssumption ==
  /\ Keys = Apps \union {NoApp}
  /\ \A s \in Settings :
       /\ {s.splitByAppId, s.paced} \subseteq BOOLEAN
       /\ s.badQueries \subseteq Transaction
       /\ IsInjective(s.processors)
       /\ \A p \in s.failing : s.processors[p] \in {"file", "sampled-transactions"}

VARIABLES
  files,   \* the har files: their names and the hars in them
  second,  \* the clock, of which a file name has the seconds
  inside   \* Process of the current har processor is under way

procVars == <<s3Vars, statVars, files, second, inside>>
harVars == <<vars, procVars>>

HarInit ==
  /\ Init /\ S3Init /\ StatInit
  /\ files = {}
  /\ second = 0
  /\ inside = FALSE

Used(kind) == kind \in ToSet(Processors)
Calling(kind) == pc["export"] = "dump" /\ proc # 0 /\ Processors[proc] = kind

\* GetAppId of the first entry.
FirstAppId == AppIdSeen(Head(har))

-----------------------------------------------------------------------------
(* The cycle, and the calls of Process.                                    *)

\* convert warns of a query that it cannot parse, for every transaction.
HarTick ==
  /\ setting.paced => \A f \in files : f.second < second
  /\ Tick
  /\ Warn(Len(Among(transactions, setting.badQueries)))
  /\ UNCHANGED <<s3Vars, sites, sizes, periodic, sampled, files, second, inside>>

Prefix == IF setting.splitByAppId THEN FirstAppId ELSE ""

\* Bug seeded for checking: the prefix is left out.
WriteFileUnprefixed(data) ==
  {f \in files : f.second # second}
    \union {[prefix |-> "", second |-> second, har |-> data]}

\* ioutil.WriteFile replaces the file of that name.
WriteFile(data) ==
  {f \in files : f.prefix # Prefix \/ f.second # second}
    \union {[prefix |-> Prefix, second |-> second, har |-> data]}

\* HarToFile.  When it fails the file may have been truncated.
FileProcess ==
  /\ Calling("file")
  /\ \/ Call(TRUE) /\ files' = WriteFile(har)
     \/ Call(FALSE) /\ files' \in {files, WriteFile(<<>>)}
  /\ UNCHANGED <<s3Vars, statVars, second, inside>>

S3Key == FirstAppId

\* S3Client.Process keeps the har also when the upload fails.
S3Process ==
  /\ Calling("s3")
  /\ \/ /\ ~inside
        /\ Hold(S3Key, har)
        /\ inside' = (uploading' = "Size")
        /\ IF inside' THEN UNCHANGED vars ELSE Call(TRUE)
     \/ /\ inside /\ uploading # "Size"
        /\ inside' = FALSE
        /\ Call(TRUE)
        /\ UNCHANGED s3Vars
  /\ UNCHANGED <<statVars, files, second>>

SitesProcess ==
  /\ Calling("sites-stats")
  /\ \/ ~inside /\ SitesTotal(har) /\ inside' = TRUE /\ UNCHANGED vars
     \/ inside /\ SitesHost(FirstAppId, har, setting.splitByAppId)
          /\ inside' = FALSE /\ Call(TRUE)
  /\ UNCHANGED <<s3Vars, sizes, periodic, sampled, aggregated, files, second>>

SizesProcess ==
  /\ Calling("transactions-sizes")
  /\ \/ ~inside /\ SizesRequests(har) /\ inside' = TRUE /\ UNCHANGED vars
     \/ inside /\ SizesResponses(har) /\ inside' = FALSE /\ Call(TRUE)
  /\ UNCHANGED <<s3Vars, sites, periodic, sampled, aggregated, files, second>>

PeriodicCall ==
  /\ Calling("cw-sites-stats")
  /\ PeriodicProcess(har)
  /\ Call(TRUE)
  /\ UNCHANGED <<s3Vars, sites, sizes, sampled, aggregated, files, second, inside>>

\* SampleTransactions.Process; the first error of print ends it.
SampleProcess ==
  /\ Calling("sampled-transactions")
  /\ \/ ~inside /\ SampleStart(har) /\ inside' = TRUE /\ UNCHANGED vars
     \/ inside /\ (SampleSkip \/ SampleLoad \/ SampleStore \/ SamplePrint(TRUE))
          /\ UNCHANGED <<vars, inside>>
     \/ inside /\ SamplePrint(FALSE) /\ inside' = FALSE /\ Call(FALSE)
     \/ inside /\ sampled.rest = <<>> /\ inside' = FALSE /\ Call(TRUE)
          /\ UNCHANGED sampled
  /\ UNCHANGED <<s3Vars, sites, sizes, periodic, aggregated, files, second>>

HarProcess ==
  FileProcess \/ S3Process \/ SitesProcess \/ SizesProcess \/ PeriodicCall \/ SampleProcess

-----------------------------------------------------------------------------
(* The other goroutines, and the clock.                                    *)

Running == stopPc # "returned"

UploadEnds == (Uploaded \/ UploadFails) /\ uploading # "no"

S3Timer ==
  /\ Running
  /\ PurgeTick \/ UploadEnds
  /\ UNCHANGED <<vars, statVars, files, second, inside>>

SitesTimer ==
  /\ Running /\ Used("sites-stats")
  /\ SitesPrint
  /\ UNCHANGED <<vars, s3Vars, sizes, periodic, sampled, aggregated, files, second, inside>>

SizesTimer ==
  /\ Running /\ Used("transactions-sizes")
  /\ PrintRequests \/ PrintResponses
  /\ UNCHANGED <<vars, s3Vars, sites, periodic, sampled, aggregated, files, second, inside>>

\* flag send-sites-stats-to-cloudwatch starts it.
PeriodicTimer ==
  /\ Running /\ Used("cw-sites-stats")
  /\ PutTransactions \/ PutSize \/ PeriodicReset
  /\ UNCHANGED <<vars, s3Vars, sites, sizes, sampled, aggregated, files, second, inside>>

SampleTimer ==
  /\ Running /\ Used("sampled-transactions")
  /\ SampleTick
  /\ UNCHANGED <<vars, s3Vars, sites, sizes, periodic, aggregated, files, second, inside>>

AggregatedTimer ==
  /\ Running /\ setting.badQueries # {}
  /\ publishToCloudWatch \/ printAggregated
  /\ UNCHANGED <<vars, s3Vars, sites, sizes, periodic, sampled, files, second, inside>>

\* A second passes; only those in which a file was written matter.
Clock ==
  /\ Running
  /\ \E f \in files : f.second = second
  /\ second' = second + 1
  /\ UNCHANGED <<vars, s3Vars, statVars, files, inside>>

-----------------------------------------------------------------------------

HarAggregateStep == AggregateStep /\ UNCHANGED procVars

HarTakeStop(g) == TakeStop(g) /\ UNCHANGED procVars

HarExportStep ==
  \/ (LoopCheck("export") \/ NextHar \/ DumpDone) /\ UNCHANGED procVars
  \/ HarTakeStop("export") \/ HarTick \/ HarProcess

HarStop == (StopSend \/ StopReturn) /\ UNCHANGED procVars

HarNext ==
  \/ Queue /\ UNCHANGED procVars
  \/ HarStop
  \/ HarAggregateStep \/ HarExportStep
  \/ S3Timer \/ SitesTimer \/ SizesTimer \/ PeriodicTimer \/ SampleTimer
  \/ AggregatedTimer \/ Clock

\* As in Exporter; the purge ticker ticks, an upload ends one way or the other
\* (the failures are bounded), and time passes.  A print ends, and Go's mutex is
\* handed to who waits for it, however often the ticker takes it.
HarFairness ==
  /\ WF_harVars(HarAggregateStep)
  /\ WF_harVars(HarExportStep)
  /\ \A g \in Goroutine : SF_harVars(HarTakeStop(g))
  /\ WF_harVars(stopPc # "running" /\ HarStop)
  /\ WF_harVars(S3Timer)
  /\ WF_harVars(sizes.printing /\ SizesTimer)
  /\ SF_harVars(SizesProcess)
  /\ WF_harVars(Clock)

HarSpec == HarInit /\ [][HarNext]_harVars /\ HarFairness

-----------------------------------------------------------------------------
(* Properties.  The s3 processor, where there is one, is S3Index.          *)

IndexOfKind(kind) == CHOOSE p \in DOMAIN Processors : Processors[p] = kind

\* What the processor of this kind has been given.
Given(kind) == IF Used(kind) THEN Numbers(delivered[IndexOfKind(kind)]) ELSE <<>>

\* Types; a mutex held is that of the call or the print under way, an upload for
\* size is one that Process waits for, and there is a file for every second that
\* the clock of the file names has passed.
HarTypeOK ==
  /\ TypeOK /\ S3TypeOK /\ StatTypeOK
  /\ second \in 0 .. Cardinality(files)
  /\ \A f \in files : f.second \in 0 .. second
  /\ inside => proc # 0
  /\ sites.locked => inside /\ Calling("sites-stats")
  /\ sizes.locked => (sizes.printing <=> ~(inside /\ Calling("transactions-sizes")))
  /\ uploading = "Size" => inside /\ Calling("s3")

KeyedByApp(data) == \A k \in Keys : \A e \in ToSet(data[k]) : AppId[e] = k

\* Every entry given to S3Client is held, or stored once in objects known to be
\* stored, whatever uploads fail and however the ticker and the exporter
\* alternate (exporters/s3.go: the holder is emptied only after a success); and
\* with split-by-host under its own application.
HeldOrStored ==
  /\ HeldOrStoredOnce(ToSet(Given("s3"))
                        \union IF inside /\ Calling("s3") THEN ToSet(har) ELSE {})
  /\ SplitByHost => KeyedByApp(dataHolder) /\ \A i \in DOMAIN bucket : KeyedByApp(bucket[i].data)

\* While uploads succeed no more entries are held than the maximum (config.go,
\* "max number of entries to accumulate before sending to s3").
HolderBounded ==
  uploading = "no" /\ lastUpload = "ok" => getNumOfEntries(dataHolder) <= MaxNumOfEntries

\* Until Stop is called, every queued transaction that is not a health check
\* reaches every processor that does not fail, and through S3Client the bucket:
\* the purge ticker uploads what the size does not, and retries what failed.
ExportedEventually ==
  \A t \in Transaction :
    t <= queued ~>
      \/ stopPc # "running" \/ t \in Ignored
      \/ \A p \in DOMAIN Processors \ Failing :
           /\ t \in ToSet(Numbers(delivered[p]))
           /\ Processors[p] = "s3" => Stored(t)

\* No file is overwritten: what HarToFile was given is in some file, when the
\* cycles are paced and the hars of one cycle have their application's prefix.
HarsKept ==
  Used("file") =>
    LET p == IndexOfKind("file")
    IN setting.paced /\ (SplitByHost => setting.splitByAppId /\ ~AfterS3(p)) =>
         ToSet(Given("file")) \subseteq UNION {ToSet(f.har) : f \in files}

\* What stands in the CSV files adds up although they are printed next to the
\* counting and any write of them may fail: a print holds the mutex over both
\* size files, and what a failed one leaves the next one replaces.
PrintedAddsUp ==
  /\ setting.splitByAppId => SitesAddUp
  /\ SizesAddUp(Given("transactions-sizes")
                  \o IF inside /\ Calling("transactions-sizes") THEN har ELSE <<>>)

\* Every transaction given to PeriodicSiteStats goes into one call for each
\* metric, every query that does not parse into one for its warning, and an
\* interval has no more samples than its rate and the one it took over, although
\* tickers reset what the exporter counts, and also when the calls fail.
IntervalsHold ==
  /\ PublishedOnce(Len(Given("cw-sites-stats")))
  /\ WarningsPublishedOnce
  /\ SampledWithinRate
=============================================================================
