----------------------------- MODULE Statistics -----------------------------
(***************************************************************************)
(* The har processors that count (exporters/sites_stats.go,                *)
(* transactions_sizes.go, cloud_watch_sites_stats.go,                      *)
(* sample_transactions.go) and the aggregated log                          *)
(* (core/aggregated/aggregated_log.go).  Each is fed by the exporter's     *)
(* goroutine and has a ticker goroutine of its own that prints, publishes  *)
(* or resets.  What is counted of an entry is whether its response exists  *)
(* and whether it is big; sizes in bytes are abstracted, an entry has two  *)
(* units.                                                                  *)
(***************************************************************************)
EXTENDS Naturals, Sequences, SequencesExt, Subsequences

CONSTANTS
  Unanswered,  \* transactions without response
  Big,         \* transactions that isRelevant of SampleTransactions accepts
  SampleRate   \* flag sample-transactions-rate

ASSUME StatisticsAssumption == SampleRate \in Nat

VARIABLES
  sites,      \* SitesStats: totalStats, hostsStats, the mutex, the CSV file
  sizes,      \* TransactionsSizes: counts, the mutex, both CSV files
  periodic,   \* PeriodicSiteStats: totals, where its ticker is, what became of them
  sampled,    \* SampleTransactions
  aggregated  \* the aggregated log: messages, what became of them

statVars == <<sites, sizes, periodic, sampled, aggregated>>

Nothing == [transactions |-> 0, withoutResponse |-> 0]

\* A file is the set of what stands in it: nothing when it is not there, is
\* truncated and not yet written, or was cut short by a write that failed.
NoFile == {}

StatInit ==
  /\ sites = [total |-> Nothing, hosts |-> <<>>, locked |-> FALSE, file |-> NoFile]
  /\ sizes = [requests |-> 0, responses |-> 0, locked |-> FALSE, printing |-> FALSE,
              requestsFile |-> NoFile, responsesFile |-> NoFile, failed |-> FALSE]
  /\ periodic = [transactions |-> 0, size |-> 0, at |-> "idle", sent |-> 0, sentSize |-> 0,
                 lost |-> 0, lostSize |-> 0, late |-> 0, lateSize |-> 0]
  /\ sampled = [printed |-> 0, loaded |-> 0, drawn |-> FALSE, rest |-> <<>>, inInterval |-> 0]
  /\ aggregated = [messages |-> 0, at |-> "idle", published |-> 0, lost |-> 0,
                   warned |-> 0, late |-> 0]

UnansweredIn(h) == Among(h, Unanswered)

-----------------------------------------------------------------------------
(* SitesStats and TransactionsSizes: both methods hold the mutex.  Process *)
(* is in two steps, and so is the print of two files, so that the mutex    *)
(* matters.  The errors of SaveToFile are swallowed.                       *)

\* What a file may hold after SaveToFile; when it fails, whichever of its calls
\* failed.
SaveToFile(ok, file, content) ==
  IF ok THEN {{content}} ELSE {file, NoFile, {content}}

Add(stats, h) ==
  [transactions |-> stats.transactions + Len(h),
   withoutResponse |-> stats.withoutResponse + Len(UnansweredIn(h))]

SitesTotal(h) ==
  /\ ~sites.locked
  /\ sites' = [sites EXCEPT !.total = Add(@, h), !.locked = TRUE]

HostStats(key) == IF key \in DOMAIN sites.hosts THEN sites.hosts[key] ELSE Nothing

SitesHost(key, h, splitByAppId) ==
  /\ sites.locked
  /\ sites' = [sites EXCEPT !.locked = FALSE,
                 !.hosts = IF splitByAppId
                           THEN [k \in DOMAIN sites.hosts \union {key} |->
                                   IF k = key THEN Add(HostStats(k), h) ELSE sites.hosts[k]]
                           ELSE @]

\* Bug seeded for checking: the mutex is not taken.
SitesPrintUnlocked ==
  \E ok \in BOOLEAN :
    \E file \in SaveToFile(ok, sites.file, [total |-> sites.total, hosts |-> sites.hosts]) :
      sites' = [sites EXCEPT !.file = file]

SitesPrint ==
  /\ ~sites.locked
  /\ \E ok \in BOOLEAN :
       \E file \in SaveToFile(ok, sites.file, [total |-> sites.total, hosts |-> sites.hosts]) :
         sites' = [sites EXCEPT !.file = file]

SizesRequests(h) ==
  /\ ~sizes.locked
  /\ sizes' = [sizes EXCEPT !.requests = @ + Len(h), !.locked = TRUE]

SizesResponses(h) ==
  /\ sizes.locked
  /\ sizes' = [sizes EXCEPT !.responses = @ + Len(h) - Len(UnansweredIn(h)),
                            !.locked = FALSE]

\* print, the first file.
PrintRequests ==
  /\ ~sizes.locked
  /\ \E ok \in BOOLEAN : \E file \in SaveToFile(ok, sizes.requestsFile, sizes.requests) :
       sizes' = [sizes EXCEPT !.requestsFile = file, !.failed = ~ok,
                              !.locked = TRUE, !.printing = TRUE]

\* The second one, whatever became of the first.
PrintResponses ==
  /\ sizes.printing
  /\ \E ok \in BOOLEAN : \E file \in SaveToFile(ok, sizes.responsesFile, sizes.responses) :
       sizes' = [sizes EXCEPT !.responsesFile = file, !.failed = @ \/ ~ok,
                              !.locked = FALSE, !.printing = FALSE]

-----------------------------------------------------------------------------
(* PeriodicSiteStats: the ticker reads the totals without the mutex, one   *)
(* for each metric, and resets them with it, whether or not PutMetric has  *)
(* failed.  sent, lost and late are what became of the transactions:       *)
(* published, in a call that failed, or added after the total was read and *)
(* before it was reset; sentSize, lostSize and lateSize of the size.       *)

PeriodicProcess(h) ==
  periodic' = [periodic EXCEPT !.transactions = @ + Len(h), !.size = @ + 2 * Len(h),
                               !.late = @ + IF periodic.at # "idle" THEN Len(h) ELSE 0,
                               !.lateSize = @ + IF periodic.at = "reset" THEN 2 * Len(h)
                                                                         ELSE 0]

PutTransactions ==
  /\ periodic.at = "idle"
  /\ \/ periodic' = [periodic EXCEPT !.sent = @ + periodic.transactions, !.at = "size"]
     \/ periodic' = [periodic EXCEPT !.lost = @ + periodic.transactions, !.at = "size"]

PutSize ==
  /\ periodic.at = "size"
  /\ \/ periodic' = [periodic EXCEPT !.sentSize = @ + periodic.size, !.at = "reset"]
     \/ periodic' = [periodic EXCEPT !.lostSize = @ + periodic.size, !.at = "reset"]

\* Bug seeded for checking: one of the totals is not reset.
PeriodicResetOne ==
  /\ periodic.at = "reset"
  /\ periodic' = [periodic EXCEPT !.transactions = 0, !.at = "idle"]

PeriodicReset ==
  /\ periodic.at = "reset"
  /\ periodic' = [periodic EXCEPT !.transactions = 0, !.size = 0, !.at = "idle"]

-----------------------------------------------------------------------------
(* SampleTransactions: printed is written by Process and by the ticker,    *)
(* without a mutex.  rest is what the loop of Process has still to see;    *)
(* drawn says that its first entry is about to be printed.                 *)

SampleStart(h) == sampled.rest = <<>> /\ sampled' = [sampled EXCEPT !.rest = h]

Wanted == Head(sampled.rest) \in Big /\ sampled.printed > 0

SampleSkip ==
  /\ sampled.rest # <<>> /\ sampled.loaded = 0 /\ ~sampled.drawn
  /\ ~Wanted
  /\ sampled' = [sampled EXCEPT !.rest = Tail(@)]

\* s.printed--, first half: the test and the load.
SampleLoad ==
  /\ sampled.rest # <<>> /\ sampled.loaded = 0 /\ ~sampled.drawn
  /\ Wanted
  /\ sampled' = [sampled EXCEPT !.loaded = sampled.printed]

\* The store.
SampleStore ==
  /\ sampled.loaded > 0
  /\ sampled' = [sampled EXCEPT !.printed = sampled.loaded - 1, !.loaded = 0, !.drawn = TRUE]

\* print; an error of it ends Process.
SamplePrint(ok) ==
  /\ sampled.drawn
  /\ sampled' = [sampled EXCEPT !.drawn = FALSE, !.inInterval = @ + 1,
                                !.rest = IF ok THEN Tail(@) ELSE <<>>]

SampleTick == sampled' = [sampled EXCEPT !.printed = SampleRate, !.inInterval = 0]

-----------------------------------------------------------------------------
(* The aggregated log: publishing and resetting take the mutex one after   *)
(* the other, whether or not PutMetric has failed.                         *)

Warn(count) ==
  aggregated' = [aggregated EXCEPT !.messages = @ + count, !.warned = @ + count,
                                   !.late = @ + IF aggregated.at = "print" THEN count
                                                                           ELSE 0]

publishToCloudWatch ==
  /\ aggregated.at = "idle"
  /\ \/ aggregated' = [aggregated EXCEPT !.published = @ + aggregated.messages, !.at = "print"]
     \/ aggregated' = [aggregated EXCEPT !.lost = @ + aggregated.messages, !.at = "print"]

printAggregated ==
  /\ aggregated.at = "print"
  /\ aggregated' = [aggregated EXCEPT !.messages = 0, !.at = "idle"]

-----------------------------------------------------------------------------
(* Properties.                                                             *)

StatTypeOK ==
  /\ sites.locked \in BOOLEAN
  /\ {sizes.locked, sizes.printing, sizes.failed} \subseteq BOOLEAN
  /\ periodic.at \in {"idle", "size", "reset"}
  /\ sampled.printed \in 0 .. SampleRate /\ sampled.loaded \in 0 .. SampleRate
  /\ sampled.drawn \in BOOLEAN
  /\ aggregated.at \in {"idle", "print"}

\* Two statistics of given units: every unit is still counted, or it went into
\* exactly one call of PutMetric for each statistic, which published it or
\* failed, or it came between reading and resetting.
PublishedOnce(given) ==
  periodic.at = "idle" =>
    /\ periodic.sent + periodic.lost + periodic.transactions + periodic.late = given
    /\ periodic.sentSize + periodic.lostSize + periodic.size + periodic.lateSize = 2 * given

\* What stands in the file of SitesStats adds up: the total is the sum of the
\* hosts.
SitesAddUp ==
  \A file \in sites.file, f \in {"transactions", "withoutResponse"} :
    file.total[f] = MapThenSumSet(LAMBDA k : file.hosts[k][f], DOMAIN file.hosts)

\* When TransactionsSizes has printed both files without an error, they are of
\* the same transactions, the first ones of those in the sequence counted.
SizesAddUp(counted) ==
  ~sizes.printing /\ ~sizes.failed =>
    \A n \in sizes.requestsFile, m \in sizes.responsesFile :
      m = n - Len(UnansweredIn(SubSeq(counted, 1, n)))

\* At most SampleRate transactions are sampled in an interval, and one more
\* that was drawn before the tick and printed after it, although Process and
\* the ticker write the counter at the same time (README.md, "how many
\* transactions should be sampled in each stats interval").
SampledWithinRate == sampled.inInterval <= SampleRate + 1

\* Every warning is still counted, or it went into exactly one call of
\* PutMetric, or it came between publishing and resetting.
WarningsPublishedOnce ==
  aggregated.at = "idle" =>
    aggregated.published + aggregated.lost + aggregated.messages + aggregated.late
      = aggregated.warned
=============================================================================
