------------------------------- MODULE Exporter -------------------------------
(***************************************************************************)
(* The exporter (exporters/processor.go).  Two goroutines share the slice  *)
(* of transactions under a mutex: aggregate() moves them there from the    *)
(* input channel, export() takes all of them on every tick, splits them    *)
(* into one har per application and calls every har processor with each.   *)
(* Both select on the same stop channel and share the unlocked flag        *)
(* stopped.                                                                *)
(*                                                                         *)
(* Transactions are numbered in the order Queue is called with them.  A    *)
(* har is the sequence of its transactions.  The entries of a har share    *)
(* their AppId pointers with every processor that sees it                  *)
(* (har/har.go, exporters/s3.go).  The settings of the program are one of  *)
(* Settings, chosen at the start.                                          *)
(***************************************************************************)
EXTENDS Naturals, Sequences, SequencesExt, Subsequences

CONSTANTS
  NumTransactions,  \* bound: transactions that are queued
  ChannelBuffer,    \* capacity of the input channel (flag channel-buffer)
  AppId,            \* AppId[t]: the application (address and port) of t
  Settings          \* splitByHost: flag split-by-host
                    \* processors: flag har-processors, the kinds in order
                    \* failing: indexes of those that may return an error
                    \* ignored: transactions shouldDumpEntry leaves out
                    \* (health checks)

Transaction == 1 .. NumTransactions
Apps == {AppId[t] : t \in Transaction}
NoApp == "_0"

ASSUME ExporterAssumption ==
  /\ NumTransactions \in Nat
  /\ ChannelBuffer \in Nat \ {0}
  /\ DOMAIN AppId = Transaction
  /\ NoApp \notin Apps
  /\ \A s \in Settings :
       /\ s.ignored \subseteq Transaction
       /\ s.splitByHost \in BOOLEAN
       /\ s.processors \in Seq(STRING) \ {<<>>}
       /\ s.failing \subseteq DOMAIN s.processors

VARIABLES
  setting,       \* the one of Settings the program runs with
  queued,        \* calls of Queue that have sent
  input,         \* the input channel
  transactions,  \* the shared slice
  stopChannel,   \* messages in the stop channel
  stopped,       \* the shared flag
  pc,            \* pc[g]: where goroutine g is
  held,          \* the transaction aggregate() has received, as a sequence
  toExport,      \* entries of this cycle not yet in a har
  har,           \* the har being processed
  proc,          \* the processor that gets it next, 0 when there is none
  emptied,       \* transactions whose AppId was emptied
  delivered,     \* delivered[p]: what processor p took, as <<transaction, app id>>
  stopPc         \* the caller of Stop

Goroutine == {"aggregate", "export"}

exportVars == <<toExport, har, proc, emptied, delivered>>
vars == <<setting, queued, input, transactions, stopChannel, stopped, pc, held,
          exportVars, stopPc>>

Ignored == setting.ignored
SplitByHost == setting.splitByHost
Processors == setting.processors
Failing == setting.failing

Init ==
  /\ setting \in Settings
  /\ queued = 0
  /\ input = <<>>
  /\ transactions = <<>>
  /\ stopChannel = 0
  /\ stopped = FALSE
  /\ pc = [g \in Goroutine |-> "loop"]
  /\ held = <<>>
  /\ toExport = <<>>
  /\ har = <<>>
  /\ proc = 0
  /\ emptied = {}
  /\ delivered = [p \in DOMAIN Processors |-> <<>>]
  /\ stopPc = "running"

-----------------------------------------------------------------------------
(* Callers: Queue, called by the capture engine, and Stop.                 *)

Queue ==
  /\ queued < NumTransactions
  /\ Len(input) < ChannelBuffer
  /\ queued' = queued + 1
  /\ input' = Append(input, queued + 1)
  /\ UNCHANGED <<setting, transactions, stopChannel, stopped, pc, held,
                 exportVars, stopPc>>

StopChannelSize == 2

\* Bug seeded for checking: the stop channel has no buffer.
StopSendUnbuffered ==
  /\ stopPc \in {"running", "second"}
  /\ stopChannel = 0 /\ \E g \in Goroutine : pc[g] = "select"
  /\ stopChannel' = stopChannel + 1
  /\ stopPc' = IF stopPc = "running" THEN "second" ELSE "wait"
  /\ UNCHANGED <<setting, queued, input, transactions, stopped, pc, held,
                 exportVars>>

\* The two sends of Stop.
StopSend ==
  /\ stopPc \in {"running", "second"}
  /\ stopChannel < StopChannelSize
  /\ stopChannel' = stopChannel + 1
  /\ stopPc' = IF stopPc = "running" THEN "second" ELSE "wait"
  /\ UNCHANGED <<setting, queued, input, transactions, stopped, pc, held,
                 exportVars>>

StopReturn ==
  /\ stopPc = "wait"
  /\ \A g \in Goroutine : pc[g] = "done"
  /\ stopPc' = "returned"
  /\ UNCHANGED <<setting, queued, input, transactions, stopChannel, stopped,
                 pc, held, exportVars>>

-----------------------------------------------------------------------------
(* The loops of both goroutines.                                           *)

LoopCheck(g) ==
  /\ pc[g] = "loop"
  /\ pc' = [pc EXCEPT ![g] = IF stopped THEN "done" ELSE "select"]
  /\ UNCHANGED <<setting, queued, input, transactions, stopChannel, stopped,
                 held, exportVars, stopPc>>

TakeStop(g) ==
  /\ pc[g] = "select"
  /\ stopChannel > 0
  /\ stopChannel' = stopChannel - 1
  /\ stopped' = TRUE
  /\ pc' = [pc EXCEPT ![g] = "loop"]
  /\ UNCHANGED <<setting, queued, input, transactions, held, exportVars,
                 stopPc>>

\* aggregate()
Receive ==
  /\ pc["aggregate"] = "select"
  /\ input # <<>>
  /\ held' = <<Head(input)>>
  /\ input' = Tail(input)
  /\ pc' = [pc EXCEPT !["aggregate"] = "append"]
  /\ UNCHANGED <<setting, queued, transactions, stopChannel, stopped,
                 exportVars, stopPc>>

AppendTransaction ==
  /\ pc["aggregate"] = "append"
  /\ transactions' = transactions \o held
  /\ held' = <<>>
  /\ pc' = [pc EXCEPT !["aggregate"] = "loop"]
  /\ UNCHANGED <<setting, queued, input, stopChannel, stopped, exportVars,
                 stopPc>>

-----------------------------------------------------------------------------
(* export(), dumpTransactions and process.                                 *)

Kept(s) == Among(s, Transaction \ Ignored)

Of(a) == {t \in Transaction : AppId[t] = a}
OfApp(s, a) == Among(s, Of(a))

\* Bug seeded for checking: the slice is not reset.
TickKeepsTransactions ==
  /\ pc["export"] = "select"
  /\ toExport' = transactions
  /\ transactions' = transactions
  /\ pc' = [pc EXCEPT !["export"] = "dump"]
  /\ UNCHANGED <<setting, queued, input, stopChannel, stopped, held, har, proc,
                 emptied, delivered, stopPc>>

\* The tick: under the mutex, all transactions are taken.
Tick ==
  /\ pc["export"] = "select"
  /\ toExport' = transactions
  /\ transactions' = <<>>
  /\ pc' = [pc EXCEPT !["export"] = "dump"]
  /\ UNCHANGED <<setting, queued, input, stopChannel, stopped, held, har, proc,
                 emptied, delivered, stopPc>>

\* Bug seeded for checking: an application is grouped before its entries are
\* filtered.
AppsBeforeFilter(s) == {AppId[t] : t \in ToSet(s)}

AppsIn(s) == {AppId[t] : t \in ToSet(Kept(s))}

\* getHarFiles: the next har, in any order of the applications.
NextHar ==
  /\ pc["export"] = "dump" /\ proc = 0
  /\ \/ /\ SplitByHost
        /\ \E a \in AppsIn(toExport) :
             /\ har' = OfApp(Kept(toExport), a)
             /\ toExport' = Among(toExport, Transaction \ Of(a))
     \/ /\ ~SplitByHost
        /\ toExport # <<>>
        /\ har' = Kept(toExport)
        /\ toExport' = <<>>
  /\ proc' = 1
  /\ UNCHANGED <<setting, queued, input, transactions, stopChannel, stopped,
                 pc, held, emptied, delivered, stopPc>>

\* Bug seeded for checking: writing a file empties the ids as well.
EveryKindEmpties(kind) == TRUE

\* S3Client.Process empties the app ids behind the entries' shared pointers.
EmptiesAppId(kind) == kind = "s3"

AppIdSeen(t) == IF t \in emptied THEN NoApp ELSE AppId[t]

Taken(s) == [i \in DOMAIN s |-> <<s[i], AppIdSeen(s[i])>>]

\* Bug seeded for checking: the loop over the processors runs once too often.
CallOncePast(ok) ==
  /\ pc["export"] = "dump" /\ proc # 0
  /\ ok \/ proc \in Failing
  /\ delivered' = IF ok THEN [delivered EXCEPT ![proc] = @ \o Taken(har)] ELSE delivered
  /\ emptied' = emptied \union IF EmptiesAppId(Processors[proc]) THEN ToSet(har)
                                                                 ELSE {}
  /\ proc' = IF proc <= Len(Processors) THEN proc + 1 ELSE 0
  /\ har' = IF proc <= Len(Processors) THEN har ELSE <<>>
  /\ UNCHANGED <<setting, queued, input, transactions, stopChannel, stopped,
                 pc, held, toExport, stopPc>>

\* process: one processor is called; an error of it is logged.
Call(ok) ==
  /\ pc["export"] = "dump" /\ proc # 0
  /\ ok \/ proc \in Failing
  /\ delivered' = IF ok THEN [delivered EXCEPT ![proc] = @ \o Taken(har)] ELSE delivered
  /\ emptied' = emptied \union IF EmptiesAppId(Processors[proc]) THEN ToSet(har)
                                                                 ELSE {}
  /\ proc' = IF proc < Len(Processors) THEN proc + 1 ELSE 0
  /\ har' = IF proc < Len(Processors) THEN har ELSE <<>>
  /\ UNCHANGED <<setting, queued, input, transactions, stopChannel, stopped,
                 pc, held, toExport, stopPc>>

Process == \E ok \in BOOLEAN : Call(ok)

Exhausted(s) == IF SplitByHost THEN AppsIn(s) = {} ELSE s = <<>>

\* Bug seeded for checking: a cycle ends the goroutine.
DumpEndsExport ==
  /\ pc["export"] = "dump" /\ proc = 0
  /\ Exhausted(toExport)
  /\ toExport' = <<>>
  /\ pc' = [pc EXCEPT !["export"] = "done"]
  /\ UNCHANGED <<setting, queued, input, transactions, stopChannel, stopped,
                 held, har, proc, emptied, delivered, stopPc>>

DumpDone ==
  /\ pc["export"] = "dump" /\ proc = 0
  /\ Exhausted(toExport)
  /\ toExport' = <<>>
  /\ pc' = [pc EXCEPT !["export"] = "loop"]
  /\ UNCHANGED <<setting, queued, input, transactions, stopChannel, stopped,
                 held, har, proc, emptied, delivered, stopPc>>

AggregateStep ==
  LoopCheck("aggregate") \/ TakeStop("aggregate") \/ Receive \/ AppendTransaction

ExportStep ==
  LoopCheck("export") \/ TakeStop("export") \/ Tick \/ NextHar \/ Process \/ DumpDone

Next == Queue \/ StopSend \/ StopReturn \/ AggregateStep \/ ExportStep

\* The goroutines run, the ticker ticks and the processors return.  A select
\* with several ready cases picks one at random, so it does not pass over the
\* stop channel forever.  Nothing obliges anyone to call Queue or Stop; a
\* caller inside Stop goes on.
Fairness ==
  /\ WF_vars(AggregateStep)
  /\ WF_vars(ExportStep)
  /\ \A g \in Goroutine : SF_vars(TakeStop(g))
  /\ WF_vars(stopPc # "running" /\ StopSend)
  /\ WF_vars(StopReturn)

Spec == Init /\ [][Next]_vars /\ Fairness

-----------------------------------------------------------------------------
(* Properties.                                                             *)

TypeOK ==
  /\ setting \in Settings
  /\ queued \in 0 .. NumTransactions
  /\ {input, transactions, held, toExport, har} \subseteq Seq(Transaction)
  /\ Len(input) <= ChannelBuffer /\ Len(held) <= 1
  /\ stopChannel \in 0 .. StopChannelSize
  /\ stopped \in BOOLEAN
  /\ pc \in [Goroutine -> {"loop", "select", "append", "dump", "done"}]
  /\ proc \in 0 .. Len(Processors)
  /\ emptied \subseteq Transaction
  /\ \A p \in DOMAIN Processors :
       delivered[p] \in Seq(Transaction \X (Apps \union {NoApp}))
  /\ stopPc \in {"running", "second", "wait", "returned"}

Numbers(s) == [i \in DOMAIN s |-> s[i][1]]

\* What processor p has taken and what is still on its way to it, in order.
Way(p) ==
  Numbers(delivered[p]) \o (IF proc # 0 /\ proc <= p THEN har ELSE <<>>)
    \o toExport \o transactions \o held \o input

\* No transaction is lost, repeated or overtaken by a later one of its
\* application between Queue and a processor that does not fail, whatever the
\* interleaving of the two goroutines, the failures of the other processors
\* and the moment of Stop.
ConservedInOrder ==
  \A p \in DOMAIN Processors \ Failing, a \in Apps :
    OfApp(Kept(Way(p)), a) = OfApp(Kept([i \in 1 .. queued |-> i]), a)

AfterS3(p) == \E q \in 1 .. p - 1 : Processors[q] = "s3"

\* Every processor sees the application its har belongs to, unless it comes
\* after s3: the other processors do not disturb each other (s3.go, "empty app
\* ids in order to remove them from JSON").
SeesItsApp ==
  \A p \in DOMAIN Processors : ~AfterS3(p) =>
    \A i \in DOMAIN delivered[p] : delivered[p][i][2] = AppId[delivered[p][i][1]]

\* A processor is never given a har without entries, of which s3, and with
\* split-by-appid file and sites-stats, read Entries[0].  The one har of all
\* applications may lose its entries to the health checks.
EntriesNotEmpty == SplitByHost \/ Ignored = {} => (proc # 0 => har # <<>>)

\* Stop returns: both goroutines leave their loops, in whatever order they
\* find the two messages and the flag.
StopReturns == stopPc # "running" ~> stopPc = "returned"
=============================================================================
