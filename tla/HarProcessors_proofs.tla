------------------------ MODULE HarProcessors_proofs -------------------------
(***************************************************************************)
(* Theorems about the exporter and its har processors, for any number of   *)
(* transactions, applications and settings.  What the exporter promises    *)
(* (Exporter) is proved of its own steps; HarProcessors takes no others.   *)
(***************************************************************************)
EXTENDS HarProcessors, SequenceLemmas

Deliveries == Transaction \X (Apps \union {NoApp})

(***************************************************************************)
(* Types.  TypeOK is inductive once it also says when the two goroutines   *)
(* hold something.                                                         *)
(***************************************************************************)
Shape ==
  /\ delivered \in [DOMAIN Processors -> Seq(Deliveries)]
  /\ pc["aggregate"] # "append" => held = <<>>
  /\ pc["export"] # "dump" => toExport = <<>> /\ proc = 0
  /\ proc = 0 => har = <<>>

Typed == TypeOK /\ Shape

\* What a setting says of its processors.
LEMMA SettingFacts ==
  ASSUME setting \in Settings
  PROVE  /\ Processors \in Seq(STRING) /\ Len(Processors) \in Nat \ {0}
         /\ DOMAIN Processors = 1 .. Len(Processors)
         /\ Ignored \subseteq Transaction /\ Failing \subseteq DOMAIN Processors
         /\ SplitByHost \in BOOLEAN
<1>1. /\ Processors \in Seq(STRING) /\ Processors # <<>>
      /\ Ignored \subseteq Transaction /\ Failing \subseteq DOMAIN Processors
      /\ SplitByHost \in BOOLEAN
  BY ExporterAssumption DEF Processors, Ignored, Failing, SplitByHost
<1> QED
  BY <1>1, EmptySeq, LenProperties

\* The application of a transaction, as a processor sees it.
LEMMA SeenType ==
  ASSUME NEW t \in Transaction
  PROVE  <<t, AppIdSeen(t)>> \in Deliveries
BY DEF Deliveries, AppIdSeen, Apps

\* Typed with its parts apart.
LEMMA TypedFacts ==
  ASSUME Typed
  PROVE  /\ setting \in Settings /\ queued \in 0 .. NumTransactions
         /\ input \in Seq(Transaction) /\ transactions \in Seq(Transaction)
         /\ held \in Seq(Transaction) /\ toExport \in Seq(Transaction)
         /\ har \in Seq(Transaction)
         /\ pc \in [Goroutine -> {"loop", "select", "append", "dump", "done"}]
         /\ proc \in 0 .. Len(Processors)
         /\ delivered \in [DOMAIN Processors -> Seq(Deliveries)]
BY DEF Typed, TypeOK, Shape

\* A step that moves no transaction.
LEMMA TypedStays ==
  ASSUME Typed, UNCHANGED <<setting, queued, input, transactions, held, exportVars>>,
         stopChannel' \in 0 .. StopChannelSize, stopped' \in BOOLEAN,
         stopPc' \in {"running", "second", "wait", "returned"},
         pc' \in [Goroutine -> {"loop", "select", "append", "dump", "done"}],
         pc'["aggregate"] = "append" <=> pc["aggregate"] = "append",
         pc'["export"] = "dump" <=> pc["export"] = "dump"
  PROVE  Typed'
<1>1. /\ UNCHANGED <<setting, queued, input, transactions, held>>
      /\ UNCHANGED <<toExport, har, proc, emptied, delivered>>
  BY DEF exportVars
<1>2. TypeOK'
  BY <1>1 DEF Typed, TypeOK, Processors
<1>3. Shape'
  BY <1>1 DEF Typed, Shape, Processors
<1> QED
  BY <1>2, <1>3 DEF Typed

\* The steps of either goroutine and of Stop that move no transaction.
LEMMA TypedControl ==
  ASSUME Typed, \/ StopSend \/ StopReturn
                \/ \E g \in Goroutine : LoopCheck(g) \/ TakeStop(g)
  PROVE  Typed'
<1>0. /\ pc \in [Goroutine -> {"loop", "select", "append", "dump", "done"}]
      /\ stopChannel \in 0 .. StopChannelSize /\ stopped \in BOOLEAN
      /\ stopPc \in {"running", "second", "wait", "returned"}
  BY DEF Typed, TypeOK
<1>1. CASE StopSend
  <2>1. UNCHANGED <<setting, queued, input, transactions, held, exportVars, stopped, pc>>
    BY <1>1 DEF StopSend
  <2>2. stopChannel' \in 0 .. StopChannelSize /\ stopPc' \in {"running", "second", "wait", "returned"}
    BY <1>0, <1>1 DEF StopSend, StopChannelSize
  <2> QED
    BY <1>0, <2>1, <2>2, TypedStays
<1>2. CASE StopReturn
  <2>1. /\ UNCHANGED <<setting, queued, input, transactions, held, exportVars, stopped, pc>>
        /\ stopChannel' = stopChannel /\ stopPc' = "returned"
    BY <1>2 DEF StopReturn
  <2> QED
    BY <1>0, <2>1, TypedStays
<1>3. ASSUME NEW g \in Goroutine, LoopCheck(g) PROVE Typed'
  <2>1. /\ UNCHANGED <<setting, queued, input, transactions, held, exportVars, stopped>>
        /\ stopChannel' = stopChannel /\ stopPc' = stopPc
    BY <1>3 DEF LoopCheck
  <2>2. /\ pc[g] = "loop"
        /\ pc' = [pc EXCEPT ![g] = IF stopped THEN "done" ELSE "select"]
    BY <1>3 DEF LoopCheck
  <2>3. pc' \in [Goroutine -> {"loop", "select", "append", "dump", "done"}]
    BY <1>0, <2>2
  <2>4. \A h \in Goroutine : pc'[h] = pc[h] \/ (h = g /\ pc'[h] \in {"done", "select"})
    BY <1>0, <2>2
  <2>5. "aggregate" \in Goroutine /\ "export" \in Goroutine
    BY DEF Goroutine
  <2>6. /\ pc'["aggregate"] = "append" <=> pc["aggregate"] = "append"
        /\ pc'["export"] = "dump" <=> pc["export"] = "dump"
    BY <2>2, <2>4, <2>5
  <2> QED
    BY <1>0, <2>1, <2>3, <2>6, TypedStays
<1>4. ASSUME NEW g \in Goroutine, TakeStop(g) PROVE Typed'
  <2>1. /\ UNCHANGED <<setting, queued, input, transactions, held, exportVars>>
        /\ stopPc' = stopPc /\ stopped' \in BOOLEAN
        /\ pc[g] = "select" /\ pc' = [pc EXCEPT ![g] = "loop"]
    BY <1>4 DEF TakeStop
  <2>2. stopChannel' \in 0 .. StopChannelSize
    BY <1>0, <1>4 DEF TakeStop, StopChannelSize
  <2>3. pc' \in [Goroutine -> {"loop", "select", "append", "dump", "done"}]
    BY <1>0, <2>1
  <2>4. \A h \in Goroutine : pc'[h] = pc[h] \/ (h = g /\ pc'[h] = "loop")
    BY <1>0, <2>1
  <2>5. "aggregate" \in Goroutine /\ "export" \in Goroutine
    BY DEF Goroutine
  <2>6. /\ pc'["aggregate"] = "append" <=> pc["aggregate"] = "append"
        /\ pc'["export"] = "dump" <=> pc["export"] = "dump"
    BY <2>1, <2>4, <2>5
  <2> QED
    BY <1>0, <2>1, <2>2, <2>3, <2>6, TypedStays
<1> QED
  BY <1>1, <1>2, <1>3, <1>4

\* Head and tail of a sequence put together.
LEMMA HeadBeforeTail ==
  ASSUME NEW S, NEW s \in Seq(S), s # <<>>
  PROVE  <<Head(s)>> \in Seq(S) /\ Tail(s) \in Seq(S) /\ <<Head(s)>> \o Tail(s) = s
<1>1. Head(s) \in S /\ Tail(s) \in Seq(S)
  BY HeadTailProperties
<1>2. <<Head(s)>> \in Seq(S)
  BY <1>1
<1>3. <<Head(s)>> \o Tail(s) = s
  BY <1>1
<1> QED
  BY <1>1, <1>2, <1>3

\* A har of a setting's application, or of all of them.
LEMMA SelectedType ==
  ASSUME NEW s \in Seq(Transaction), NEW a
  PROVE  Kept(s) \in Seq(Transaction) /\ OfApp(Kept(s), a) \in Seq(Transaction)
BY AmongType DEF Kept, OfApp

\* Types of what moves between the goroutines.
LEMMA TypedMoves ==
  ASSUME Typed, Queue \/ Receive \/ AppendTransaction \/ Tick
  PROVE  Typed'
<1>0. /\ setting \in Settings /\ queued \in 0 .. NumTransactions
      /\ input \in Seq(Transaction) /\ transactions \in Seq(Transaction)
      /\ held \in Seq(Transaction) /\ toExport \in Seq(Transaction)
      /\ har \in Seq(Transaction)
      /\ pc \in [Goroutine -> {"loop", "select", "append", "dump", "done"}]
  BY TypedFacts
<1>1. "aggregate" \in Goroutine /\ "export" \in Goroutine
  BY DEF Goroutine
<1>2. <<>> \in Seq(Transaction) /\ Len(<<>>) = 0
  OBVIOUS
<1>3. CASE Queue
  <2>1. /\ queued' = queued + 1 /\ queued < NumTransactions /\ Len(input) < ChannelBuffer
        /\ input' = Append(input, queued + 1)
        /\ UNCHANGED <<setting, transactions, stopChannel, stopped, pc, held, stopPc>>
        /\ UNCHANGED <<toExport, har, proc, emptied, delivered>>
    BY <1>3 DEF Queue, exportVars
  <2>2. queued' \in 0 .. NumTransactions /\ queued + 1 \in Transaction
    BY <1>0, <2>1, ExporterAssumption DEF Transaction
  <2>3. input' \in Seq(Transaction) /\ Len(input') <= ChannelBuffer
    <3>1. Len(input) \in Nat /\ ChannelBuffer \in Nat
      BY <1>0, ExporterAssumption, LenProperties
    <3> QED
      BY <1>0, <2>1, <2>2, <3>1, AppendProperties
  <2>4. TypeOK'
    BY <2>1, <2>2, <2>3 DEF Typed, TypeOK, Processors
  <2>5. Shape'
    BY <2>1 DEF Typed, Shape, Processors
  <2> QED
    BY <2>4, <2>5 DEF Typed
<1>4. CASE Receive
  <2>1. /\ input # <<>> /\ held' = <<Head(input)>> /\ input' = Tail(input)
        /\ pc["aggregate"] = "select" /\ pc' = [pc EXCEPT !["aggregate"] = "append"]
        /\ UNCHANGED <<setting, queued, transactions, stopChannel, stopped, stopPc>>
        /\ UNCHANGED <<toExport, har, proc, emptied, delivered>>
    BY <1>4 DEF Receive, exportVars
  <2>2. held' \in Seq(Transaction) /\ input' \in Seq(Transaction) /\ Len(held') = 1
    BY <1>0, <2>1, HeadBeforeTail
  <2>3. Len(input') <= ChannelBuffer
    <3>1. Len(input) <= ChannelBuffer /\ Len(input) \in Nat /\ Len(input') = Len(input) - 1
      BY <1>0, <2>1, HeadTailProperties, LenProperties DEF Typed, TypeOK
    <3> QED
      BY <3>1, ExporterAssumption
  <2>4. /\ pc' \in [Goroutine -> {"loop", "select", "append", "dump", "done"}]
        /\ pc'["export"] = pc["export"] /\ pc'["aggregate"] = "append"
    BY <1>0, <1>1, <2>1
  <2>5. TypeOK'
    BY <2>1, <2>2, <2>3, <2>4 DEF Typed, TypeOK, Processors
  <2>6. Shape'
    BY <2>1, <2>4 DEF Typed, Shape, Processors
  <2> QED
    BY <2>5, <2>6 DEF Typed
<1>5. CASE AppendTransaction
  <2>1. /\ transactions' = transactions \o held /\ held' = <<>>
        /\ pc' = [pc EXCEPT !["aggregate"] = "loop"]
        /\ UNCHANGED <<setting, queued, input, stopChannel, stopped, stopPc>>
        /\ UNCHANGED <<toExport, har, proc, emptied, delivered>>
    BY <1>5 DEF AppendTransaction, exportVars
  <2>2. transactions' \in Seq(Transaction)
    BY <1>0, <2>1, ConcatProperties
  <2>3. /\ pc' \in [Goroutine -> {"loop", "select", "append", "dump", "done"}]
        /\ pc'["export"] = pc["export"]
    BY <1>0, <1>1, <2>1
  <2>4. TypeOK'
    BY <1>2, <2>1, <2>2, <2>3 DEF Typed, TypeOK, Processors
  <2>5. Shape'
    BY <2>1, <2>3 DEF Typed, Shape, Processors
  <2> QED
    BY <2>4, <2>5 DEF Typed
<1>6. CASE Tick
  <2>1. /\ toExport' = transactions /\ transactions' = <<>>
        /\ pc' = [pc EXCEPT !["export"] = "dump"]
        /\ UNCHANGED <<setting, queued, input, stopChannel, stopped, held, har, proc,
                       emptied, delivered, stopPc>>
    BY <1>6 DEF Tick
  <2>2. /\ pc' \in [Goroutine -> {"loop", "select", "append", "dump", "done"}]
        /\ pc'["export"] = "dump" /\ pc'["aggregate"] = pc["aggregate"]
    BY <1>0, <1>1, <2>1
  <2>3. TypeOK'
    BY <1>0, <1>2, <2>1, <2>2 DEF Typed, TypeOK, Processors
  <2>4. Shape'
    BY <2>1, <2>2 DEF Typed, Shape, Processors
  <2> QED
    BY <2>3, <2>4 DEF Typed
<1> QED
  BY <1>3, <1>4, <1>5, <1>6

\* What a processor took of a har.
LEMMA TakenType ==
  ASSUME NEW s \in Seq(Transaction)
  PROVE  /\ Taken(s) \in Seq(Deliveries) /\ Numbers(Taken(s)) = s
         /\ DOMAIN Taken(s) = DOMAIN s
         /\ \A i \in DOMAIN s : Taken(s)[i] = <<s[i], AppIdSeen(s[i])>>
<1>1. Len(s) \in Nat /\ DOMAIN s = 1 .. Len(s) /\ s \in [1 .. Len(s) -> Transaction]
  BY LenProperties
<1>2. Taken(s) = [i \in 1 .. Len(s) |-> <<s[i], AppIdSeen(s[i])>>]
  BY <1>1 DEF Taken
<1>3. \A i \in 1 .. Len(s) : <<s[i], AppIdSeen(s[i])>> \in Deliveries
  BY <1>1, SeenType
<1>4. Taken(s) \in [1 .. Len(s) -> Deliveries]
  BY <1>2, <1>3
<1>5. Taken(s) \in Seq(Deliveries)
  BY <1>1, <1>4, FunctionIsSeq
<1>6. Numbers(Taken(s)) = s
  BY <1>1, <1>2 DEF Numbers
<1> QED
  BY <1>1, <1>2, <1>5, <1>6

\* The call of a processor: what it takes, and who is next.
LEMMA CallFacts ==
  ASSUME Typed, NEW ok \in BOOLEAN, Call(ok)
  PROVE  /\ proc \in DOMAIN Processors /\ pc["export"] = "dump"
         /\ ~ok => proc \in Failing
         /\ delivered' \in [DOMAIN Processors -> Seq(Deliveries)]
         /\ delivered'[proc] = IF ok THEN delivered[proc] \o Taken(har) ELSE delivered[proc]
         /\ \A p \in DOMAIN Processors \ {proc} : delivered'[p] = delivered[p]
         /\ \/ proc' = proc + 1 /\ proc' \in DOMAIN Processors /\ har' = har
            \/ proc = Len(Processors) /\ proc' = 0 /\ har' = <<>>
         /\ emptied' \subseteq emptied \union ToSet(har)
         /\ emptied' # emptied => Processors[proc] = "s3"
         /\ UNCHANGED <<setting, queued, input, transactions, stopChannel, stopped,
                        pc, held, toExport, stopPc>>
<1>1. /\ proc \in 0 .. Len(Processors) /\ har \in Seq(Transaction)
      /\ delivered \in [DOMAIN Processors -> Seq(Deliveries)] /\ setting \in Settings
  BY TypedFacts
<1>2. /\ pc["export"] = "dump" /\ proc # 0 /\ (ok \/ proc \in Failing)
      /\ delivered' = IF ok THEN [delivered EXCEPT ![proc] = @ \o Taken(har)] ELSE delivered
      /\ emptied' = emptied \union IF EmptiesAppId(Processors[proc]) THEN ToSet(har)
                                                                     ELSE {}
      /\ proc' = IF proc < Len(Processors) THEN proc + 1 ELSE 0
      /\ har' = IF proc < Len(Processors) THEN har ELSE <<>>
      /\ UNCHANGED <<setting, queued, input, transactions, stopChannel, stopped,
                     pc, held, toExport, stopPc>>
  BY DEF Call
<1>3. /\ Len(Processors) \in Nat \ {0} /\ DOMAIN Processors = 1 .. Len(Processors)
  BY <1>1, SettingFacts
<1>4. proc \in DOMAIN Processors
  BY <1>1, <1>2, <1>3
<1>5. delivered[proc] \o Taken(har) \in Seq(Deliveries)
  BY <1>1, <1>4, TakenType, ConcatProperties
<1>6. /\ delivered' \in [DOMAIN Processors -> Seq(Deliveries)]
      /\ delivered'[proc] = IF ok THEN delivered[proc] \o Taken(har) ELSE delivered[proc]
      /\ \A p \in DOMAIN Processors \ {proc} : delivered'[p] = delivered[p]
  BY <1>1, <1>2, <1>4, <1>5
<1>7. \/ proc' = proc + 1 /\ proc' \in DOMAIN Processors /\ har' = har
      \/ proc = Len(Processors) /\ proc' = 0 /\ har' = <<>>
  <2>1. CASE proc < Len(Processors)
    <3>1. proc + 1 \in DOMAIN Processors
      BY <1>3, <1>4, <2>1
    <3>2. proc' = proc + 1 /\ har' = har
      BY <1>2, <2>1
    <3> QED
      BY <3>1, <3>2
  <2>2. CASE ~(proc < Len(Processors))
    <3>1. proc = Len(Processors)
      BY <1>3, <1>4, <2>2
    <3>2. proc' = 0 /\ har' = <<>>
      BY <1>2, <2>2
    <3> QED
      BY <3>1, <3>2
  <2> QED
    BY <2>1, <2>2
<1>8. /\ emptied' \subseteq emptied \union ToSet(har)
      /\ emptied' # emptied => Processors[proc] = "s3"
  BY <1>2 DEF EmptiesAppId
<1> QED
  BY <1>2, <1>4, <1>6, <1>7, <1>8

\* The next har, and what is left of the cycle.
LEMMA NextHarFacts ==
  ASSUME Typed, NextHar
  PROVE  /\ har = <<>> /\ proc = 0 /\ proc' = 1 /\ 1 \in DOMAIN Processors
         /\ pc["export"] = "dump"
         /\ \/ /\ SplitByHost
               /\ \E a \in AppsIn(toExport) :
                    /\ har' = OfApp(Kept(toExport), a)
                    /\ toExport' = Among(toExport, Transaction \ Of(a))
            \/ /\ ~SplitByHost
               /\ toExport # <<>> /\ har' = Kept(toExport) /\ toExport' = <<>>
         /\ har' \in Seq(Transaction) /\ toExport' \in Seq(Transaction)
         /\ UNCHANGED <<setting, queued, input, transactions, stopChannel, stopped,
                        pc, held, emptied, delivered, stopPc>>
<1>1. setting \in Settings /\ toExport \in Seq(Transaction)
  BY TypedFacts
<1>2. 1 \in DOMAIN Processors
  BY <1>1, SettingFacts
<1>3. har = <<>> /\ proc = 0 /\ proc' = 1 /\ pc["export"] = "dump"
  BY DEF Typed, Shape, NextHar
<1>4. \/ /\ SplitByHost
         /\ \E a \in AppsIn(toExport) :
              /\ har' = OfApp(Kept(toExport), a)
              /\ toExport' = Among(toExport, Transaction \ Of(a))
      \/ /\ ~SplitByHost
         /\ toExport # <<>> /\ har' = Kept(toExport) /\ toExport' = <<>>
  BY DEF NextHar
<1>5. har' \in Seq(Transaction) /\ toExport' \in Seq(Transaction)
  <2>1. <<>> \in Seq(Transaction)
    OBVIOUS
  <2>2. \A a : OfApp(Kept(toExport), a) \in Seq(Transaction)
    BY <1>1, SelectedType
  <2>3. \A S : Among(toExport, S) \in Seq(Transaction)
    BY <1>1, AmongType
  <2>4. Kept(toExport) \in Seq(Transaction)
    BY <1>1, SelectedType
  <2> QED
    BY <1>4, <2>1, <2>2, <2>3, <2>4
<1> QED
  BY <1>2, <1>3, <1>4, <1>5 DEF NextHar

\* Types of the cycle.
LEMMA TypedCycle ==
  ASSUME Typed, NextHar \/ DumpDone \/ \E ok \in BOOLEAN : Call(ok)
  PROVE  Typed'
<1>0. /\ setting \in Settings
      /\ pc \in [Goroutine -> {"loop", "select", "append", "dump", "done"}]
      /\ Len(Processors) \in Nat \ {0} /\ DOMAIN Processors = 1 .. Len(Processors)
  BY TypedFacts, SettingFacts
<1>1. CASE NextHar
  <2>1. /\ proc' = 1 /\ har' \in Seq(Transaction) /\ toExport' \in Seq(Transaction)
        /\ pc["export"] = "dump"
        /\ UNCHANGED <<setting, queued, input, transactions, stopChannel, stopped,
                       pc, held, emptied, delivered, stopPc>>
    BY <1>1, NextHarFacts
  <2>2. proc' \in 0 .. Len(Processors)
    BY <1>0, <2>1
  <2>3. TypeOK'
    BY <2>1, <2>2 DEF Typed, TypeOK, Processors
  <2>4. Shape'
    BY <2>1 DEF Typed, Shape, Processors
  <2> QED
    BY <2>3, <2>4 DEF Typed
<1>2. CASE DumpDone
  <2>1. /\ toExport' = <<>> /\ pc' = [pc EXCEPT !["export"] = "loop"] /\ proc = 0
        /\ UNCHANGED <<setting, queued, input, transactions, stopChannel, stopped,
                       held, har, proc, emptied, delivered, stopPc>>
    BY <1>2 DEF DumpDone
  <2>2. /\ pc' \in [Goroutine -> {"loop", "select", "append", "dump", "done"}]
        /\ pc'["aggregate"] = pc["aggregate"] /\ pc'["export"] = "loop"
    BY <1>0, <2>1 DEF Goroutine
  <2>3. <<>> \in Seq(Transaction)
    OBVIOUS
  <2>4. TypeOK'
    BY <2>1, <2>2, <2>3 DEF Typed, TypeOK, Processors
  <2>5. Shape'
    BY <2>1, <2>2 DEF Typed, Shape, Processors
  <2> QED
    BY <2>4, <2>5 DEF Typed
<1>3. ASSUME NEW ok \in BOOLEAN, Call(ok) PROVE Typed'
  <2>1. /\ proc \in DOMAIN Processors /\ pc["export"] = "dump"
        /\ delivered' \in [DOMAIN Processors -> Seq(Deliveries)]
        /\ \/ proc' = proc + 1 /\ proc' \in DOMAIN Processors /\ har' = har
           \/ proc = Len(Processors) /\ proc' = 0 /\ har' = <<>>
        /\ emptied' \subseteq emptied \union ToSet(har)
        /\ UNCHANGED <<setting, queued, input, transactions, stopChannel, stopped,
                       pc, held, toExport, stopPc>>
    BY <1>3, CallFacts
  <2>2. har \in Seq(Transaction) /\ ToSet(har) \subseteq Transaction
    BY TypedFacts, ToSetType
  <2>3. har' \in Seq(Transaction) /\ emptied' \subseteq Transaction
    <3>1. <<>> \in Seq(Transaction) /\ emptied \subseteq Transaction
      BY DEF Typed, TypeOK
    <3> QED
      BY <2>1, <2>2, <3>1
  <2>4. proc' \in 0 .. Len(Processors) /\ (proc' = 0 => har' = <<>>)
    BY <1>0, <2>1
  <2>5. TypeOK'
    BY <2>1, <2>3, <2>4 DEF Typed, TypeOK, Processors, Deliveries
  <2>6. Shape'
    BY <2>1, <2>4 DEF Typed, Shape, Processors
  <2> QED
    BY <2>5, <2>6 DEF Typed
<1> QED
  BY <1>1, <1>2, <1>3

\* Typed is preserved by every step.
LEMMA TypedInductive == Typed /\ [Next]_vars => Typed'
<1> SUFFICES ASSUME Typed, [Next]_vars PROVE Typed'
  OBVIOUS
<1>1. CASE UNCHANGED vars
  <2>1. /\ UNCHANGED <<setting, queued, input, transactions, stopChannel, stopped, pc, held,
                       stopPc>>
        /\ UNCHANGED <<toExport, har, proc, emptied, delivered>>
    BY <1>1 DEF vars, exportVars
  <2> QED
    BY <2>1 DEF Typed, TypeOK, Shape, Processors
<1>2. CASE Next
  <2>1. "aggregate" \in Goroutine /\ "export" \in Goroutine
    BY DEF Goroutine
  <2> QED
    BY <1>2, <2>1, TypedControl, TypedMoves, TypedCycle
    DEF Next, AggregateStep, ExportStep, Process
<1> QED
  BY <1>1, <1>2

\* Typed holds initially.
LEMMA TypedInit == Init => Typed
<1> SUFFICES ASSUME Init PROVE Typed
  OBVIOUS
<1>1. Len(Processors) \in Nat \ {0}
  BY SettingFacts DEF Init
<1>2. /\ <<>> \in Seq(Transaction) /\ <<>> \in Seq(Deliveries) /\ Len(<<>>) = 0
      /\ 0 \in 0 .. NumTransactions /\ 0 \in 0 .. Len(Processors) /\ 0 \in 0 .. StopChannelSize
      /\ 0 <= ChannelBuffer
  BY <1>1, ExporterAssumption DEF StopChannelSize
<1>3. /\ pc \in [Goroutine -> {"loop", "select", "append", "dump", "done"}]
      /\ pc["aggregate"] = "loop" /\ pc["export"] = "loop"
      /\ delivered \in [DOMAIN Processors -> Seq(Deliveries)]
      /\ \A p \in DOMAIN Processors : delivered[p] \in Seq(Deliveries)
  BY <1>2 DEF Init, Goroutine
<1>4. TypeOK
  <2>1. /\ {input, transactions, held, toExport, har} \subseteq Seq(Transaction)
        /\ Len(input) = 0 /\ Len(held) = 0
    BY <1>2 DEF Init
  <2>2. Len(input) <= ChannelBuffer /\ Len(held) <= 1
    BY <1>2, <2>1
  <2>3. /\ setting \in Settings /\ queued = 0 /\ stopChannel = 0 /\ stopped = FALSE
        /\ proc = 0 /\ emptied = {} /\ stopPc = "running"
    BY DEF Init
  <2> QED
    BY <1>2, <1>3, <2>1, <2>2, <2>3 DEF TypeOK, Deliveries
<1>5. Shape
  BY <1>2, <1>3 DEF Init, Shape
<1> QED
  BY <1>4, <1>5 DEF Typed

(***************************************************************************)
(* Conservation.  Every step keeps what is on its way to a processor, as   *)
(* far as an application can tell, because the goroutines hand each other  *)
(* whole sequences and getHarFiles only groups them.                       *)
(***************************************************************************)
Ours(s, a) == OfApp(Kept(s), a)

\* The transactions of an application that are not ignored.
LEMMA OursIsAmong ==
  ASSUME NEW s \in Seq(Transaction), NEW a
  PROVE  Ours(s, a) = Among(s, Of(a) \ Ignored) /\ Ours(s, a) \in Seq(Transaction)
<1> DEFINE S == (Transaction \ Ignored) \intersect Of(a)
           R == Of(a) \ Ignored
<1>1. Ours(s, a) = Among(s, S)
  BY AmongAmong DEF Ours, OfApp, Kept
<1>2. S = R
  BY DEF Of
<1> HIDE DEF S, R
<1>3. Among(s, R) \in Seq(Transaction)
  BY AmongType
<1>4. Ours(s, a) = Among(s, R)
  BY <1>1, <1>2
<1> QED
  BY <1>3, <1>4 DEF R

\* Those of two sequences, one behind the other.
LEMMA OursConcat ==
  ASSUME NEW s \in Seq(Transaction), NEW t \in Seq(Transaction), NEW a
  PROVE  Ours(s \o t, a) = Ours(s, a) \o Ours(t, a)
<1>1. s \o t \in Seq(Transaction)
  BY ConcatProperties
<1>2. Among(s \o t, Of(a) \ Ignored) = Among(s, Of(a) \ Ignored) \o Among(t, Of(a) \ Ignored)
  BY AmongConcat
<1> QED
  BY <1>1, <1>2, OursIsAmong

\* The numbers of what a processor took.
LEMMA NumbersType ==
  ASSUME NEW d \in Seq(Deliveries)
  PROVE  Numbers(d) \in Seq(Transaction) /\ Len(Numbers(d)) = Len(d)
<1>1. Len(d) \in Nat /\ DOMAIN d = 1 .. Len(d) /\ \A i \in 1 .. Len(d) : d[i] \in Deliveries
  BY LenProperties, ElementOfSeq
<1>2. Numbers(d) \in [1 .. Len(d) -> Transaction]
  BY <1>1 DEF Numbers, Deliveries
<1> QED
  BY <1>1, <1>2, FunctionIsSeq

\* They grow by those of what it takes.
LEMMA NumbersConcat ==
  ASSUME NEW d \in Seq(Deliveries), NEW s \in Seq(Transaction)
  PROVE  Numbers(d \o Taken(s)) = Numbers(d) \o s
<1> DEFINE t == Taken(s)
           e == d \o t
<1>1. t \in Seq(Deliveries) /\ Numbers(t) = s
  BY TakenType
<1> HIDE DEF t
<1>2. /\ e \in Seq(Deliveries) /\ Len(d) \in Nat /\ Len(t) \in Nat
      /\ Len(e) = Len(d) + Len(t)
      /\ \A i \in 1 .. Len(d) + Len(t) : e[i] = IF i <= Len(d) THEN d[i] ELSE t[i - Len(d)]
  BY <1>1, ConcatProperties, LenProperties
<1> HIDE DEF e
<1>3. /\ Numbers(e) \in Seq(Transaction) /\ Len(Numbers(e)) = Len(d) + Len(t)
      /\ Numbers(d) \in Seq(Transaction) /\ Len(Numbers(d)) = Len(d)
      /\ Len(s) = Len(t)
  BY <1>1, <1>2, NumbersType
<1>4. /\ Numbers(d) \o s \in Seq(Transaction) /\ Len(Numbers(d) \o s) = Len(d) + Len(t)
      /\ \A i \in 1 .. Len(d) + Len(t) :
           (Numbers(d) \o s)[i] = IF i <= Len(d) THEN Numbers(d)[i] ELSE s[i - Len(d)]
  <2> DEFINE m == Numbers(d)
  <2>1. m \in Seq(Transaction) /\ s \in Seq(Transaction) /\ Len(m) = Len(d) /\ Len(s) = Len(t)
    BY <1>3
  <2> HIDE DEF m
  <2>2. /\ m \o s \in Seq(Transaction) /\ Len(m \o s) = Len(m) + Len(s)
        /\ \A i \in 1 .. Len(m) + Len(s) :
             (m \o s)[i] = IF i <= Len(m) THEN m[i] ELSE s[i - Len(m)]
    BY ONLY <2>1, ConcatProperties
  <2> QED
    BY <2>1, <2>2 DEF m
<1>5. ASSUME NEW i \in 1 .. Len(d) + Len(t)
      PROVE  Numbers(e)[i] = IF i <= Len(d) THEN Numbers(d)[i] ELSE s[i - Len(d)]
  <2>1. /\ DOMAIN e = 1 .. Len(d) + Len(t) /\ DOMAIN d = 1 .. Len(d)
        /\ DOMAIN t = 1 .. Len(t)
    BY <1>1, <1>2, LenProperties
  <2>2. Numbers(e)[i] = e[i][1]
    BY <2>1 DEF Numbers
  <2>3. i <= Len(d) => Numbers(d)[i] = d[i][1]
    BY <1>2, <2>1 DEF Numbers
  <2>4. i > Len(d) => s[i - Len(d)] = t[i - Len(d)][1]
    <3>1. i > Len(d) => i - Len(d) \in 1 .. Len(t)
      BY <1>2
    <3> QED
      BY <1>1, <2>1, <3>1 DEF Numbers
  <2> QED
    BY <1>2, <2>2, <2>3, <2>4
<1> QED
  BY <1>3, <1>4, <1>5, SeqEqual DEF e, t

\* What a processor has or gets next.
Ahead(p) == Numbers(delivered[p]) \o (IF proc # 0 /\ proc <= p THEN har ELSE <<>>)

\* The first element moves over.
LEMMA HeadMoves ==
  ASSUME NEW S, NEW y \in Seq(S), NEW w \in Seq(S), w # <<>>
  PROVE  (y \o <<Head(w)>>) \o Tail(w) = (y \o <<>>) \o w
<1>1. <<Head(w)>> \in Seq(S) /\ Tail(w) \in Seq(S) /\ <<Head(w)>> \o Tail(w) = w
  BY HeadBeforeTail
<1>2. ASSUME NEW h \in Seq(S), NEW l \in Seq(S) PROVE (y \o h) \o l = y \o (h \o l)
  BY SMTT(30), ConcatAssociative
<1>3. y \o <<>> = y
  BY ConcatEmptySeq
<1>4. (y \o <<Head(w)>>) \o Tail(w) = y \o (<<Head(w)>> \o Tail(w))
  BY <1>1, <1>2
<1> QED
  BY <1>1, <1>3, <1>4

\* Sequences grouped otherwise.
LEMMA Regrouped ==
  ASSUME NEW S, NEW u \in Seq(S), NEW v \in Seq(S), NEW w \in Seq(S), NEW x \in Seq(S)
  PROVE  /\ u \o v \in Seq(S) /\ (u \o v) \o w \in Seq(S) /\ ((u \o v) \o w) \o x \in Seq(S)
         /\ w # <<>> => ((u \o v) \o <<Head(w)>>) \o Tail(w) = ((u \o v) \o <<>>) \o w
         /\ ((u \o (v \o w)) \o <<>>) \o x = ((u \o v) \o w) \o x
         /\ (((u \o v) \o <<>>) \o w) \o x = (((u \o <<>>) \o v) \o w) \o x
<1>1. u \o v \in Seq(S) /\ (u \o v) \o w \in Seq(S) /\ ((u \o v) \o w) \o x \in Seq(S)
  BY ConcatProperties
<1> DEFINE y == u \o v
<1>2. ASSUME w # <<>> PROVE (y \o <<Head(w)>>) \o Tail(w) = (y \o <<>>) \o w
  <2> HIDE DEF y
  <2>1. y \in Seq(S)
    BY <1>1 DEF y
  <2> QED
    BY ONLY <1>2, <2>1, HeadMoves, w \in Seq(S)
<1>3. ((u \o (v \o w)) \o <<>>) \o x = ((u \o v) \o w) \o x
  <2>1. u \o (v \o w) = (u \o v) \o w
    BY SMTT(30), ConcatAssociative
  <2>2. ((u \o v) \o w) \o <<>> = (u \o v) \o w
    BY <1>1, ConcatEmptySeq
  <2> QED
    BY <2>1, <2>2
<1>4. (u \o v) \o <<>> = u \o v /\ u \o <<>> = u
  BY <1>1, ConcatEmptySeq
<1> QED
  BY <1>1, <1>2, <1>3, <1>4

\* The types of the parts of the way.
LEMMA WayTypes ==
  ASSUME Typed, NEW p \in DOMAIN Processors
  PROVE  /\ Numbers(delivered[p]) \in Seq(Transaction)
         /\ Ahead(p) \in Seq(Transaction)
         /\ Way(p) = (((Ahead(p) \o toExport) \o transactions) \o held) \o input
         /\ Way(p) \in Seq(Transaction)
<1>1. /\ transactions \in Seq(Transaction) /\ held \in Seq(Transaction)
      /\ input \in Seq(Transaction) /\ toExport \in Seq(Transaction)
      /\ har \in Seq(Transaction) /\ <<>> \in Seq(Transaction)
  BY TypedFacts
<1>2. Numbers(delivered[p]) \in Seq(Transaction)
  BY TypedFacts, NumbersType
<1>3. Ahead(p) \in Seq(Transaction)
  BY <1>1, <1>2, ConcatProperties DEF Ahead
<1>4. Way(p) = (((Ahead(p) \o toExport) \o transactions) \o held) \o input
  BY DEF Way, Ahead
<1>5. ((Ahead(p) \o toExport) \o transactions) \o held \in Seq(Transaction)
  BY <1>1, <1>3, Regrouped
<1> QED
  BY <1>1, <1>2, <1>3, <1>4, <1>5, ConcatProperties

\* Receiving, appending and taking the slice leave the way as it is.
LEMMA MovesKeepWay ==
  ASSUME Typed, Receive \/ AppendTransaction \/ Tick, NEW p \in DOMAIN Processors
  PROVE  Way(p)' = Way(p)
<1>1. /\ transactions \in Seq(Transaction) /\ held \in Seq(Transaction)
      /\ input \in Seq(Transaction) /\ toExport \in Seq(Transaction)
  BY TypedFacts
<1>2. /\ Ahead(p) \in Seq(Transaction)
      /\ Way(p) = (((Ahead(p) \o toExport) \o transactions) \o held) \o input
  BY WayTypes
<1>3. Way(p)' = (((Ahead(p)' \o toExport') \o transactions') \o held') \o input'
  BY DEF Way, Ahead
<1>4. Ahead(p)' = Ahead(p)
  BY DEF Ahead, Receive, AppendTransaction, Tick, exportVars
<1> HIDE DEF Ahead
<1>5. CASE Receive
  <2>1. /\ input # <<>> /\ held' = <<Head(input)>> /\ input' = Tail(input)
        /\ toExport' = toExport /\ transactions' = transactions /\ held = <<>>
    BY <1>5 DEF Receive, exportVars, Typed, Shape
  <2> DEFINE e == Ahead(p) \o toExport
  <2>2. e \in Seq(Transaction)
    BY <1>1, <1>2, ConcatProperties
  <2> HIDE DEF e
  <2>3. ((e \o transactions) \o <<Head(input)>>) \o Tail(input)
          = ((e \o transactions) \o <<>>) \o input
    BY ONLY <1>1, <2>1, <2>2, Regrouped
  <2> QED
    BY <1>2, <1>3, <1>4, <2>1, <2>3 DEF e
<1>6. CASE AppendTransaction
  <2>1. /\ transactions' = transactions \o held /\ held' = <<>>
        /\ toExport' = toExport /\ input' = input
    BY <1>6 DEF AppendTransaction, exportVars
  <2>2. Ahead(p) \o toExport \in Seq(Transaction)
    BY <1>1, <1>2, ConcatProperties
  <2> QED
    BY SMTT(30), <1>1, <1>2, <1>3, <1>4, <2>1, <2>2, Regrouped
<1>7. CASE Tick
  <2>1. /\ toExport' = transactions /\ transactions' = <<>> /\ toExport = <<>>
        /\ held' = held /\ input' = input
    BY <1>7 DEF Tick, Typed, Shape
  <2> QED
    BY <1>1, <1>2, <1>3, <1>4, <2>1, Regrouped
<1> QED
  BY <1>5, <1>6, <1>7

\* The first of the numbered transactions are one more.
LEMMA UpToNext ==
  ASSUME NEW n \in 0 .. NumTransactions
  PROVE  /\ [i \in 1 .. n |-> i] \in Seq(Transaction)
         /\ n < NumTransactions =>
              [i \in 1 .. n + 1 |-> i] = Append([i \in 1 .. n |-> i], n + 1)
<1> DEFINE s == [i \in 1 .. n |-> i]
           t == [i \in 1 .. n + 1 |-> i]
<1>1. n \in Nat /\ NumTransactions \in Nat
  BY ExporterAssumption
<1>2. s \in [1 .. n -> Transaction]
  BY <1>1 DEF Transaction
<1>3. s \in Seq(Transaction) /\ Len(s) = n
  BY <1>1, <1>2, FunctionIsSeq
<1>4. ASSUME n < NumTransactions PROVE t = Append(s, n + 1)
  <2>1. t \in [1 .. n + 1 -> Transaction] /\ n + 1 \in Nat /\ n + 1 \in Transaction
    BY <1>1, <1>4 DEF Transaction
  <2>2. t \in Seq(Transaction) /\ Len(t) = n + 1
    BY <2>1, FunctionIsSeq
  <2>3. \A i \in 1 .. n + 1 : t[i] = i
    OBVIOUS
  <2>4. \A i \in 1 .. n : s[i] = i
    OBVIOUS
  <2> HIDE DEF s, t
  <2>5. /\ Append(s, n + 1) \in Seq(Transaction) /\ Len(Append(s, n + 1)) = n + 1
        /\ \A i \in 1 .. n : Append(s, n + 1)[i] = s[i]
        /\ Append(s, n + 1)[n + 1] = n + 1
    BY <1>3, <2>1, AppendProperties
  <2>6. ASSUME NEW i \in 1 .. n + 1 PROVE t[i] = Append(s, n + 1)[i]
    <3>1. CASE i = n + 1
      BY <2>3, <2>5, <3>1
    <3>2. CASE i # n + 1
      <4>1. i \in 1 .. n
        BY <1>1, <3>2
      <4> QED
        BY <2>3, <2>4, <2>5, <4>1
    <3> QED
      BY <3>1, <3>2
  <2> QED
    BY ONLY <2>2, <2>5, <2>6, SeqEqual
<1> QED
  BY <1>3, <1>4

\* The next transaction comes last on every way.
LEMMA QueueExtendsWay ==
  ASSUME Typed, Queue, NEW p \in DOMAIN Processors
  PROVE  /\ queued + 1 \in Transaction
         /\ Way(p)' = Append(Way(p), queued + 1)
<1>1. /\ transactions \in Seq(Transaction) /\ held \in Seq(Transaction)
      /\ input \in Seq(Transaction) /\ toExport \in Seq(Transaction)
      /\ queued \in 0 .. NumTransactions
  BY TypedFacts
<1>2. /\ Ahead(p) \in Seq(Transaction)
      /\ Way(p) = (((Ahead(p) \o toExport) \o transactions) \o held) \o input
  BY WayTypes
<1>3. Way(p)' = (((Ahead(p)' \o toExport') \o transactions') \o held') \o input'
  BY DEF Way, Ahead
<1>4. Ahead(p)' = Ahead(p)
  BY DEF Ahead, Queue, exportVars
<1>5. /\ toExport' = toExport /\ transactions' = transactions /\ held' = held
      /\ input' = Append(input, queued + 1) /\ queued < NumTransactions
  BY DEF Queue, exportVars
<1>6. queued + 1 \in Transaction
  BY <1>1, <1>5, ExporterAssumption DEF Transaction
<1> HIDE DEF Ahead
<1> DEFINE b == ((Ahead(p) \o toExport) \o transactions) \o held
<1>7. b \in Seq(Transaction)
  BY <1>1, <1>2, Regrouped
<1>8. Way(p) = b \o input /\ Way(p)' = b \o Append(input, queued + 1)
  BY <1>2, <1>3, <1>4, <1>5
<1> HIDE DEF b
<1>9. b \o Append(input, queued + 1) = Append(b \o input, queued + 1)
  BY ONLY <1>1, <1>6, <1>7, AppendLast
<1> QED
  BY <1>6, <1>8, <1>9

\* What comes behind does not matter to what an application can tell apart.
LEMMA OursBehind ==
  ASSUME NEW u \in Seq(Transaction), NEW v \in Seq(Transaction), NEW x \in Seq(Transaction),
         NEW a, Ours(u, a) = Ours(v, a)
  PROVE  /\ u \o x \in Seq(Transaction) /\ v \o x \in Seq(Transaction)
         /\ Ours(u \o x, a) = Ours(v \o x, a)
<1>1. Ours(u \o x, a) = Ours(u, a) \o Ours(x, a)
  BY OursConcat
<1>2. Ours(v \o x, a) = Ours(v, a) \o Ours(x, a)
  BY OursConcat
<1>3. Ours(u \o x, a) = Ours(v \o x, a)
  BY <1>1, <1>2
<1> QED
  BY <1>3, ConcatProperties

\* The same of all that is behind a cycle.
LEMMA OursRest ==
  ASSUME NEW u \in Seq(Transaction), NEW v \in Seq(Transaction), NEW x \in Seq(Transaction),
         NEW y \in Seq(Transaction), NEW z \in Seq(Transaction), NEW a,
         Ours(u, a) = Ours(v, a)
  PROVE  Ours(((u \o x) \o y) \o z, a) = Ours(((v \o x) \o y) \o z, a)
<1> DEFINE m == u \o x
           n == v \o x
<1>1. m \in Seq(Transaction) /\ n \in Seq(Transaction) /\ Ours(m, a) = Ours(n, a)
  BY OursBehind
<1> HIDE DEF m, n
<1> DEFINE k == m \o y
           l == n \o y
<1>2. k \in Seq(Transaction) /\ l \in Seq(Transaction) /\ Ours(k, a) = Ours(l, a)
  BY <1>1, OursBehind
<1> HIDE DEF k, l
<1>3. Ours(k \o z, a) = Ours(l \o z, a)
  BY <1>2, OursBehind
<1> QED
  BY <1>3 DEF k, l, m, n

\* A har and what is left of the cycle are, for every application, the cycle.
LEMMA HarPlusRest ==
  ASSUME Typed, NextHar, NEW b
  PROVE  Ours(har', b) \o Ours(toExport', b) = Ours(toExport, b)
<1>1. /\ toExport \in Seq(Transaction) /\ har' \in Seq(Transaction)
      /\ toExport' \in Seq(Transaction) /\ setting \in Settings
      /\ <<>> \in Seq(Transaction)
  BY TypedFacts, NextHarFacts
<1>2. /\ Ours(har', b) = Among(har', Of(b) \ Ignored)
      /\ Ours(toExport', b) = Among(toExport', Of(b) \ Ignored)
      /\ Ours(toExport, b) = Among(toExport, Of(b) \ Ignored)
      /\ Ours(toExport, b) \in Seq(Transaction)
  BY <1>1, OursIsAmong
<1>3. \A S, R : Among(Among(toExport, S), R) = Among(toExport, S \intersect R)
  <2> SUFFICES ASSUME NEW S, NEW R
               PROVE  Among(Among(toExport, S), R) = Among(toExport, S \intersect R)
    OBVIOUS
  <2>1. toExport \in Seq(Transaction)
    BY <1>1
  <2> QED
    BY ONLY <2>1, AmongAmong
<1>4. Among(toExport, {}) = <<>> /\ \A S : Among(<<>>, S) = <<>>
  BY <1>1, AmongNoneOrAll, AmongEmpty
<1>5. /\ Ours(toExport, b) \o <<>> = Ours(toExport, b)
      /\ <<>> \o Ours(toExport, b) = Ours(toExport, b)
  BY <1>2, ConcatEmptySeq
<1>6. CASE SplitByHost
  <2>1. PICK a \in AppsIn(toExport) :
          /\ har' = OfApp(Kept(toExport), a)
          /\ toExport' = Among(toExport, Transaction \ Of(a))
    BY <1>6, NextHarFacts
  <2>2. har' = Among(toExport, Of(a) \ Ignored)
    BY <1>1, <2>1, OursIsAmong DEF Ours
  <2>3. /\ Ours(har', b) = Among(toExport, (Of(a) \ Ignored) \intersect (Of(b) \ Ignored))
        /\ Ours(toExport', b) = Among(toExport, (Transaction \ Of(a)) \intersect (Of(b) \ Ignored))
    BY <1>2, <1>3, <2>1, <2>2
  <2>4. CASE a = b
    <3>1. /\ (Of(a) \ Ignored) \intersect (Of(b) \ Ignored) = Of(b) \ Ignored
          /\ (Transaction \ Of(a)) \intersect (Of(b) \ Ignored) = {}
      BY <2>4
    <3> QED
      BY <1>2, <1>4, <1>5, <2>3, <3>1
  <2>5. CASE a # b
    <3>1. /\ (Of(a) \ Ignored) \intersect (Of(b) \ Ignored) = {}
          /\ (Transaction \ Of(a)) \intersect (Of(b) \ Ignored) = Of(b) \ Ignored
      BY <2>5 DEF Of
    <3> QED
      BY <1>2, <1>4, <1>5, <2>3, <3>1
  <2> QED
    BY <2>4, <2>5
<1>7. CASE ~SplitByHost
  <2>1. har' = Among(toExport, Transaction \ Ignored) /\ toExport' = <<>>
    BY <1>7, NextHarFacts DEF Kept
  <2>2. (Transaction \ Ignored) \intersect (Of(b) \ Ignored) = Of(b) \ Ignored
    BY DEF Of
  <2>3. Ours(har', b) = Ours(toExport, b)
    BY <1>2, <1>3, <2>1, <2>2
  <2>4. Ours(toExport', b) = <<>>
    BY <1>2, <1>4, <2>1
  <2> QED
    BY <1>5, <2>3, <2>4
<1> QED
  BY <1>6, <1>7

\* What a call gives a processor that does not fail is what was ahead of it.
LEMMA CallKeepsAhead ==
  ASSUME Typed, NEW ok \in BOOLEAN, Call(ok), NEW p \in DOMAIN Processors \ Failing
  PROVE  Ahead(p)' = Ahead(p)
<1>1. /\ proc \in DOMAIN Processors /\ (~ok => proc \in Failing)
      /\ delivered'[proc] = IF ok THEN delivered[proc] \o Taken(har) ELSE delivered[proc]
      /\ \A q \in DOMAIN Processors \ {proc} : delivered'[q] = delivered[q]
      /\ \/ proc' = proc + 1 /\ proc' \in DOMAIN Processors /\ har' = har
         \/ proc = Len(Processors) /\ proc' = 0 /\ har' = <<>>
  BY CallFacts
<1>2. /\ Len(Processors) \in Nat \ {0} /\ DOMAIN Processors = 1 .. Len(Processors)
      /\ har \in Seq(Transaction) /\ delivered[proc] \in Seq(Deliveries)
      /\ delivered[p] \in Seq(Deliveries)
  BY <1>1, TypedFacts, SettingFacts
<1>3. proc \in Nat \ {0} /\ p \in Nat \ {0} /\ p <= Len(Processors)
  BY <1>1, <1>2
<1>4. Numbers(delivered[p]) \in Seq(Transaction)
  BY <1>2, NumbersType
<1>5. CASE p = proc
  <2>1. delivered'[p] = delivered[p] \o Taken(har)
    BY <1>1, <1>5
  <2>2. Numbers(delivered'[p]) = Numbers(delivered[p]) \o har
    BY <1>2, <2>1, NumbersConcat
  <2>3. ~(proc' # 0 /\ proc' <= p)
    BY <1>1, <1>3, <1>5
  <2>4. Numbers(delivered[p]) \o har \in Seq(Transaction)
    BY <1>2, <1>4, ConcatProperties
  <2>5. (Numbers(delivered[p]) \o har) \o <<>> = Numbers(delivered[p]) \o har
    BY <2>4, ConcatEmptySeq
  <2>6. Numbers(delivered[p])' = Numbers(delivered'[p])
    BY DEF Numbers
  <2>7. Ahead(p)' = Numbers(delivered[p]) \o har
    BY <2>2, <2>3, <2>5, <2>6 DEF Ahead
  <2>8. Ahead(p) = Numbers(delivered[p]) \o har
    BY <1>3, <1>5 DEF Ahead
  <2> QED
    BY <2>7, <2>8
<1>6. CASE p # proc
  <2>1. delivered'[p] = delivered[p]
    BY <1>1, <1>6
  <2>2. CASE proc < p
    <3>1. proc' # 0 /\ proc' <= p /\ har' = har
      BY <1>1, <1>3, <2>2
    <3> QED
      BY <1>3, <2>1, <2>2, <3>1 DEF Ahead, Numbers
  <2>3. CASE p < proc
    <3>1. ~(proc' # 0 /\ proc' <= p) /\ ~(proc # 0 /\ proc <= p)
      BY <1>1, <1>3, <2>3
    <3> QED
      BY <2>1, <3>1 DEF Ahead, Numbers
  <2> QED
    BY <1>3, <1>6, <2>2, <2>3
<1> QED
  BY <1>5, <1>6

\* The cycle is, for every application, what was taken from the slice.
LEMMA CycleKeepsWay ==
  ASSUME Typed, Typed', NextHar \/ DumpDone \/ (\E ok \in BOOLEAN : Call(ok)),
         NEW p \in DOMAIN Processors \ Failing, NEW b
  PROVE  Ours(Way(p)', b) = Ours(Way(p), b)
<1>0. /\ transactions \in Seq(Transaction) /\ held \in Seq(Transaction)
      /\ input \in Seq(Transaction) /\ toExport \in Seq(Transaction)
      /\ toExport' \in Seq(Transaction) /\ har' \in Seq(Transaction)
      /\ setting \in Settings
  BY TypedFacts DEF Typed, TypeOK
<1>1. /\ Ahead(p) \in Seq(Transaction) /\ Numbers(delivered[p]) \in Seq(Transaction)
      /\ Way(p) = (((Ahead(p) \o toExport) \o transactions) \o held) \o input
  BY WayTypes
<1>2. Way(p)' = (((Ahead(p)' \o toExport') \o transactions') \o held') \o input'
  BY DEF Way, Ahead
<1>3. transactions' = transactions /\ held' = held /\ input' = input
  BY DEF NextHar, DumpDone, Call
<1>4. /\ Ahead(p)' \in Seq(Transaction)
      /\ Ours(Ahead(p)' \o toExport', b) = Ours(Ahead(p) \o toExport, b)
  <2>1. CASE NextHar
    <3>1. proc = 0 /\ proc' = 1 /\ delivered' = delivered /\ har = <<>>
      BY <2>1, NextHarFacts
    <3>2. p \in Nat /\ 1 <= p
      BY <1>0, SettingFacts
    <3> DEFINE m == Numbers(delivered[p])
               h == har'
               e == toExport'
    <3>3. Ahead(p)' = m \o h /\ Ahead(p) = m
      <4>1. Ahead(p)' = m \o h
        BY <3>1, <3>2 DEF Ahead, Numbers
      <4>2. Ahead(p) = m \o <<>>
        BY <3>1 DEF Ahead
      <4>3. m \o <<>> = m
        BY <1>1, ConcatEmptySeq
      <4> QED
        BY <4>1, <4>2, <4>3
    <3>4. Ours(h, b) \o Ours(e, b) = Ours(toExport, b)
      BY <2>1, HarPlusRest
    <3>5. m \in Seq(Transaction) /\ h \in Seq(Transaction) /\ e \in Seq(Transaction)
      BY <1>0, <1>1
    <3> HIDE DEF m, h, e
    <3> DEFINE k == m \o h
    <3>6. k \in Seq(Transaction) /\ Ours(k, b) = Ours(m, b) \o Ours(h, b)
      BY <3>5, OursConcat, ConcatProperties
    <3> HIDE DEF k
    <3>7. Ours(k \o e, b) = Ours(k, b) \o Ours(e, b)
      BY <3>5, <3>6, OursConcat
    <3>8. Ours(m \o toExport, b) = Ours(m, b) \o Ours(toExport, b)
      <4>1. \A x \in Seq(Transaction) : Ours(m \o x, b) = Ours(m, b) \o Ours(x, b)
        BY SMTT(30), <3>5, OursConcat
      <4> QED
        BY <1>0, <4>1
    <3>9. (Ours(m, b) \o Ours(h, b)) \o Ours(e, b) = Ours(m, b) \o (Ours(h, b) \o Ours(e, b))
      <4> DEFINE x == Ours(m, b)
                 y == Ours(h, b)
                 z == Ours(e, b)
      <4>1. x \in Seq(Transaction) /\ y \in Seq(Transaction) /\ z \in Seq(Transaction)
        BY <3>5, OursIsAmong
      <4> HIDE DEF x, y, z
      <4>2. (x \o y) \o z = x \o (y \o z)
        BY ONLY <4>1, ConcatAssociative
      <4> QED
        BY <4>2 DEF x, y, z
    <3>10. Ours(k \o e, b) = Ours(m \o toExport, b)
      BY <3>4, <3>6, <3>7, <3>8, <3>9
    <3> QED
      BY <3>3, <3>6, <3>10 DEF k, e, h
  <2>2. CASE DumpDone
    <3>1. proc' = proc /\ delivered' = delivered /\ har' = har /\ toExport' = <<>>
          /\ Exhausted(toExport)
      BY <2>2 DEF DumpDone
    <3>2. Ahead(p)' = Ahead(p)
      BY <3>1 DEF Ahead, Numbers
    <3>3. Ours(toExport, b) = <<>>
      <4>1. CASE SplitByHost
        <5>1. ToSet(Kept(toExport)) = {}
          BY <3>1, <4>1 DEF Exhausted, AppsIn
        <5>2. Kept(toExport) \in Seq(Transaction)
          BY <1>0, SelectedType
        <5>3. Kept(toExport) = <<>>
          BY ONLY <5>1, <5>2, ToSetType
        <5> QED
          BY <5>3, AmongEmpty DEF Ours, OfApp
      <4>2. CASE ~SplitByHost
        <5>1. toExport = <<>>
          BY <3>1, <4>2 DEF Exhausted
        <5> QED
          BY <5>1, AmongEmpty DEF Ours, OfApp, Kept
      <4> QED
        BY <4>1, <4>2
    <3>4. Ours(Ahead(p) \o toExport, b) = Ours(Ahead(p), b) \o <<>>
      <4>1. \A x \in Seq(Transaction) :
              Ours(Ahead(p) \o x, b) = Ours(Ahead(p), b) \o Ours(x, b)
        BY <1>1, OursConcat
      <4> QED
        BY <1>0, <3>3, <4>1
    <3>5. Ours(Ahead(p), b) \o <<>> = Ours(Ahead(p), b) /\ Ahead(p) \o <<>> = Ahead(p)
      BY <1>1, OursIsAmong, ConcatEmptySeq
    <3> QED
      BY <1>1, <3>1, <3>2, <3>4, <3>5
  <2>3. ASSUME NEW ok \in BOOLEAN, Call(ok)
        PROVE  /\ Ahead(p)' \in Seq(Transaction)
               /\ Ours(Ahead(p)' \o toExport', b) = Ours(Ahead(p) \o toExport, b)
    <3>1. Ahead(p)' = Ahead(p)
      BY <2>3, CallKeepsAhead
    <3>2. toExport' = toExport
      BY <2>3 DEF Call
    <3> QED
      BY <1>1, <3>1, <3>2
  <2> QED
    BY <2>1, <2>2, <2>3
<1> HIDE DEF Ahead
<1> DEFINE u == Ahead(p)' \o toExport'
           v == Ahead(p) \o toExport
<1>5. u \in Seq(Transaction) /\ v \in Seq(Transaction)
  <2>1. ASSUME NEW x \in Seq(Transaction), NEW y \in Seq(Transaction)
        PROVE  x \o y \in Seq(Transaction)
    BY ConcatProperties
  <2> QED
    BY <1>0, <1>1, <1>4, <2>1
<1>6. Ours(u, b) = Ours(v, b)
  BY <1>4
<1>7. Way(p)' = ((u \o transactions) \o held) \o input
      /\ Way(p) = ((v \o transactions) \o held) \o input
  BY <1>1, <1>2, <1>3
<1> HIDE DEF u, v
<1> QED
  BY SMTT(30), <1>0, <1>5, <1>6, <1>7, OursRest

\* Steps that move no transaction leave the ways as they are.
LEMMA StillWay ==
  ASSUME NEW p \in DOMAIN Processors,
         UNCHANGED <<input, transactions, held, toExport, har, proc, delivered>>
  PROVE  Way(p)' = Way(p)
BY DEF Way, Numbers

\* The settings stay, and every step but Queue keeps each application's way.
LEMMA StepKeepsWay ==
  ASSUME Typed, Typed', [Next]_vars
  PROVE  /\ setting' = setting
         /\ ~Queue => /\ queued' = queued
                      /\ \A p \in DOMAIN Processors \ Failing : \A b :
                           Ours(Way(p)', b) = Ours(Way(p), b)
<1>1. CASE UNCHANGED vars
  <2>1. setting' = setting /\ queued' = queued
    BY <1>1 DEF vars
  <2>2. UNCHANGED <<input, transactions, held, toExport, har, proc, delivered>>
    BY <1>1 DEF vars, exportVars
  <2> QED
    BY <2>1, <2>2, StillWay
<1>2. CASE Queue
  BY <1>2 DEF Queue
<1>3. CASE StopSend \/ StopReturn \/ \E g \in Goroutine : LoopCheck(g) \/ TakeStop(g)
  <2>1. /\ setting' = setting /\ queued' = queued
        /\ UNCHANGED <<input, transactions, held, exportVars>>
    BY <1>3 DEF StopSend, StopReturn, LoopCheck, TakeStop
  <2>2. UNCHANGED <<input, transactions, held, toExport, har, proc, delivered>>
    BY <2>1 DEF exportVars
  <2> QED
    BY <2>1, <2>2, StillWay
<1>4. CASE Receive \/ AppendTransaction \/ Tick
  <2>1. setting' = setting /\ queued' = queued
    BY <1>4 DEF Receive, AppendTransaction, Tick
  <2> QED
    BY <1>4, <2>1, MovesKeepWay
<1>5. CASE NextHar \/ DumpDone \/ \E ok \in BOOLEAN : Call(ok)
  <2>1. setting' = setting /\ queued' = queued
    BY <1>5 DEF NextHar, DumpDone, Call
  <2> QED
    BY <1>5, <2>1, CycleKeepsWay
<1>6. "aggregate" \in Goroutine /\ "export" \in Goroutine
  BY DEF Goroutine
<1> QED
  BY <1>1, <1>2, <1>3, <1>4, <1>5, <1>6 DEF Next, AggregateStep, ExportStep, Process

\* What is queued is what is on the way, after Queue too.
LEMMA QueueConserves ==
  ASSUME Typed, Queue, NEW p \in DOMAIN Processors, NEW b,
         Ours(Way(p), b) = Ours([i \in 1 .. queued |-> i], b)
  PROVE  Ours(Way(p)', b) = Ours([i \in 1 .. queued' |-> i], b)
<1> DEFINE s == [i \in 1 .. queued |-> i]
           t == [i \in 1 .. queued + 1 |-> i]
           R == Of(b) \ Ignored
           e == queued + 1
<1>1. queued \in 0 .. NumTransactions /\ queued < NumTransactions /\ queued' = e
  BY TypedFacts DEF Queue
<1>2. s \in Seq(Transaction) /\ t = Append(s, e)
  BY <1>1, UpToNext
<1>3. Way(p) \in Seq(Transaction)
  BY WayTypes
<1>4. e \in Transaction /\ Way(p)' = Append(Way(p), e)
  BY QueueExtendsWay
<1> HIDE DEF s, t, e
<1>5. t \in Seq(Transaction) /\ Way(p)' \in Seq(Transaction)
  BY <1>2, <1>3, <1>4, AppendProperties
<1>6. /\ Ours(Way(p), b) = Among(Way(p), R) /\ Ours(Way(p)', b) = Among(Way(p)', R)
      /\ Ours(s, b) = Among(s, R) /\ Ours(t, b) = Among(t, R)
  BY <1>2, <1>3, <1>5, OursIsAmong
<1> HIDE DEF R
<1>7. Among(Way(p)', R) = IF e \in R THEN Append(Among(Way(p), R), e) ELSE Among(Way(p), R)
  BY <1>3, <1>4, AmongAppend
<1>8. Among(t, R) = IF e \in R THEN Append(Among(s, R), e) ELSE Among(s, R)
  BY <1>2, <1>4, AmongAppend
<1>9. Among(Way(p)', R) = Among(t, R)
  BY <1>6, <1>7, <1>8 DEF s
<1> QED
  BY <1>1, <1>6, <1>9 DEF t, e

\* ConservedInOrder is preserved.
LEMMA ConservedInductive ==
  ASSUME Typed, Typed', ConservedInOrder, [Next]_vars
  PROVE  ConservedInOrder'
<1>1. setting' = setting
  BY StepKeepsWay
<1>2. Processors' = Processors /\ Failing' = Failing /\ Ignored' = Ignored
  BY <1>1 DEF Processors, Failing, Ignored
<1>3. SUFFICES ASSUME NEW p \in DOMAIN Processors \ Failing, NEW b \in Apps
               PROVE  Ours(Way(p)', b) = Ours([i \in 1 .. queued' |-> i], b)
  BY <1>2 DEF ConservedInOrder, Ours, OfApp, Kept
<1>4. Ours(Way(p), b) = Ours([i \in 1 .. queued |-> i], b)
  BY DEF ConservedInOrder, Ours
<1>5. CASE Queue
  BY <1>4, <1>5, QueueConserves
<1>6. CASE ~Queue
  <2>1. queued' = queued /\ Ours(Way(p)', b) = Ours(Way(p), b)
    BY <1>6, StepKeepsWay
  <2> QED
    BY <1>4, <2>1
<1> QED
  BY <1>5, <1>6

\* Nothing is on the way at the start.
LEMMA ConservedInit == Init => ConservedInOrder
<1> SUFFICES ASSUME Init, NEW p \in DOMAIN Processors \ Failing, NEW b \in Apps
             PROVE  Ours(Way(p), b) = Ours([i \in 1 .. queued |-> i], b)
  BY DEF ConservedInOrder, Ours
<1>1. /\ toExport = <<>> /\ transactions = <<>> /\ held = <<>> /\ input = <<>>
      /\ proc = 0 /\ queued = 0 /\ delivered[p] = <<>>
  BY DEF Init
<1>2. Numbers(delivered[p]) = <<>>
  BY <1>1 DEF Numbers
<1>3. Way(p) = <<>>
  BY <1>1, <1>2 DEF Way
<1>4. [i \in 1 .. queued |-> i] = <<>>
  BY <1>1
<1> QED
  BY <1>3, <1>4

(***************************************************************************)
(* Applications.  S3Client empties the ids of a har that no other cycle    *)
(* and no other har of its cycle shares an entry with: what the goroutines *)
(* hold is apart, and comes from numbers that were queued.                 *)
(***************************************************************************)
Behind == ToSet(transactions) \union ToSet(held) \union ToSet(input)
Begun == ToSet(har) \union emptied

Apart ==
  /\ IsInjective(input)
  /\ Begun \union ToSet(toExport) \union Behind \subseteq 1 .. queued
  /\ ToSet(held) \intersect ToSet(input) = {}
  /\ ToSet(transactions) \intersect (ToSet(held) \union ToSet(input)) = {}
  /\ (Begun \union ToSet(toExport)) \intersect Behind = {}
  /\ Begun \intersect ToSet(toExport) = {}
  /\ proc # 0 /\ ~AfterS3(proc) => emptied \intersect ToSet(har) = {}

\* Apart holds initially.
LEMMA ApartInit == Init => Apart
<1> SUFFICES ASSUME Init PROVE Apart
  OBVIOUS
<1>1. /\ toExport = <<>> /\ transactions = <<>> /\ held = <<>> /\ input = <<>>
      /\ har = <<>> /\ proc = 0 /\ emptied = {}
  BY DEF Init
<1>2. ToSet(<<>>) = {} /\ IsInjective(<<>>)
  BY DEF ToSet, IsInjective
<1> QED
  BY <1>1, <1>2 DEF Apart, Behind, Begun

\* What moves from the channel to the cycle.
LEMMA ApartMoves ==
  ASSUME Typed, Apart, Queue \/ Receive \/ AppendTransaction \/ Tick
  PROVE  Apart'
<1>1. /\ transactions \in Seq(Transaction) /\ held \in Seq(Transaction)
      /\ input \in Seq(Transaction) /\ toExport \in Seq(Transaction)
      /\ queued \in 0 .. NumTransactions /\ setting \in Settings
  BY TypedFacts
<1>2. ToSet(<<>>) = {} /\ IsInjective(<<>>)
  BY DEF ToSet, IsInjective
<1>3. setting' = setting /\ UNCHANGED <<har, proc, emptied>>
  BY DEF Queue, Receive, AppendTransaction, Tick, exportVars
<1>4. AfterS3(proc)' <=> AfterS3(proc)
  BY <1>3 DEF AfterS3, Processors
<1>5. Begun' = Begun /\ ToSet(har)' = ToSet(har)
  BY <1>3 DEF Begun
<1>6. /\ proc' # 0 /\ ~AfterS3(proc)' => emptied' \intersect ToSet(har)' = {}
  BY <1>3, <1>4, <1>5 DEF Apart
<1>7. CASE Queue
  <2> DEFINE e == queued + 1
  <2>1. /\ queued' = e /\ input' = Append(input, e) /\ e \in Transaction
        /\ UNCHANGED <<transactions, held, toExport>>
    BY <1>1, <1>7, ExporterAssumption DEF Queue, exportVars, Transaction
  <2>2. e \notin 1 .. queued /\ 1 .. queued' = 1 .. queued \union {e}
    BY <1>1, <2>1
  <2> HIDE DEF e
  <2>3. /\ ToSet(input') = ToSet(input) \union {e}
        /\ e \notin ToSet(input) => IsInjective(input')
    BY <1>1, <2>1, ToSetAppend DEF Apart
  <2>4. /\ ToSet(transactions)' = ToSet(transactions) /\ ToSet(held)' = ToSet(held)
        /\ ToSet(toExport)' = ToSet(toExport) /\ ToSet(input)' = ToSet(input')
    BY <2>1
  <2>5. Behind' = Behind \union {e}
    BY <2>3, <2>4 DEF Behind
  <2>6. e \notin Behind \union Begun \union ToSet(toExport)
    BY <2>2 DEF Apart
  <2>7. IsInjective(input)'
    BY <2>3, <2>6 DEF Behind, IsInjective
  <2> QED
    BY <1>5, <1>6, <2>2, <2>3, <2>4, <2>5, <2>6, <2>7 DEF Apart, Behind
<1>8. CASE Receive
  <2>1. /\ input # <<>> /\ held' = <<Head(input)>> /\ input' = Tail(input) /\ held = <<>>
        /\ UNCHANGED <<queued, transactions, toExport>>
    BY <1>8 DEF Receive, exportVars, Typed, Shape
  <2> DEFINE e == Head(input)
  <2>2. /\ e \in Transaction /\ ToSet(input) = ToSet(input') \union {e}
        /\ IsInjective(input') /\ e \notin ToSet(input')
    BY <1>1, <2>1, ToSetTail DEF Apart
  <2>3. ToSet(held') = {e}
    BY <2>1, <2>2, ToSetSingle
  <2> HIDE DEF e
  <2>4. /\ ToSet(transactions)' = ToSet(transactions) /\ ToSet(toExport)' = ToSet(toExport)
        /\ ToSet(input)' = ToSet(input') /\ ToSet(held)' = {e} /\ ToSet(held) = {}
    BY <1>2, <2>1, <2>3
  <2>5. Behind' = Behind
    BY <2>2, <2>4 DEF Behind
  <2>6. IsInjective(input)'
    BY <2>2 DEF IsInjective
  <2> QED
    BY <1>5, <1>6, <2>1, <2>2, <2>4, <2>5, <2>6 DEF Apart
<1>9. CASE AppendTransaction
  <2>1. /\ transactions' = transactions \o held /\ held' = <<>>
        /\ UNCHANGED <<queued, input, toExport>>
    BY <1>9 DEF AppendTransaction, exportVars
  <2>2. /\ ToSet(transactions)' = ToSet(transactions) \union ToSet(held)
        /\ ToSet(held)' = {}
        /\ ToSet(input)' = ToSet(input) /\ ToSet(toExport)' = ToSet(toExport)
    BY <1>1, <1>2, <2>1, ToSetConcat
  <2>3. Behind' = Behind
    BY <2>2 DEF Behind
  <2>4. IsInjective(input)'
    BY <2>1 DEF Apart, IsInjective
  <2> QED
    BY <1>5, <1>6, <2>1, <2>2, <2>3, <2>4 DEF Apart
<1>10. CASE Tick
  <2>1. /\ toExport' = transactions /\ transactions' = <<>> /\ toExport = <<>>
        /\ UNCHANGED <<queued, input, held>>
    BY <1>10 DEF Tick, Typed, Shape
  <2>2. /\ ToSet(toExport)' = ToSet(transactions) /\ ToSet(toExport) = {}
        /\ ToSet(transactions)' = {}
        /\ ToSet(input)' = ToSet(input) /\ ToSet(held)' = ToSet(held)
    BY <1>2, <2>1
  <2>3. Behind = Behind' \union ToSet(transactions)
    BY <2>2 DEF Behind
  <2>4. IsInjective(input)'
    BY <2>1 DEF Apart, IsInjective
  <2>5. Behind' = ToSet(held) \union ToSet(input)
    BY <2>2 DEF Behind
  <2> QED
    BY <1>5, <1>6, <2>1, <2>2, <2>3, <2>4, <2>5 DEF Apart
<1> QED
  BY <1>7, <1>8, <1>9, <1>10

\* The cycle takes hars out of what it has, and s3 empties the one it is given.
LEMMA ApartCycle ==
  ASSUME Typed, Apart, NextHar \/ DumpDone \/ (\E ok \in BOOLEAN : Call(ok))
  PROVE  Apart'
<1>1. /\ toExport \in Seq(Transaction) /\ har \in Seq(Transaction) /\ setting \in Settings
      /\ <<>> \in Seq(Transaction)
  BY TypedFacts
<1>2. ToSet(<<>>) = {}
  BY DEF ToSet
<1>3. setting' = setting /\ UNCHANGED <<queued, input, transactions, held>>
  BY DEF NextHar, DumpDone, Call
<1>4. /\ Processors' = Processors /\ Behind' = Behind
      /\ ToSet(held)' = ToSet(held) /\ ToSet(input)' = ToSet(input)
      /\ ToSet(transactions)' = ToSet(transactions)
  BY <1>3 DEF Processors, Behind
<1>5. IsInjective(input)'
  BY <1>3 DEF Apart, IsInjective
<1>6. CASE NextHar
  <2>1. proc' = 1 /\ emptied' = emptied
    BY <1>6, NextHarFacts
  <2>2. /\ ToSet(har') \subseteq ToSet(toExport) /\ ToSet(toExport') \subseteq ToSet(toExport)
        /\ ToSet(har') \intersect ToSet(toExport') = {}
    <3>1. CASE SplitByHost
      <4>1. PICK a \in AppsIn(toExport) :
              /\ har' = OfApp(Kept(toExport), a)
              /\ toExport' = Among(toExport, Transaction \ Of(a))
        BY <1>6, <3>1, NextHarFacts
      <4>2. har' = Among(toExport, Of(a) \ Ignored)
        BY <1>1, <4>1, OursIsAmong DEF Ours
      <4>3. /\ ToSet(har') = ToSet(toExport) \intersect (Of(a) \ Ignored)
            /\ ToSet(toExport') = ToSet(toExport) \intersect (Transaction \ Of(a))
        BY <1>1, <4>1, <4>2, AmongType
      <4> QED
        BY <4>3
    <3>2. CASE ~SplitByHost
      <4>1. har' = Among(toExport, Transaction \ Ignored) /\ toExport' = <<>>
        BY <1>6, <3>2, NextHarFacts DEF Kept
      <4>2. ToSet(har') = ToSet(toExport) \intersect (Transaction \ Ignored)
        BY <1>1, <4>1, AmongType
      <4> QED
        BY <1>2, <4>1, <4>2
    <3> QED
      BY <3>1, <3>2
  <2>3. ToSet(har)' = ToSet(har') /\ ToSet(toExport)' = ToSet(toExport')
    OBVIOUS
  <2>4. Begun' = ToSet(har') \union emptied
    BY <2>1, <2>3 DEF Begun
  <2>5. emptied \subseteq Begun
    BY DEF Begun
  <2> QED
    BY <1>3, <1>4, <1>5, <2>1, <2>2, <2>3, <2>4, <2>5 DEF Apart
<1>7. CASE DumpDone
  <2>1. toExport' = <<>> /\ proc' = 0 /\ har' = har /\ emptied' = emptied
    BY <1>7 DEF DumpDone
  <2>2. ToSet(toExport)' = {} /\ ToSet(har)' = ToSet(har) /\ Begun' = Begun
    BY <1>2, <2>1 DEF Begun
  <2> QED
    BY <1>3, <1>4, <1>5, <2>1, <2>2 DEF Apart
<1>8. ASSUME NEW ok \in BOOLEAN, Call(ok) PROVE Apart'
  <2>1. /\ proc \in DOMAIN Processors
        /\ \/ proc' = proc + 1 /\ proc' \in DOMAIN Processors /\ har' = har
           \/ proc = Len(Processors) /\ proc' = 0 /\ har' = <<>>
        /\ emptied' \subseteq emptied \union ToSet(har)
        /\ emptied' # emptied => Processors[proc] = "s3"
        /\ toExport' = toExport
    BY <1>8, CallFacts
  <2>2. ToSet(har)' \subseteq ToSet(har) /\ ToSet(toExport)' = ToSet(toExport)
    BY <1>2, <2>1
  <2>3. Begun' \subseteq Begun
    BY <2>1, <2>2 DEF Begun
  <2>4. ASSUME proc' # 0, ~AfterS3(proc)' PROVE emptied' \intersect ToSet(har)' = {}
    <3>1. proc' = proc + 1 /\ har' = har
      BY <2>1, <2>4
    <3>2. proc \in Nat \ {0}
      BY <1>1, <2>1, SettingFacts
    <3>3. proc \in 1 .. proc' - 1 /\ 1 .. proc - 1 \subseteq 1 .. proc' - 1
      BY <3>1, <3>2
    <3>4. ~AfterS3(proc) /\ Processors[proc] # "s3"
      BY <1>4, <2>4, <3>3 DEF AfterS3
    <3>5. emptied' = emptied
      BY <2>1, <3>4
    <3> QED
      BY <3>1, <3>2, <3>4, <3>5 DEF Apart
  <2> QED
    BY <1>3, <1>4, <1>5, <2>2, <2>3, <2>4 DEF Apart
<1> QED
  BY <1>6, <1>7, <1>8

\* Apart is preserved by every step.
LEMMA ApartInductive ==
  ASSUME Typed, Apart, [Next]_vars
  PROVE  Apart'
<1>1. CASE UNCHANGED <<setting, queued, input, transactions, held, exportVars>>
  <2>1. UNCHANGED <<setting, queued, input, transactions, held>>
        /\ UNCHANGED <<toExport, har, proc, emptied, delivered>>
    BY <1>1 DEF exportVars
  <2> QED
    BY <2>1 DEF Apart, Behind, Begun, AfterS3, Processors, IsInjective
<1>2. CASE UNCHANGED vars
  BY <1>1, <1>2 DEF vars
<1>3. CASE StopSend \/ StopReturn \/ \E g \in Goroutine : LoopCheck(g) \/ TakeStop(g)
  BY <1>1, <1>3 DEF StopSend, StopReturn, LoopCheck, TakeStop
<1>4. "aggregate" \in Goroutine /\ "export" \in Goroutine
  BY DEF Goroutine
<1> QED
  BY <1>2, <1>3, <1>4, ApartMoves, ApartCycle
  DEF Next, AggregateStep, ExportStep, Process

\* The application a processor saw is the one of the transaction.
Seen(d) == \A i \in DOMAIN d : d[i][2] = AppId[d[i][1]]

\* It stays so when what is taken has not been emptied.
LEMMA SeenConcat ==
  ASSUME NEW d \in Seq(Deliveries), NEW s \in Seq(Transaction), Seen(d),
         emptied \intersect ToSet(s) = {}
  PROVE  Seen(d \o Taken(s))
<1> DEFINE t == Taken(s)
           e == d \o t
<1>1. /\ t \in Seq(Deliveries) /\ DOMAIN t = DOMAIN s
      /\ \A i \in DOMAIN s : t[i] = <<s[i], AppIdSeen(s[i])>>
  BY TakenType
<1>2. \A i \in DOMAIN s : s[i] \notin emptied
  BY DEF ToSet
<1>3. \A i \in DOMAIN t : t[i][2] = AppId[t[i][1]]
  BY <1>1, <1>2 DEF AppIdSeen
<1> HIDE DEF t
<1>4. /\ e \in Seq(Deliveries) /\ Len(d) \in Nat /\ Len(t) \in Nat
      /\ DOMAIN d = 1 .. Len(d) /\ DOMAIN t = 1 .. Len(t)
      /\ Len(e) = Len(d) + Len(t)
      /\ \A i \in 1 .. Len(d) + Len(t) : e[i] = IF i <= Len(d) THEN d[i] ELSE t[i - Len(d)]
  BY <1>1, ConcatProperties, LenProperties
<1> HIDE DEF e
<1>5. DOMAIN e = 1 .. Len(d) + Len(t)
  BY <1>4, LenProperties
<1>6. ASSUME NEW i \in 1 .. Len(d) + Len(t) PROVE e[i][2] = AppId[e[i][1]]
  <2>1. CASE i <= Len(d)
    BY <1>4, <2>1 DEF Seen
  <2>2. CASE i > Len(d)
    <3>1. i - Len(d) \in 1 .. Len(t) /\ e[i] = t[i - Len(d)]
      BY <1>4, <2>2
    <3> QED
      BY <1>3, <1>4, <3>1
  <2> QED
    BY <1>4, <2>1, <2>2
<1> QED
  BY <1>5, <1>6 DEF Seen, e, t

\* SeesItsApp is preserved by every step.
LEMMA SeesItsAppInductive ==
  ASSUME Typed, Typed', Apart, SeesItsApp, [Next]_vars
  PROVE  SeesItsApp'
<1>1. Processors' = Processors
  BY StepKeepsWay DEF Processors
<1>2. SUFFICES ASSUME NEW p \in DOMAIN Processors, ~AfterS3(p)
               PROVE  Seen(delivered'[p])
  BY <1>1 DEF SeesItsApp, Seen, AfterS3
<1>3. Seen(delivered[p])
  BY <1>2 DEF SeesItsApp, Seen
<1>4. ASSUME NEW ok \in BOOLEAN, Call(ok) PROVE Seen(delivered'[p])
  <2>1. /\ proc \in DOMAIN Processors
        /\ delivered'[proc] = IF ok THEN delivered[proc] \o Taken(har) ELSE delivered[proc]
        /\ \A q \in DOMAIN Processors \ {proc} : delivered'[q] = delivered[q]
    BY <1>4, CallFacts
  <2>2. har \in Seq(Transaction) /\ delivered[proc] \in Seq(Deliveries) /\ proc # 0
    BY <2>1, TypedFacts, SettingFacts
  <2>3. CASE p = proc /\ ok
    <3>1. emptied \intersect ToSet(har) = {}
      BY <1>2, <2>2, <2>3 DEF Apart
    <3>2. Seen(delivered[proc] \o Taken(har))
      BY <1>3, <2>2, <2>3, <3>1, SeenConcat
    <3> QED
      BY <2>1, <2>3, <3>2
  <2>4. CASE ~(p = proc /\ ok)
    BY <1>3, <2>1, <2>4
  <2> QED
    BY <2>3, <2>4
<1>5. CASE delivered' = delivered
  BY <1>3, <1>5
<1>6. delivered' = delivered \/ \E ok \in BOOLEAN : Call(ok)
  BY DEF vars, exportVars, Next, AggregateStep, ExportStep, Process, Queue, StopSend,
         StopReturn, LoopCheck, TakeStop, Receive, AppendTransaction, Tick, NextHar, DumpDone
<1> QED
  BY <1>4, <1>5, <1>6

\* EntriesNotEmpty is preserved by every step.
LEMMA EntriesInductive ==
  ASSUME Typed, Typed', EntriesNotEmpty, [Next]_vars
  PROVE  EntriesNotEmpty'
<1>1. /\ SplitByHost' = SplitByHost /\ Ignored' = Ignored
  BY StepKeepsWay DEF SplitByHost, Ignored
<1>2. SUFFICES ASSUME SplitByHost \/ Ignored = {}, proc' # 0 PROVE har' # <<>>
  BY <1>1 DEF EntriesNotEmpty
<1>3. proc # 0 => har # <<>>
  BY <1>2 DEF EntriesNotEmpty
<1>4. CASE NextHar
  <2>1. toExport \in Seq(Transaction) /\ har' \in Seq(Transaction)
    BY <1>4, TypedFacts, NextHarFacts
  <2>2. CASE SplitByHost
    <3>1. PICK a \in AppsIn(toExport) : har' = OfApp(Kept(toExport), a)
      BY <1>4, <2>2, NextHarFacts
    <3>2. PICK t \in ToSet(Kept(toExport)) : AppId[t] = a
      BY <3>1 DEF AppsIn
    <3>3. Kept(toExport) \in Seq(Transaction)
      BY <2>1, SelectedType
    <3>4. t \in Of(a)
      <4>1. ToSet(Kept(toExport)) \subseteq Transaction
        BY <3>3, ToSetType
      <4> QED
        BY <3>2, <4>1 DEF Of
    <3>5. ToSet(har') = ToSet(Kept(toExport)) \intersect Of(a)
      BY <3>1, <3>3, AmongType DEF OfApp
    <3>6. ToSet(har') # {}
      BY <3>2, <3>4, <3>5
    <3> QED
      BY <2>1, <3>6, ToSetType
  <2>3. CASE ~SplitByHost
    <3>1. har' = Among(toExport, Transaction \ Ignored) /\ toExport # <<>>
      BY <1>4, <2>3, NextHarFacts DEF Kept
    <3>2. ToSet(toExport) \subseteq Transaction \ Ignored
      BY <1>2, <2>1, <2>3, ToSetType
    <3>3. har' = toExport
      BY <2>1, <3>1, <3>2, AmongNoneOrAll
    <3> QED
      BY <3>1, <3>3
  <2> QED
    BY <2>2, <2>3
<1>5. ASSUME NEW ok \in BOOLEAN, Call(ok) PROVE har' # <<>>
  <2>1. /\ proc \in DOMAIN Processors
        /\ \/ proc' = proc + 1 /\ proc' \in DOMAIN Processors /\ har' = har
           \/ proc = Len(Processors) /\ proc' = 0 /\ har' = <<>>
    BY <1>5, CallFacts
  <2>2. proc # 0
    BY <2>1, TypedFacts, SettingFacts
  <2> QED
    BY <1>2, <1>3, <2>1, <2>2
<1>6. CASE UNCHANGED <<har, proc>>
  BY <1>2, <1>3, <1>6
<1>7. UNCHANGED <<har, proc>> \/ NextHar \/ \E ok \in BOOLEAN : Call(ok)
  BY DEF vars, exportVars, Next, AggregateStep, ExportStep, Process, Queue, StopSend,
         StopReturn, LoopCheck, TakeStop, Receive, AppendTransaction, Tick, DumpDone
<1> QED
  BY <1>4, <1>5, <1>6, <1>7

(***************************************************************************)
(* The theorems: first of the exporter by itself, then with its har        *)
(* processors, which take no step of the exporter that is not its own.     *)
(***************************************************************************)
ExporterInv == Typed /\ Apart /\ ConservedInOrder /\ SeesItsApp /\ EntriesNotEmpty

\* ExporterInv holds initially.
LEMMA ExporterInit == Init => ExporterInv
<1> SUFFICES ASSUME Init PROVE ExporterInv
  OBVIOUS
<1>1. Typed /\ Apart /\ ConservedInOrder
  BY TypedInit, ApartInit, ConservedInit
<1>2. SeesItsApp
  BY DEF Init, SeesItsApp
<1>3. EntriesNotEmpty
  BY DEF Init, EntriesNotEmpty
<1> QED
  BY <1>1, <1>2, <1>3 DEF ExporterInv

\* ExporterInv is preserved by every step of the exporter.
LEMMA ExporterInductive == ExporterInv /\ [Next]_vars => ExporterInv'
<1> SUFFICES ASSUME ExporterInv, [Next]_vars PROVE ExporterInv'
  OBVIOUS
<1>1. Typed'
  BY TypedInductive DEF ExporterInv
<1>2. Apart' /\ ConservedInOrder'
  BY <1>1, ApartInductive, ConservedInductive DEF ExporterInv
<1>3. SeesItsApp' /\ EntriesNotEmpty'
  BY <1>1, SeesItsAppInductive, EntriesInductive DEF ExporterInv
<1> QED
  BY <1>1, <1>2, <1>3 DEF ExporterInv

\* ExporterInv always holds of the exporter, whatever calls it.
LEMMA ExporterAlone == Init /\ [][Next]_vars => []ExporterInv
BY ExporterInit, ExporterInductive, PTL

\* Whoever composes the exporter with something that takes only its steps, as
\* HarProcessors and Pipeline do, gets its invariants: nothing is lost, repeated or
\* overtaken on the way to a processor that does not fail, one that does not come
\* after s3 sees the application, and none is given a har without entries.
THEOREM ExporterPromise ==
  Init /\ [][Next]_vars => [](TypeOK /\ ConservedInOrder /\ SeesItsApp /\ EntriesNotEmpty)
<1>1. ExporterInv => TypeOK /\ ConservedInOrder /\ SeesItsApp /\ EntriesNotEmpty
  BY DEF ExporterInv, Typed
<1> QED
  BY <1>1, ExporterAlone, PTL

\* The steps of the exporter with its har processors are steps of the exporter
\* or leave it alone: a call of Process by parts is one call.
LEMMA HarStepIsStep == HarNext => [Next]_vars
<1>1. ASSUME HarProcess PROVE [Next]_vars
  <2>1. UNCHANGED vars \/ Process
    BY <1>1 DEF HarProcess, FileProcess, S3Process, SitesProcess, SizesProcess,
                PeriodicCall, SampleProcess, Process
  <2> QED
    BY <2>1 DEF Next, ExportStep
<1>2. ASSUME HarExportStep PROVE [Next]_vars
  BY <1>1, <1>2 DEF HarExportStep, HarTakeStop, HarTick, Next, ExportStep
<1>3. ASSUME S3Timer \/ SitesTimer \/ SizesTimer \/ PeriodicTimer \/ SampleTimer
               \/ AggregatedTimer \/ Clock
      PROVE  UNCHANGED vars
  BY <1>3 DEF S3Timer, SitesTimer, SizesTimer, PeriodicTimer, SampleTimer,
              AggregatedTimer, Clock
<1> QED
  BY <1>2, <1>3 DEF HarNext, HarStop, HarAggregateStep, Next

\* The exporter with its har processors behaves as the exporter: what the
\* processors do, by parts and next to their goroutines, is one call of Process
\* for the exporter, which succeeds or fails.
THEOREM HarProcessorsRefine == HarSpec => Init /\ [][Next]_vars
<1>1. HarInit => Init
  BY DEF HarInit
<1>2. [HarNext]_harVars => [Next]_vars
  BY HarStepIsStep DEF harVars
<1> QED
  BY <1>1, <1>2, PTL DEF HarSpec

\* ExporterInv always holds of the exporter with its har processors.
LEMMA ExporterInvHolds == HarSpec => []ExporterInv
BY HarProcessorsRefine, ExporterAlone, PTL

\* Queue, the two goroutines, the processors and Stop keep the types, the
\* capacity of the input channel and of the stop channel among them.
THEOREM TypeCorrect == HarSpec => []TypeOK
BY HarProcessorsRefine, ExporterPromise, PTL

\* No transaction is lost, repeated or overtaken by one of its application on
\* its way through the channel, the slice and the hars to a processor that does
\* not fail, whatever the others do and whenever Stop is called.
THEOREM NothingLostOrOvertaken == HarSpec => []ConservedInOrder
BY HarProcessorsRefine, ExporterPromise, PTL

\* A processor that does not come after s3 sees the application of every entry,
\* although s3 empties ids that all processors share.
THEOREM IdsEmptiedOnlyAfterS3 == HarSpec => []SeesItsApp
BY HarProcessorsRefine, ExporterPromise, PTL

\* No processor is given a har without entries, of which it would read the
\* first, unless one har of all applications loses its entries to health checks.
THEOREM HarsHaveEntries == HarSpec => []EntriesNotEmpty
BY HarProcessorsRefine, ExporterPromise, PTL

(***************************************************************************)
(* What a processor has been given grows by the har of its call.           *)
(***************************************************************************)

\* Every kind is one of the processors at most.
LEMMA KindIsOne ==
  ASSUME setting \in Settings, NEW p \in DOMAIN Processors, NEW kind, Processors[p] = kind
  PROVE  Used(kind) /\ IndexOfKind(kind) = p
<1>1. Processors \in Seq(STRING) /\ DOMAIN Processors = 1 .. Len(Processors)
  BY SettingFacts
<1>2. \A q \in DOMAIN Processors : Processors[q] = kind => q = p
  BY HarAssumption DEF Processors, IsInjective
<1>3. IndexOfKind(kind) = p
  BY <1>2 DEF IndexOfKind
<1> QED
  BY <1>1, <1>3 DEF Used, ToSet

\* A kind that is used has an index.
LEMMA UsedKind ==
  ASSUME setting \in Settings, NEW kind, Used(kind)
  PROVE  IndexOfKind(kind) \in DOMAIN Processors /\ Processors[IndexOfKind(kind)] = kind
<1>1. \E p \in DOMAIN Processors : Processors[p] = kind
  BY DEF Used, ToSet
<1> QED
  BY <1>1 DEF IndexOfKind

\* What is given is a sequence of transactions.
LEMMA GivenType ==
  ASSUME Typed, NEW kind
  PROVE  Given(kind) \in Seq(Transaction) /\ Len(Given(kind)) \in Nat
<1>1. setting \in Settings /\ delivered \in [DOMAIN Processors -> Seq(Deliveries)]
  BY TypedFacts
<1>2. CASE Used(kind)
  <2>1. delivered[IndexOfKind(kind)] \in Seq(Deliveries)
    BY <1>1, <1>2, UsedKind
  <2>2. Given(kind) \in Seq(Transaction)
    BY <1>2, <2>1, NumbersType DEF Given
  <2> QED
    BY <2>2, LenProperties
<1>3. CASE ~Used(kind)
  <2>1. Given(kind) = <<>> /\ <<>> \in Seq(Transaction)
    BY <1>3 DEF Given
  <2> QED
    BY <2>1
<1> QED
  BY <1>2, <1>3

\* A step that delivers nothing gives nothing.
LEMMA GivenStays ==
  ASSUME NEW kind, UNCHANGED <<setting, delivered>>
  PROVE  Given(kind)' = Given(kind)
BY DEF Given, Used, Numbers, IndexOfKind, Processors

\* A call gives the har to the processor that is called, if it succeeds.
LEMMA GivenCall ==
  ASSUME Typed, NEW ok \in BOOLEAN, Call(ok), NEW kind
  PROVE  Given(kind)' = IF ok /\ Calling(kind) THEN Given(kind) \o har ELSE Given(kind)
<1> DEFINE p == IndexOfKind(kind)
<1>1. /\ setting \in Settings /\ har \in Seq(Transaction)
      /\ delivered \in [DOMAIN Processors -> Seq(Deliveries)]
  BY TypedFacts
<1>2. /\ proc \in DOMAIN Processors /\ pc["export"] = "dump" /\ setting' = setting
      /\ delivered'[proc] = IF ok THEN delivered[proc] \o Taken(har) ELSE delivered[proc]
      /\ \A q \in DOMAIN Processors \ {proc} : delivered'[q] = delivered[q]
  BY CallFacts
<1>3. proc # 0
  BY <1>1, <1>2, SettingFacts
<1>4. Calling(kind) <=> Processors[proc] = kind
  BY <1>2, <1>3 DEF Calling
<1>5. Used(kind)' = Used(kind) /\ p' = p
  BY <1>2 DEF Used, IndexOfKind, Processors
<1>6. CASE ~Used(kind)
  <2>1. Given(kind)' = <<>> /\ Given(kind) = <<>>
    BY <1>5, <1>6 DEF Given
  <2>2. ~Calling(kind)
    BY <1>1, <1>2, <1>4, <1>6, KindIsOne
  <2> QED
    BY <2>1, <2>2
<1>7. CASE Used(kind) /\ Processors[proc] = kind
  <2>1. p = proc
    BY <1>1, <1>2, <1>7, KindIsOne
  <2>2. Given(kind)' = Numbers(delivered'[proc]) /\ Given(kind) = Numbers(delivered[proc])
    BY <1>5, <1>7, <2>1 DEF Given, Numbers
  <2>3. ok => Numbers(delivered'[proc]) = Numbers(delivered[proc]) \o har
    BY <1>1, <1>2, NumbersConcat
  <2> QED
    BY <1>2, <1>4, <1>7, <2>2, <2>3
<1>8. CASE Used(kind) /\ Processors[proc] # kind
  <2>1. p \in DOMAIN Processors /\ p # proc
    BY <1>1, <1>8, UsedKind
  <2>2. delivered'[p] = delivered[p]
    BY <1>2, <2>1
  <2> HIDE DEF p
  <2>3. Given(kind)' = Numbers(delivered'[p]) /\ Given(kind) = Numbers(delivered[p])
    BY <1>5, <1>8 DEF Given, Numbers, p
  <2> QED
    BY <1>4, <1>8, <2>2, <2>3
<1> QED
  BY <1>6, <1>7, <1>8

\* Only the calls of Process deliver; the other steps give nothing to anyone.
LEMMA OnlyCallsGive ==
  ASSUME Typed, HarNext \/ UNCHANGED harVars, ~HarProcess, NEW kind
  PROVE  Given(kind)' = Given(kind)
<1>1. UNCHANGED <<setting, delivered>>
  <2>1. CASE UNCHANGED harVars
    BY <2>1 DEF harVars, vars, exportVars
  <2>2. CASE Queue \/ HarStop \/ HarAggregateStep
    BY <2>2 DEF Queue, HarStop, HarAggregateStep, AggregateStep, StopSend, StopReturn,
                LoopCheck, TakeStop, Receive, AppendTransaction, exportVars
  <2>3. CASE HarExportStep
    BY <2>3 DEF HarExportStep, HarTakeStop, HarTick, LoopCheck, TakeStop, Tick, NextHar,
                DumpDone, exportVars
  <2>4. CASE \/ S3Timer \/ SitesTimer \/ SizesTimer \/ PeriodicTimer \/ SampleTimer
             \/ AggregatedTimer \/ Clock
    BY <2>4 DEF S3Timer, SitesTimer, SizesTimer, PeriodicTimer, SampleTimer,
                AggregatedTimer, Clock, vars, exportVars
  <2> QED
    BY <2>1, <2>2, <2>3, <2>4 DEF HarNext
<1> QED
  BY <1>1, GivenStays

(***************************************************************************)
(* The metrics, the warnings and the samples.                              *)
(***************************************************************************)

\* What the ticker has put, in calls that succeeded or failed, and what it has
\* still to put of the totals is what was given, but for what came late.
PeriodicSums(given) ==
  /\ periodic.at = "idle" =>
       periodic.sent + periodic.lost + periodic.transactions + periodic.late = given
  /\ periodic.at # "idle" => periodic.sent + periodic.lost + periodic.late = given
  /\ periodic.at # "reset" =>
       periodic.sentSize + periodic.lostSize + periodic.size + periodic.lateSize = 2 * given
  /\ periodic.at = "reset" =>
       periodic.sentSize + periodic.lostSize + periodic.lateSize = 2 * given

PeriodicInv ==
  /\ periodic \in [transactions : Nat, size : Nat, at : {"idle", "size", "reset"},
                   sent : Nat, sentSize : Nat, lost : Nat, lostSize : Nat,
                   late : Nat, lateSize : Nat]
  /\ PeriodicSums(Len(Given("cw-sites-stats")))

\* The same of the warnings.
AggregatedInv ==
  /\ aggregated \in [messages : Nat, at : {"idle", "print"}, published : Nat,
                     lost : Nat, warned : Nat, late : Nat]
  /\ WarningsPublishedOnce
  /\ aggregated.at = "print" =>
       aggregated.published + aggregated.lost + aggregated.late = aggregated.warned

\* The samples of the interval and those that may follow, counted by the
\* counter or by the copy of it that the loop has loaded, are no more than the
\* rate and the one that was drawn before the tick.
SampledSums ==
  /\ sampled.printed <= SampleRate /\ sampled.loaded <= SampleRate
  /\ ~sampled.drawn => sampled.inInterval + sampled.printed <= SampleRate + 1
  /\ sampled.drawn =>
       sampled.inInterval + sampled.printed <= SampleRate /\ sampled.rest # <<>>
  /\ sampled.loaded > 0 =>
       /\ sampled.inInterval + sampled.loaded <= SampleRate + 1
       /\ sampled.rest # <<>> /\ ~sampled.drawn

SampledInv ==
  /\ sampled \in [printed : Nat, loaded : Nat, drawn : BOOLEAN, rest : Seq(Transaction),
                  inInterval : Nat]
  /\ SampledSums

IntervalInv == PeriodicInv /\ AggregatedInv /\ SampledInv

\* The three hold initially.
LEMMA IntervalInit == HarInit => IntervalInv
<1> SUFFICES ASSUME HarInit PROVE IntervalInv
  OBVIOUS
<1>1. /\ periodic = [transactions |-> 0, size |-> 0, at |-> "idle",
                     sent |-> 0, sentSize |-> 0, lost |-> 0, lostSize |-> 0,
                     late |-> 0, lateSize |-> 0]
      /\ sampled = [printed |-> 0, loaded |-> 0, drawn |-> FALSE, rest |-> <<>>,
                    inInterval |-> 0]
      /\ aggregated = [messages |-> 0, at |-> "idle", published |-> 0, lost |-> 0,
                       warned |-> 0, late |-> 0]
  BY DEF HarInit, StatInit
<1>2. Len(Given("cw-sites-stats")) = 0
  <2>1. setting \in Settings /\ delivered = [p \in DOMAIN Processors |-> <<>>]
    BY DEF HarInit, Init
  <2>2. CASE Used("cw-sites-stats")
    <3>1. delivered[IndexOfKind("cw-sites-stats")] = <<>>
      BY <2>1, <2>2, UsedKind
    <3>2. Numbers(<<>>) = <<>>
      BY DEF Numbers
    <3> QED
      BY <2>2, <3>1, <3>2 DEF Given
  <2>3. CASE ~Used("cw-sites-stats")
    BY <2>3 DEF Given
  <2> QED
    BY <2>2, <2>3
<1>3. PeriodicInv
  BY <1>1, <1>2 DEF PeriodicInv, PeriodicSums
<1>4. AggregatedInv
  BY <1>1 DEF AggregatedInv, WarningsPublishedOnce
<1>5. SampledInv
  <2>1. <<>> \in Seq(Transaction)
    OBVIOUS
  <2> QED
    BY <1>1, <2>1, StatisticsAssumption DEF SampledInv, SampledSums
<1> QED
  BY <1>3, <1>4, <1>5 DEF IntervalInv

\* The totals typed, one by one.
LEMMA PeriodicFields ==
  ASSUME PeriodicInv
  PROVE  /\ periodic.transactions \in Nat /\ periodic.size \in Nat /\ periodic.sent \in Nat
         /\ periodic.sentSize \in Nat /\ periodic.late \in Nat /\ periodic.lateSize \in Nat
         /\ periodic.lost \in Nat /\ periodic.lostSize \in Nat
         /\ periodic.at \in {"idle", "size", "reset"}
BY DEF PeriodicInv

\* What comes late is added to the third of the terms.
LEMMA AddedLater ==
  \A sent, lost, late, n \in Nat : sent + lost + (late + n) = (sent + lost + late) + n
OBVIOUS

\* The exporter's side: a har of n entries is counted.
LEMMA PeriodicCounts ==
  ASSUME PeriodicInv, NEW h, Len(h) \in Nat, PeriodicProcess(h),
         Len(Given("cw-sites-stats")) \in Nat,
         Len(Given("cw-sites-stats"))' = Len(Given("cw-sites-stats")) + Len(h)
  PROVE  PeriodicInv'
<1> DEFINE given == Len(Given("cw-sites-stats"))
           n == Len(h)
<1>1. /\ periodic \in [transactions : Nat, size : Nat, at : {"idle", "size", "reset"},
                       sent : Nat, sentSize : Nat, lost : Nat, lostSize : Nat,
                       late : Nat, lateSize : Nat]
      /\ PeriodicSums(given)
  BY DEF PeriodicInv
<1>2. given \in Nat /\ given' = given + n /\ n \in Nat
  OBVIOUS
<1>3. periodic' = [periodic EXCEPT !.transactions = @ + n, !.size = @ + 2 * n,
                               !.late = @ + IF periodic.at # "idle" THEN n ELSE 0,
                               !.lateSize = @ + IF periodic.at = "reset" THEN 2 * n
                                                                         ELSE 0]
  BY DEF PeriodicProcess
<1> HIDE DEF given, n
<1>4. /\ periodic'.at = periodic.at /\ periodic'.sent = periodic.sent
      /\ periodic'.sentSize = periodic.sentSize
      /\ periodic'.lost = periodic.lost /\ periodic'.lostSize = periodic.lostSize
      /\ periodic'.transactions = periodic.transactions + n
      /\ periodic'.size = periodic.size + 2 * n
      /\ periodic'.late = periodic.late + IF periodic.at # "idle" THEN n ELSE 0
      /\ periodic'.lateSize = periodic.lateSize + IF periodic.at = "reset" THEN 2 * n ELSE 0
  BY <1>1, <1>3
<1>5. periodic' \in [transactions : Nat, size : Nat, at : {"idle", "size", "reset"},
                     sent : Nat, sentSize : Nat, lost : Nat, lostSize : Nat,
                     late : Nat, lateSize : Nat]
  <2>1. \A m \in Nat : m + n \in Nat /\ m + 2 * n \in Nat /\ m + 0 \in Nat
    BY <1>2
  <2> QED
    BY <1>1, <1>3, <2>1
<1>6. PeriodicSums(given)'
  <2>1. /\ periodic.transactions \in Nat /\ periodic.size \in Nat /\ periodic.sent \in Nat
        /\ periodic.sentSize \in Nat /\ periodic.late \in Nat /\ periodic.lateSize \in Nat
        /\ periodic.lost \in Nat /\ periodic.lostSize \in Nat
    BY PeriodicFields
  <2>2. CASE periodic.at = "idle"
    BY ONLY SMTT(30), <1>1, <1>2, <1>4, <2>1, <2>2 DEF PeriodicSums
  <2>3. CASE periodic.at = "reset"
    <3>1. /\ periodic'.late = periodic.late + n /\ periodic'.lateSize = periodic.lateSize + 2 * n
          /\ periodic'.at = "reset" /\ periodic'.sent = periodic.sent
          /\ periodic'.lost = periodic.lost
          /\ periodic'.sentSize = periodic.sentSize /\ periodic'.lostSize = periodic.lostSize
      BY ONLY <1>4, <2>3
    <3>2. /\ periodic.sent + periodic.lost + periodic.late = given
          /\ periodic.sentSize + periodic.lostSize + periodic.lateSize = 2 * given
      BY ONLY <1>1, <2>3 DEF PeriodicSums
    <3>3. periodic'.sent + periodic'.lost + periodic'.late = given'
      <4>1. periodic'.sent + periodic'.lost + periodic'.late
              = (periodic.sent + periodic.lost + periodic.late) + n
        BY ONLY <1>2, <2>1, <3>1, AddedLater
      <4> QED
        BY ONLY <1>2, <3>2, <4>1
    <3>4. periodic'.sentSize + periodic'.lostSize + periodic'.lateSize = 2 * given'
      <4>1. periodic'.sentSize + periodic'.lostSize + periodic'.lateSize
              = (periodic.sentSize + periodic.lostSize + periodic.lateSize) + 2 * n
        <5>1. 2 * n \in Nat
          BY ONLY <1>2
        <5> QED
          BY ONLY <2>1, <3>1, <5>1, AddedLater
      <4>2. 2 * given' = 2 * given + 2 * n
        BY ONLY <1>2
      <4> QED
        BY ONLY <3>2, <4>1, <4>2
    <3> QED
      BY ONLY <3>1, <3>3, <3>4 DEF PeriodicSums
  <2>4. CASE periodic.at # "idle" /\ periodic.at # "reset"
    BY ONLY <1>1, <1>2, <1>4, <2>1, <2>4 DEF PeriodicSums
  <2> QED
    BY <2>2, <2>3, <2>4
<1> QED
  BY <1>5, <1>6 DEF PeriodicInv, given

\* The ticker's side: what is read is sent, what is reset was sent or is late.
LEMMA PeriodicTicks ==
  ASSUME PeriodicInv, PutTransactions \/ PutSize \/ PeriodicReset,
         Given("cw-sites-stats")' = Given("cw-sites-stats"),
         Len(Given("cw-sites-stats")) \in Nat
  PROVE  PeriodicInv'
<1> DEFINE given == Len(Given("cw-sites-stats"))
<1>1. /\ periodic \in [transactions : Nat, size : Nat, at : {"idle", "size", "reset"},
                       sent : Nat, sentSize : Nat, lost : Nat, lostSize : Nat,
                       late : Nat, lateSize : Nat]
      /\ PeriodicSums(given)
  BY DEF PeriodicInv
<1>2. given' = given /\ given \in Nat
  OBVIOUS
<1> HIDE DEF given
<1>3. /\ periodic.transactions \in Nat /\ periodic.size \in Nat /\ periodic.sent \in Nat
      /\ periodic.sentSize \in Nat /\ periodic.late \in Nat /\ periodic.lateSize \in Nat
      /\ periodic.lost \in Nat /\ periodic.lostSize \in Nat
  BY PeriodicFields
<1>4. CASE PutTransactions
  <2>1. /\ periodic.at = "idle"
        /\ \/ periodic' = [periodic EXCEPT !.sent = @ + periodic.transactions, !.at = "size"]
           \/ periodic' = [periodic EXCEPT !.lost = @ + periodic.transactions, !.at = "size"]
    BY <1>4 DEF PutTransactions
  <2>2. /\ periodic'.sent + periodic'.lost = periodic.sent + periodic.lost + periodic.transactions
        /\ periodic'.sent \in Nat /\ periodic'.lost \in Nat /\ periodic'.at = "size"
        /\ periodic'.late = periodic.late /\ periodic'.sentSize = periodic.sentSize
        /\ periodic'.lostSize = periodic.lostSize
        /\ periodic'.size = periodic.size /\ periodic'.lateSize = periodic.lateSize
    <3>1. CASE periodic' = [periodic EXCEPT !.sent = @ + periodic.transactions, !.at = "size"]
      BY <1>1, <1>3, <3>1
    <3>2. CASE periodic' = [periodic EXCEPT !.lost = @ + periodic.transactions, !.at = "size"]
      BY <1>1, <1>3, <3>2
    <3> QED
      BY <2>1, <3>1, <3>2
  <2>3. PeriodicSums(given)'
    BY ONLY <1>1, <1>2, <1>3, <2>1, <2>2 DEF PeriodicSums
  <2>4. /\ periodic.sent + periodic.transactions \in Nat
        /\ periodic.lost + periodic.transactions \in Nat
    BY ONLY <1>3
  <2>5. periodic' \in [transactions : Nat, size : Nat, at : {"idle", "size", "reset"},
                       sent : Nat, sentSize : Nat, lost : Nat, lostSize : Nat,
                       late : Nat, lateSize : Nat]
    BY <1>1, <2>1, <2>4
  <2> QED
    BY <2>3, <2>5 DEF PeriodicInv, given
<1>5. CASE PutSize
  <2>1. /\ periodic.at = "size"
        /\ \/ periodic' = [periodic EXCEPT !.sentSize = @ + periodic.size, !.at = "reset"]
           \/ periodic' = [periodic EXCEPT !.lostSize = @ + periodic.size, !.at = "reset"]
    BY <1>5 DEF PutSize
  <2>2. /\ periodic'.sent = periodic.sent /\ periodic'.lost = periodic.lost
        /\ periodic'.at = "reset" /\ periodic'.late = periodic.late
        /\ periodic'.sentSize + periodic'.lostSize
             = periodic.sentSize + periodic.lostSize + periodic.size
        /\ periodic'.sentSize \in Nat /\ periodic'.lostSize \in Nat
        /\ periodic'.lateSize = periodic.lateSize
    <3>1. CASE periodic' = [periodic EXCEPT !.sentSize = @ + periodic.size, !.at = "reset"]
      BY <1>1, <1>3, <3>1
    <3>2. CASE periodic' = [periodic EXCEPT !.lostSize = @ + periodic.size, !.at = "reset"]
      BY <1>1, <1>3, <3>2
    <3> QED
      BY <2>1, <3>1, <3>2
  <2>3. PeriodicSums(given)'
    BY ONLY <1>1, <1>2, <1>3, <2>1, <2>2 DEF PeriodicSums
  <2>4. periodic.sentSize + periodic.size \in Nat /\ periodic.lostSize + periodic.size \in Nat
    BY ONLY <1>3
  <2>5. periodic' \in [transactions : Nat, size : Nat, at : {"idle", "size", "reset"},
                       sent : Nat, sentSize : Nat, lost : Nat, lostSize : Nat,
                       late : Nat, lateSize : Nat]
    BY <1>1, <2>1, <2>4
  <2> QED
    BY <2>3, <2>5 DEF PeriodicInv, given
<1>6. CASE PeriodicReset
  <2>1. /\ periodic.at = "reset"
        /\ periodic' = [periodic EXCEPT !.transactions = 0, !.size = 0, !.at = "idle"]
    BY <1>6 DEF PeriodicReset
  <2>2. /\ periodic'.sent = periodic.sent /\ periodic'.at = "idle"
        /\ periodic'.transactions = 0 /\ periodic'.size = 0
        /\ periodic'.late = periodic.late /\ periodic'.sentSize = periodic.sentSize
        /\ periodic'.lateSize = periodic.lateSize
        /\ periodic'.lost = periodic.lost /\ periodic'.lostSize = periodic.lostSize
    BY <1>1, <2>1
  <2>3. PeriodicSums(given)'
    BY ONLY <1>1, <1>2, <1>3, <2>1, <2>2 DEF PeriodicSums
  <2>4. periodic' \in [transactions : Nat, size : Nat, at : {"idle", "size", "reset"},
                       sent : Nat, sentSize : Nat, lost : Nat, lostSize : Nat,
                       late : Nat, lateSize : Nat]
    BY <1>1, <1>3, <2>1
  <2> QED
    BY <2>3, <2>4 DEF PeriodicInv, given
<1> QED
  BY <1>4, <1>5, <1>6

\* The aggregated log, both sides.
LEMMA AggregatedSteps ==
  ASSUME AggregatedInv,
         publishToCloudWatch \/ printAggregated \/ \E n \in Nat : Warn(n)
  PROVE  AggregatedInv'
<1> DEFINE Counts == [messages : Nat, at : {"idle", "print"}, published : Nat,
                      lost : Nat, warned : Nat, late : Nat]
<1>1. /\ aggregated \in Counts
      /\ aggregated.at = "idle" =>
           aggregated.published + aggregated.lost + aggregated.messages + aggregated.late
             = aggregated.warned
      /\ aggregated.at = "print" =>
           aggregated.published + aggregated.lost + aggregated.late = aggregated.warned
  BY DEF AggregatedInv, WarningsPublishedOnce
<1>2. /\ aggregated.messages \in Nat /\ aggregated.published \in Nat
      /\ aggregated.lost \in Nat /\ aggregated.warned \in Nat /\ aggregated.late \in Nat
      /\ aggregated.at \in {"idle", "print"}
  BY <1>1
<1>3. CASE publishToCloudWatch
  <2>1. /\ aggregated.published + aggregated.messages \in Nat
        /\ aggregated.lost + aggregated.messages \in Nat
    BY ONLY <1>2
  <2>2. /\ aggregated.at = "idle"
        /\ \/ aggregated' = [aggregated EXCEPT !.published = @ + aggregated.messages,
                                               !.at = "print"]
           \/ aggregated' = [aggregated EXCEPT !.lost = @ + aggregated.messages, !.at = "print"]
    BY <1>3 DEF publishToCloudWatch
  <2>3. aggregated' \in Counts
    BY <1>1, <2>1, <2>2
  <2>4. /\ aggregated'.at = "print" /\ aggregated'.warned = aggregated.warned
        /\ aggregated'.late = aggregated.late
        /\ aggregated'.published \in Nat /\ aggregated'.lost \in Nat
        /\ aggregated'.published + aggregated'.lost
             = aggregated.published + aggregated.lost + aggregated.messages
    <3>1. CASE aggregated' = [aggregated EXCEPT !.published = @ + aggregated.messages,
                                                !.at = "print"]
      BY <1>1, <1>2, <3>1
    <3>2. CASE aggregated' = [aggregated EXCEPT !.lost = @ + aggregated.messages, !.at = "print"]
      BY <1>1, <1>2, <3>2
    <3> QED
      BY <2>2, <3>1, <3>2
  <2>5. aggregated'.published + aggregated'.lost + aggregated'.late = aggregated'.warned
    BY ONLY <1>1, <1>2, <2>2, <2>4
  <2> QED
    BY <2>3, <2>4, <2>5 DEF AggregatedInv, WarningsPublishedOnce
<1>4. CASE printAggregated
  <2>1. /\ aggregated.at = "print" /\ aggregated' \in Counts /\ aggregated'.at = "idle"
        /\ aggregated'.published = aggregated.published /\ aggregated'.messages = 0
        /\ aggregated'.lost = aggregated.lost
        /\ aggregated'.warned = aggregated.warned /\ aggregated'.late = aggregated.late
    BY <1>1, <1>2, <1>4 DEF printAggregated
  <2>2. aggregated'.published + aggregated'.lost + aggregated'.messages + aggregated'.late
          = aggregated'.warned
    BY ONLY <1>1, <1>2, <2>1
  <2> QED
    BY <2>1, <2>2 DEF AggregatedInv, WarningsPublishedOnce
<1>5. ASSUME NEW n \in Nat, Warn(n) PROVE AggregatedInv'
  <2>1. /\ aggregated'.at = aggregated.at /\ aggregated'.published = aggregated.published
        /\ aggregated'.lost = aggregated.lost
        /\ aggregated'.messages = aggregated.messages + n
        /\ aggregated'.warned = aggregated.warned + n
        /\ aggregated'.late = aggregated.late + IF aggregated.at = "print" THEN n ELSE 0
    BY <1>1, <1>5 DEF Warn
  <2>2. aggregated' \in Counts
    <3>1. \A m \in Nat : m + n \in Nat /\ m + 0 \in Nat
      OBVIOUS
    <3> QED
      BY <1>1, <1>5, <3>1 DEF Warn
  <2>3. /\ aggregated'.at = "idle" =>
             aggregated'.published + aggregated'.lost + aggregated'.messages + aggregated'.late
               = aggregated'.warned
        /\ aggregated'.at = "print" =>
             aggregated'.published + aggregated'.lost + aggregated'.late = aggregated'.warned
    <3>1. n \in Nat
      OBVIOUS
    <3>2. CASE aggregated.at = "idle"
      BY ONLY <1>1, <1>2, <2>1, <3>1, <3>2
    <3>3. CASE aggregated.at = "print"
      BY ONLY <1>1, <1>2, <2>1, <3>1, <3>3
    <3> QED
      BY <1>2, <3>2, <3>3
  <2> QED
    BY <2>2, <2>3 DEF AggregatedInv, WarningsPublishedOnce
<1> QED
  BY <1>3, <1>4, <1>5

\* The samples: the loop, by parts, and the ticker.
LEMMA SampledSteps ==
  ASSUME SampledInv,
         \/ SampleSkip \/ SampleLoad \/ SampleTick
         \/ \E h \in Seq(Transaction) : SampleStart(h)
         \/ SampleStore \/ \E ok \in BOOLEAN : SamplePrint(ok)
  PROVE  SampledInv'
<1> DEFINE Counts == [printed : Nat, loaded : Nat, drawn : BOOLEAN, rest : Seq(Transaction),
                      inInterval : Nat]
<1>1. /\ sampled \in Counts /\ SampleRate \in Nat
      /\ SampledSums
  BY StatisticsAssumption DEF SampledInv
<1>2. /\ sampled.printed \in Nat /\ sampled.loaded \in Nat /\ sampled.inInterval \in Nat
      /\ sampled.rest \in Seq(Transaction) /\ <<>> \in Seq(Transaction)
      /\ sampled.drawn \in BOOLEAN
  BY <1>1
<1>3. CASE SampleTick
  <2>1. /\ sampled' \in Counts /\ sampled'.printed = SampleRate /\ sampled'.inInterval = 0
        /\ sampled'.loaded = sampled.loaded /\ sampled'.rest = sampled.rest
        /\ sampled'.drawn = sampled.drawn
    BY <1>1, <1>2, <1>3 DEF SampleTick
  <2>2. SampledSums'
    BY ONLY <1>1, <1>2, <2>1 DEF SampledSums
  <2> QED
    BY <2>1, <2>2 DEF SampledInv
<1>4. CASE SampleLoad
  <2>1. /\ sampled' \in Counts /\ sampled'.printed = sampled.printed /\ sampled.rest # <<>>
        /\ ~sampled.drawn /\ sampled'.inInterval = sampled.inInterval
        /\ sampled'.loaded = sampled.printed /\ sampled'.rest = sampled.rest
        /\ sampled'.drawn = sampled.drawn
    BY <1>1, <1>2, <1>4 DEF SampleLoad
  <2>2. SampledSums'
    BY ONLY <1>1, <1>2, <2>1 DEF SampledSums
  <2> QED
    BY <2>1, <2>2 DEF SampledInv
<1>5. CASE SampleSkip
  <2>0. /\ sampled.rest # <<>> /\ sampled.loaded = 0 /\ ~sampled.drawn
        /\ Tail(sampled.rest) \in Seq(Transaction)
    BY <1>2, <1>5 DEF SampleSkip
  <2>1. /\ sampled' \in Counts /\ sampled'.printed = sampled.printed
        /\ sampled'.inInterval = sampled.inInterval /\ sampled'.loaded = sampled.loaded
        /\ sampled'.drawn = sampled.drawn
    BY <1>1, <1>2, <1>5, <2>0 DEF SampleSkip
  <2>2. SampledSums'
    BY ONLY <1>1, <1>2, <2>0, <2>1 DEF SampledSums
  <2> QED
    BY <2>1, <2>2 DEF SampledInv
<1>6. ASSUME NEW h \in Seq(Transaction), SampleStart(h) PROVE SampledInv'
  <2>0. sampled.rest = <<>>
    BY <1>6 DEF SampleStart
  <2>1. /\ sampled' \in Counts /\ sampled'.printed = sampled.printed
        /\ sampled'.inInterval = sampled.inInterval /\ sampled'.loaded = sampled.loaded
        /\ sampled'.drawn = sampled.drawn
    BY <1>1, <1>2, <1>6 DEF SampleStart
  <2>2. SampledSums'
    BY ONLY <1>1, <1>2, <2>0, <2>1 DEF SampledSums
  <2> QED
    BY <2>1, <2>2 DEF SampledInv
<1>7. CASE SampleStore
  <2>1. /\ sampled.loaded > 0
        /\ sampled' = [sampled EXCEPT !.printed = sampled.loaded - 1, !.loaded = 0,
                                      !.drawn = TRUE]
    BY <1>7 DEF SampleStore
  <2>2. sampled.loaded - 1 \in Nat
    BY <1>2, <2>1
  <2>3. /\ sampled' \in Counts /\ sampled'.printed = sampled.loaded - 1
        /\ sampled'.inInterval = sampled.inInterval /\ sampled'.loaded = 0
        /\ sampled'.rest = sampled.rest /\ sampled'.drawn
    BY <1>1, <2>1, <2>2
  <2>4. SampledSums'
    BY ONLY <1>1, <1>2, <2>1, <2>2, <2>3 DEF SampledSums
  <2> QED
    BY <2>3, <2>4 DEF SampledInv
<1>8. ASSUME NEW ok \in BOOLEAN, SamplePrint(ok) PROVE SampledInv'
  <2>1. /\ sampled.drawn
        /\ sampled' = [sampled EXCEPT !.drawn = FALSE, !.inInterval = @ + 1,
                                      !.rest = IF ok THEN Tail(@) ELSE <<>>]
    BY <1>8 DEF SamplePrint
  <2>2. (IF ok THEN Tail(sampled.rest) ELSE <<>>) \in Seq(Transaction)
    <3>1. sampled.rest # <<>>
      BY ONLY <1>1, <1>2, <2>1 DEF SampledSums
    <3> QED
      BY <1>2, <3>1
  <2>3. sampled.loaded = 0 /\ sampled.inInterval + 1 \in Nat
    BY <1>1, <1>2, <2>1 DEF SampledSums
  <2>4. /\ sampled' \in Counts /\ sampled'.printed = sampled.printed
        /\ sampled'.inInterval = sampled.inInterval + 1 /\ sampled'.loaded = 0
        /\ ~sampled'.drawn
    BY <1>1, <2>1, <2>2, <2>3
  <2>5. SampledSums'
    BY ONLY <1>1, <1>2, <2>1, <2>3, <2>4 DEF SampledSums
  <2> QED
    BY <2>4, <2>5 DEF SampledInv
<1> QED
  BY <1>3, <1>4, <1>5, <1>6, <1>7, <1>8

\* Every step of the exporter, the processors and the tickers.
LEMMA IntervalStep ==
  ASSUME Typed, HarNext \/ UNCHANGED harVars, IntervalInv
  PROVE  IntervalInv'
<1> DEFINE given == Given("cw-sites-stats")
<1>1. /\ given \in Seq(Transaction) /\ Len(given) \in Nat /\ har \in Seq(Transaction)
      /\ transactions \in Seq(Transaction)
  BY TypedFacts, GivenType
<1>2. PeriodicInv /\ AggregatedInv /\ SampledInv
  BY DEF IntervalInv
<1>3. CASE ~HarProcess
  <2>1. given' = given
    BY <1>3, OnlyCallsGive
  <2>2. \/ UNCHANGED periodic
        \/ PutTransactions \/ PutSize \/ PeriodicReset
    BY <1>3 DEF HarNext, harVars, procVars, statVars, HarStop, HarAggregateStep, HarExportStep,
                HarTakeStop, HarTick, S3Timer, SitesTimer, SizesTimer, PeriodicTimer,
                SampleTimer, AggregatedTimer, Clock
  <2>3. PeriodicInv'
    <3>1. CASE UNCHANGED periodic
      BY <1>2, <2>1, <3>1 DEF PeriodicInv, PeriodicSums
    <3>2. CASE PutTransactions \/ PutSize \/ PeriodicReset
      BY <1>1, <1>2, <2>1, <3>2, PeriodicTicks
    <3> QED
      BY <2>2, <3>1, <3>2
  <2>4. UNCHANGED sampled \/ SampleTick
    BY <1>3 DEF HarNext, harVars, procVars, statVars, HarStop, HarAggregateStep, HarExportStep,
                HarTakeStop, HarTick, S3Timer, SitesTimer, SizesTimer, PeriodicTimer,
                SampleTimer, AggregatedTimer, Clock
  <2>5. SampledInv'
    <3>1. CASE UNCHANGED sampled
      BY <1>2, <3>1 DEF SampledInv, SampledSums
    <3>2. CASE SampleTick
      BY <1>2, <3>2, SampledSteps
    <3> QED
      BY <2>4, <3>1, <3>2
  <2>6. \/ UNCHANGED aggregated \/ publishToCloudWatch \/ printAggregated
        \/ \E n \in Nat : Warn(n)
    <3>1. CASE HarTick
      <4>1. Among(transactions, setting.badQueries) \in Seq(Transaction)
        BY <1>1, AmongType
      <4>2. Len(Among(transactions, setting.badQueries)) \in Nat
        BY <4>1, LenProperties
      <4> QED
        BY <3>1, <4>2 DEF HarTick
    <3>2. CASE ~HarTick
      BY <1>3, <3>2
         DEF HarNext, harVars, procVars, statVars, HarStop, HarAggregateStep, HarExportStep,
             HarTakeStop, S3Timer, SitesTimer, SizesTimer, PeriodicTimer,
             SampleTimer, AggregatedTimer, Clock
    <3> QED
      BY <3>1, <3>2
  <2>7. AggregatedInv'
    <3>1. CASE UNCHANGED aggregated
      BY <1>2, <3>1 DEF AggregatedInv, WarningsPublishedOnce
    <3> QED
      BY <1>2, <2>6, <3>1, AggregatedSteps
  <2> QED
    BY <2>3, <2>5, <2>7 DEF IntervalInv
<1>4. CASE HarProcess
  <2>1. UNCHANGED aggregated
    BY <1>4 DEF HarProcess, FileProcess, S3Process, SitesProcess, SizesProcess,
                PeriodicCall, SampleProcess, statVars
  <2>2. AggregatedInv'
    BY <1>2, <2>1 DEF AggregatedInv, WarningsPublishedOnce
  <2>3. \/ UNCHANGED sampled \/ SampleSkip \/ SampleLoad
        \/ \E h \in Seq(Transaction) : SampleStart(h)
        \/ SampleStore \/ \E ok \in BOOLEAN : SamplePrint(ok)
    BY <1>1, <1>4 DEF HarProcess, FileProcess, S3Process, SitesProcess, SizesProcess,
                PeriodicCall, SampleProcess, statVars
  <2>4. SampledInv'
    <3>1. CASE UNCHANGED sampled
      BY <1>2, <3>1 DEF SampledInv, SampledSums
    <3> QED
      BY <1>2, <2>3, <3>1, SampledSteps
  <2>5. PeriodicInv'
    <3>1. CASE PeriodicCall
      <4>1. Calling("cw-sites-stats") /\ PeriodicProcess(har) /\ Call(TRUE)
        BY <3>1 DEF PeriodicCall
      <4>2. given' = given \o har
        BY <4>1, GivenCall
      <4>3. Len(given') = Len(given) + Len(har) /\ Len(har) \in Nat
        BY <1>1, <4>2, LenProperties, ConcatProperties
      <4> QED
        BY <1>1, <1>2, <4>1, <4>3, PeriodicCounts
    <3>2. CASE ~PeriodicCall
      <4>1. /\ UNCHANGED periodic /\ ~Calling("cw-sites-stats")
            /\ UNCHANGED vars \/ \E ok \in BOOLEAN : Call(ok)
        BY <1>4, <3>2
           DEF HarProcess, FileProcess, S3Process, SitesProcess, SizesProcess,
               SampleProcess, statVars, Calling
      <4>2. given' = given
        <5>1. CASE UNCHANGED vars
          BY <5>1, GivenStays DEF vars, exportVars
        <5>2. CASE \E ok \in BOOLEAN : Call(ok)
          BY <4>1, <5>2, GivenCall
        <5> QED
          BY <4>1, <5>1, <5>2
      <4> QED
        BY <1>2, <4>1, <4>2 DEF PeriodicInv, PeriodicSums
    <3> QED
      BY <3>1, <3>2
  <2> QED
    BY <2>2, <2>4, <2>5 DEF IntervalInv
<1> QED
  BY <1>3, <1>4

\* IntervalInv always holds.
LEMMA IntervalInvHolds == HarSpec => []IntervalInv
<1>1. HarInit => IntervalInv
  BY IntervalInit
<1>2. ExporterInv /\ IntervalInv /\ [HarNext]_harVars => IntervalInv'
  BY IntervalStep DEF ExporterInv
<1> QED
  BY <1>1, <1>2, ExporterInvHolds, PTL DEF HarSpec

\* PeriodicSiteStats puts every transaction it is given into one call for each
\* metric, and the aggregated log every warning into one, whether or not these
\* calls succeed, but for what came between reading a total and resetting it;
\* and an interval has no more samples than its rate and the one drawn before
\* it, although the ticker and the loop of Process write the counter at the same
\* time and without a mutex.
THEOREM CountedOnceInAnInterval == HarSpec => []IntervalsHold
<1>1. IntervalInv => IntervalsHold
  <2> SUFFICES ASSUME IntervalInv PROVE IntervalsHold
    OBVIOUS
  <2>1. PublishedOnce(Len(Given("cw-sites-stats")))
    BY DEF IntervalInv, PeriodicInv, PeriodicSums, PublishedOnce
  <2>2. WarningsPublishedOnce
    BY DEF IntervalInv, AggregatedInv
  <2>3. SampledWithinRate
    <3>1. /\ sampled.inInterval \in Nat /\ sampled.printed \in Nat /\ SampleRate \in Nat
          /\ \/ sampled.inInterval + sampled.printed <= SampleRate
             \/ sampled.inInterval + sampled.printed <= SampleRate + 1
      BY StatisticsAssumption DEF IntervalInv, SampledInv, SampledSums
    <3> QED
      BY <3>1 DEF SampledWithinRate
  <2> QED
    BY <2>1, <2>2, <2>3 DEF IntervalsHold
<1> QED
  BY <1>1, IntervalInvHolds, PTL

(***************************************************************************)
(* The sums of the S3 client.                                              *)
(***************************************************************************)

\* There are finitely many keys.
LEMMA KeysFinite == IsFiniteSet(Keys)
<1>1. [t \in Transaction |-> AppId[t]] \in Surjection(Transaction, Apps)
  BY DEF Apps, Surjection
<1>2. IsFiniteSet(Transaction)
  BY ExporterAssumption, FS_Interval DEF Transaction
<1>3. IsFiniteSet(Apps)
  BY <1>1, <1>2, FS_Surjection
<1> QED
  BY <1>3, FS_AddElement, HarAssumption

\* The number of entries held.
LEMMA EntriesIsSum ==
  ASSUME NEW data
  PROVE  getNumOfEntries(data) = SumOver([k \in Keys |-> Len(data[k])], Keys)
<1> DEFINE v == [k \in Keys |-> Len(data[k])]
           Q(g) == g = [T \in SUBSET Keys |->
                          IF T = {} THEN 0
                          ELSE LET x == CHOOSE x \in T : TRUE IN Len(data[x]) + g[T \ {x}]]
           s == CHOOSE g : Q(g)
<1>1. \A g : Q(g) <=> SumsOver(SUBSET Keys, v, g)
  <2> TAKE g
  <2>1. \A T \in SUBSET Keys : T # {} => Chosen(T) \in Keys
    BY DEF Chosen
  <2>2. [T \in SUBSET Keys |->
           IF T = {} THEN 0
           ELSE LET x == CHOOSE x \in T : TRUE IN Len(data[x]) + g[T \ {x}]]
        = [T \in SUBSET Keys |->
             IF T = {} THEN 0 ELSE v[Chosen(T)] + g[T \ {Chosen(T)}]]
    BY <2>1 DEF Chosen
  <2> QED
    BY <2>2 DEF SumsOver
<1>2. getNumOfEntries(data) = s[Keys]
  BY DEF getNumOfEntries, MapThenSumSet, MapThenFoldSet
<1> HIDE DEF v, Q
<1>3. Q(s)
  BY <1>1, KeysFinite, SumsExist
<1> HIDE DEF s
<1>4. s[Keys] = SumOver(v, Keys)
  BY <1>1, <1>3, KeysFinite, SumIsLast
<1> QED
  BY <1>2, <1>4 DEF v

\* The copies of an entry among the entries held, or in an object.
LEMMA CopiesIsSum ==
  ASSUME NEW e, NEW data
  PROVE  Copies(e, data) = SumOver([k \in Keys |-> Count(data[k], e)], Keys)
<1> DEFINE v == [k \in Keys |-> Count(data[k], e)]
           Q(g) == g = [T \in SUBSET Keys |->
                          IF T = {} THEN 0
                          ELSE LET x == CHOOSE x \in T : TRUE
                               IN Len(Among(data[x], {e})) + g[T \ {x}]]
           s == CHOOSE g : Q(g)
<1>1. \A g : Q(g) <=> SumsOver(SUBSET Keys, v, g)
  <2> TAKE g
  <2>1. \A T \in SUBSET Keys : T # {} => Chosen(T) \in Keys
    BY DEF Chosen
  <2>2. [T \in SUBSET Keys |->
           IF T = {} THEN 0
           ELSE LET x == CHOOSE x \in T : TRUE
                IN Len(Among(data[x], {e})) + g[T \ {x}]]
        = [T \in SUBSET Keys |->
             IF T = {} THEN 0 ELSE v[Chosen(T)] + g[T \ {Chosen(T)}]]
    BY <2>1 DEF Chosen, Count
  <2> QED
    BY <2>2 DEF SumsOver
<1>2. Copies(e, data) = s[Keys]
  BY DEF Copies, MapThenSumSet, MapThenFoldSet
<1> HIDE DEF v, Q
<1>3. Q(s)
  BY <1>1, KeysFinite, SumsExist
<1> HIDE DEF s
<1>4. s[Keys] = SumOver(v, Keys)
  BY <1>1, <1>3, KeysFinite, SumIsLast
<1> QED
  BY <1>2, <1>4 DEF v

\* The objects that the code knows to be stored.
KnownOf(b) == {i \in DOMAIN b : b[i].answered}

\* The copies of an entry in those objects of a bucket.
CopiesInObjects(e, b) == MapThenSumSet(LAMBDA i : Copies(e, b[i].data), KnownOf(b))

\* S3Client's count of the copies stored is that of its bucket.
LEMMA CopiesStoredIn ==
  ASSUME NEW e
  PROVE  CopiesStored(e) = CopiesInObjects(e, bucket) /\ CopiesStored(e)' = CopiesInObjects(e, bucket')
BY DEF CopiesStored, CopiesInObjects, KnownOf, MapThenSumSet, MapThenFoldSet, Copies

\* It is a sum, too.
LEMMA CopiesInObjectsSum ==
  ASSUME NEW e, NEW b, IsFiniteSet(KnownOf(b))
  PROVE  CopiesInObjects(e, b) = SumOver([i \in KnownOf(b) |-> Copies(e, b[i].data)], KnownOf(b))
<1> DEFINE D == KnownOf(b)
           v == [i \in D |-> Copies(e, b[i].data)]
           Q(g) == g = [T \in SUBSET D |->
                          IF T = {} THEN 0
                          ELSE LET x == CHOOSE x \in T : TRUE
                               IN Copies(e, b[x].data) + g[T \ {x}]]
           s == CHOOSE g : Q(g)
<1>1. \A g : Q(g) <=> SumsOver(SUBSET D, v, g)
  <2> TAKE g
  <2>1. \A T \in SUBSET D : T # {} => Chosen(T) \in D
    BY DEF Chosen
  <2> HIDE DEF D
  <2>2. [T \in SUBSET D |->
           IF T = {} THEN 0
           ELSE LET x == CHOOSE x \in T : TRUE
                IN Copies(e, b[x].data) + g[T \ {x}]]
        = [T \in SUBSET D |->
             IF T = {} THEN 0 ELSE v[Chosen(T)] + g[T \ {Chosen(T)}]]
    BY <2>1 DEF Chosen
  <2> QED
    BY <2>2 DEF SumsOver
<1>2. CopiesInObjects(e, b) = s[D]
  BY DEF CopiesInObjects, MapThenSumSet, MapThenFoldSet
<1>3. IsFiniteSet(D)
  OBVIOUS
<1> HIDE DEF v, Q, D
<1>4. Q(s)
  BY <1>1, <1>3, SumsExist
<1> HIDE DEF s
<1>5. s[D] = SumOver(v, D)
  BY <1>1, <1>3, <1>4, SumIsLast
<1> QED
  BY <1>2, <1>5 DEF v, D

\* Holders: what is held under each key, and what holding a har does to a count.
Holders == [Keys -> Seq(Transaction)]

\* Nothing is held in the empty holder.
LEMMA EmptyHolderCounts ==
  /\ EmptyHolder \in Holders
  /\ getNumOfEntries(EmptyHolder) = 0
  /\ \A e : Copies(e, EmptyHolder) = 0
<1>1. \A k \in Keys : EmptyHolder[k] = <<>>
  BY DEF EmptyHolder
<1>2. Len(<<>>) = 0 /\ <<>> \in Seq(Transaction)
  OBVIOUS
<1>3. getNumOfEntries(EmptyHolder) = 0
  <2> DEFINE v == [k \in Keys |-> Len(EmptyHolder[k])]
  <2>1. \A k \in Keys : v[k] = 0
    BY <1>1, <1>2
  <2> HIDE DEF v
  <2>2. SumOver(v, Keys) = 0
    BY <2>1, KeysFinite, SumZero
  <2> QED
    BY <2>2, EntriesIsSum DEF v
<1>4. ASSUME NEW e PROVE Copies(e, EmptyHolder) = 0
  <2> DEFINE v == [k \in Keys |-> Count(EmptyHolder[k], e)]
  <2>1. \A k \in Keys : v[k] = 0
    BY <1>1, <1>2, AmongEmpty DEF Count
  <2> HIDE DEF v
  <2>2. SumOver(v, Keys) = 0
    BY <2>1, KeysFinite, SumZero
  <2> QED
    BY <2>2, CopiesIsSum DEF v
<1>5. EmptyHolder \in Holders
  BY <1>2 DEF EmptyHolder, Holders
<1> QED
  BY <1>3, <1>4, <1>5

\* Counts are natural numbers.
LEMMA CountsType ==
  ASSUME NEW data \in Holders
  PROVE  /\ getNumOfEntries(data) \in Nat
         /\ \A e : Copies(e, data) \in Nat
<1>1. \A k \in Keys : data[k] \in Seq(Transaction)
  BY DEF Holders
<1>2. getNumOfEntries(data) \in Nat
  <2> DEFINE v == [k \in Keys |-> Len(data[k])]
  <2>1. \A k \in Keys : v[k] \in Nat
    BY <1>1, LenProperties
  <2> HIDE DEF v
  <2>2. SumOver(v, Keys) \in Nat
    BY <2>1, KeysFinite, SumType
  <2> QED
    BY <2>2, EntriesIsSum DEF v
<1>3. ASSUME NEW e PROVE Copies(e, data) \in Nat
  <2> DEFINE v == [k \in Keys |-> Count(data[k], e)]
  <2>1. \A k \in Keys : v[k] \in Nat
    BY <1>1, CountType
  <2> HIDE DEF v
  <2>2. SumOver(v, Keys) \in Nat
    BY <2>1, KeysFinite, SumType
  <2> QED
    BY <2>2, CopiesIsSum DEF v
<1> QED
  BY <1>2, <1>3

\* A har held under a key adds its copies of an entry.
LEMMA HoldCounts ==
  ASSUME NEW data \in Holders, NEW key \in Keys, NEW h \in Seq(Transaction), NEW e
  PROVE  /\ [data EXCEPT ![key] = @ \o h] \in Holders
         /\ Count(h, e) \in Nat
         /\ Copies(e, [data EXCEPT ![key] = @ \o h]) = Copies(e, data) + Count(h, e)
<1> DEFINE new == [data EXCEPT ![key] = @ \o h]
           v == [k \in Keys |-> Count(data[k], e)]
           w == [k \in Keys |-> Count(new[k], e)]
           d == Count(h, e)
<1>1. /\ \A k \in Keys : data[k] \in Seq(Transaction)
      /\ data[key] \o h \in Seq(Transaction)
  BY ConcatProperties DEF Holders
<1>2. new \in Holders /\ new[key] = data[key] \o h /\ \A k \in Keys \ {key} : new[k] = data[k]
  BY <1>1 DEF Holders
<1>3. d \in Nat
  BY CountType
<1> HIDE DEF new
<1>4. \A k \in Keys : v[k] \in Nat
  BY <1>1, CountType
<1>5. \A k \in Keys \ {key} : w[k] = v[k]
  BY <1>2
<1>6. w[key] = v[key] + d
  <2>0. data[key] \in Seq(Transaction)
    BY <1>1
  <2>1. Count(data[key] \o h, e) = Count(data[key], e) + Count(h, e)
    BY <2>0, CountConcat
  <2> QED
    BY <1>2, <2>1
<1>7. w[key] \in Nat
  BY <1>3, <1>4, <1>6
<1> HIDE DEF v, w, d
<1>8. SumOver(w, Keys) = SumOver(v, Keys) + d
  BY <1>3, <1>4, <1>5, <1>6, <1>7, KeysFinite, SumChanged
<1>9. Copies(e, new) = SumOver(w, Keys) /\ Copies(e, data) = SumOver(v, Keys)
  BY CopiesIsSum DEF v, w
<1> QED
  BY <1>2, <1>3, <1>8, <1>9 DEF new, d

Objects == [data : Holders, answered : BOOLEAN]

\* An object more counts if the code has its answer.
LEMMA StoreCounts ==
  ASSUME NEW b \in Seq(Objects), NEW data \in Holders, NEW answered \in BOOLEAN, NEW e
  PROVE  /\ CopiesInObjects(e, b) \in Nat /\ Copies(e, data) \in Nat
         /\ CopiesInObjects(e, Append(b, [data |-> data, answered |-> answered])) =
              CopiesInObjects(e, b) + IF answered THEN Copies(e, data) ELSE 0
<1> DEFINE n == Len(b)
           o == [data |-> data, answered |-> answered]
           c == Append(b, o)
           D == KnownOf(b)
           E == KnownOf(c)
           v == [i \in D |-> Copies(e, b[i].data)]
           w == [i \in E |-> Copies(e, c[i].data)]
<1>1. o \in Objects /\ o.data = data /\ o.answered = answered
  BY DEF Objects
<1> HIDE DEF o
<1>2. /\ n \in Nat /\ DOMAIN b = 1 .. n /\ DOMAIN c = 1 .. n + 1
      /\ c[n + 1] = o /\ \A i \in 1 .. n : c[i] = b[i] /\ b[i] \in Objects
  <2>1. c \in Seq(Objects) /\ Len(c) = n + 1 /\ Len(c) \in Nat /\ n \in Nat
    BY <1>1, AppendProperties, LenProperties
  <2>2. /\ c[n + 1] = o /\ \A i \in 1 .. n : c[i] = b[i] /\ b[i] \in Objects
    BY <1>1, AppendProperties, ElementOfSeq
  <2> QED
    BY <2>1, <2>2, LenProperties
<1> HIDE DEF n, c
<1>3. D = {i \in 1 .. n : b[i].answered}
  BY <1>2 DEF KnownOf
<1>4. E = IF answered THEN D \union {n + 1} ELSE D
  <2>1. E = {i \in 1 .. n + 1 : c[i].answered}
    BY <1>2 DEF KnownOf
  <2>2. 1 .. n + 1 = (1 .. n) \union {n + 1}
    BY <1>2
  <2>3. \A i \in 1 .. n : c[i].answered = b[i].answered
    BY <1>2
  <2>4. c[n + 1].answered = answered
    BY <1>1, <1>2
  <2> HIDE DEF E, D
  <2> QED
    BY <1>3, <2>1, <2>2, <2>3, <2>4
<1>5. IsFiniteSet(D) /\ n + 1 \notin D
  <2>1. IsFiniteSet(1 .. n)
    BY <1>2, FS_Interval
  <2>2. D \in SUBSET (1 .. n)
    BY <1>3
  <2> QED
    BY <1>2, <1>3, <2>1, <2>2, FS_Subset
<1>6. IsFiniteSet(E)
  BY <1>4, <1>5, FS_AddElement
<1>7. CopiesInObjects(e, b) = SumOver(v, D)
  BY <1>5, CopiesInObjectsSum
<1>8. CopiesInObjects(e, c) = SumOver(w, E)
  BY <1>6, CopiesInObjectsSum
<1>9. Copies(e, data) \in Nat
  BY CountsType
<1>10. \A i \in D : v[i] \in Nat /\ w[i] = v[i]
  <2> TAKE i \in D
  <2>1. i \in 1 .. n /\ i \in E
    BY <1>3, <1>4
  <2>2. b[i].data \in Holders /\ c[i] = b[i]
    BY <1>2, <2>1 DEF Objects
  <2>3. Copies(e, b[i].data) \in Nat
    BY <2>2, CountsType
  <2> HIDE DEF D, E
  <2> QED
    BY <2>1, <2>2, <2>3
<1>11. answered => w[n + 1] = Copies(e, data)
  BY <1>1, <1>2, <1>4
<1> HIDE DEF D, E, v, w
<1>12. SumOver(v, D) \in Nat
  BY <1>5, <1>10, SumType
<1>13. SumOver(w, D) = SumOver(v, D)
  BY <1>5, <1>10, SumSame
<1>14. CASE answered
  <2>1. E = D \union {n + 1} /\ \A i \in D \union {n + 1} : w[i] \in Nat
    BY <1>4, <1>9, <1>10, <1>11, <1>14
  <2>2. SumOver(w, D \union {n + 1}) = SumOver(w, D) + w[n + 1]
    BY <1>5, <2>1, SumMore
  <2> QED
    BY <1>7, <1>8, <1>9, <1>11, <1>12, <1>13, <1>14, <2>1, <2>2 DEF c, o
<1>15. CASE ~answered
  <2>1. E = D
    BY <1>4, <1>15
  <2> QED
    BY <1>7, <1>8, <1>9, <1>12, <1>13, <1>15, <2>1 DEF c, o
<1> QED
  BY <1>14, <1>15

\* Nothing is in an empty bucket.
LEMMA EmptyBucketCounts ==
  ASSUME NEW e
  PROVE  CopiesInObjects(e, <<>>) = 0
<1>1. KnownOf(<<>>) = {}
  BY DEF KnownOf
<1>2. IsFiniteSet({})
  BY FS_EmptySet
<1> QED
  BY <1>1, <1>2, CopiesInObjectsSum, SumEmpty

(***************************************************************************)
(* A call of Process by parts.  UnderWay says which processors have parts, *)
(* that an upload for size is that of such a call, and that a mutex held   *)
(* is that of such a call or of a print by parts.                          *)
(***************************************************************************)
Divided == {"s3", "sites-stats", "transactions-sizes", "sampled-transactions"}

SitesRecord ==
  sites = [total |-> sites.total, hosts |-> sites.hosts, locked |-> sites.locked,
           file |-> sites.file]

SizesRecord ==
  sizes = [requests |-> sizes.requests, responses |-> sizes.responses,
           locked |-> sizes.locked, printing |-> sizes.printing,
           requestsFile |-> sizes.requestsFile, responsesFile |-> sizes.responsesFile,
           failed |-> sizes.failed]

Counting == inside /\ Calling("transactions-sizes")

SizesMutex ==
  /\ SizesRecord
  /\ sizes.locked \in BOOLEAN /\ sizes.printing \in BOOLEAN /\ sizes.failed \in BOOLEAN
  /\ sizes.locked <=> sizes.printing \/ Counting
  /\ ~(sizes.printing /\ Counting)

UnderWay ==
  /\ SitesRecord /\ SizesMutex
  /\ inside \in BOOLEAN
  /\ inside => \E kind \in Divided : Calling(kind)
  /\ uploading = "Size" => inside /\ Calling("s3")
  /\ sites.locked \in BOOLEAN
  /\ sites.locked <=> inside /\ Calling("sites-stats")

\* One processor is called at a time.
LEMMA OneCalled ==
  ASSUME NEW kind, Calling(kind)
  PROVE  /\ \A other : Calling(other) => other = kind
         /\ proc # 0
BY DEF Calling

\* As long as a processor is called, only its calls move the exporter's side of it.
LEMMA CallingStays ==
  ASSUME Typed, HarNext \/ UNCHANGED harVars, ~HarProcess
  PROVE  /\ inside' = inside /\ setting' = setting
         /\ proc # 0 => UNCHANGED <<har, proc, toExport, emptied, delivered>>
         /\ proc # 0 => \A kind : Calling(kind)' <=> Calling(kind)
<1>1. /\ pc \in [Goroutine -> {"loop", "select", "append", "dump", "done"}]
      /\ proc # 0 => pc["export"] = "dump"
      /\ "aggregate" \in Goroutine /\ "export" \in Goroutine
  BY TypedFacts DEF Typed, Shape, Goroutine
<1>2. inside' = inside /\ setting' = setting
  <2>1. CASE UNCHANGED harVars
    BY <2>1 DEF harVars, vars, procVars
  <2>2. CASE (Queue /\ UNCHANGED procVars) \/ HarStop \/ HarAggregateStep
    BY <2>2 DEF Queue, HarStop, HarAggregateStep, AggregateStep, StopSend, StopReturn,
                LoopCheck, TakeStop, Receive, AppendTransaction, procVars
  <2>3. CASE HarExportStep
    BY <2>3 DEF HarExportStep, HarTakeStop, HarTick, LoopCheck, TakeStop, Tick, NextHar,
                DumpDone, procVars
  <2>4. CASE \/ S3Timer \/ SitesTimer \/ SizesTimer \/ PeriodicTimer \/ SampleTimer
             \/ AggregatedTimer \/ Clock
    BY <2>4 DEF S3Timer, SitesTimer, SizesTimer, PeriodicTimer, SampleTimer,
                AggregatedTimer, Clock, vars
  <2> QED
    BY <2>1, <2>2, <2>3, <2>4 DEF HarNext
<1>3. ASSUME proc # 0
      PROVE  UNCHANGED <<har, proc, toExport, emptied, delivered>> /\ pc'["export"] = pc["export"]
  <2>0. pc["export"] = "dump"
    BY <1>1, <1>3
  <2>1. CASE UNCHANGED harVars
    BY <2>1 DEF harVars, vars, exportVars
  <2>2. CASE Queue \/ HarStop
    BY <2>2 DEF Queue, HarStop, StopSend, StopReturn, exportVars
  <2>3. CASE HarAggregateStep
    <3>1. UNCHANGED exportVars /\ \E w : pc' = [pc EXCEPT !["aggregate"] = w]
      BY <2>3 DEF HarAggregateStep, AggregateStep, LoopCheck, TakeStop, Receive,
                  AppendTransaction
    <3> QED
      BY <1>1, <3>1 DEF exportVars
  <2>4. CASE HarExportStep
    BY <1>3, <2>0, <2>4 DEF HarExportStep, HarTakeStop, HarTick, LoopCheck, TakeStop, Tick,
                NextHar, DumpDone
  <2>5. CASE \/ S3Timer \/ SitesTimer \/ SizesTimer \/ PeriodicTimer \/ SampleTimer
             \/ AggregatedTimer \/ Clock
    BY <2>5 DEF S3Timer, SitesTimer, SizesTimer, PeriodicTimer, SampleTimer,
                AggregatedTimer, Clock, vars, exportVars
  <2> QED
    BY <2>1, <2>2, <2>3, <2>4, <2>5 DEF HarNext
<1>4. ASSUME proc # 0, NEW kind PROVE Calling(kind)' <=> Calling(kind)
  BY <1>2, <1>3, <1>4 DEF Calling, Processors
<1> QED
  BY <1>2, <1>3, <1>4

\* What a step may do to S3Client, to the mutexes and to the files when no
\* processor is called: the tickers, an upload that ends, the clock.
LEMMA OtherParts ==
  ASSUME HarNext \/ UNCHANGED harVars, ~HarProcess
  PROVE  /\ UNCHANGED s3Vars \/ PurgeTick \/ UploadEnds
         /\ UNCHANGED sites \/ SitesPrint
         /\ UNCHANGED sizes \/ PrintRequests \/ PrintResponses
         /\ files' = files
         /\ second' = second \/ Clock
<1>1. CASE UNCHANGED harVars
  BY <1>1 DEF harVars, procVars, statVars
<1>2. CASE (Queue /\ UNCHANGED procVars) \/ HarStop \/ HarAggregateStep
  BY <1>2 DEF HarStop, HarAggregateStep, procVars, statVars
<1>3. CASE HarExportStep
  BY <1>3 DEF HarExportStep, HarTakeStop, HarTick, procVars, statVars
<1>4. CASE S3Timer \/ SitesTimer \/ SizesTimer \/ PeriodicTimer
  BY <1>4 DEF S3Timer, SitesTimer, SizesTimer, PeriodicTimer, statVars
<1>5. CASE SampleTimer \/ AggregatedTimer \/ Clock
  BY <1>5 DEF SampleTimer, AggregatedTimer, Clock, statVars
<1> QED
  BY <1>1, <1>2, <1>3, <1>4, <1>5 DEF HarNext

\* The hosts, with a har counted for one.
HostsWith(hosts, key, h) ==
  [k \in DOMAIN hosts \union {key} |->
     IF k = key THEN Add(IF k \in DOMAIN hosts THEN hosts[k] ELSE Nothing, h) ELSE hosts[k]]

\* The steps of SitesStats, by fields.
LEMMA SitesSteps ==
  ASSUME SitesRecord
  PROVE  /\ UNCHANGED sites => SitesRecord' /\ sites'.locked = sites.locked
         /\ SitesPrint =>
              /\ SitesRecord' /\ ~sites.locked /\ sites'.locked = sites.locked
              /\ sites'.total = sites.total /\ sites'.hosts = sites.hosts
              /\ sites'.file \in {sites.file, NoFile,
                                  {[total |-> sites.total, hosts |-> sites.hosts]}}
         /\ \A h : SitesTotal(h) =>
              /\ SitesRecord' /\ ~sites.locked /\ sites'.locked = TRUE
              /\ sites'.total = Add(sites.total, h) /\ sites'.hosts = sites.hosts
              /\ sites'.file = sites.file
         /\ \A key, h, split : SitesHost(key, h, split) =>
              /\ SitesRecord' /\ sites.locked /\ sites'.locked = FALSE
              /\ sites'.total = sites.total /\ sites'.file = sites.file
              /\ sites'.hosts = IF split THEN HostsWith(sites.hosts, key, h) ELSE sites.hosts
<1>1. UNCHANGED sites => SitesRecord' /\ sites'.locked = sites.locked
  BY DEF SitesRecord
<1>2. ASSUME SitesPrint
      PROVE  /\ SitesRecord' /\ ~sites.locked /\ sites'.locked = sites.locked
             /\ sites'.total = sites.total /\ sites'.hosts = sites.hosts
             /\ sites'.file \in {sites.file, NoFile,
                                 {[total |-> sites.total, hosts |-> sites.hosts]}}
  BY <1>2 DEF SitesPrint, SaveToFile, SitesRecord
<1>3. ASSUME NEW h, SitesTotal(h)
      PROVE  /\ SitesRecord' /\ ~sites.locked /\ sites'.locked = TRUE
             /\ sites'.total = Add(sites.total, h) /\ sites'.hosts = sites.hosts
             /\ sites'.file = sites.file
  BY <1>3 DEF SitesTotal, SitesRecord
<1>4. ASSUME NEW key, NEW h, NEW split, SitesHost(key, h, split)
      PROVE  /\ SitesRecord' /\ sites.locked /\ sites'.locked = FALSE
             /\ sites'.total = sites.total /\ sites'.file = sites.file
             /\ sites'.hosts = IF split THEN HostsWith(sites.hosts, key, h) ELSE sites.hosts
  BY <1>4 DEF SitesHost, SitesRecord, HostsWith, HostStats
<1> QED
  BY <1>1, <1>2, <1>3, <1>4

\* The steps of TransactionsSizes, by fields.
LEMMA SizesSteps ==
  ASSUME SizesRecord, sizes.failed \in BOOLEAN
  PROVE  /\ UNCHANGED sizes => SizesRecord'
         /\ PrintRequests =>
              /\ SizesRecord' /\ ~sizes.locked /\ sizes'.locked = TRUE /\ sizes'.printing = TRUE
              /\ sizes'.requests = sizes.requests /\ sizes'.responses = sizes.responses
              /\ sizes'.failed \in BOOLEAN
              /\ ~sizes'.failed => sizes'.requestsFile = {sizes.requests}
         /\ PrintResponses =>
              /\ SizesRecord' /\ sizes.printing /\ sizes'.locked = FALSE /\ sizes'.printing = FALSE
              /\ sizes'.requests = sizes.requests /\ sizes'.responses = sizes.responses
              /\ sizes'.failed \in BOOLEAN /\ sizes'.requestsFile = sizes.requestsFile
              /\ ~sizes'.failed => ~sizes.failed /\ sizes'.responsesFile = {sizes.responses}
         /\ \A h : SizesRequests(h) =>
              /\ SizesRecord' /\ ~sizes.locked
              /\ sizes' = [sizes EXCEPT !.requests = @ + Len(h), !.locked = TRUE]
         /\ \A h : SizesResponses(h) =>
              /\ SizesRecord' /\ sizes.locked
              /\ sizes' = [sizes EXCEPT !.responses = @ + Len(h) - Len(UnansweredIn(h)),
                                        !.locked = FALSE]
<1>1. UNCHANGED sizes => SizesRecord'
  BY DEF SizesRecord
<1>2. ASSUME PrintRequests
      PROVE  /\ SizesRecord' /\ ~sizes.locked /\ sizes'.locked = TRUE /\ sizes'.printing = TRUE
             /\ sizes'.requests = sizes.requests /\ sizes'.responses = sizes.responses
             /\ sizes'.failed \in BOOLEAN
             /\ ~sizes'.failed => sizes'.requestsFile = {sizes.requests}
  <2>1. PICK ok \in BOOLEAN : \E file \in SaveToFile(ok, sizes.requestsFile, sizes.requests) :
          sizes' = [sizes EXCEPT !.requestsFile = file, !.failed = ~ok,
                                 !.locked = TRUE, !.printing = TRUE]
    BY <1>2 DEF PrintRequests
  <2>2. PICK file \in SaveToFile(ok, sizes.requestsFile, sizes.requests) :
          sizes' = [sizes EXCEPT !.requestsFile = file, !.failed = ~ok,
                                 !.locked = TRUE, !.printing = TRUE]
    BY <2>1
  <2>3. ok => file = {sizes.requests}
    BY <2>2 DEF SaveToFile
  <2> QED
    BY <1>2, <2>2, <2>3 DEF PrintRequests, SizesRecord
<1>3. ASSUME PrintResponses
      PROVE  /\ SizesRecord' /\ sizes.printing
             /\ sizes'.locked = FALSE /\ sizes'.printing = FALSE
             /\ sizes'.requests = sizes.requests /\ sizes'.responses = sizes.responses
             /\ sizes'.failed \in BOOLEAN /\ sizes'.requestsFile = sizes.requestsFile
             /\ ~sizes'.failed => ~sizes.failed /\ sizes'.responsesFile = {sizes.responses}
  <2>1. PICK ok \in BOOLEAN : \E file \in SaveToFile(ok, sizes.responsesFile, sizes.responses) :
          sizes' = [sizes EXCEPT !.responsesFile = file, !.failed = @ \/ ~ok,
                                 !.locked = FALSE, !.printing = FALSE]
    BY <1>3 DEF PrintResponses
  <2>2. PICK file \in SaveToFile(ok, sizes.responsesFile, sizes.responses) :
          sizes' = [sizes EXCEPT !.responsesFile = file, !.failed = @ \/ ~ok,
                                 !.locked = FALSE, !.printing = FALSE]
    BY <2>1
  <2>3. ok => file = {sizes.responses}
    BY <2>2 DEF SaveToFile
  <2>4. sizes.printing
    BY <1>3 DEF PrintResponses
  <2> QED
    BY <2>2, <2>3, <2>4 DEF SizesRecord
<1>4. ASSUME NEW h, SizesRequests(h)
      PROVE  /\ SizesRecord' /\ ~sizes.locked
             /\ sizes' = [sizes EXCEPT !.requests = @ + Len(h), !.locked = TRUE]
  BY <1>4 DEF SizesRequests, SizesRecord
<1>5. ASSUME NEW h, SizesResponses(h)
      PROVE  /\ SizesRecord' /\ sizes.locked
             /\ sizes' = [sizes EXCEPT !.responses = @ + Len(h) - Len(UnansweredIn(h)),
                                       !.locked = FALSE]
  BY <1>5 DEF SizesResponses, SizesRecord
<1> QED
  BY <1>1, <1>2, <1>3, <1>4, <1>5

\* UnderWay is preserved when no processor is called.
LEMMA UnderWayStays ==
  ASSUME Typed, HarNext \/ UNCHANGED harVars, ~HarProcess, UnderWay
  PROVE  UnderWay'
<1>1. inside' = inside /\ (inside => proc # 0)
  BY CallingStays, OneCalled DEF UnderWay
<1>2. inside => \A kind : Calling(kind)' <=> Calling(kind)
  BY <1>1, CallingStays
<1>3. inside' => \E kind \in Divided : Calling(kind)'
  BY <1>1, <1>2 DEF UnderWay
<1>4. uploading' = "Size" => inside' /\ Calling("s3")'
  <2>1. uploading' = "Size" => uploading = "Size"
    BY OtherParts DEF s3Vars, PurgeTick, UploadEnds, Uploaded, UploadFails, doExport
  <2> QED
    BY <1>1, <1>2, <2>1 DEF UnderWay
<1>5. SitesRecord' /\ sites'.locked = sites.locked
  <2>1. UNCHANGED sites \/ SitesPrint
    BY OtherParts
  <2>2. SitesRecord
    BY DEF UnderWay
  <2> QED
    BY <2>1, <2>2, SitesSteps
<1>6. SizesMutex'
  <2>1. UNCHANGED sizes \/ PrintRequests \/ PrintResponses
    BY OtherParts
  <2>2. SizesMutex /\ SizesRecord /\ sizes.failed \in BOOLEAN
    BY DEF UnderWay, SizesMutex
  <2>3. Counting' <=> Counting
    BY <1>1, <1>2 DEF Counting
  <2>4. CASE UNCHANGED sizes
    BY <2>2, <2>3, <2>4, SizesSteps DEF SizesMutex
  <2>5. CASE PrintRequests
    BY <2>2, <2>3, <2>5, SizesSteps DEF SizesMutex
  <2>6. CASE PrintResponses
    BY <2>2, <2>3, <2>6, SizesSteps DEF SizesMutex
  <2> QED
    BY <2>1, <2>4, <2>5, <2>6
<1>7. sites'.locked \in BOOLEAN
  BY <1>5 DEF UnderWay
<1>8. (sites'.locked <=> inside' /\ Calling("sites-stats")')
  BY <1>1, <1>2, <1>5 DEF UnderWay
<1> QED
  BY <1>1, <1>3, <1>4, <1>5, <1>6, <1>7, <1>8 DEF UnderWay

\* UnderWay is preserved by the calls of Process and their parts.
LEMMA UnderWayCalls ==
  ASSUME Typed, HarProcess, UnderWay
  PROVE  UnderWay'
<1>0. /\ SitesRecord /\ SizesRecord /\ SizesMutex /\ inside \in BOOLEAN
      /\ sites.locked \in BOOLEAN /\ sizes.failed \in BOOLEAN
  BY DEF UnderWay, SizesMutex
<1>1. ASSUME NEW kind, Calling(kind), kind \notin Divided
      PROVE  /\ ~inside /\ uploading # "Size" /\ ~sites.locked
  BY <1>1, OneCalled DEF UnderWay, Divided
<1>2. ASSUME ~inside PROVE uploading # "Size" /\ ~sites.locked
  BY <1>2 DEF UnderWay
<1>3. ASSUME inside' = FALSE, uploading' # "Size", SitesRecord', SizesMutex',
             sites'.locked = FALSE
      PROVE  UnderWay'
  BY <1>3 DEF UnderWay
<1>4. ASSUME UNCHANGED sites PROVE SitesRecord' /\ sites'.locked = sites.locked
  BY <1>0, <1>4, SitesSteps
<1>5. ASSUME UNCHANGED sizes, ~Counting, ~Counting' PROVE SizesMutex'
  BY <1>0, <1>5, SizesSteps DEF SizesMutex
<1>6. ASSUME UNCHANGED vars PROVE \A kind : Calling(kind)' <=> Calling(kind)
  BY <1>6 DEF vars, exportVars, Calling, Processors
<1>7. CASE FileProcess \/ PeriodicCall
  <2>1. \E kind : Calling(kind) /\ kind \notin Divided
    <3>1. Calling("file") \/ Calling("cw-sites-stats")
      BY <1>7 DEF FileProcess, PeriodicCall
    <3>2. "file" \notin Divided /\ "cw-sites-stats" \notin Divided
      BY DEF Divided
    <3> QED
      BY <3>1, <3>2
  <2>2. inside' = inside /\ UNCHANGED <<s3Vars, sites, sizes>>
    BY <1>7 DEF FileProcess, PeriodicCall, statVars
  <2>3. uploading' = uploading
    BY <2>2 DEF s3Vars
  <2>4. ~inside /\ uploading # "Size" /\ ~sites.locked
    BY <1>1, <2>1
  <2>5. SizesMutex'
    BY <1>5, <2>2, <2>4 DEF Counting
  <2> QED
    BY <1>0, <1>3, <1>4, <2>2, <2>3, <2>4, <2>5
<1>8. CASE S3Process
  <2>1. Calling("s3") /\ UNCHANGED <<sites, sizes>>
    BY <1>8 DEF S3Process, statVars
  <2>2. ~sites.locked /\ ~Counting
    BY <2>1, OneCalled DEF UnderWay, Counting
  <2>3. CASE /\ ~inside /\ Hold(S3Key, har) /\ inside' = (uploading' = "Size")
             /\ IF inside' THEN UNCHANGED vars ELSE Call(TRUE)
    <3>1. CASE inside'
      <4>1. UNCHANGED vars /\ inside' = TRUE
        BY <2>3, <3>1
      <4>2. Calling("s3")' /\ ~Calling("sites-stats")' /\ ~Calling("transactions-sizes")'
        BY <1>6, <2>1, <4>1, OneCalled
      <4>3. "s3" \in Divided
        BY DEF Divided
      <4>4. SizesMutex'
        BY <1>5, <2>1, <2>2, <4>2 DEF Counting
      <4> QED
        BY <1>0, <1>4, <2>1, <2>2, <4>1, <4>2, <4>3, <4>4 DEF UnderWay
    <3>2. CASE ~inside'
      <4>1. inside' = FALSE /\ uploading' # "Size"
        BY <2>3, <3>2
      <4>2. SizesMutex'
        BY <1>5, <2>1, <2>2, <4>1 DEF Counting
      <4> QED
        BY <1>0, <1>3, <1>4, <2>1, <2>2, <4>1, <4>2
    <3> QED
      BY <3>1, <3>2
  <2>4. CASE inside /\ uploading # "Size" /\ inside' = FALSE /\ Call(TRUE) /\ UNCHANGED s3Vars
    <3>1. uploading' = uploading
      BY <2>4 DEF s3Vars
    <3>2. SizesMutex'
      BY <1>5, <2>1, <2>2, <2>4 DEF Counting
    <3> QED
      BY <1>0, <1>3, <1>4, <2>1, <2>2, <2>4, <3>1, <3>2
  <2> QED
    BY <1>8, <2>3, <2>4 DEF S3Process
<1>9. CASE SitesProcess
  <2>1. Calling("sites-stats") /\ UNCHANGED <<uploading, sizes>>
    BY <1>9 DEF SitesProcess, s3Vars
  <2>2. ~Counting /\ uploading # "Size"
    BY <2>1, OneCalled DEF UnderWay, Counting
  <2>3. CASE ~inside /\ SitesTotal(har) /\ inside' = TRUE /\ UNCHANGED vars
    <3>1. SitesRecord' /\ sites'.locked = TRUE
      BY <1>0, <2>3, SitesSteps
    <3>2. Calling("sites-stats")' /\ ~Calling("s3")' /\ ~Calling("transactions-sizes")'
      BY <1>6, <2>1, <2>3, OneCalled
    <3>3. "sites-stats" \in Divided
      BY DEF Divided
    <3>4. SizesMutex'
      BY <1>5, <2>1, <2>2, <3>2 DEF Counting
    <3> QED
      BY <1>0, <2>1, <2>2, <2>3, <3>1, <3>2, <3>3, <3>4 DEF UnderWay
  <2>4. CASE inside /\ SitesHost(FirstAppId, har, setting.splitByAppId) /\ inside' = FALSE
    <3>1. SitesRecord' /\ sites'.locked = FALSE
      BY <1>0, <2>4, SitesSteps
    <3>2. SizesMutex'
      BY <1>5, <2>1, <2>2, <2>4 DEF Counting
    <3> QED
      BY <1>0, <1>3, <2>1, <2>2, <2>4, <3>1, <3>2
  <2> QED
    BY <1>9, <2>3, <2>4 DEF SitesProcess
<1>10. CASE SizesProcess
  <2>1. Calling("transactions-sizes") /\ UNCHANGED <<uploading, sites>>
    BY <1>10 DEF SizesProcess, s3Vars
  <2>2. ~sites.locked /\ uploading # "Size"
    BY <2>1, OneCalled DEF UnderWay
  <2>3. CASE ~inside /\ SizesRequests(har) /\ inside' = TRUE /\ UNCHANGED vars
    <3>1. /\ SizesRecord' /\ ~sizes.locked
          /\ sizes' = [sizes EXCEPT !.requests = @ + Len(har), !.locked = TRUE]
      BY <1>0, <2>3, SizesSteps
    <3>2. Calling("transactions-sizes")' /\ ~Calling("s3")' /\ ~Calling("sites-stats")'
      BY <1>6, <2>1, <2>3, OneCalled
    <3>3. "transactions-sizes" \in Divided
      BY DEF Divided
    <3>4. /\ sizes'.locked = TRUE /\ sizes'.printing = sizes.printing
          /\ sizes'.failed = sizes.failed
      BY <1>0, <3>1 DEF SizesRecord
    <3>5. SizesMutex'
      BY <1>0, <2>3, <3>1, <3>2, <3>4 DEF SizesMutex, Counting
    <3> QED
      BY <1>0, <1>4, <2>1, <2>2, <2>3, <3>2, <3>3, <3>5 DEF UnderWay
  <2>4. CASE inside /\ SizesResponses(har) /\ inside' = FALSE
    <3>1. /\ SizesRecord'
          /\ sizes' = [sizes EXCEPT !.responses = @ + Len(har) - Len(UnansweredIn(har)),
                                    !.locked = FALSE]
      BY <1>0, <2>4, SizesSteps
    <3>2. /\ sizes'.locked = FALSE /\ sizes'.printing = sizes.printing
          /\ sizes'.failed = sizes.failed
      BY <1>0, <3>1 DEF SizesRecord
    <3>3. SizesMutex'
      BY <1>0, <2>1, <2>4, <3>1, <3>2 DEF SizesMutex, Counting
    <3> QED
      BY <1>0, <1>3, <1>4, <2>1, <2>2, <2>4, <3>3
  <2> QED
    BY <1>10, <2>3, <2>4 DEF SizesProcess
<1>11. CASE SampleProcess
  <2>1. Calling("sampled-transactions") /\ UNCHANGED <<uploading, sites, sizes>>
    BY <1>11 DEF SampleProcess, s3Vars
  <2>2. ~sites.locked /\ ~Counting /\ uploading # "Size"
    BY <2>1, OneCalled DEF UnderWay, Counting
  <2>3. CASE inside' = FALSE
    <3>1. SizesMutex'
      BY <1>5, <2>1, <2>2, <2>3 DEF Counting
    <3> QED
      BY <1>0, <1>3, <1>4, <2>1, <2>2, <2>3, <3>1
  <2>4. CASE inside' = TRUE /\ UNCHANGED vars
    <3>1. /\ Calling("sampled-transactions")' /\ ~Calling("s3")'
          /\ ~Calling("sites-stats")' /\ ~Calling("transactions-sizes")'
      BY <1>6, <2>1, <2>4, OneCalled
    <3>2. "sampled-transactions" \in Divided
      BY DEF Divided
    <3>3. SizesMutex'
      BY <1>5, <2>1, <2>2, <3>1 DEF Counting
    <3> QED
      BY <1>0, <1>4, <2>1, <2>2, <2>4, <3>1, <3>2, <3>3 DEF UnderWay
  <2>5. inside' = FALSE \/ (inside' = TRUE /\ UNCHANGED vars)
    BY <1>0, <1>11 DEF SampleProcess
  <2> QED
    BY <2>3, <2>4, <2>5
<1> QED
  BY <1>7, <1>8, <1>9, <1>10, <1>11 DEF HarProcess

\* UnderWay holds initially.
LEMMA UnderWayInit == HarInit => UnderWay
<1> SUFFICES ASSUME HarInit PROVE UnderWay
  OBVIOUS
<1>1. /\ sites = [total |-> Nothing, hosts |-> <<>>, locked |-> FALSE, file |-> NoFile]
      /\ sizes = [requests |-> 0, responses |-> 0, locked |-> FALSE, printing |-> FALSE,
                  requestsFile |-> NoFile, responsesFile |-> NoFile, failed |-> FALSE]
      /\ uploading = "no" /\ inside = FALSE
  BY DEF HarInit, StatInit, S3Init
<1>2. SizesMutex
  BY <1>1 DEF SizesMutex, SizesRecord, Counting
<1> QED
  BY <1>1, <1>2 DEF UnderWay, SitesRecord

(***************************************************************************)
(* S3Client: what it holds, and the copies of an entry held or stored.     *)
(***************************************************************************)
S3Typed ==
  /\ dataHolder \in Holders /\ bucket \in Seq(Objects)
  /\ uploading \in {"no", "Size", "Time"} /\ lastUpload \in {"ok", "failed"}
  /\ failures \in 0 .. MaxFailures

\* The copies of an entry that are held or known to be stored.
KnownCopies(e, data, b) == Copies(e, data) + CopiesInObjects(e, b)

\* The counts of the next state are those of its holder and its bucket.
LEMMA KnownCopiesNext ==
  ASSUME NEW e
  PROVE  /\ KnownCopies(e, dataHolder, bucket)' = KnownCopies(e, dataHolder', bucket')
         /\ getNumOfEntries(dataHolder)' = getNumOfEntries(dataHolder')
BY DEF KnownCopies, CopiesInObjects, KnownOf, Copies, MapThenSumSet, MapThenFoldSet, getNumOfEntries

\* They are a natural number.
LEMMA KnownCopiesType ==
  ASSUME NEW data \in Holders, NEW b \in Seq(Objects), NEW e
  PROVE  KnownCopies(e, data, b) \in Nat
<1>1. Copies(e, data) \in Nat
  BY CountsType
<1>2. CopiesInObjects(e, b) \in Nat
  BY StoreCounts, EmptyHolderCounts
<1> QED
  BY <1>1, <1>2 DEF KnownCopies

\* An upload that ends loses and repeats no entry, and leaves no more entries
\* held than the maximum if it succeeds.
LEMMA UploadCounts ==
  ASSUME S3Typed, UNCHANGED s3Vars \/ PurgeTick \/ UploadEnds
  PROVE  /\ S3Typed'
         /\ HolderBounded => HolderBounded'
         /\ \A e : KnownCopies(e, dataHolder', bucket') = KnownCopies(e, dataHolder, bucket)
         /\ dataHolder' \in {dataHolder, EmptyHolder}
         /\ \/ bucket' = bucket
            \/ \E answered \in BOOLEAN :
                 bucket' = Append(bucket, [data |-> dataHolder, answered |-> answered])
<1>1. CASE UNCHANGED s3Vars
  <2>1. UNCHANGED <<dataHolder, uploading, bucket, lastUpload, failures>>
    BY <1>1 DEF s3Vars
  <2>2. HolderBounded => HolderBounded'
    BY <2>1, KnownCopiesNext DEF HolderBounded
  <2>3. S3Typed'
    BY <2>1 DEF S3Typed
  <2> QED
    BY <2>1, <2>2, <2>3
<1>2. CASE PurgeTick
  <2>1. UNCHANGED <<dataHolder, bucket, lastUpload, failures>> /\ uploading' = "Time"
    BY <1>2 DEF PurgeTick
  <2>2. HolderBounded'
    BY <2>1 DEF HolderBounded
  <2>3. S3Typed'
    BY <2>1 DEF S3Typed
  <2> QED
    BY <2>1, <2>2, <2>3
<1>3. ASSUME NEW stored \in BOOLEAN, NEW answered \in BOOLEAN, doExport(stored, answered),
             answered => stored, ~answered => failures < MaxFailures
      PROVE  /\ S3Typed'
             /\ HolderBounded'
             /\ \A e : KnownCopies(e, dataHolder', bucket') = KnownCopies(e, dataHolder, bucket)
             /\ dataHolder' \in {dataHolder, EmptyHolder}
             /\ \/ bucket' = bucket
                \/ \E a \in BOOLEAN : bucket' = Append(bucket, [data |-> dataHolder, answered |-> a])
  <2>1. /\ bucket' = IF stored THEN Append(bucket, [data |-> dataHolder, answered |-> answered])
                               ELSE bucket
        /\ dataHolder' = IF answered THEN EmptyHolder ELSE dataHolder
        /\ lastUpload' = IF answered THEN "ok" ELSE "failed"
        /\ failures' = IF answered THEN failures ELSE failures + 1
        /\ uploading' = "no"
    BY <1>3 DEF doExport
  <2>2. /\ dataHolder \in Holders /\ bucket \in Seq(Objects) /\ failures \in 0 .. MaxFailures
        /\ MaxFailures \in Nat /\ MaxNumOfEntries \in Nat
    BY S3Assumption DEF S3Typed
  <2>3. EmptyHolder \in Holders /\ getNumOfEntries(EmptyHolder) = 0
    BY EmptyHolderCounts
  <2>4. [data |-> dataHolder, answered |-> answered] \in Objects
    BY <2>2 DEF Objects
  <2>5. Append(bucket, [data |-> dataHolder, answered |-> answered]) \in Seq(Objects)
    BY <2>2, <2>4, AppendProperties
  <2>6. failures' \in 0 .. MaxFailures
    BY <1>3, <2>1, <2>2
  <2>7. S3Typed'
    BY <2>1, <2>2, <2>3, <2>5, <2>6 DEF S3Typed
  <2>8. HolderBounded'
    <3>1. CASE answered
      <4>1. getNumOfEntries(dataHolder') = 0
        BY <2>1, <2>3, <3>1
      <4> QED
        BY <2>2, <4>1, KnownCopiesNext DEF HolderBounded
    <3>2. CASE ~answered
      BY <2>1, <3>2 DEF HolderBounded
    <3> QED
      BY <3>1, <3>2
  <2>9. ASSUME NEW e PROVE KnownCopies(e, dataHolder', bucket') = KnownCopies(e, dataHolder, bucket)
    <3>1. /\ CopiesInObjects(e, bucket) \in Nat /\ Copies(e, dataHolder) \in Nat
          /\ CopiesInObjects(e, Append(bucket, [data |-> dataHolder, answered |-> answered])) =
               CopiesInObjects(e, bucket) + IF answered THEN Copies(e, dataHolder) ELSE 0
      BY <2>2, StoreCounts
    <3>2. CASE answered
      <4>1. /\ dataHolder' = EmptyHolder /\ Copies(e, EmptyHolder) = 0
            /\ bucket' = Append(bucket, [data |-> dataHolder, answered |-> answered])
        BY <1>3, <2>1, <3>2, EmptyHolderCounts
      <4> QED
        BY <3>1, <3>2, <4>1 DEF KnownCopies
    <3>3. CASE ~answered
      <4>1. dataHolder' = dataHolder
        BY <2>1, <3>3
      <4>2. CopiesInObjects(e, bucket') = CopiesInObjects(e, bucket)
        <5>1. CASE stored
          BY <2>1, <3>1, <3>3, <5>1
        <5>2. CASE ~stored
          BY <2>1, <5>2
        <5> QED
          BY <5>1, <5>2
      <4> QED
        BY <4>1, <4>2 DEF KnownCopies
    <3> QED
      BY <3>2, <3>3
  <2> QED
    BY <2>1, <2>7, <2>8, <2>9
<1>4. CASE UploadEnds
  <2>1. \E stored \in BOOLEAN, answered \in BOOLEAN :
          /\ doExport(stored, answered) /\ (answered => stored)
          /\ ~answered => failures < MaxFailures
    BY <1>4 DEF UploadEnds, Uploaded, UploadFails
  <2> QED
    BY <1>3, <2>1
<1> QED
  BY <1>1, <1>2, <1>4

\* Process adds the entries of its har, each to the copies held.
LEMMA HoldMore ==
  ASSUME S3Typed, NEW key, NEW h \in Seq(Transaction), h # <<>> => key \in Keys, Hold(key, h)
  PROVE  /\ S3Typed' /\ HolderBounded'
         /\ \A e : KnownCopies(e, dataHolder', bucket') = KnownCopies(e, dataHolder, bucket) + Count(h, e)
         /\ bucket' = bucket
         /\ \A k \in Keys : dataHolder'[k] = IF k = key THEN dataHolder[k] \o h ELSE dataHolder[k]
<1>1. /\ dataHolder' = [dataHolder EXCEPT ![key] = @ \o h]
      /\ uploading' = IF getNumOfEntries(dataHolder') > MaxNumOfEntries THEN "Size" ELSE "no"
      /\ UNCHANGED <<bucket, lastUpload, failures>>
  BY DEF Hold
<1>2. dataHolder \in Holders /\ bucket \in Seq(Objects) /\ MaxNumOfEntries \in Nat
  BY S3Assumption DEF S3Typed
<1>3. \A k \in Keys : dataHolder'[k] = IF k = key THEN dataHolder[k] \o h ELSE dataHolder[k]
  BY <1>1, <1>2 DEF Holders
<1>4. /\ dataHolder' \in Holders
      /\ \A e : Count(h, e) \in Nat /\ Copies(e, dataHolder') = Copies(e, dataHolder) + Count(h, e)
  <2>1. CASE key \in Keys
    BY <1>1, <1>2, <2>1, HoldCounts
  <2>2. CASE key \notin Keys
    <3>1. dataHolder' = dataHolder /\ h = <<>>
      BY <1>1, <1>2, <2>2 DEF Holders
    <3>2. \A e : Count(<<>>, e) = 0 /\ Copies(e, dataHolder) \in Nat
      BY <1>2, CountsType, AmongEmpty DEF Count
    <3> QED
      BY <1>2, <3>1, <3>2
  <2> QED
    BY <2>1, <2>2
<1>5. \A e : KnownCopies(e, dataHolder', bucket') = KnownCopies(e, dataHolder, bucket) + Count(h, e)
  <2> SUFFICES ASSUME NEW e
               PROVE  KnownCopies(e, dataHolder', bucket') = KnownCopies(e, dataHolder, bucket) + Count(h, e)
    OBVIOUS
  <2>1. Copies(e, dataHolder) \in Nat /\ CopiesInObjects(e, bucket) \in Nat
    BY <1>2, StoreCounts
  <2>2. Count(h, e) \in Nat /\ Copies(e, dataHolder') = Copies(e, dataHolder) + Count(h, e)
    BY <1>4
  <2>3. bucket' = bucket
    BY <1>1
  <2> QED
    BY <2>1, <2>2, <2>3 DEF KnownCopies
<1>6. HolderBounded'
  <2>1. getNumOfEntries(dataHolder') \in Nat
    BY <1>4, CountsType
  <2> QED
    BY <1>1, <1>2, <2>1, KnownCopiesNext DEF HolderBounded
<1>7. S3Typed'
  BY <1>1, <1>4 DEF S3Typed
<1> QED
  BY <1>1, <1>3, <1>5, <1>6, <1>7

(***************************************************************************)
(* What a processor whose calls have two parts has received: what it has   *)
(* been given, and the har of the call under way.                          *)
(***************************************************************************)
Received(kind) == Given(kind) \o IF inside /\ Calling(kind) THEN har ELSE <<>>

TwoParts == {"s3", "sites-stats", "transactions-sizes"}

\* A part of a call leaves the exporter alone unless it is the last.
LEMMA ProcessParts ==
  ASSUME Typed, UnderWay, HarProcess
  PROVE  /\ \/ UNCHANGED vars /\ inside' = TRUE
            \/ inside' = FALSE /\ \E ok \in BOOLEAN : Call(ok)
         /\ \A kind \in TwoParts : Calling(kind) =>
              \/ UNCHANGED vars /\ inside' = TRUE /\ ~inside
              \/ inside' = FALSE /\ Call(TRUE)
<1>0. inside \in BOOLEAN
  BY DEF UnderWay
<1>1. ASSUME NEW k, Calling(k), k \notin TwoParts
      PROVE  \A kind \in TwoParts : ~Calling(kind)
  BY <1>1, OneCalled
<1>2. CASE FileProcess \/ PeriodicCall
  <2>1. Calling("file") \/ Calling("cw-sites-stats")
    BY <1>2 DEF FileProcess, PeriodicCall
  <2>2. "file" \notin TwoParts /\ "cw-sites-stats" \notin TwoParts
    BY DEF TwoParts
  <2>3. "file" \notin Divided /\ "cw-sites-stats" \notin Divided
    BY DEF Divided
  <2>4. ~inside
    BY <2>1, <2>3, OneCalled DEF UnderWay
  <2>5. inside' = inside /\ \E ok \in BOOLEAN : Call(ok)
    BY <1>2 DEF FileProcess, PeriodicCall
  <2> QED
    BY <1>0, <1>1, <2>1, <2>2, <2>4, <2>5
<1>3. CASE S3Process
  <2>1. \/ UNCHANGED vars /\ inside' = TRUE /\ ~inside
        \/ inside' = FALSE /\ Call(TRUE)
    BY <1>3 DEF S3Process
  <2> QED
    BY <2>1
<1>4. CASE SitesProcess \/ SizesProcess
  <2>1. \/ UNCHANGED vars /\ inside' = TRUE /\ ~inside
        \/ inside' = FALSE /\ Call(TRUE)
    BY <1>4 DEF SitesProcess, SizesProcess
  <2> QED
    BY <2>1
<1>5. CASE SampleProcess
  <2>1. Calling("sampled-transactions")
    BY <1>5 DEF SampleProcess
  <2>2. "sampled-transactions" \notin TwoParts
    BY DEF TwoParts
  <2>3. \/ UNCHANGED vars /\ inside' = TRUE
        \/ inside' = FALSE /\ \E ok \in BOOLEAN : Call(ok)
    BY <1>0, <1>5 DEF SampleProcess
  <2> QED
    BY <1>1, <2>1, <2>2, <2>3
<1> QED
  BY <1>2, <1>3, <1>4, <1>5 DEF HarProcess

\* A processor receives a har with the first part of its call, once.
LEMMA ReceivedSteps ==
  ASSUME Typed, UnderWay, HarNext \/ UNCHANGED harVars, NEW kind \in TwoParts
  PROVE  /\ Received(kind) \in Seq(Transaction) /\ har \in Seq(Transaction)
         /\ ~(Calling(kind) /\ HarProcess) => Received(kind)' = Received(kind)
         /\ Calling(kind) /\ HarProcess =>
              Received(kind)' = IF inside THEN Received(kind) ELSE Received(kind) \o har
<1> DEFINE given == Given(kind)
<1>1. given \in Seq(Transaction) /\ har \in Seq(Transaction) /\ <<>> \in Seq(Transaction)
  BY TypedFacts, GivenType
<1>2. given \o har \in Seq(Transaction) /\ given \o <<>> = given /\ (given \o har) \o <<>> = given \o har
  BY <1>1, ConcatProperties, ConcatEmptySeq
<1>3. inside \in BOOLEAN
  BY DEF UnderWay
<1>4. Received(kind) = given \o IF inside /\ Calling(kind) THEN har ELSE <<>>
  BY DEF Received
<1>5. Received(kind)' = given' \o IF inside' /\ Calling(kind)' THEN har' ELSE <<>>
  BY DEF Received
<1> HIDE DEF given
<1>6. Received(kind) \in Seq(Transaction)
  BY <1>1, <1>2, <1>4
<1>7. ASSUME UNCHANGED vars PROVE given' = given /\ har' = har /\ (Calling(kind)' <=> Calling(kind))
  BY <1>7, GivenStays DEF vars, exportVars, Calling, Processors, given
<1>8. ASSUME ~HarProcess PROVE Received(kind)' = Received(kind)
  <2>1. given' = given
    BY <1>8, OnlyCallsGive DEF given
  <2>2. inside' = inside /\ (inside => proc # 0)
    BY <1>8, CallingStays, OneCalled DEF UnderWay
  <2>3. CASE inside
    <3>1. har' = har /\ (Calling(kind)' <=> Calling(kind))
      BY <1>8, <2>2, <2>3, CallingStays
    <3> QED
      BY <1>4, <1>5, <2>1, <2>2, <3>1
  <2>4. CASE ~inside
    BY <1>4, <1>5, <2>1, <2>2, <2>4
  <2> QED
    BY <2>3, <2>4
<1>9. ASSUME HarProcess, ~Calling(kind) PROVE Received(kind)' = Received(kind)
  <2>1. CASE UNCHANGED vars
    BY <1>4, <1>5, <1>7, <1>9, <2>1
  <2>2. CASE inside' = FALSE /\ \E ok \in BOOLEAN : Call(ok)
    <3>1. given' = given
      BY <1>9, <2>2, GivenCall DEF given
    <3> QED
      BY <1>4, <1>5, <1>9, <2>2, <3>1
  <2> QED
    BY <1>9, <2>1, <2>2, ProcessParts
<1>10. ASSUME HarProcess, Calling(kind)
       PROVE  Received(kind)' = IF inside THEN Received(kind) ELSE Received(kind) \o har
  <2>1. CASE UNCHANGED vars /\ inside' = TRUE /\ ~inside
    <3>1. Received(kind)' = given \o har
      BY <1>5, <1>7, <1>10, <2>1
    <3>2. Received(kind) = given
      BY <1>2, <1>4, <2>1
    <3> QED
      BY <2>1, <3>1, <3>2
  <2>2. CASE inside' = FALSE /\ Call(TRUE)
    <3>1. given' = given \o har
      BY <1>10, <2>2, GivenCall DEF given
    <3>2. Received(kind)' = given \o har
      BY <1>2, <1>5, <2>2, <3>1
    <3>3. Received(kind) = IF inside THEN given \o har ELSE given
      BY <1>2, <1>4, <1>10
    <3> QED
      BY <3>2, <3>3
  <2> QED
    BY <1>10, <2>1, <2>2, ProcessParts
<1> QED
  BY <1>1, <1>6, <1>8, <1>9, <1>10

(***************************************************************************)
(* A har has no health check, and with split-by-host one application, of   *)
(* which nothing is left in the cycle.                                     *)
(***************************************************************************)
Grouped ==
  /\ ToSet(har) \intersect Ignored = {}
  /\ SplitByHost =>
       \A t \in ToSet(har) : AppId[t] = AppId[Head(har)] /\ AppId[t] \notin AppsIn(toExport)

\* The cycle of an application ends with its har.
LEMMA NextHarGroups ==
  ASSUME Typed, NextHar
  PROVE  /\ ToSet(har') \intersect Ignored = {}
         /\ SplitByHost =>
              \E a \in AppsIn(toExport) :
                /\ \A t \in ToSet(har') : AppId[t] = a
                /\ a \notin AppsIn(toExport')
                /\ AppsIn(toExport') \subseteq AppsIn(toExport)
<1>1. toExport \in Seq(Transaction) /\ toExport' \in Seq(Transaction)
  BY TypedFacts, NextHarFacts
<1>2. UNCHANGED setting /\ Ignored' = Ignored
  BY NextHarFacts DEF Ignored
<1>3. Kept(toExport) \in Seq(Transaction) /\ ToSet(Kept(toExport)) = ToSet(toExport) \intersect (Transaction \ Ignored)
  BY <1>1, AmongType DEF Kept
<1>4. CASE ~SplitByHost
  <2>1. har' = Kept(toExport)
    BY <1>4, NextHarFacts
  <2> QED
    BY <1>3, <1>4, <2>1
<1>5. CASE SplitByHost
  <2>1. PICK a \in AppsIn(toExport) : /\ har' = OfApp(Kept(toExport), a)
                                      /\ toExport' = Among(toExport, Transaction \ Of(a))
    BY <1>5, NextHarFacts
  <2>2. ToSet(har') = ToSet(Kept(toExport)) \intersect Of(a)
    BY <1>3, <2>1, AmongType DEF OfApp
  <2>3. ToSet(toExport') = ToSet(toExport) \intersect (Transaction \ Of(a))
    BY <1>1, <2>1, AmongType
  <2>4. ToSet(Kept(toExport')) = ToSet(toExport') \intersect (Transaction \ Ignored)
    BY <1>1, AmongType DEF Kept
  <2>5. \A t \in ToSet(har') : AppId[t] = a
    BY <2>2 DEF Of
  <2>6. a \notin AppsIn(toExport')
    BY <2>3, <2>4 DEF AppsIn, Of
  <2>7. AppsIn(toExport') \subseteq AppsIn(toExport)
    BY <1>3, <2>3, <2>4 DEF AppsIn
  <2>8. ToSet(har') \intersect Ignored = {}
    BY <1>3, <2>2
  <2> QED
    BY <2>5, <2>6, <2>7, <2>8
<1> QED
  BY <1>4, <1>5

\* The sets of applications of the next state.
LEMMA AppsInNext ==
  ASSUME UNCHANGED setting
  PROVE  AppsIn(toExport)' = AppsIn(toExport')
BY DEF AppsIn, Kept, Ignored, Among, ToSet

\* Grouped is preserved by every step of the exporter.
LEMMA GroupedStep ==
  ASSUME Typed, Typed', Grouped, [Next]_vars
  PROVE  Grouped'
<1>1. /\ setting' = setting /\ Ignored' = Ignored /\ SplitByHost' = SplitByHost
  BY StepKeepsWay DEF Ignored, SplitByHost
<1>2. AppsIn(toExport)' = AppsIn(toExport')
  BY <1>1, AppsInNext
<1>3. ToSet(<<>>) = {} /\ ToSet(har)' = ToSet(har') /\ Head(har)' = Head(har')
  BY DEF ToSet
<1>4. CASE NextHar
  <2>1. har' \in Seq(Transaction)
    BY <1>4, NextHarFacts
  <2>2. \A t \in ToSet(har') : Head(har') \in ToSet(har')
    <3>1. ToSet(har') # {} => har' # <<>>
      BY <1>3
    <3> QED
      BY <2>1, <3>1, ToSetTail
  <2>3. SplitByHost => \A t \in ToSet(har') : AppId[t] = AppId[Head(har')] /\ AppId[t] \notin AppsIn(toExport')
    BY <1>4, <2>2, NextHarGroups
  <2> QED
    BY <1>1, <1>2, <1>3, <1>4, <2>3, NextHarGroups DEF Grouped
<1>5. CASE har' = <<>>
  BY <1>1, <1>3, <1>5 DEF Grouped
<1>6. CASE UNCHANGED <<har, toExport>>
  BY <1>1, <1>2, <1>6 DEF Grouped
<1>7. NextHar \/ har' = <<>> \/ UNCHANGED <<har, toExport>>
  <2>1. CASE \E ok \in BOOLEAN : Call(ok)
    BY <2>1 DEF Call
  <2>2. CASE Tick \/ DumpDone
    <3>1. har' = har /\ (pc["export"] # "dump" \/ proc = 0)
      BY <2>2 DEF Tick, DumpDone
    <3>2. har = <<>>
      BY <3>1 DEF Typed, Shape
    <3> QED
      BY <3>1, <3>2
  <2>3. CASE ~(Tick \/ DumpDone \/ NextHar \/ \E ok \in BOOLEAN : Call(ok))
    BY <2>3 DEF vars, exportVars, Next, AggregateStep, ExportStep, Process, Queue, StopSend,
           StopReturn, LoopCheck, TakeStop, Receive, AppendTransaction
  <2> QED
    BY <2>1, <2>2, <2>3
<1> QED
  BY <1>4, <1>5, <1>6, <1>7

(***************************************************************************)
(* What S3Client has received is held or stored, once.                     *)
(***************************************************************************)
KeyedInS3 ==
  SplitByHost => KeyedByApp(dataHolder) /\ \A i \in DOMAIN bucket : KeyedByApp(bucket[i].data)

CopiesReceived ==
  \A e \in Transaction : KnownCopies(e, dataHolder, bucket) = Count(Received("s3"), e)

NoneIgnored == ToSet(Received("s3")) \intersect Ignored = {}

HeldInv ==
  UnderWay /\ Grouped /\ S3Typed /\ HolderBounded /\ CopiesReceived /\ NoneIgnored /\ KeyedInS3

\* S3Client takes a har with the first part of a call; else its ticker runs, or
\* an upload ends, or nothing of it changes.
LEMMA S3Cases ==
  ASSUME Typed, UnderWay, HarNext \/ UNCHANGED harVars
  PROVE  \/ Calling("s3") /\ HarProcess /\ ~inside /\ Hold(FirstAppId, har)
         \/ /\ UNCHANGED s3Vars \/ PurgeTick \/ UploadEnds
            /\ ~(Calling("s3") /\ HarProcess) \/ inside
<1>1. CASE ~HarProcess
  BY <1>1, OtherParts
<1>2. CASE S3Process
  BY <1>2 DEF S3Process, HarProcess, S3Key
<1>3. CASE HarProcess /\ ~S3Process
  <2>1. PICK k \in {"file", "sites-stats", "transactions-sizes", "cw-sites-stats",
                    "sampled-transactions"} : Calling(k)
    BY <1>3 DEF HarProcess, FileProcess, SitesProcess, SizesProcess, PeriodicCall, SampleProcess
  <2>2. ~Calling("s3")
    BY <2>1, OneCalled
  <2>3. UNCHANGED s3Vars
    BY <1>3 DEF HarProcess, FileProcess, SitesProcess, SizesProcess, PeriodicCall, SampleProcess
  <2> QED
    BY <2>2, <2>3
<1> QED
  BY <1>1, <1>2, <1>3

\* The first entry of a har given to a processor not after s3 has its id.
LEMMA FirstIdSeen ==
  ASSUME Typed, Apart, proc # 0, ~AfterS3(proc), har # <<>>
  PROVE  /\ Head(har) \in ToSet(har) /\ Head(har) \in Transaction
         /\ FirstAppId = AppId[Head(har)] /\ FirstAppId \in Apps
<1>1. har \in Seq(Transaction)
  BY TypedFacts
<1>2. Head(har) \in Transaction /\ Head(har) \in ToSet(har)
  BY <1>1, ToSetTail
<1>3. Head(har) \notin emptied
  BY <1>2 DEF Apart
<1> QED
  BY <1>2, <1>3 DEF FirstAppId, AppIdSeen, Apps

\* s3 is not after itself.
LEMMA S3NotAfterS3 ==
  ASSUME Typed, Calling("s3")
  PROVE  ~AfterS3(proc)
<1>1. /\ setting \in Settings /\ proc \in 0 .. Len(Processors)
      /\ Len(Processors) \in Nat \ {0} /\ DOMAIN Processors = 1 .. Len(Processors)
  BY TypedFacts, SettingFacts
<1>2. proc \in DOMAIN Processors /\ Processors[proc] = "s3"
  BY <1>1 DEF Calling
<1>3. ASSUME NEW q \in 1 .. proc - 1, Processors[q] = "s3" PROVE FALSE
  <2>1. q \in DOMAIN Processors /\ q # proc
    BY <1>1, <1>2, <1>3
  <2>2. IndexOfKind("s3") = q /\ IndexOfKind("s3") = proc
    BY <1>1, <1>2, <1>3, <2>1, KindIsOne
  <2> QED
    BY <2>1, <2>2
<1> QED
  BY <1>3 DEF AfterS3

\* The entries held and stored stay under their application.
LEMMA KeyedStep ==
  ASSUME Typed, Typed', Apart, HeldInv, HarNext \/ UNCHANGED harVars
  PROVE  KeyedInS3'
<1>0. /\ dataHolder \in Holders /\ bucket \in Seq(Objects) /\ har \in Seq(Transaction)
      /\ UnderWay /\ S3Typed
  BY TypedFacts DEF HeldInv, S3Typed
<1>1. SplitByHost' = SplitByHost
  <2>1. [Next]_vars
    BY HarStepIsStep DEF harVars
  <2> QED
    BY <2>1, StepKeepsWay DEF SplitByHost
<1>2. SUFFICES ASSUME SplitByHost
               PROVE  KeyedByApp(dataHolder)' /\ \A i \in DOMAIN bucket' : KeyedByApp(bucket[i].data)'
  BY <1>1 DEF KeyedInS3
<1>3. KeyedByApp(dataHolder) /\ \A i \in DOMAIN bucket : KeyedByApp(bucket[i].data)
  BY <1>2 DEF HeldInv, KeyedInS3
<1>4. /\ KeyedByApp(dataHolder)' <=> KeyedByApp(dataHolder')
      /\ \A i : KeyedByApp(bucket[i].data)' <=> KeyedByApp(bucket'[i].data)
  BY DEF KeyedByApp, ToSet
<1>5. CASE UNCHANGED s3Vars \/ PurgeTick \/ UploadEnds
  <2>1. /\ dataHolder' \in {dataHolder, EmptyHolder}
        /\ \/ bucket' = bucket
           \/ \E answered \in BOOLEAN :
                bucket' = Append(bucket, [data |-> dataHolder, answered |-> answered])
    BY <1>0, <1>5, UploadCounts
  <2>2. KeyedByApp(EmptyHolder)
    BY DEF KeyedByApp, EmptyHolder, ToSet
  <2>3. KeyedByApp(dataHolder')
    BY <1>3, <2>1, <2>2
  <2>4. \A i \in DOMAIN bucket' : KeyedByApp(bucket'[i].data)
    <3>1. CASE bucket' = bucket
      BY <1>3, <3>1
    <3>2. ASSUME NEW answered \in BOOLEAN,
                 bucket' = Append(bucket, [data |-> dataHolder, answered |-> answered])
          PROVE  \A i \in DOMAIN bucket' : KeyedByApp(bucket'[i].data)
      <4> DEFINE o == [data |-> dataHolder, answered |-> answered]
      <4>1. o \in Objects /\ o.data = dataHolder
        BY <1>0 DEF Objects
      <4> HIDE DEF o
      <4>2. /\ bucket' \in Seq(Objects) /\ Len(bucket') = Len(bucket) + 1
            /\ bucket'[Len(bucket) + 1] = o
            /\ \A i \in 1 .. Len(bucket) : bucket'[i] = bucket[i]
        BY <1>0, <3>2, <4>1, AppendProperties DEF o
      <4>3. DOMAIN bucket' = 1 .. Len(bucket) + 1 /\ DOMAIN bucket = 1 .. Len(bucket) /\ Len(bucket) \in Nat
        BY <1>0, <4>2, LenProperties
      <4> QED
        BY <1>3, <4>1, <4>2, <4>3
    <3> QED
      BY <2>1, <3>1, <3>2
  <2> QED
    BY <1>4, <2>3, <2>4
<1>6. CASE Calling("s3") /\ HarProcess /\ ~inside /\ Hold(FirstAppId, har)
  <2>1. har # <<>> => /\ Head(har) \in ToSet(har) /\ Head(har) \in Transaction
                      /\ FirstAppId = AppId[Head(har)] /\ FirstAppId \in Keys
    BY <1>6, OneCalled, S3NotAfterS3, FirstIdSeen, HarAssumption
  <2>2. /\ bucket' = bucket
        /\ \A k \in Keys : dataHolder'[k] = IF k = FirstAppId THEN dataHolder[k] \o har ELSE dataHolder[k]
    BY <1>0, <1>6, <2>1, HoldMore
  <2>3. ASSUME NEW k \in Keys, NEW e \in ToSet(dataHolder'[k]) PROVE AppId[e] = k
    <3>0. dataHolder[k] \in Seq(Transaction)
      BY <1>0 DEF Holders
    <3>1. CASE k # FirstAppId
      BY <1>3, <2>2, <2>3, <3>1 DEF KeyedByApp
    <3>2. CASE k = FirstAppId
      <4>1. ToSet(dataHolder'[k]) = ToSet(dataHolder[k]) \union ToSet(har)
        BY <1>0, <2>2, <3>0, <3>2, ToSetConcat
      <4>2. CASE e \in ToSet(dataHolder[k])
        BY <1>3, <4>2 DEF KeyedByApp
      <4>3. CASE e \in ToSet(har)
        <5>1. har # <<>>
          BY <4>3 DEF ToSet
        <5>2. AppId[e] = AppId[Head(har)]
          BY <1>2, <4>3 DEF HeldInv, Grouped
        <5> QED
          BY <2>1, <3>2, <5>1, <5>2
      <4> QED
        BY <2>3, <4>1, <4>2, <4>3
    <3> QED
      BY <3>1, <3>2
  <2> QED
    BY <1>3, <1>4, <2>2, <2>3 DEF KeyedByApp
<1> QED
  BY <1>0, <1>5, <1>6, S3Cases

\* The copies of an entry stay those that were received.
LEMMA CopiesStep ==
  ASSUME Typed, Typed', Apart, HeldInv, HarNext \/ UNCHANGED harVars
  PROVE  S3Typed' /\ HolderBounded' /\ CopiesReceived' /\ NoneIgnored'
<1>0. /\ UnderWay /\ S3Typed /\ HolderBounded /\ har \in Seq(Transaction)
      /\ Received("s3") \in Seq(Transaction)
      /\ "s3" \in TwoParts
  BY TypedFacts, ReceivedSteps DEF HeldInv, TwoParts
<1>1. Ignored' = Ignored /\ Transaction' = Transaction
  <2>1. [Next]_vars
    BY HarStepIsStep DEF harVars
  <2> QED
    BY <2>1, StepKeepsWay DEF Ignored
<1>2. ASSUME NEW e
      PROVE  /\ KnownCopies(e, dataHolder, bucket)' = KnownCopies(e, dataHolder', bucket')
             /\ Count(Received("s3"), e)' = Count(Received("s3")', e)
             /\ ToSet(Received("s3"))' = ToSet(Received("s3")')
  BY KnownCopiesNext DEF Count, Among, ToSet
<1>3. ASSUME NEW e \in Transaction
      PROVE  KnownCopies(e, dataHolder, bucket) = Count(Received("s3"), e)
  BY DEF HeldInv, CopiesReceived
<1>4. CASE /\ UNCHANGED s3Vars \/ PurgeTick \/ UploadEnds
           /\ ~(Calling("s3") /\ HarProcess) \/ inside
  <2>1. Received("s3")' = Received("s3")
    BY <1>0, <1>4, ReceivedSteps
  <2>2. /\ S3Typed' /\ HolderBounded'
        /\ \A e : KnownCopies(e, dataHolder', bucket') = KnownCopies(e, dataHolder, bucket)
    BY <1>0, <1>4, UploadCounts
  <2>3. CopiesReceived'
    BY <1>1, <1>2, <1>3, <2>1, <2>2 DEF CopiesReceived
  <2>4. NoneIgnored'
    BY <1>1, <1>2, <2>1 DEF HeldInv, NoneIgnored
  <2> QED
    BY <2>2, <2>3, <2>4
<1>5. CASE Calling("s3") /\ HarProcess /\ ~inside /\ Hold(FirstAppId, har)
  <2>1. har # <<>> => FirstAppId \in Keys
    BY <1>5, OneCalled, S3NotAfterS3, FirstIdSeen, HarAssumption
  <2>2. /\ S3Typed' /\ HolderBounded'
        /\ \A e : KnownCopies(e, dataHolder', bucket') = KnownCopies(e, dataHolder, bucket) + Count(har, e)
    BY <1>0, <1>5, <2>1, HoldMore
  <2>3. Received("s3")' = Received("s3") \o har
    BY <1>0, <1>5, ReceivedSteps
  <2>4. \A e : Count(Received("s3")', e) = Count(Received("s3"), e) + Count(har, e)
    <3> DEFINE r == Received("s3")
    <3>1. r \in Seq(Transaction)
      BY <1>0
    <3> HIDE DEF r
    <3>2. \A e : Count(r \o har, e) = Count(r, e) + Count(har, e)
      BY <1>0, <3>1, CountConcat
    <3> QED
      BY <2>3, <3>2 DEF r
  <2>5. CopiesReceived'
    BY <1>1, <1>2, <1>3, <2>2, <2>4 DEF CopiesReceived
  <2>6. ToSet(Received("s3")') = ToSet(Received("s3")) \union ToSet(har)
    <3> DEFINE r == Received("s3")
    <3>1. r \in Seq(Transaction) /\ har \in Seq(Transaction)
      BY <1>0
    <3> HIDE DEF r
    <3>2. ToSet(r \o har) = ToSet(r) \union ToSet(har)
      BY <3>1, ToSetConcat
    <3> QED
      BY <2>3, <3>2 DEF r
  <2>7. NoneIgnored'
    BY <1>1, <1>2, <2>6 DEF HeldInv, NoneIgnored, Grouped
  <2> QED
    BY <2>2, <2>5, <2>7
<1> QED
  BY <1>0, <1>4, <1>5, S3Cases

\* HeldInv is preserved by every step.
LEMMA HeldStep ==
  ASSUME Typed, Typed', Apart, HeldInv, HarNext \/ UNCHANGED harVars
  PROVE  HeldInv'
<1>1. UnderWay'
  BY UnderWayCalls, UnderWayStays DEF HeldInv
<1>2. Grouped'
  <2>1. [Next]_vars
    BY HarStepIsStep DEF harVars
  <2> QED
    BY <2>1, GroupedStep DEF HeldInv
<1> QED
  BY <1>1, <1>2, CopiesStep, KeyedStep DEF HeldInv

\* It holds initially.
LEMMA HeldInit == HarInit => HeldInv
<1> SUFFICES ASSUME HarInit PROVE HeldInv
  OBVIOUS
<1>1. /\ dataHolder = EmptyHolder /\ uploading = "no" /\ bucket = <<>> /\ lastUpload = "ok"
      /\ failures = 0 /\ har = <<>> /\ inside = FALSE
      /\ delivered = [p \in DOMAIN Processors |-> <<>>] /\ setting \in Settings
  BY DEF HarInit, S3Init, Init
<1>2. /\ EmptyHolder \in Holders /\ getNumOfEntries(EmptyHolder) = 0
      /\ \A e : Copies(e, EmptyHolder) = 0 /\ CopiesInObjects(e, <<>>) = 0
  BY EmptyHolderCounts, EmptyBucketCounts
<1>3. ToSet(<<>>) = {}
  BY DEF ToSet
<1>4. Received("s3") = <<>>
  <2>1. Used("s3") => delivered[IndexOfKind("s3")] = <<>>
    BY <1>1, UsedKind
  <2>2. Given("s3") = <<>>
    BY <2>1 DEF Given, Numbers
  <2> QED
    BY <1>1, <2>2 DEF Received
<1>5. Grouped
  BY <1>1, <1>3 DEF Grouped
<1>6. S3Typed
  BY <1>1, <1>2, S3Assumption DEF S3Typed
<1>7. HolderBounded
  BY <1>1, <1>2, S3Assumption DEF HolderBounded
<1>8. CopiesReceived
  BY <1>1, <1>2, <1>4, AmongEmpty DEF CopiesReceived, KnownCopies, Count
<1>9. NoneIgnored
  BY <1>3, <1>4 DEF NoneIgnored
<1>10. KeyedInS3
  BY <1>1, <1>3 DEF KeyedInS3, KeyedByApp, EmptyHolder
<1> QED
  BY <1>5, <1>6, <1>7, <1>8, <1>9, <1>10, UnderWayInit DEF HeldInv

\* HeldInv always holds.
LEMMA HeldInvHolds == HarSpec => []HeldInv
<1>1. ExporterInv /\ ExporterInv' /\ HeldInv /\ [HarNext]_harVars => HeldInv'
  BY HeldStep DEF ExporterInv
<1> QED
  BY <1>1, HeldInit, ExporterInvHolds, PTL DEF HarSpec

\* An entry on its way to a processor is there as often as among those queued.
LEMMA CountOurs ==
  ASSUME NEW s \in Seq(Transaction), NEW e \in Transaction \ Ignored
  PROVE  Count(Ours(s, AppId[e]), e) = Count(s, e)
<1> DEFINE S == Of(AppId[e]) \ Ignored
<1>1. S \intersect {e} = {e}
  BY DEF Of
<1>2. Ours(s, AppId[e]) = Among(s, S)
  BY OursIsAmong
<1> HIDE DEF S
<1>3. Among(Among(s, S), {e}) = Among(s, S \intersect {e})
  BY AmongAmong
<1> QED
  BY <1>1, <1>2, <1>3 DEF Count

\* S3Client receives an entry once.
LEMMA ReceivedOnce ==
  ASSUME ExporterInv, UnderWay, NEW e \in Transaction \ Ignored
  PROVE  Count(Received("s3"), e) <= 1
<1>1. Typed /\ ConservedInOrder /\ setting \in Settings
  BY TypedFacts DEF ExporterInv
<1>2. /\ queued \in 0 .. NumTransactions /\ NumTransactions \in Nat
      /\ input \in Seq(Transaction) /\ transactions \in Seq(Transaction)
      /\ held \in Seq(Transaction) /\ toExport \in Seq(Transaction) /\ har \in Seq(Transaction)
      /\ <<>> \in Seq(Transaction)
  BY <1>1, TypedFacts, ExporterAssumption
<1>3. CASE ~Used("s3")
  <2>1. ~Calling("s3")
    <3>1. ASSUME Calling("s3") PROVE FALSE
      <4>1. proc \in DOMAIN Processors /\ Processors[proc] = "s3"
        <5>1. proc \in 0 .. Len(Processors) /\ Len(Processors) \in Nat
              /\ DOMAIN Processors = 1 .. Len(Processors)
          BY <1>1, TypedFacts, SettingFacts
        <5> QED
          BY <3>1, <5>1 DEF Calling
      <4> QED
        BY <1>1, <1>3, <4>1, KindIsOne
    <3> QED
      BY <3>1
  <2>2. Received("s3") = <<>>
    BY <1>3, <2>1 DEF Received, Given
  <2> QED
    BY <2>2, AmongEmpty DEF Count
<1>4. CASE Used("s3")
  <2> DEFINE p == IndexOfKind("s3")
             U == [i \in 1 .. queued |-> i]
  <2>1. p \in DOMAIN Processors /\ Processors[p] = "s3"
    BY <1>1, <1>4, UsedKind
  <2>2. p \notin Failing
    <3>1. p \in Failing => Processors[p] \in {"file", "sampled-transactions"}
      BY <1>1, HarAssumption DEF Failing, Processors
    <3> QED
      BY <2>1, <3>1
  <2>3. Given("s3") = Numbers(delivered[p])
    BY <1>4 DEF Given
  <2>4. inside /\ Calling("s3") => proc = p /\ proc # 0
    <3>1. proc \in 0 .. Len(Processors) /\ Len(Processors) \in Nat
          /\ DOMAIN Processors = 1 .. Len(Processors)
      BY <1>1, TypedFacts, SettingFacts
    <3>2. Calling("s3") => proc \in DOMAIN Processors /\ Processors[proc] = "s3" /\ proc # 0
      BY <3>1 DEF Calling
    <3> QED
      BY <1>1, <3>2, KindIsOne
  <2>5. p \in Nat
    BY <1>1, <2>1, SettingFacts
  <2> HIDE DEF p
  <2>6. /\ Numbers(delivered[p]) \in Seq(Transaction) /\ Ahead(p) \in Seq(Transaction)
        /\ Way(p) = (((Ahead(p) \o toExport) \o transactions) \o held) \o input
        /\ Way(p) \in Seq(Transaction)
    BY <1>1, <2>1, WayTypes
  <2>7. Count(Received("s3"), e) <= Count(Ahead(p), e)
    <3>1. CASE inside /\ Calling("s3")
      <4>1. Received("s3") = Ahead(p)
        BY <2>3, <2>4, <2>5, <3>1 DEF Received, Ahead
      <4> QED
        BY <2>6, <4>1, CountType
    <3>2. CASE ~(inside /\ Calling("s3"))
      <4>1. Received("s3") = Numbers(delivered[p])
        BY <2>3, <2>6, <3>2, ConcatEmptySeq DEF Received
      <4>2. PICK x \in Seq(Transaction) : Ahead(p) = Numbers(delivered[p]) \o x
        BY <1>2 DEF Ahead
      <4>3. Count(Ahead(p), e) = Count(Numbers(delivered[p]), e) + Count(x, e)
        BY <2>6, <4>2, CountConcat
      <4>4. Count(Numbers(delivered[p]), e) \in Nat /\ Count(x, e) \in Nat
        BY <2>6, <4>2, CountType
      <4> QED
        BY <4>1, <4>3, <4>4
    <3> QED
      BY <3>1, <3>2
  <2>8. Count(Ahead(p), e) <= Count(Way(p), e)
    <3> DEFINE a == Ahead(p) \o toExport
               b == a \o transactions
               c == b \o held
    <3>1. a \in Seq(Transaction) /\ Count(a, e) = Count(Ahead(p), e) + Count(toExport, e)
      BY <1>2, <2>6, CountConcat, ConcatProperties
    <3> HIDE DEF a
    <3>2. b \in Seq(Transaction) /\ Count(b, e) = Count(a, e) + Count(transactions, e)
      BY <1>2, <3>1, CountConcat, ConcatProperties
    <3> HIDE DEF b
    <3>3. c \in Seq(Transaction) /\ Count(c, e) = Count(b, e) + Count(held, e)
      BY <1>2, <3>2, CountConcat, ConcatProperties
    <3> HIDE DEF c
    <3>4. Count(c \o input, e) = Count(c, e) + Count(input, e)
      BY <1>2, <3>3, CountConcat
    <3>5. Way(p) = c \o input
      BY <2>6 DEF a, b, c
    <3>6. /\ Count(Ahead(p), e) \in Nat /\ Count(toExport, e) \in Nat /\ Count(held, e) \in Nat
          /\ Count(transactions, e) \in Nat /\ Count(input, e) \in Nat
      BY <1>2, <2>6, CountType
    <3> QED
      BY <3>1, <3>2, <3>3, <3>4, <3>5, <3>6
  <2>9. Count(Way(p), e) = Count(U, e) /\ U \in Seq(Transaction)
    <3>1. AppId[e] \in Apps
      BY DEF Apps
    <3>2. Ours(Way(p), AppId[e]) = Ours(U, AppId[e])
      BY <1>1, <2>1, <2>2, <3>1 DEF ConservedInOrder, Ours
    <3>3. U \in Seq(Transaction)
      BY <1>2, UpToNext
    <3> HIDE DEF U
    <3> QED
      BY <2>6, <3>2, <3>3, CountOurs
  <2>10. Count(U, e) <= 1
    <3>1. IsInjective(U)
      BY DEF IsInjective
    <3> HIDE DEF U
    <3> QED
      BY <2>9, <3>1, CountInjective
  <2>11. /\ Count(Received("s3"), e) \in Nat /\ Count(Ahead(p), e) \in Nat
         /\ Count(Way(p), e) \in Nat /\ Count(U, e) \in Nat
    <3>1. Received("s3") \in Seq(Transaction)
      BY <1>2, <2>3, <2>6, ConcatProperties DEF Received
    <3> HIDE DEF U
    <3> QED
      BY <2>6, <2>9, <3>1, CountType
  <2> HIDE DEF U
  <2> QED
    BY <2>7, <2>8, <2>9, <2>10, <2>11
<1> QED
  BY <1>3, <1>4

\* Every entry given to S3Client is held, or stored once in objects known to be
\* stored, whatever uploads fail and however ticker and exporter alternate; with
\* split-by-host it is under its own application.
THEOREM HeldOrStoredOnceInS3 == HarSpec => []HeldOrStored
<1>1. ExporterInv /\ HeldInv => HeldOrStored
  <2> SUFFICES ASSUME ExporterInv, HeldInv PROVE HeldOrStored
    OBVIOUS
  <2> DEFINE taken == ToSet(Given("s3")) \union IF inside /\ Calling("s3") THEN ToSet(har) ELSE {}
  <2>1. Typed /\ UnderWay /\ NoneIgnored /\ CopiesReceived /\ KeyedInS3
    BY DEF ExporterInv, HeldInv
  <2>2. Given("s3") \in Seq(Transaction) /\ har \in Seq(Transaction) /\ <<>> \in Seq(Transaction)
    BY <2>1, GivenType, TypedFacts
  <2>3. taken = ToSet(Received("s3")) /\ Received("s3") \in Seq(Transaction)
    <3>1. \A h \in Seq(Transaction) : /\ ToSet(Given("s3") \o h) = ToSet(Given("s3")) \union ToSet(h)
                                      /\ Given("s3") \o h \in Seq(Transaction)
      BY <2>2, ToSetConcat, ConcatProperties
    <3>2. ToSet(<<>>) = {}
      BY DEF ToSet
    <3> QED
      BY <2>2, <3>1, <3>2 DEF Received
  <2>4. ASSUME NEW e \in taken PROVE Copies(e, dataHolder) + CopiesStored(e) = 1
    <3>1. e \in Transaction \ Ignored
      BY <2>1, <2>3, <2>4, ToSetType DEF NoneIgnored
    <3>2. Count(Received("s3"), e) = 1
      <4>1. Count(Received("s3"), e) \in Nat /\ Count(Received("s3"), e) >= 1
        BY <2>3, <2>4, CountType
      <4>2. Count(Received("s3"), e) <= 1
        BY <2>1, <3>1, ReceivedOnce
      <4> QED
        BY <4>1, <4>2
    <3>3. KnownCopies(e, dataHolder, bucket) = 1
      BY <2>1, <3>1, <3>2 DEF CopiesReceived
    <3> QED
      BY <3>3, CopiesStoredIn DEF KnownCopies
  <2> QED
    BY <2>1, <2>4 DEF HeldOrStored, HeldOrStoredOnce, KeyedInS3
<1> QED
  BY <1>1, ExporterInvHolds, HeldInvHolds, PTL

\* While uploads succeed S3Client holds no more entries than the maximum.
THEOREM HolderStaysBounded == HarSpec => []HolderBounded
<1>1. HeldInv => HolderBounded
  BY DEF HeldInv
<1> QED
  BY <1>1, HeldInvHolds, PTL

(***************************************************************************)
(* What the statistics print.                                              *)
(***************************************************************************)

\* What is given to a processor whose calls have two parts, it gets at the end.
LEMMA GivenSteps ==
  ASSUME Typed, UnderWay, HarNext \/ UNCHANGED harVars, NEW kind \in TwoParts
  PROVE  /\ ~(Calling(kind) /\ HarProcess) => Given(kind)' = Given(kind)
         /\ Calling(kind) /\ HarProcess /\ inside' = FALSE => Given(kind)' = Given(kind) \o har
         /\ Calling(kind) /\ HarProcess /\ inside' # FALSE => Given(kind)' = Given(kind)
<1>1. UNCHANGED vars => Given(kind)' = Given(kind)
  BY GivenStays DEF vars, exportVars
<1>2. ~HarProcess => Given(kind)' = Given(kind)
  BY OnlyCallsGive
<1>3. ASSUME NEW ok \in BOOLEAN, Call(ok), ~Calling(kind) PROVE Given(kind)' = Given(kind)
  BY <1>3, GivenCall
<1>4. ASSUME Call(TRUE), Calling(kind) PROVE Given(kind)' = Given(kind) \o har
  BY <1>4, GivenCall
<1> QED
  BY <1>1, <1>2, <1>3, <1>4, ProcessParts

\* TransactionsSizes: requests is ahead of responses by the har of a call under
\* way; a print has written the requests counted so far; and what it leaves in
\* the two files is of the same transactions, the first ones given.
SizesOf(n, m, given) ==
  n \in 0 .. Len(given) /\ m = n - Len(UnansweredIn(SubSeq(given, 1, n)))

FilesOf(requestsFile, responsesFile, given) ==
  \A n \in requestsFile, m \in responsesFile : SizesOf(n, m, given)

SizesInv ==
  /\ sizes.requests = Len(Received("transactions-sizes"))
  /\ sizes.responses = Len(Given("transactions-sizes"))
                         - Len(UnansweredIn(Given("transactions-sizes")))
  /\ ~sizes.failed /\ sizes.printing => sizes.requestsFile = {sizes.requests}
  /\ ~sizes.failed /\ ~sizes.printing =>
       FilesOf(sizes.requestsFile, sizes.responsesFile, Given("transactions-sizes"))

\* The first elements of a sequence stay when it is extended.
LEMMA FirstStay ==
  ASSUME NEW S, NEW s \in Seq(S), NEW t \in Seq(S), NEW n \in 0 .. Len(s)
  PROVE  SubSeq(s \o t, 1, n) = SubSeq(s, 1, n) /\ n \in 0 .. Len(s \o t)
<1>1. Len(s) \in Nat /\ Len(t) \in Nat
  BY LenProperties
<1>2. /\ s \o t \in Seq(S) /\ Len(s \o t) = Len(s) + Len(t)
      /\ \A i \in 1 .. Len(s) + Len(t) : (s \o t)[i] = IF i <= Len(s) THEN s[i] ELSE t[i - Len(s)]
  BY ConcatProperties
<1>3. \A i \in 1 .. n : (s \o t)[i] = s[i]
  BY <1>1, <1>2
<1>4. SubSeq(s \o t, 1, n) = [i \in 1 .. n |-> (s \o t)[i]]
  BY <1>1, <1>2
<1>5. SubSeq(s, 1, n) = [i \in 1 .. n |-> s[i]]
  BY <1>1
<1> QED
  BY <1>1, <1>2, <1>3, <1>4, <1>5

\* So what was printed stays true when more is given.
LEMMA SizesOfStays ==
  ASSUME NEW given \in Seq(Transaction), NEW h \in Seq(Transaction), NEW n, NEW m,
         SizesOf(n, m, given)
  PROVE  SizesOf(n, m, given \o h)
<1>1. n \in 0 .. Len(given)
  BY DEF SizesOf
<1>2. SubSeq(given \o h, 1, n) = SubSeq(given, 1, n) /\ n \in 0 .. Len(given \o h)
  BY <1>1, FirstStay
<1> QED
  BY <1>2 DEF SizesOf

\* The responses of two sequences.
LEMMA UnansweredConcat ==
  ASSUME NEW s \in Seq(Transaction), NEW t \in Seq(Transaction)
  PROVE  /\ Len(UnansweredIn(s)) \in Nat /\ Len(UnansweredIn(t)) \in Nat
         /\ Len(s) \in Nat /\ Len(t) \in Nat
         /\ Len(UnansweredIn(s \o t)) = Len(UnansweredIn(s)) + Len(UnansweredIn(t))
         /\ Len(s \o t) = Len(s) + Len(t)
<1>1. UnansweredIn(s) \in Seq(Transaction) /\ UnansweredIn(t) \in Seq(Transaction)
  BY AmongType DEF UnansweredIn
<1>2. UnansweredIn(s \o t) = UnansweredIn(s) \o UnansweredIn(t)
  <2>1. Among(s \o t, Unanswered) = Among(s, Unanswered) \o Among(t, Unanswered)
    BY AmongConcat
  <2> QED
    BY <2>1 DEF UnansweredIn
<1> QED
  BY <1>1, <1>2, LenProperties, ConcatProperties

\* SizesInv is preserved by every step.
LEMMA SizesStep ==
  ASSUME Typed, UnderWay, SizesInv, HarNext \/ UNCHANGED harVars
  PROVE  SizesInv'
<1> DEFINE kind == "transactions-sizes"
           given == Given(kind)
           received == Received(kind)
<1>1. kind \in TwoParts
  BY DEF TwoParts
<1>2. /\ given \in Seq(Transaction) /\ received \in Seq(Transaction) /\ har \in Seq(Transaction)
      /\ <<>> \in Seq(Transaction)
  BY <1>1, GivenType, ReceivedSteps, TypedFacts
<1>3. /\ SizesRecord /\ sizes.failed \in BOOLEAN /\ sizes.printing \in BOOLEAN
      /\ sizes.locked <=> sizes.printing \/ (inside /\ Calling(kind))
      /\ ~(sizes.printing /\ inside /\ Calling(kind))
  BY DEF UnderWay, SizesMutex, Counting
<1>4. /\ sizes.requests = Len(received)
      /\ sizes.responses = Len(given) - Len(UnansweredIn(given))
      /\ ~sizes.failed /\ sizes.printing => sizes.requestsFile = {sizes.requests}
      /\ ~sizes.failed /\ ~sizes.printing =>
           FilesOf(sizes.requestsFile, sizes.responsesFile, given)
  BY DEF SizesInv
<1>5. ASSUME sizes'.requests = Len(received'),
             sizes'.responses = Len(given') - Len(UnansweredIn(given')),
             ~sizes'.failed /\ sizes'.printing => sizes'.requestsFile = {sizes'.requests},
             ~sizes'.failed /\ ~sizes'.printing =>
               FilesOf(sizes'.requestsFile, sizes'.responsesFile, given')
      PROVE  SizesInv'
  BY <1>5 DEF SizesInv, FilesOf, SizesOf, UnansweredIn, Among
<1>6. ~(Calling(kind) /\ HarProcess) => given' = given /\ received' = received
  BY <1>1, GivenSteps, ReceivedSteps
<1>7. ~(inside /\ Calling(kind)) => received = given
  <2>1. ~(inside /\ Calling(kind)) => received = given \o <<>>
    BY DEF Received
  <2> QED
    BY <1>2, <2>1, ConcatEmptySeq
<1>8. CASE ~(Calling(kind) /\ HarProcess) /\ UNCHANGED sizes
  BY <1>4, <1>5, <1>6, <1>8
<1>9. CASE ~(Calling(kind) /\ HarProcess) /\ PrintRequests
  <2>1. /\ sizes'.printing = TRUE
        /\ sizes'.requests = sizes.requests /\ sizes'.responses = sizes.responses
        /\ ~sizes'.failed => sizes'.requestsFile = {sizes.requests}
    BY <1>3, <1>9, SizesSteps
  <2> HIDE DEF given, received
  <2> QED
    BY <1>4, <1>5, <1>6, <1>9, <2>1
<1>10. CASE ~(Calling(kind) /\ HarProcess) /\ PrintResponses
  <2>1. /\ sizes.printing /\ sizes'.printing = FALSE
        /\ sizes'.requests = sizes.requests /\ sizes'.responses = sizes.responses
        /\ sizes'.requestsFile = sizes.requestsFile
        /\ ~sizes'.failed => ~sizes.failed /\ sizes'.responsesFile = {sizes.responses}
    BY <1>3, <1>10, SizesSteps
  <2>2. sizes.requests = Len(given)
    BY <1>3, <1>4, <1>7, <2>1
  <2>3. SubSeq(given, 1, Len(given)) = given /\ Len(given) \in 0 .. Len(given)
    BY <1>2
  <2> HIDE DEF given, received
  <2>4. SizesOf(Len(given), sizes.responses, given)
    BY <1>4, <2>3 DEF SizesOf
  <2>5. ~sizes'.failed => FilesOf(sizes'.requestsFile, sizes'.responsesFile, given)
    BY <1>4, <2>1, <2>2, <2>4 DEF FilesOf
  <2> QED
    BY <1>4, <1>5, <1>6, <1>10, <2>1, <2>5
<1>11. CASE Calling(kind) /\ HarProcess
  <2>1. \/ ~inside /\ SizesRequests(har) /\ inside' = TRUE
        \/ inside /\ SizesResponses(har) /\ inside' = FALSE
    <3>1. \A k : Calling(k) => k = kind
      BY <1>11, OneCalled
    <3>2. SizesProcess
      BY <1>11, <3>1 DEF HarProcess, FileProcess, S3Process, SitesProcess, PeriodicCall, SampleProcess
    <3> QED
      BY <3>2 DEF SizesProcess
  <2>2. CASE ~inside /\ SizesRequests(har) /\ inside' = TRUE
    <3>1. /\ ~sizes.locked
          /\ sizes' = [sizes EXCEPT !.requests = @ + Len(har), !.locked = TRUE]
      BY <1>3, <2>2, SizesSteps
    <3>2. /\ sizes'.requests = sizes.requests + Len(har)
          /\ sizes'.responses = sizes.responses /\ sizes'.printing = sizes.printing
          /\ sizes'.failed = sizes.failed /\ sizes'.requestsFile = sizes.requestsFile
          /\ sizes'.responsesFile = sizes.responsesFile
      BY <1>3, <3>1 DEF SizesRecord
    <3>3. ~sizes.printing
      BY <1>3, <3>1
    <3>4. given' = given
      BY <1>1, <1>11, <2>2, GivenSteps
    <3>5. received' = received \o har
      BY <1>1, <1>11, <2>2, ReceivedSteps
    <3> HIDE DEF given, received
    <3>6. Len(received') = Len(received) + Len(har)
      BY <1>2, <3>5, ConcatProperties
    <3> QED
      BY <1>4, <1>5, <3>2, <3>3, <3>4, <3>6
  <2>3. CASE inside /\ SizesResponses(har) /\ inside' = FALSE
    <3>1. sizes' = [sizes EXCEPT !.responses = @ + Len(har) - Len(UnansweredIn(har)),
                                 !.locked = FALSE]
      BY <1>3, <2>3, SizesSteps
    <3>2. /\ sizes'.requests = sizes.requests /\ sizes'.printing = sizes.printing
          /\ sizes'.responses = sizes.responses + Len(har) - Len(UnansweredIn(har))
          /\ sizes'.failed = sizes.failed /\ sizes'.requestsFile = sizes.requestsFile
          /\ sizes'.responsesFile = sizes.responsesFile
      BY <1>3, <3>1 DEF SizesRecord
    <3>3. ~sizes.printing
      BY <1>3, <1>11, <2>3
    <3>4. given' = given \o har
      BY <1>1, <1>11, <2>3, GivenSteps
    <3>5. received' = received
      BY <1>1, <1>11, <2>3, ReceivedSteps
    <3> HIDE DEF given, received
    <3>6. /\ Len(UnansweredIn(given)) \in Nat /\ Len(UnansweredIn(har)) \in Nat
          /\ Len(given) \in Nat /\ Len(har) \in Nat
          /\ Len(UnansweredIn(given')) = Len(UnansweredIn(given)) + Len(UnansweredIn(har))
          /\ Len(given') = Len(given) + Len(har)
      BY <1>2, <3>4, UnansweredConcat
    <3>7. ~sizes.failed => FilesOf(sizes.requestsFile, sizes.responsesFile, given')
      BY <1>2, <1>4, <3>3, <3>4, SizesOfStays DEF FilesOf
    <3>8. sizes'.responses = Len(given') - Len(UnansweredIn(given'))
      BY <1>4, <3>2, <3>6
    <3> QED
      BY <1>4, <1>5, <3>2, <3>3, <3>5, <3>7, <3>8
  <2> QED
    BY <2>1, <2>2, <2>3
<1>12. ~(Calling(kind) /\ HarProcess) => UNCHANGED sizes \/ PrintRequests \/ PrintResponses
  <2>1. CASE ~HarProcess
    BY <2>1, OtherParts
  <2>2. CASE HarProcess /\ ~SizesProcess
    BY <2>2 DEF HarProcess, FileProcess, S3Process, SitesProcess, PeriodicCall, SampleProcess, statVars
  <2>3. CASE SizesProcess
    BY <2>3 DEF SizesProcess, HarProcess
  <2> QED
    BY <2>1, <2>2, <2>3
<1> QED
  BY <1>8, <1>9, <1>10, <1>11, <1>12

(***************************************************************************)
(* SitesStats: the total is the sum of the hosts, and of the har whose     *)
(* host is still to be counted.                                            *)
(***************************************************************************)
Fields == {"transactions", "withoutResponse"}
Totals == [Fields -> Nat]

FieldSum(hosts, f) == MapThenSumSet(LAMBDA k : hosts[k][f], DOMAIN hosts)

\* It is a sum.
LEMMA FieldSumIsSum ==
  ASSUME NEW hosts, IsFiniteSet(DOMAIN hosts), NEW f
  PROVE  FieldSum(hosts, f) = SumOver([k \in DOMAIN hosts |-> hosts[k][f]], DOMAIN hosts)
<1> DEFINE D == DOMAIN hosts
           v == [k \in D |-> hosts[k][f]]
           Q(g) == g = [T \in SUBSET D |->
                          IF T = {} THEN 0
                          ELSE LET x == CHOOSE x \in T : TRUE IN hosts[x][f] + g[T \ {x}]]
           s == CHOOSE g : Q(g)
<1>1. \A g : Q(g) <=> SumsOver(SUBSET D, v, g)
  <2> TAKE g
  <2>1. \A T \in SUBSET D : T # {} => Chosen(T) \in D
    BY DEF Chosen
  <2> HIDE DEF D
  <2>2. [T \in SUBSET D |->
           IF T = {} THEN 0
           ELSE LET x == CHOOSE x \in T : TRUE IN hosts[x][f] + g[T \ {x}]]
        = [T \in SUBSET D |->
             IF T = {} THEN 0 ELSE v[Chosen(T)] + g[T \ {Chosen(T)}]]
    BY <2>1 DEF Chosen
  <2> QED
    BY <2>2 DEF SumsOver
<1>2. FieldSum(hosts, f) = s[D]
  BY DEF FieldSum, MapThenSumSet, MapThenFoldSet
<1>3. IsFiniteSet(D)
  OBVIOUS
<1> HIDE DEF v, Q, D
<1>4. Q(s)
  BY <1>1, <1>3, SumsExist
<1> HIDE DEF s
<1>5. s[D] = SumOver(v, D)
  BY <1>1, <1>3, <1>4, SumIsLast
<1> QED
  BY <1>2, <1>5 DEF v, D

\* What a har adds to each field.
Counted(h) == [transactions |-> Len(h), withoutResponse |-> Len(UnansweredIn(h))]

\* Add adds that to each field of statistics.
LEMMA AddCounts ==
  ASSUME NEW h \in Seq(Transaction), NEW stats \in Totals
  PROVE  /\ Add(stats, h) \in Totals /\ Nothing \in Totals /\ Counted(h) \in Totals
         /\ \A f \in Fields : Nothing[f] = 0 /\ Add(stats, h)[f] = stats[f] + Counted(h)[f]
<1>1. Len(h) \in Nat /\ Len(UnansweredIn(h)) \in Nat
  BY UnansweredConcat
<1>2. stats["transactions"] \in Nat /\ stats["withoutResponse"] \in Nat
  BY DEF Totals, Fields
<1> DEFINE a == stats.transactions + Len(h)
           b == stats.withoutResponse + Len(UnansweredIn(h))
<1>3. a \in Nat /\ b \in Nat
  BY <1>1, <1>2
<1>4. Add(stats, h) = [transactions |-> a, withoutResponse |-> b]
  BY DEF Add
<1>5. /\ \A x, y \in Nat : [transactions |-> x, withoutResponse |-> y] \in Totals
  BY DEF Totals, Fields
<1>6. Add(stats, h) \in Totals
  <2> HIDE DEF a, b
  <2> QED
    BY <1>3, <1>4, <1>5
<1>7. Nothing \in Totals /\ Counted(h) \in Totals
  BY <1>1, <1>5 DEF Nothing, Counted
<1>8. \A f \in Fields : Nothing[f] = 0
  BY DEF Fields, Nothing
<1>9. \A f \in Fields : Add(stats, h)[f] = stats[f] + Counted(h)[f]
  BY <1>4 DEF Fields, Counted
<1> QED
  BY <1>6, <1>7, <1>8, <1>9

Hosts(hosts) == IsFiniteSet(DOMAIN hosts) /\ \A k \in DOMAIN hosts : hosts[k] \in Totals

\* A har counted for a host is added to the sums.
LEMMA HostCounts ==
  ASSUME NEW hosts, Hosts(hosts), NEW key, NEW h \in Seq(Transaction)
  PROVE  /\ Hosts(HostsWith(hosts, key, h))
         /\ \A f \in Fields : /\ FieldSum(hosts, f) \in Nat /\ Counted(h)[f] \in Nat
                              /\ FieldSum(HostsWith(hosts, key, h), f) =
                                   FieldSum(hosts, f) + Counted(h)[f]
<1> DEFINE new == HostsWith(hosts, key, h)
           D == DOMAIN hosts
           old == IF key \in D THEN hosts[key] ELSE Nothing
           a == Add(old, h)
<1>1. IsFiniteSet(D) /\ \A k \in D : hosts[k] \in Totals
  BY DEF Hosts
<1>2. Nothing \in Totals /\ Counted(h) \in Totals /\ \A f \in Fields : Nothing[f] = 0
  <2>1. [f \in Fields |-> 0] \in Totals
    BY DEF Totals
  <2> QED
    BY <2>1, AddCounts
<1>3. old \in Totals
  BY <1>1, <1>2
<1>4. a \in Totals /\ \A f \in Fields : a[f] = old[f] + Counted(h)[f]
  BY <1>3, AddCounts
<1>5. DOMAIN new = {key} \union D /\ \A k \in {key} \union D : new[k] = IF k = key THEN a ELSE hosts[k]
  BY DEF HostsWith
<1> HIDE DEF a, new
<1>6. IsFiniteSet({key} \union D)
  <2>1. IsFiniteSet(D \union {key}) /\ D \union {key} = {key} \union D
    BY <1>1, FS_AddElement
  <2> QED
    BY <2>1
<1>7. Hosts(new)
  BY <1>1, <1>4, <1>5, <1>6 DEF Hosts
<1>8. ASSUME NEW f \in Fields
      PROVE  /\ FieldSum(hosts, f) \in Nat /\ Counted(h)[f] \in Nat
             /\ FieldSum(new, f) = FieldSum(hosts, f) + Counted(h)[f]
  <2> DEFINE E == {key} \union D
             v == [k \in D |-> hosts[k][f]]
             w == [k \in E |-> new[k][f]]
  <2>1. FieldSum(hosts, f) = SumOver(v, D)
    BY <1>1, FieldSumIsSum
  <2>2. FieldSum(new, f) = SumOver(w, E)
    <3>1. IsFiniteSet(DOMAIN new) /\ DOMAIN new = E
      BY <1>5, <1>6
    <3>2. FieldSum(new, f) = SumOver([k \in DOMAIN new |-> new[k][f]], DOMAIN new)
      BY <3>1, FieldSumIsSum
    <3> QED
      BY <3>1, <3>2
  <2>3. \A k \in D : v[k] \in Nat
    BY <1>1 DEF Totals
  <2>4. Counted(h)[f] \in Nat /\ a[f] \in Nat /\ old[f] \in Nat
    BY <1>2, <1>3, <1>4 DEF Totals
  <2>5. \A k \in D \ {key} : w[k] = v[k]
    BY <1>5
  <2>6. w[key] = a[f]
    BY <1>5
  <2>7. key \in D => old[f] = v[key]
    OBVIOUS
  <2>8. key \notin D => old[f] = 0
    BY <1>2
  <2>9. a[f] = old[f] + Counted(h)[f]
    BY <1>4
  <2> HIDE DEF v, w, D, E, old
  <2>10. SumOver(v, D) \in Nat
    BY <1>1, <2>3, SumType
  <2>11. CASE key \in D
    <3>1. E = D
      BY <2>11 DEF E
    <3>2. SumOver(w, D) = SumOver(v, D) + Counted(h)[f]
      <4> DEFINE d == Counted(h)[f]
      <4>1. w[key] = v[key] + d /\ d \in Nat /\ w[key] \in Nat
        BY <2>4, <2>6, <2>7, <2>9, <2>11
      <4> HIDE DEF d
      <4>2. SumOver(w, D) = SumOver(v, D) + d
        BY <1>1, <2>3, <2>5, <2>11, <4>1, SumChanged
      <4> QED
        BY <4>2 DEF d
    <3> QED
      BY <2>1, <2>2, <2>4, <2>10, <3>1, <3>2
  <2>12. CASE key \notin D
    <3>1. E = D \union {key}
      BY DEF E
    <3>2. w[key] = Counted(h)[f]
      BY <2>4, <2>6, <2>8, <2>9, <2>12
    <3>3. \A k \in D : w[k] = v[k]
      BY <2>5, <2>12
    <3>4. SumOver(w, D) = SumOver(v, D)
      BY <1>1, <3>3, SumSame
    <3>5. \A k \in D \union {key} : w[k] \in Nat
      BY <2>3, <2>4, <3>2, <3>3
    <3>6. SumOver(w, D \union {key}) = SumOver(w, D) + w[key]
      BY <1>1, <2>12, <3>5, SumMore
    <3> QED
      BY <2>1, <2>2, <2>4, <2>10, <3>1, <3>2, <3>4, <3>6
  <2> QED
    BY <2>11, <2>12
<1> QED
  BY <1>7, <1>8 DEF new

FilesAddUp(written) ==
  \A file \in written, f \in Fields : file.total[f] = FieldSum(file.hosts, f)

Uncounted(f) == IF sites.locked THEN Counted(har)[f] ELSE 0

SitesInv ==
  /\ sites.total \in Totals /\ Hosts(sites.hosts)
  /\ setting.splitByAppId =>
       /\ \A f \in Fields : sites.total[f] = FieldSum(sites.hosts, f) + Uncounted(f)
       /\ FilesAddUp(sites.file)

\* What SitesInv says of the next state.
LEMMA SitesInvNext ==
  ASSUME NEW total \in Totals, NEW hosts, Hosts(hosts), NEW written, NEW rest,
         sites'.total = total, sites'.hosts = hosts, sites'.file = written,
         \A f \in Fields : Uncounted(f)' = rest[f],
         setting' = setting,
         setting.splitByAppId =>
           /\ \A f \in Fields : total[f] = FieldSum(hosts, f) + rest[f]
           /\ FilesAddUp(written)
  PROVE  SitesInv'
<1>1. Hosts(sites.hosts)'
  BY DEF Hosts
<1>2. \A f : FieldSum(sites.hosts, f)' = FieldSum(hosts, f)
  BY DEF FieldSum, MapThenSumSet, MapThenFoldSet
<1>3. FilesAddUp(sites.file)' <=> FilesAddUp(written)
  BY DEF FilesAddUp, FieldSum, MapThenSumSet, MapThenFoldSet
<1>4. \A f \in Fields : sites'.total[f] = total[f]
  OBVIOUS
<1>5. setting'.splitByAppId =>
        /\ \A f \in Fields : sites'.total[f] = FieldSum(sites.hosts, f)' + Uncounted(f)'
        /\ FilesAddUp(sites.file)'
  BY <1>2, <1>3, <1>4
<1> HIDE DEF Uncounted, FieldSum, FilesAddUp, Hosts
<1> QED
  BY <1>1, <1>5 DEF SitesInv

\* SitesInv is preserved by every step.
LEMMA SitesStep ==
  ASSUME Typed, UnderWay, SitesInv, HarNext \/ UNCHANGED harVars
  PROVE  SitesInv'
<1> DEFINE kind == "sites-stats"
           total == sites.total
           hosts == sites.hosts
           none == [f \in Fields |-> 0]
           some == Counted(har)
<1>1. /\ har \in Seq(Transaction) /\ SitesRecord /\ total \in Totals /\ Hosts(hosts)
      /\ setting.splitByAppId =>
           /\ \A f \in Fields : total[f] = FieldSum(hosts, f) + Uncounted(f)
           /\ FilesAddUp(sites.file)
  BY TypedFacts DEF UnderWay, SitesInv
<1>2. setting' = setting
  <2>1. [Next]_vars
    BY HarStepIsStep DEF harVars
  <2> QED
    BY <2>1, TypedInductive, StepKeepsWay
<1>3. sites.locked <=> inside /\ Calling(kind)
  BY DEF UnderWay
<1>4. /\ ~sites.locked => \A f \in Fields : Uncounted(f) = none[f]
      /\ sites.locked => \A f \in Fields : Uncounted(f) = some[f]
  BY DEF Uncounted
<1>5. /\ ~sites'.locked => \A f \in Fields : Uncounted(f)' = none[f]
      /\ sites'.locked /\ har' = har => \A f \in Fields : Uncounted(f)' = some[f]
  BY DEF Uncounted, Counted, UnansweredIn, Among
<1>6. some \in Totals /\ \A f \in Fields : /\ FieldSum(hosts, f) \in Nat /\ some[f] \in Nat
                                           /\ none[f] = 0
  <2>2. \A f \in Fields : FieldSum(hosts, f) \in Nat /\ some[f] \in Nat
    <3> HIDE DEF hosts, some
    <3> QED
      BY <1>1, HostCounts DEF some
  <2>3. some \in Totals
    BY <1>1, AddCounts
  <2> QED
    BY <2>2, <2>3
<1> HIDE DEF total, hosts, none, some
<1>7. CASE UNCHANGED sites /\ ~(HarProcess /\ Calling(kind))
  <2>1. sites'.locked = sites.locked /\ sites'.total = total /\ sites'.hosts = hosts
        /\ sites'.file = sites.file
    BY <1>7 DEF total, hosts
  <2>2. sites.locked => har' = har
    BY <1>3, <1>7, CallingStays, OneCalled
  <2>3. CASE sites.locked
    <3>1. \A f \in Fields : Uncounted(f)' = some[f]
      BY <1>5, <2>1, <2>2, <2>3
    <3> QED
      BY <1>1, <1>2, <1>4, <2>1, <2>3, <3>1, SitesInvNext
  <2>4. CASE ~sites.locked
    <3>1. \A f \in Fields : Uncounted(f)' = none[f]
      BY <1>5, <2>1, <2>4
    <3> QED
      BY <1>1, <1>2, <1>4, <2>1, <2>4, <3>1, SitesInvNext
  <2> QED
    BY <2>3, <2>4
<1>8. CASE SitesPrint
  <2> DEFINE printed == [total |-> total, hosts |-> hosts]
             written == sites'.file
  <2>1. /\ ~sites.locked /\ sites'.locked = sites.locked
        /\ sites'.total = total /\ sites'.hosts = hosts
        /\ sites'.file \in {sites.file, NoFile, {printed}}
    BY <1>1, <1>8, SitesSteps DEF total, hosts
  <2>2. \A f \in Fields : Uncounted(f)' = none[f]
    BY <1>5, <2>1
  <2>3. setting.splitByAppId => \A f \in Fields : total[f] = FieldSum(hosts, f) + none[f]
    BY <1>1, <1>4, <2>1
  <2>4. printed.total = total /\ printed.hosts = hosts
    OBVIOUS
  <2> HIDE DEF printed
  <2>5. setting.splitByAppId => FilesAddUp(written)
    <3>1. setting.splitByAppId => \A f \in Fields : total[f] = FieldSum(hosts, f)
      BY <1>6, <2>3
    <3>2. setting.splitByAppId => FilesAddUp({printed})
      BY <2>4, <3>1 DEF FilesAddUp
    <3>3. FilesAddUp(NoFile)
      BY DEF FilesAddUp, NoFile
    <3> QED
      BY <1>1, <2>1, <3>2, <3>3
  <2> HIDE DEF written
  <2>6. /\ total \in Totals /\ Hosts(hosts)
        /\ sites'.total = total /\ sites'.hosts = hosts /\ sites'.file = written
        /\ setting' = setting
    BY <1>1, <1>2, <2>1 DEF written
  <2> QED
    BY ONLY <2>2, <2>3, <2>5, <2>6, SitesInvNext
<1>9. CASE HarProcess /\ Calling(kind)
  <2>1. \/ ~inside /\ SitesTotal(har) /\ UNCHANGED vars
        \/ inside /\ SitesHost(FirstAppId, har, setting.splitByAppId)
    <3>1. \A k : Calling(k) => k = kind
      BY <1>9, OneCalled
    <3>2. SitesProcess
      BY <1>9, <3>1 DEF HarProcess, FileProcess, S3Process, SizesProcess, PeriodicCall, SampleProcess
    <3> QED
      BY <3>2 DEF SitesProcess
  <2>2. CASE SitesTotal(har) /\ UNCHANGED vars
    <3>1. /\ ~sites.locked /\ sites'.locked = TRUE
          /\ sites'.total = Add(total, har) /\ sites'.hosts = hosts /\ sites'.file = sites.file
      BY <1>1, <2>2, SitesSteps DEF total, hosts
    <3>2. har' = har
      BY <2>2 DEF vars, exportVars
    <3>3. \A f \in Fields : Uncounted(f)' = some[f]
      BY <1>5, <3>1, <3>2
    <3>4. /\ Add(total, har) \in Totals
          /\ \A f \in Fields : Add(total, har)[f] = total[f] + some[f]
      BY <1>1, AddCounts DEF some
    <3>5. setting.splitByAppId =>
            \A f \in Fields : Add(total, har)[f] = FieldSum(hosts, f) + some[f]
      BY <1>1, <1>4, <1>6, <3>1, <3>4
    <3> DEFINE new == Add(total, har)
    <3> HIDE DEF new
    <3>6. new \in Totals /\ sites'.total = new
          /\ (setting.splitByAppId => \A f \in Fields : new[f] = FieldSum(hosts, f) + some[f])
      BY <3>1, <3>4, <3>5 DEF new
    <3> QED
      BY <1>1, <1>2, <3>1, <3>3, <3>6, SitesInvNext
  <2>3. CASE inside /\ SitesHost(FirstAppId, har, setting.splitByAppId)
    <3> DEFINE key == FirstAppId
               split == setting.splitByAppId
               new == HostsWith(hosts, key, har)
    <3>0. /\ sites.locked /\ sites'.locked = FALSE
          /\ sites'.total = sites.total /\ sites'.file = sites.file
          /\ sites'.hosts = IF setting.splitByAppId THEN HostsWith(sites.hosts, FirstAppId, har)
                                                    ELSE sites.hosts
      <4>1. SitesRecord
        BY <1>1
      <4> QED
        BY ONLY <2>3, <4>1 DEF SitesHost, SitesRecord, HostsWith, HostStats
    <3>1. /\ sites.locked /\ sites'.locked = FALSE
          /\ sites'.total = total /\ sites'.file = sites.file
          /\ sites'.hosts = IF split THEN new ELSE hosts
      BY <3>0 DEF total, hosts
    <3> HIDE DEF key, split
    <3>3. split <=> setting.splitByAppId
      BY DEF split
    <3>2. \A f \in Fields : Uncounted(f)' = none[f]
      BY <1>5, <3>1
    <3> HIDE DEF new
    <3>4. /\ Hosts(new)
          /\ \A f \in Fields : FieldSum(new, f) = FieldSum(hosts, f) + some[f]
      BY <1>1, HostCounts DEF some, new
    <3>5. CASE setting.splitByAppId
      <4>1. \A f \in Fields : total[f] = FieldSum(new, f) + none[f]
        <5>1. \A f \in Fields : total[f] = FieldSum(hosts, f) + some[f]
          BY <1>1, <1>4, <3>1, <3>5
        <5> QED
          BY <1>6, <3>4, <5>1
      <4> QED
        BY <1>1, <1>2, <3>1, <3>2, <3>3, <3>4, <3>5, <4>1, SitesInvNext
    <3>6. CASE ~setting.splitByAppId
      BY <1>1, <1>2, <1>4, <3>1, <3>2, <3>3, <3>6, SitesInvNext
    <3> QED
      BY <3>5, <3>6
  <2> QED
    BY <2>1, <2>2, <2>3
<1>10. ~(HarProcess /\ Calling(kind)) => UNCHANGED sites \/ SitesPrint
  <2>1. CASE ~HarProcess
    BY <2>1, OtherParts
  <2>2. CASE HarProcess /\ ~SitesProcess
    BY <2>2 DEF HarProcess, FileProcess, S3Process, SizesProcess, PeriodicCall, SampleProcess, statVars
  <2>3. CASE SitesProcess
    BY <2>3 DEF SitesProcess, HarProcess
  <2> QED
    BY <2>1, <2>2, <2>3
<1> QED
  BY <1>7, <1>8, <1>9, <1>10

(***************************************************************************)
(* Together.                                                               *)
(***************************************************************************)
PrintedInv == SitesInv /\ SizesInv

\* PrintedInv holds initially.
LEMMA PrintedInit == HarInit => PrintedInv
<1> SUFFICES ASSUME HarInit PROVE PrintedInv
  OBVIOUS
<1>1. /\ sites = [total |-> Nothing, hosts |-> <<>>, locked |-> FALSE, file |-> NoFile]
      /\ sizes = [requests |-> 0, responses |-> 0, locked |-> FALSE, printing |-> FALSE,
                  requestsFile |-> NoFile, responsesFile |-> NoFile, failed |-> FALSE]
      /\ delivered = [p \in DOMAIN Processors |-> <<>>] /\ setting \in Settings
      /\ inside = FALSE
  BY DEF HarInit, StatInit, Init
<1>2. /\ sites.total = Nothing /\ sites.hosts = <<>> /\ sites.locked = FALSE /\ sites.file = {}
      /\ sizes.requests = 0 /\ sizes.responses = 0 /\ sizes.requestsFile = {}
      /\ sizes.printing = FALSE
  BY <1>1 DEF NoFile
<1>3. Given("transactions-sizes") = <<>>
  <2>1. Used("transactions-sizes") => delivered[IndexOfKind("transactions-sizes")] = <<>>
    BY <1>1, UsedKind
  <2> QED
    BY <2>1 DEF Given, Numbers
<1>4. SizesInv
  <2>1. Received("transactions-sizes") = <<>>
    BY <1>1, <1>3 DEF Received
  <2>2. UnansweredIn(<<>>) = <<>>
    BY AmongEmpty DEF UnansweredIn
  <2> QED
    BY <1>2, <1>3, <2>1, <2>2 DEF SizesInv, FilesOf
<1>5. SitesInv
  <2>1. Hosts(<<>>) /\ Nothing \in Totals
    <3>1. IsFiniteSet(DOMAIN <<>>) /\ DOMAIN <<>> = {}
      BY FS_EmptySet
    <3> QED
      BY <3>1 DEF Hosts, Nothing, Totals, Fields
  <2>2. \A f \in Fields : FieldSum(<<>>, f) = 0
    <3>1. IsFiniteSet(DOMAIN <<>>) /\ DOMAIN <<>> = {}
      BY FS_EmptySet
    <3> QED
      BY <3>1, FieldSumIsSum, SumEmpty
  <2>3. \A f \in Fields : Nothing[f] = 0 /\ Uncounted(f) = 0
    BY <1>2 DEF Fields, Nothing, Uncounted
  <2> QED
    BY <1>2, <2>1, <2>2, <2>3 DEF SitesInv, FilesAddUp
<1> QED
  BY <1>4, <1>5 DEF PrintedInv

\* What stands in the CSV files adds up although they are printed next to the
\* counting and every write may fail: the total of sites-stats.csv is the sum of
\* its hosts, and after a print without errors requests.csv and responses.csv are
\* of the same transactions.
THEOREM StatisticsAddUp == HarSpec => []PrintedAddsUp
<1>1. ExporterInv /\ HeldInv /\ PrintedInv /\ [HarNext]_harVars => PrintedInv'
  <2> SUFFICES ASSUME ExporterInv, HeldInv, PrintedInv, [HarNext]_harVars PROVE PrintedInv'
    OBVIOUS
  <2>1. Typed /\ UnderWay
    BY DEF ExporterInv, HeldInv
  <2> QED
    BY <2>1, SitesStep, SizesStep DEF PrintedInv
<1>2. ExporterInv /\ PrintedInv => PrintedAddsUp
  <2> SUFFICES ASSUME ExporterInv, PrintedInv PROVE PrintedAddsUp
    OBVIOUS
  <2> DEFINE given == Given("transactions-sizes")
             counted == given \o IF inside /\ Calling("transactions-sizes") THEN har ELSE <<>>
  <2>1. setting.splitByAppId => SitesAddUp
    BY DEF PrintedInv, SitesInv, SitesAddUp, FilesAddUp, FieldSum, Fields
  <2>2. given \in Seq(Transaction) /\ har \in Seq(Transaction) /\ <<>> \in Seq(Transaction)
    BY GivenType, TypedFacts DEF ExporterInv
  <2>3. ASSUME ~sizes.printing, ~sizes.failed,
               NEW n \in sizes.requestsFile, NEW m \in sizes.responsesFile
        PROVE  m = n - Len(UnansweredIn(SubSeq(counted, 1, n)))
    <3>1. SizesOf(n, m, given)
      BY <2>3 DEF PrintedInv, SizesInv, FilesOf
    <3>2. PICK h \in Seq(Transaction) : counted = given \o h
      BY <2>2
    <3>3. SizesOf(n, m, given \o h)
      BY <2>2, <3>1, SizesOfStays
    <3> QED
      BY <3>2, <3>3 DEF SizesOf
  <2> QED
    BY <2>1, <2>3 DEF PrintedAddsUp, SizesAddUp
<1> QED
  BY <1>1, <1>2, PrintedInit, ExporterInvHolds, HeldInvHolds, PTL DEF HarSpec

(***************************************************************************)
(* The files.  Every second before this one has a file; and where names    *)
(* are told apart no file of this second has the name of one to come.      *)
(***************************************************************************)
Dated ==
  /\ IsFiniteSet(files) /\ second \in Nat
  /\ \A f \in files : f.second \in 0 .. second
  /\ \A s \in 0 .. second - 1 : \E f \in files : f.second = s

\* The names of the files of a cycle differ.
NamesDiffer ==
  /\ Used("file") /\ setting.paced
  /\ SplitByHost => setting.splitByAppId /\ ~AfterS3(IndexOfKind("file"))

\* The file of the har in work, while it is not written.
Unwritten == proc # 0 /\ proc <= IndexOfKind("file")

NameFree(f) ==
  IF SplitByHost
  THEN /\ f.prefix \notin AppsIn(toExport)
       /\ Unwritten => f.prefix # AppId[Head(har)]
  ELSE toExport = <<>> /\ ~Unwritten

NamesFree ==
  NamesDiffer /\ pc["export"] = "dump" => \A f \in files : f.second = second => NameFree(f)

InFiles(data) == ToSet(data) \subseteq UNION {ToSet(f.har) : f \in files}

FilesInv ==
  /\ Dated /\ NamesFree
  /\ ~SplitByHost /\ proc # 0 => toExport = <<>>
  /\ NamesDiffer => InFiles(Given("file"))

\* What a step may do to the files, to the clock and to the cycle.
LEMMA FileSteps ==
  ASSUME Typed, UnderWay, HarNext \/ UNCHANGED harVars
  PROVE  \/ FileProcess
         \/ Clock
         \/ HarTick
         \/ /\ files' = files /\ second' = second
            /\ \/ NextHar
               \/ pc'["export"] # "dump" /\ proc' = 0
               \/ (\E ok \in BOOLEAN : Call(ok)) /\ ~Calling("file")
               \/ UNCHANGED <<toExport, har, proc>> /\ pc'["export"] = pc["export"]
<1>0. /\ pc \in [Goroutine -> {"loop", "select", "append", "dump", "done"}]
      /\ "aggregate" \in Goroutine /\ "export" \in Goroutine
      /\ pc["export"] # "dump" => proc = 0
  BY TypedFacts DEF Typed, Shape, Goroutine
<1>1. CASE HarProcess /\ ~FileProcess
  <2>1. UNCHANGED <<files, second>>
    BY <1>1 DEF HarProcess, S3Process, SitesProcess, SizesProcess, PeriodicCall, SampleProcess
  <2>2. ~Calling("file")
    <3>1. PICK k \in {"s3", "sites-stats", "transactions-sizes", "cw-sites-stats",
                      "sampled-transactions"} : Calling(k)
      BY <1>1 DEF HarProcess, S3Process, SitesProcess, SizesProcess, PeriodicCall, SampleProcess
    <3> QED
      BY <3>1, OneCalled
  <2>3. UNCHANGED vars \/ \E ok \in BOOLEAN : Call(ok)
    BY <1>1, ProcessParts
  <2>4. UNCHANGED vars => UNCHANGED <<toExport, har, proc>> /\ pc'["export"] = pc["export"]
    BY DEF vars, exportVars
  <2> QED
    BY <2>1, <2>2, <2>3, <2>4
<1>2. CASE UNCHANGED harVars
  BY <1>2 DEF harVars, procVars, vars, exportVars
<1>3. CASE (Queue /\ UNCHANGED procVars) \/ HarStop
  BY <1>3 DEF Queue, HarStop, StopSend, StopReturn, exportVars, procVars
<1>4. CASE HarAggregateStep
  <2>1. UNCHANGED exportVars /\ UNCHANGED procVars /\ \E w : pc' = [pc EXCEPT !["aggregate"] = w]
    BY <1>4 DEF HarAggregateStep, AggregateStep, LoopCheck, TakeStop, Receive,
                AppendTransaction
  <2> QED
    BY <1>0, <2>1 DEF exportVars, procVars
<1>5. CASE HarExportStep /\ ~HarProcess /\ ~HarTick
  <2>1. CASE NextHar /\ UNCHANGED procVars
    BY <2>1 DEF procVars
  <2>2. CASE (LoopCheck("export") \/ TakeStop("export") \/ DumpDone) /\ UNCHANGED procVars
    <3>1. /\ pc'["export"] # "dump" /\ proc = 0 /\ proc' = proc
      BY <1>0, <2>2 DEF LoopCheck, TakeStop, DumpDone, exportVars
    <3> QED
      BY <2>2, <3>1 DEF procVars
  <2> QED
    BY <1>5, <2>1, <2>2 DEF HarExportStep, HarTakeStop
<1>6. CASE S3Timer \/ SitesTimer \/ SizesTimer \/ PeriodicTimer \/ SampleTimer \/ AggregatedTimer
  <2>1. UNCHANGED vars /\ UNCHANGED <<files, second>>
    BY <1>6 DEF S3Timer, SitesTimer, SizesTimer, PeriodicTimer, SampleTimer, AggregatedTimer
  <2> QED
    BY <2>1 DEF vars, exportVars
<1> QED
  BY <1>1, <1>2, <1>3, <1>4, <1>5, <1>6 DEF HarNext, HarExportStep

\* A file that is written is dated; it may replace another of its second.
LEMMA DatedStep ==
  ASSUME Typed, UnderWay, Dated, HarNext \/ UNCHANGED harVars
  PROVE  Dated'
<1>1. /\ IsFiniteSet(files) /\ second \in Nat
      /\ \A f \in files : f.second \in 0 .. second
      /\ \A s \in 0 .. second - 1 : \E f \in files : f.second = s
  BY DEF Dated
<1>2. CASE files' = files /\ second' = second
  BY <1>2 DEF Dated
<1>3. CASE Clock
  <2>1. /\ files' = files /\ second' = second + 1
        /\ \E f \in files : f.second = second
    BY <1>3 DEF Clock
  <2>2. \A s \in 0 .. second : s = second \/ s \in 0 .. second - 1
    BY <1>1
  <2>3. /\ second' \in Nat /\ \A f \in files' : f.second \in 0 .. second'
    BY <1>1, <2>1
  <2>4. \A s \in 0 .. second' - 1 : \E f \in files' : f.second = s
    BY <1>1, <2>1, <2>2
  <2> QED
    BY <1>1, <2>1, <2>3, <2>4 DEF Dated
<1>4. CASE FileProcess /\ files' # files
  <2>1. PICK data : files' = WriteFile(data)
    BY <1>4 DEF FileProcess
  <2>2. second' = second
    BY <1>4 DEF FileProcess
  <2> DEFINE new == [prefix |-> Prefix, second |-> second, har |-> data]
             others == {f \in files : f.prefix # Prefix \/ f.second # second}
  <2>3. files' = others \union {new} /\ new.second = second
    BY <2>1 DEF WriteFile
  <2> HIDE DEF new
  <2>4. IsFiniteSet(others)
    BY <1>1, FS_Subset
  <2>5. \A f \in files : f.second # second => f \in files'
    BY <2>3
  <2>6. others \subseteq files
    OBVIOUS
  <2> HIDE DEF others
  <2>7. IsFiniteSet(files')
    BY <2>3, <2>4, FS_AddElement
  <2>8. \A f \in files' : f.second \in 0 .. second
    BY <1>1, <2>3, <2>6
  <2>9. \A s \in 0 .. second - 1 : \E f \in files' : f.second = s
    <3>1. \A s \in 0 .. second - 1 : s # second
      BY <1>1
    <3> QED
      BY <1>1, <2>5, <3>1
  <2> QED
    BY <1>1, <2>2, <2>7, <2>8, <2>9 DEF Dated
<1>5. CASE HarTick
  BY <1>2, <1>5 DEF HarTick
<1>6. CASE FileProcess /\ files' = files
  BY <1>2, <1>6 DEF FileProcess
<1> QED
  BY <1>2, <1>3, <1>4, <1>5, <1>6, FileSteps

\* Where names differ, the file that is written replaces none.
LEMMA WriteAdds ==
  ASSUME ExporterInv, FilesInv, NamesDiffer, Calling("file"), NEW data
  PROVE  /\ WriteFile(data) =
              files \union {[prefix |-> Prefix, second |-> second, har |-> data]}
         /\ SplitByHost => Prefix = AppId[Head(har)] /\ Head(har) \in ToSet(har)
         /\ proc = IndexOfKind("file") /\ proc \in DOMAIN Processors
<1>1. Typed /\ Apart /\ EntriesNotEmpty
  BY DEF ExporterInv
<1>2. /\ setting \in Settings /\ proc \in 0 .. Len(Processors)
      /\ Len(Processors) \in Nat /\ DOMAIN Processors = 1 .. Len(Processors)
  BY <1>1, TypedFacts, SettingFacts
<1>3. proc # 0 /\ pc["export"] = "dump" /\ proc \in DOMAIN Processors /\ Processors[proc] = "file"
  BY <1>2 DEF Calling
<1>4. proc = IndexOfKind("file")
  BY <1>2, <1>3, KindIsOne
<1>5. Unwritten
  BY <1>2, <1>3, <1>4 DEF Unwritten
<1>6. SplitByHost => Prefix = AppId[Head(har)] /\ Head(har) \in ToSet(har)
  <2>1. SplitByHost => har # <<>> /\ ~AfterS3(proc) /\ setting.splitByAppId
    BY <1>1, <1>3, <1>4 DEF EntriesNotEmpty, NamesDiffer
  <2> QED
    BY <1>1, <1>3, <2>1, FirstIdSeen DEF Prefix
<1>7. ASSUME NEW f \in files, f.prefix = Prefix, f.second = second PROVE FALSE
  <2>1. NameFree(f)
    BY <1>3, <1>7 DEF FilesInv, NamesFree
  <2> QED
    BY <1>5, <1>6, <1>7, <2>1 DEF NameFree
<1> QED
  BY <1>3, <1>4, <1>6, <1>7 DEF WriteFile

\* The names stay free, in the cycle and over the call that writes a file.
LEMMA NamesStep ==
  ASSUME ExporterInv, ExporterInv', HeldInv, FilesInv, HarNext \/ UNCHANGED harVars
  PROVE  NamesFree' /\ (~SplitByHost' /\ proc' # 0 => toExport' = <<>>)
<1> DEFINE p == IndexOfKind("file")
<1>1. /\ Typed /\ UnderWay /\ Grouped /\ Dated
      /\ ~SplitByHost /\ proc # 0 => toExport = <<>>
      /\ proc' \in 0 .. Len(Processors') /\ proc \in 0 .. Len(Processors)
      /\ setting \in Settings
  BY TypedFacts DEF ExporterInv, HeldInv, FilesInv, Typed, TypeOK
<1>2. /\ setting' = setting /\ SplitByHost' = SplitByHost /\ Processors' = Processors
      /\ p' = p /\ (NamesDiffer' <=> NamesDiffer)
      /\ AppsIn(toExport)' = AppsIn(toExport')
  <2>1. [Next]_vars
    BY HarStepIsStep DEF harVars
  <2>2. setting' = setting
    BY <2>1, StepKeepsWay DEF ExporterInv
  <2> QED
    BY <2>2, AppsInNext DEF SplitByHost, Processors, IndexOfKind, NamesDiffer, Used, AfterS3
<1>3. NamesDiffer => p \in DOMAIN Processors
  BY <1>1, UsedKind DEF NamesDiffer
<1>4. \A f : NameFree(f)' <=>
        IF SplitByHost
        THEN /\ f.prefix \notin AppsIn(toExport')
             /\ proc' # 0 /\ proc' <= p => f.prefix # AppId[Head(har')]
        ELSE toExport' = <<>> /\ ~(proc' # 0 /\ proc' <= p)
  BY <1>2 DEF NameFree, Unwritten
<1>5. \A f : NameFree(f) <=>
        IF SplitByHost
        THEN /\ f.prefix \notin AppsIn(toExport)
             /\ proc # 0 /\ proc <= p => f.prefix # AppId[Head(har)]
        ELSE toExport = <<>> /\ ~(proc # 0 /\ proc <= p)
  BY DEF NameFree, Unwritten
<1>6. NamesDiffer /\ pc["export"] = "dump" => \A f \in files : f.second = second => NameFree(f)
  BY DEF FilesInv, NamesFree
<1>7. ASSUME NamesDiffer /\ pc'["export"] = "dump" => \A f \in files' : f.second = second' => NameFree(f)'
      PROVE  NamesFree'
  BY <1>2, <1>7 DEF NamesFree
<1>8. /\ Len(Processors) \in Nat /\ DOMAIN Processors = 1 .. Len(Processors)
  BY <1>1, SettingFacts
<1> HIDE DEF p
<1>9. CASE Clock
  <2>1. \A f \in files' : f.second # second'
    BY <1>1, <1>9 DEF Clock, Dated
  <2>2. UNCHANGED <<toExport, proc>>
    BY <1>9 DEF Clock, vars, exportVars
  <2> QED
    BY <1>1, <1>2, <1>7, <2>1, <2>2
<1>10. CASE HarTick
  <2>1. NamesDiffer => \A f \in files' : f.second # second'
    BY <1>1, <1>10 DEF HarTick, NamesDiffer, Dated
  <2>2. proc' = 0
    BY <1>1, <1>10 DEF HarTick, Tick, Typed, Shape
  <2> QED
    BY <1>7, <2>1, <2>2
<1>11. CASE files' = files /\ second' = second /\ NextHar
  <2>1. proc = 0 /\ pc["export"] = "dump"
    BY <1>1, <1>11, NextHarFacts
  <2>2. CASE SplitByHost
    <3>1. PICK a \in AppsIn(toExport) :
            /\ \A t \in ToSet(har') : AppId[t] = a
            /\ AppsIn(toExport') \subseteq AppsIn(toExport)
      BY <1>1, <1>11, <2>2, NextHarGroups
    <3>2. har' # <<>> /\ har' \in Seq(Transaction)
      BY <1>1, <1>2, <1>11, <2>2, NextHarFacts DEF ExporterInv, EntriesNotEmpty
    <3>3. AppId[Head(har')] = a
      BY <3>1, <3>2, ToSetTail
    <3>4. NamesDiffer => \A f \in files : f.second = second => f.prefix \notin AppsIn(toExport)
      BY <1>5, <1>6, <2>1, <2>2
    <3>5. NamesDiffer => \A f \in files' : f.second = second' => NameFree(f)'
      BY <1>4, <1>11, <2>2, <3>1, <3>3, <3>4
    <3> QED
      BY <1>2, <1>7, <2>2, <3>5
  <2>3. CASE ~SplitByHost
    <3>1. toExport # <<>> /\ toExport' = <<>>
      BY <1>1, <1>11, <2>3, NextHarFacts
    <3>2. NamesDiffer => \A f \in files : f.second # second
      BY <1>5, <1>6, <2>1, <2>3, <3>1
    <3> QED
      BY <1>7, <1>11, <3>1, <3>2
  <2> QED
    BY <2>2, <2>3
<1>12. CASE pc'["export"] # "dump" /\ proc' = 0
  BY <1>7, <1>12
<1>13. CASE /\ files' = files /\ second' = second
            /\ UNCHANGED <<toExport, har, proc>> /\ pc'["export"] = pc["export"]
  <2>1. \A f : NameFree(f)' <=> NameFree(f)
    BY <1>4, <1>5, <1>13
  <2> QED
    BY <1>1, <1>2, <1>6, <1>7, <1>13, <2>1
<1>14. ASSUME NEW ok \in BOOLEAN, Call(ok)
       PROVE  /\ pc["export"] = "dump" /\ toExport' = toExport /\ proc # 0
              /\ p \in Nat /\ proc' # 0 /\ proc' <= p => proc < p /\ har' = har
  <2>1. /\ proc \in DOMAIN Processors /\ pc["export"] = "dump"
        /\ \/ proc' = proc + 1 /\ proc' \in DOMAIN Processors /\ har' = har
           \/ proc = Len(Processors) /\ proc' = 0 /\ har' = <<>>
    BY <1>1, <1>14, CallFacts
  <2>2. toExport' = toExport /\ proc # 0
    BY <1>14 DEF Call
  <2>3. CASE proc' = 0
    BY <2>1, <2>2, <2>3
  <2>4. CASE proc' = proc + 1 /\ har' = har
    <3>1. p \in Nat /\ proc' <= p => proc < p
      BY <1>8, <2>1, <2>4
    <3> QED
      BY <2>1, <2>2, <2>4, <3>1
  <2> QED
    BY <2>1, <2>3, <2>4
<1>15. ASSUME files' = files, second' = second, NEW ok \in BOOLEAN, Call(ok), ~Calling("file")
       PROVE  NamesFree' /\ (~SplitByHost' /\ proc' # 0 => toExport' = <<>>)
  <2>1. NamesDiffer => p \in Nat
    BY <1>3, <1>8
  <2>2. ASSUME NamesDiffer, NEW f, NameFree(f) PROVE NameFree(f)'
    <3>1. proc' # 0 /\ proc' <= p => proc # 0 /\ proc <= p /\ har' = har
      BY <1>1, <1>14, <1>15, <2>1, <2>2
    <3> QED
      BY <1>4, <1>5, <1>14, <1>15, <2>2, <3>1
  <2> QED
    BY <1>1, <1>2, <1>6, <1>7, <1>14, <1>15, <2>2
<1>16. CASE FileProcess
  <2>1. PICK ok \in BOOLEAN : Call(ok)
    BY <1>16 DEF FileProcess
  <2>2. Calling("file") /\ second' = second
    BY <1>16 DEF FileProcess
  <2>3. ~SplitByHost' /\ proc' # 0 => toExport' = <<>>
    BY <1>1, <1>2, <1>14, <2>1
  <2>4. ASSUME NamesDiffer, NEW f \in files', f.second = second' PROVE NameFree(f)'
    <3>0. /\ proc = p /\ proc \in DOMAIN Processors
          /\ SplitByHost => Prefix = AppId[Head(har)] /\ Head(har) \in ToSet(har)
      BY <2>2, <2>4, WriteAdds DEF p
    <3>1. ~(proc' # 0 /\ proc' <= p)
      BY <1>8, <1>14, <2>1, <3>0
    <3>2. f \in files \/ \E data : f = [prefix |-> Prefix, second |-> second, har |-> data]
      <4>1. files' = files \/ \E data : files' = WriteFile(data)
        BY <1>16 DEF FileProcess
      <4> QED
        BY <2>4, <4>1 DEF WriteFile
    <3>3. CASE f \in files
      BY <1>4, <1>5, <1>6, <1>14, <2>1, <2>2, <2>4, <3>1, <3>3
    <3>4. CASE f \notin files
      <4>1. f.prefix = Prefix
        BY <3>2, <3>4
      <4>2. SplitByHost => f.prefix \notin AppsIn(toExport)
        BY <1>1, <3>0, <4>1 DEF Grouped
      <4>3. ~SplitByHost => toExport = <<>>
        BY <1>1, <1>14, <2>1
      <4> QED
        BY <1>4, <1>14, <2>1, <3>1, <4>2, <4>3
    <3> QED
      BY <3>3, <3>4
  <2> QED
    BY <1>7, <2>3, <2>4
<1>17. \/ FileProcess \/ Clock \/ HarTick
       \/ files' = files /\ second' = second /\ NextHar
       \/ pc'["export"] # "dump" /\ proc' = 0
       \/ files' = files /\ second' = second /\ (\E ok \in BOOLEAN : Call(ok)) /\ ~Calling("file")
       \/ files' = files /\ second' = second
            /\ UNCHANGED <<toExport, har, proc>> /\ pc'["export"] = pc["export"]
  BY <1>1, FileSteps
<1> QED
  BY <1>9, <1>10, <1>11, <1>12, <1>13, <1>15, <1>16, <1>17

\* What the file processor was given stays in the files.
LEMMA FilesStep ==
  ASSUME ExporterInv, ExporterInv', HeldInv, FilesInv, HarNext \/ UNCHANGED harVars
  PROVE  FilesInv'
<1>1. Typed /\ UnderWay /\ Dated /\ (NamesDiffer => InFiles(Given("file")))
  BY DEF ExporterInv, HeldInv, FilesInv
<1>2. (NamesDiffer' <=> NamesDiffer)
  <2>1. [Next]_vars
    BY HarStepIsStep DEF harVars
  <2>2. setting' = setting
    BY <2>1, StepKeepsWay DEF ExporterInv
  <2> QED
    BY <2>2 DEF SplitByHost, Processors, IndexOfKind, NamesDiffer, Used, AfterS3
<1>3. InFiles(Given("file"))' <=> ToSet(Given("file")') \subseteq UNION {ToSet(f.har) : f \in files'}
  BY DEF InFiles, ToSet
<1>4. SUFFICES ASSUME NamesDiffer
               PROVE  ToSet(Given("file")') \subseteq UNION {ToSet(f.har) : f \in files'}
  BY <1>1, <1>2, <1>3, DatedStep, NamesStep DEF FilesInv
<1>5. ToSet(Given("file")) \subseteq UNION {ToSet(f.har) : f \in files}
  BY <1>1, <1>4 DEF InFiles
<1>6. Given("file") \in Seq(Transaction) /\ har \in Seq(Transaction)
  BY <1>1, GivenType, TypedFacts
<1>7. CASE FileProcess
  <2> DEFINE new(data) == [prefix |-> Prefix, second |-> second, har |-> data]
  <2>1. \A data : WriteFile(data) = files \union {new(data)}
    BY <1>4, <1>7, WriteAdds DEF FileProcess
  <2>2. CASE Call(TRUE) /\ files' = WriteFile(har)
    <3>1. Given("file")' = Given("file") \o har
      BY <1>1, <1>7, <2>2, GivenCall DEF FileProcess
    <3>2. ToSet(Given("file")') = ToSet(Given("file")) \union ToSet(har)
      <4> DEFINE g == Given("file")
      <4>1. g \in Seq(Transaction) /\ har \in Seq(Transaction)
        BY <1>6
      <4> HIDE DEF g
      <4>2. ToSet(g \o har) = ToSet(g) \union ToSet(har)
        BY <4>1, ToSetConcat
      <4> QED
        BY <3>1, <4>2 DEF g
    <3>3. files' = files \union {new(har)} /\ new(har).har = har
      BY <2>1, <2>2
    <3> HIDE DEF new
    <3>4. ToSet(new(har).har) = ToSet(har)
      BY <3>3
    <3>5. \A x \in ToSet(har) : \E f \in files' : x \in ToSet(f.har)
      BY <3>3, <3>4
    <3>6. \A x \in ToSet(Given("file")) : \E f \in files' : x \in ToSet(f.har)
      BY <1>5, <3>3
    <3> QED
      BY <3>2, <3>5, <3>6
  <2>3. CASE Call(FALSE) /\ files' \in {files, WriteFile(<<>>)}
    <3>1. Given("file")' = Given("file")
      BY <1>1, <2>3, GivenCall
    <3>2. files \subseteq files'
      BY <2>1, <2>3
    <3> QED
      BY <1>5, <3>1, <3>2
  <2> QED
    BY <1>7, <2>2, <2>3 DEF FileProcess
<1>8. CASE ~FileProcess
  <2>1. Given("file")' = Given("file")
    <3>1. CASE ~HarProcess
      BY <1>1, <3>1, OnlyCallsGive
    <3>2. CASE HarProcess
      <4>1. ~Calling("file")
        <5>1. PICK k \in {"s3", "sites-stats", "transactions-sizes", "cw-sites-stats",
                          "sampled-transactions"} : Calling(k)
          BY <1>8, <3>2 DEF HarProcess, S3Process, SitesProcess, SizesProcess, PeriodicCall,
                            SampleProcess
        <5> QED
          BY <5>1, OneCalled
      <4>2. UNCHANGED vars => Given("file")' = Given("file")
        BY GivenStays DEF vars, exportVars
      <4>3. ASSUME NEW ok \in BOOLEAN, Call(ok) PROVE Given("file")' = Given("file")
        BY <1>1, <4>1, <4>3, GivenCall
      <4> QED
        BY <1>1, <3>2, <4>2, <4>3, ProcessParts
    <3> QED
      BY <3>1, <3>2
  <2>2. files' = files
    BY <1>1, <1>8, FileSteps DEF Clock, HarTick
  <2> QED
    BY <1>5, <2>1, <2>2
<1> QED
  BY <1>7, <1>8

\* FilesInv holds initially.
LEMMA FilesInit == HarInit => FilesInv
<1> SUFFICES ASSUME HarInit PROVE FilesInv
  OBVIOUS
<1>1. /\ files = {} /\ second = 0 /\ proc = 0
      /\ delivered = [p \in DOMAIN Processors |-> <<>>] /\ setting \in Settings
  BY DEF HarInit, Init
<1>2. Given("file") = <<>>
  <2>1. Used("file") => delivered[IndexOfKind("file")] = <<>>
    BY <1>1, UsedKind
  <2> QED
    BY <2>1 DEF Given, Numbers
<1>3. InFiles(Given("file"))
  BY <1>2 DEF InFiles, ToSet
<1>4. Dated
  BY <1>1, FS_EmptySet DEF Dated
<1> QED
  BY <1>1, <1>3, <1>4 DEF FilesInv, NamesFree

\* FilesInv always holds.
LEMMA FilesInvHolds == HarSpec => []FilesInv
<1>1. ExporterInv /\ ExporterInv' /\ HeldInv /\ FilesInv /\ [HarNext]_harVars => FilesInv'
  BY FilesStep
<1> QED
  BY <1>1, FilesInit, ExporterInvHolds, HeldInvHolds, PTL DEF HarSpec

\* No file overwrites another of which the contents are wanted: what the file
\* processor was given is in some file, when cycles are paced and the hars of a
\* cycle have their application's prefix.
THEOREM FilesKeepHars == HarSpec => []HarsKept
<1>1. FilesInv => HarsKept
  BY DEF FilesInv, HarsKept, NamesDiffer, InFiles
<1> QED
  BY <1>1, FilesInvHolds, PTL

\* No more seconds have passed than there are files.
LEMMA SecondsAndFiles ==
  ASSUME Dated
  PROVE  second \in 0 .. Cardinality(files)
<1> DEFINE S == 0 .. second - 1
           g == [s \in S |-> CHOOSE f \in files : f.second = s]
<1>1. second \in Nat /\ IsFiniteSet(files) /\ \A s \in S : \E f \in files : f.second = s
  BY DEF Dated
<1>2. \A s \in S : g[s] \in files /\ g[s].second = s
  BY <1>1
<1>3. g \in [S -> files]
  BY <1>2
<1>4. IsFiniteSet(S) /\ Cardinality(S) = second
  <2>1. 0 \in Int /\ second - 1 \in Int
    BY <1>1
  <2>2. IsFiniteSet(S) /\ Cardinality(S) = IF 0 > second - 1 THEN 0 ELSE (second - 1) - 0 + 1
    BY <2>1, FS_Interval
  <2> QED
    BY <1>1, <2>2
<1> HIDE DEF g, S
<1>5. g \in Injection(S, files)
  BY <1>2, <1>3 DEF Injection, IsInjective
<1>6. Cardinality(S) <= Cardinality(files) /\ Cardinality(files) \in Nat
  BY <1>1, <1>5, FS_Injection, FS_CardinalityType
<1> QED
  BY <1>1, <1>4, <1>6

\* The types of the exporter with its har processors; the clock does not run
\* ahead of the files, and a mutex held is that of the call or print under way.
THEOREM HarTypeCorrect == HarSpec => []HarTypeOK
<1>1. ExporterInv /\ HeldInv /\ IntervalInv /\ FilesInv => HarTypeOK
  <2> SUFFICES ASSUME ExporterInv, HeldInv, IntervalInv, FilesInv PROVE HarTypeOK
    OBVIOUS
  <2>1. Typed /\ UnderWay /\ S3Typed /\ Dated
    BY DEF ExporterInv, HeldInv, FilesInv
  <2>2. TypeOK
    BY <2>1 DEF Typed
  <2>3. S3TypeOK
    BY <2>1 DEF S3Typed, S3TypeOK, Holders
  <2>4. /\ periodic.at \in {"idle", "size", "reset"}
        /\ aggregated.at \in {"idle", "print"}
    BY DEF IntervalInv, PeriodicInv, AggregatedInv
  <2>5. /\ sampled.printed \in 0 .. SampleRate /\ sampled.loaded \in 0 .. SampleRate
        /\ sampled.drawn \in BOOLEAN
    <3>1. /\ sampled.printed \in Nat /\ sampled.loaded \in Nat /\ sampled.drawn \in BOOLEAN
          /\ sampled.printed <= SampleRate /\ sampled.loaded <= SampleRate
      BY DEF IntervalInv, SampledInv, SampledSums
    <3> QED
      BY <3>1, StatisticsAssumption
  <2>6. StatTypeOK
    BY <2>1, <2>4, <2>5 DEF StatTypeOK, UnderWay, SizesMutex
  <2>7. second \in 0 .. Cardinality(files)
    BY <2>1, SecondsAndFiles
  <2>8. inside => proc # 0
    BY <2>1, OneCalled DEF UnderWay
  <2> QED
    BY <2>1, <2>2, <2>3, <2>6, <2>7, <2>8 DEF HarTypeOK, Dated, UnderWay, SizesMutex, Counting
<1> QED
  BY <1>1, ExporterInvHolds, HeldInvHolds, IntervalInvHolds, FilesInvHolds, PTL
=============================================================================
