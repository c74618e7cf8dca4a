# httshark: TLA+ specifications, model checking and proofs

httshark captures HTTP traffic from a network interface, reassembles it into
transactions (a request and its response) and exports these as HAR. This
directory holds TLA+ modules that model its concurrent core, TLC
configurations that check them on small instances, and theorems that TLAPS
proves for every value of the constants. Paths in this file are relative to
the repository (`src/` in `PROJECT.json`).

- [1. The system](#1-the-system)
- [2. The modules](#2-the-modules)
- [3. The runs](#3-the-runs)
- [4. Where the code departs from its documents](#4-where-the-code-departs-from-its-documents)
- [5. Fairness](#5-fairness)
- [6. The proofs](#6-the-proofs)
- [7. What is not modelled](#7-what-is-not-modelled)
- [8. Plan](#8-plan)
- [9. Running](#9-running)

## 1. The system

`server/entrypoint.go` wires one of two capture engines to the exporter. Every
arrow is a bounded Go channel (capacity `-channel-buffer`, 1 by default) or a
direct call into the `Queue` method of the next stage, which blocks while the
channel is full.

    tshark engine     tshark ──> streamRead ──> line ──> bulk ──> correlator ──┐
                                                                               ├─> exporter ──> har processors
    httpdump engine   pcap ──> main loop ──> assembler ──> connection          │   (aggregate,    (file, s3,
                                 │             │  2 streams, receive windows   │    export)        stats, ...)
                                 │             └──channels──> HTTP handler ────┘
                                 └── flush ticker              (one goroutine per connection)

### Inventory

| Component | State | Operations | What makes it correct |
|---|---|---|---|
| tshark reader (`tshark/command.go`) | the running command | `streamRead` of stdout and stderr; Fatal at the end of either | hands on every line in order |
| line processor (`tshark/line`) | `collect`, collected lines | `Queue`, `aggregate`, `Stop` | what it sends on is exactly one JSON record |
| bulk processor (`tshark/bulk`) | none between entries | `Queue`, `parseJson`/`convert`, `Stop` | each record becomes the request or response it holds |
| correlator (`tshark/correlator`) | map stream → request | `Queue`, `updateRequest`, `updateResponse`, `checkTimeouts`, `Stop` | a request is exported once, with its own response or, after the timeout, alone |
| sequence numbers (`compareTCPSeq`) | none | comparison modulo 2^32 | orders numbers less than 2^31 apart |
| receive window (`httpdump/receive_window.go`) | ring `buffer`, `start`, `size`, `expectBegin`, `lastAck` | `insert`, `confirm`, `expand` | the reader gets the acknowledged bytes in order, once, completely |
| network stream (`httpdump/network_stream.go`) | window, channel, `ignore`, `eofSimulated` | `appendPacket`, `confirmPacket`, `waitForChannelSpace`, `Read`, `Close`, `finish` | the main loop never hangs, a reader never hangs |
| TCP connection (`httpdump/tcp_connection.go`) | two streams, `isHTTP`, closed flags, `lastTimestamp` | `onReceive`, `forceClose`, `finish` | closes its channels once |
| assembler (`httpdump/tcp_assembly.go`) | `connectionDict` | `assemble`, `retrieveConnection`, `deleteConnection`, `flushOlderThan` | a packet reaches the object of its own TCP connection; ended connections leave |
| HTTP handler (`httpdump/http_traffic_handler.go`) | current request and response | `handle`, `report`, `discardAll` | each exchange reported once, request with its response |
| exporter (`exporters/processor.go`) | slice `transactions`, flag `stopped`, stop channel | `Queue`, `aggregate`, `export`, `dumpTransactions`, `process`, `Stop`, `CheckHealth` | nothing lost, repeated or reordered on the way to a har processor; `Stop` returns |
| S3 client (`exporters/s3.go`) | `dataHolder`, a mutex | `Process`, upload by size and by time | holds or has stored every entry, once, and no more than its maximum |
| statistics (`exporters/*stats*.go`, `sample_transactions.go`, `transactions_sizes.go`) | counters, mutexes | `Process`; print, publish, reset on a ticker | what is printed adds up, every entry is counted in one metric |
| file processor (`exporters/har_to_file.go`) | files | `HarToFile` | no har is overwritten |
| application id (`har/har.go`) | pointer shared by all copies of an entry | `Empty`, `GetAppId` | every processor sees the id |
| aggregated log (`core/aggregated`) | count of each message | `Warn`, publish and print on a ticker | every warning is in one metric |
| CloudWatch log hook (`core/log/cloud_watch_hook.go`) | channel of events, the batch, a mutex, the sequence token, the last error | `Fire`, `Write`, `putBatches`, `sendBatch` | each event in one batch, each batch with the current token and within the limits; logging does not wait for the service |
| dropped packets report (`tshark/command.go`, `server/entrypoint.go`) | a file that survives restarts | `persistDroppedPacketsPct`, `reportDroppedPackets` | a start publishes the last report of the one before |
| snapshot log, log service, rotating file (`core/`) | tail of messages | tickers, set-up | not modelled |
| configuration, hosts, metrics client (`core/`) | flags | parsing, formatting, one remote call | not modelled |
| watchdog and scripts | none | shell | not modelled |
| entry point (`server/entrypoint.go`) | the processors | `Run`, signal, ordered stop | the program ends after a signal |

### Interactions and hard behaviours

- **Concurrency.** Each tshark stage is one goroutine with a `select` over its
  input, a stop channel and, in the correlator, a ticker. The httpdump engine
  has one main goroutine and one handler goroutine per connection that share
  two channels and the *unlocked* flags `ignore` and `eofSimulated`, and the
  handler reads the length of a channel the main goroutine fills. The exporter
  has two goroutines sharing a slice (under a mutex), a stop channel and an
  unlocked flag; every har processor that counts or holds adds a ticker
  goroutine, and the log hook a goroutine for each batch.
- **Back-pressure.** A blocked stage blocks the stage before it, up to the
  capture. Stopping has to work with every channel full.
- **Time.** Response timeout in the correlator and the assembler, five seconds
  of silence in `NetworkStream.Read`, one second in `waitForChannelSpace`, the
  export tick: each may race the message it was waiting for.
- **An unreliable source.** The capture reorders, repeats, recuts and misses
  TCP segments and HTTP messages.
- **Remote services and restarts.** An upload, a metric or a batch of log
  messages may be refused, or accepted with the answer lost. The drop report
  passes from one run of the program to the next through a file that a
  process may leave empty or torn.
- **Arithmetic.** Sequence numbers modulo 2^32, ring indexes modulo a length
  that doubles.

`PROJECT.json` lists these as `hazards`, each at the line where it bites and
with the properties that watch it, or the reason why none does yet.

## 2. The modules

| Module | Models | Extends / instantiates |
|---|---|---|
| `Correlator` | the correlator, with its clock and the HTTP traffic | |
| `TcpSeq` | sequence numbers and `compareTCPSeq` | |
| `Capture` | what a capture may show a receive window, and `InOrder` of what comes out | extends `TcpSeq` |
| `PacketWindow` | the promise of the receive window: a list ordered by sequence number | extends `Capture` |
| `ReceiveWindow` | the receive window as it is stored: the ring buffer | extends `Capture`, instantiates `PacketWindow`, which it implements |
| `HttpConnection` | one connection of the httpdump engine: main goroutine, two streams, handler goroutine | extends `Subsequences` |
| `TCPAssembler` | which connection object a packet reaches; creation, closing, flushing | |
| `Exporter` | the exporter's two goroutines, its callers and the calls of har processors | extends `Subsequences` |
| `S3Client` | the s3 processor and its ticker, and S3 as it uses it | extends `Subsequences` |
| `Statistics` | the processors that count, their tickers, the aggregated log | extends `Subsequences` |
| `HarProcessors` | the exporter with every kind of har processor | extends `Exporter`, `S3Client`, `Statistics` |
| `Pipeline` | the whole tshark engine and the shutdown, composed with the exporter | extends `Subsequences`, instantiates `Exporter` |
| `CloudWatchHook` | the log hook, the goroutines that log, and CloudWatch Logs as it uses it | |
| `DropReport` | the drop report across restarts of the program | |
| `Subsequences` | the loops that keep what satisfies a condition (`Among`), as a recursive function, which the provers can reason about | |
| `MC*` | values of the constants for TLC | the module checked |
| `SequenceLemmas` | no part of the system: lemmas about sequences, `Among`, sums and counts | the library's theorems |
| `Correlator_proofs` | theorems about `Correlator` | extends it |
| `PacketWindow_proofs` | theorems about `TcpSeq` and `PacketWindow` | extends `PacketWindow` |
| `ReceiveWindow_proofs` | theorems about the ring; the list's, for the ring | extends `ReceiveWindow`, instantiates `PacketWindow_proofs` |
| `Httpdump_proofs` | theorems about the assembler and the connection | extends `TCPAssembler`, `HttpConnection` |
| `HarProcessors_proofs` | theorems about the exporter and every har processor | extends `HarProcessors` |
| `CloudWatchHook_proofs` | theorems about the log hook | extends `CloudWatchHook` |
| `Tshark_proofs` | theorems about the tshark engine and the drop report | extends `Pipeline`, `DropReport` |

Definitions keep the names of the code where they can (`updateRequest` is
`UpdateRequest`). Where one module of theorems is about two modules, `Init`,
`Next` and `Spec` of one of them carry a prefix (`HttpInit`, `DropSpec`). A definition named in a comment "Bug seeded for checking" is
not part of the specification: it is the form its successor would have with a
plausible bug, kept to show that the properties notice it.

Some modules have a *scenario* variable (`capture`, `conn`, `traffic`,
`setting`) that `Init` chooses from a constant set and no step changes. It
holds what differs between deployments or captures: flags, what the peers
send, whether anything is lost. One run then checks all scenarios, and a
property that needs an assumption names it (`capture.lossless => ...`).

### Correlator

`asked` and `answered` count what client and server of each stream have sent;
`captured`, `age` and `reported` are what the properties talk about; `entries`
is the channel, `requests` the map (0 for a missing key), `stopped` the end of
the goroutine. A request is identified by its stream and number; the response
number `n` of a stream answers request `n`, which the code does not know.
`UpdateEntry`, `CheckTimeouts` and `Stop` are the three cases of the `select`;
each contains the whole handler. `orderly[s]` remembers whether stream `s` has
so far been captured in full from a client that waits for each answer; the
conditional properties need it, the code never reads it. `Pipelining` says
whether clients may send a request before the last one is answered. Sending to the
exporter is not blocking here; `Pipeline` has that.

### TcpSeq, Capture, PacketWindow, ReceiveWindow

`TcpSeq` is `compareTCPSeq` with the width (`HalfModulus`, 2^31 in Go) and the
window (`SeqWindow`, 0xFFFF) as parameters: unsigned subtraction wraps, the
last case reinterprets it as `int32`, the two wrap cases widen it to `int`.

`Capture` chooses what the sender transmits (`Captures`) and whether anything
may be missed. `PacketWindow` keeps `pending`, the list that the ring represents. A packet
carries, beside its sequence number, the stream positions `[from, to)` of its
payload, so that order and completeness can be stated. `Insert` is one step
(nothing blocks in it); `confirm` is a step per iteration (`ConfirmNext`),
since each sends on a channel. `expectBegin = 0` means "nothing delivered yet"
as in the code. In `ReceiveWindow` the same actions work on `buffer`, `start`,
`size` and the loop variable `idx`; `Pending` reads the list out of the ring.

### HttpConnection

`conn.wire` is the list of packets that client and server send. The main
goroutine is `mainPc`: it dispatches one captured packet (`ReceiveData`,
`ReceiveControl`), looks for room (`SpaceFound`/`AbandonData`), sends the
confirmed packets one by one (`SendPacket`) and closes (`CloseStream`). The
handler is `hpc`: which message it is reading. `Read` is three actions, the
cases of its `select`; the timeout case is split in two (`ReadTimeout`, then
`CheckStuck`) because its body reads the other channel's length while main may
be changing it. `Parse` and `ParseEOF` say what `net/http` makes of a packet or
of the end of a stream. The windows are reduced to their pending lists.
`WellFormed` says which wires HTTP/1.1 peers produce; a client that is answered
with a final response while it waits for `100 Continue`, and then keeps its
body back, is not among them. The
receive windows' losses and the capture's are the same here: a packet that
does not arrive (`conn.lossy`).

### TCPAssembler

Objects are numbered in `connections` (never reused), `connectionDict` maps a
pair of endpoints to one of them. `carried` records the TCP connections
(incarnations of the pair) whose payload an object was given, `finishes` how
often its channels were closed; the code has neither. `Assemble` is one packet
through `retrieveConnection`, `onReceive`, `finish` and `deleteConnection`.

### Exporter

`pc` is the place of each goroutine. A transaction is its number in queueing
order. `Tick` swaps the slice under the mutex; `NextHar` picks the next
application in any order (Go's map order); `Process` is one processor call,
which may fail. `emptied` stands for the memory behind the `AppId` pointers
that all copies of an entry share. `Exporter` has no run of its own: its
properties are checked in `HarProcessors`, where the calls are real, and its
steps run in `Pipeline`.

### S3Client, Statistics, HarProcessors

In `HarProcessors` the abstract call of a processor (`Call`) is what the
processor of that kind does. A call that holds a mutex, or that another
goroutine can observe half done, is two steps, and `inside` says that it is
under way: the two additions of `SitesStats` and of `TransactionsSizes`, the
upload that `S3Client.Process` makes when it holds too many entries, the loop
of `SampleTransactions`, its unlocked `printed--` and its print. The ticker goroutines
(`S3Timer`, `SitesTimer`, ...) run next to it. `dataHolder` is the map of the
code; `bucket` is what S3 stores, and of each object whether the code got an
answer. `files` are the har files: name (prefix and second) and content.
`SaveToFile` creates or truncates a CSV file and writes it, and any of its
calls may fail: the file then holds what it held, nothing, or all of the new
text although the call reports an error. Its callers swallow the error. Who
prints a file holds the mutex until it is written, so that a half-written one
shows only after a failure. `TransactionsSizes` writes its two files one after
the other under one mutex (`PrintRequests`, `PrintResponses`; `printing` says
that it is between them), whatever became of the first, and `failed` remembers
whether the last print had an error. Counts are of entries; sizes are two units
for each. The calls of `PutMetric` may fail, which nobody looks at before the
totals are reset. `sent`, `lost` and `late` in `periodic`, and `published`,
`lost` and `late` in `aggregated`, say what became of each unit: published,
carried by a call that failed, or added between reading a total and resetting
it, the window that the code leaves open.
The scenarios are the settings of the program: the list of har processors,
which of them fail, health checks, `-split-by-host`, `-split-by-appid`.

### Pipeline

The stages `line`, `bulk` and `correlator` are goroutines behind channels of
`ChannelBuffer`: `at[s]` is `select`, `send` or `done`, `out[s]` what a handler
still has to send. Records and lines are numbered: a record is parsed when all
of its lines and nothing else arrive. `PrintsRecords` says of `Lines` that
tshark prints a record in one go and once. `Record` says which of the fields that
`convert` reads are absent or do not parse; `Outcome` is what it makes of
them, in its order: converted, dropped with an error, or a panic where an
index is not checked. The exporter is the instance `Exporter`;
`Exporter!Queue` is the blocking send of the correlator. `Signal`,
`StopStage` and `StopExporter` are the main goroutine; `ReadFails` is the
Fatal of `streamRead` at the end of an output, which ends the process at any
moment; `ParsePanics` ends it too.

### CloudWatchHook

Events are numbered as they are logged, and have a size. `logger[l]` is the
place of a logging goroutine in `Write`: the send on the channel, then the
test, the load and the clearing of the unlocked `err`. `Collect` and `Tick`
are the two cases of `putBatches`; `waiting` are the goroutines of `sendBatch`
that wait for the mutex, in no order, `sending` the one that holds it and the
token it read. The service stores a batch or refuses it, and an answer may be
lost. `stream` is what `NewBatchingHook` found: nothing (it creates the
stream), its own stream, or another process's whose name begins the same.
`LockedHooks` says whether logrus holds its lock during a hook, which
depends on its version; the repository names none.

### DropReport

A start is a number, and so is the report that its dumpcap prints. `reader`
creates or opens the file and then writes; `reporter` reads the last line and
puts two metrics; `published` are those that CloudWatch took, `refused` those
whose call failed. `Exit` may come between any two steps. A line is the report
it holds or the way in which it was cut, as far as `getPacketDropStats` tells
them apart. `torn`, `persisted` and `panicked` are what the properties talk
about.

## 3. The runs

| Run | Checks | Scenarios and bounds |
|---|---|---|
| `MCCorrelator` | `TypeOK`, `OnePlace`, `AtMostOnce`, `Accounted`, `PairedWithOwnResponse`, `EventuallyReported` | 2 streams × 2 requests, channel of 2, one clock tick is the timeout; pipelining and loss of any message |
| `MCCorrelator_ResponseLost` | `AccountedAlways` is violated | the same, with clients that wait for each answer |
| `MCReceiveWindow` | `TypeOK`, `InOrder`, `Complete`, `ImplementsPacketWindow` | 5-bit numbers, a ring of 1 that doubles to 8; lossless 6 bytes in fixed and 5 in overlapping segments; with losses 4 bytes in any segments and 5 in single bytes |
| `MCReceiveWindow_Resegmented` | `CompleteAlways` is violated | 4 bytes in any segments, lossless |
| `MCHttpConnection` | `PairedWithOwnResponse`, `OnceInOrder`, `MainKeepsRunning`, `HandlerEnds`, `AllReported` | two exchanges with channels of 4, and of 2 with silence (acknowledgments of up to 2 packets); a 100-continue exchange with channels of 1, losses and silence |
| `MCHttpConnection_Burst` | `MainKeepsRunningAlways` is violated | two exchanges, channels of 1, acknowledgments of up to 2 packets |
| `MCTCPAssembler` | `TypeOK`, `FinishedIffGone`, `OneIncarnation`, `EndedIsForgotten` | a key used twice, and two keys once, with resets and losses; a key used twice beside another, without; 3 objects, timeout of 1 tick |
| `MCTCPAssembler_Reset` | `OneIncarnationAlways` is violated | one key used twice, resets, no losses |
| `MCHarProcessors` | `HarTypeOK`, `ConservedInOrder`, `SeesItsApp`, `EntriesNotEmpty`, `HeldOrStored`, `HolderBounded`, `HarsKept`, `PrintedAddsUp`, `IntervalsHold`, `StopReturns`, `ExportedEventually` | 3 transactions of 2 applications, two of them big and the other unanswered; nine settings: each kind of processor, file before s3 and after it, one har for all, health checks, a failing writer; one failed upload, any failures of printing and of metrics, 1 entry to hold, 1 sample per interval |
| `MCPipeline` | `RecordsIntact`, `Terminates`, `ReadIsExported` | 6 records of 2 streams on 15 lines: a request with its response, one whose response has no code, the request that may take its place, one without an address; every channel holds one element |
| `MCCloudWatchHook` | `SentOnce`, `NoneRefused`, `WriteReturns`, `StoredOrRefused` | 2 goroutines, 5 events, batches of 2 events or 3 units, channel of 1, one failed call, streams of all kinds |
| `MCDropReport` | `PanicsOnlyTorn`, `PublishesReports`, `Published` | 4 starts, 2 failed calls of the file system, any of CloudWatch, exit at any moment |

### What they show

**Correlator.** Whatever is pipelined, lost or timed out, a request is on the
wire, in the channel, in the map or exported, one at a time and in that order
(`OnePlace`), and exported at most once (`AtMostOnce`): a late answer never
exports a request that the ticker has already exported. As long as a stream
is captured in full and its client waits, no captured request disappears
(`Accounted`), a response only ever goes to its own request, even when an
earlier one has timed out meanwhile (`PairedWithOwnResponse`), and every
request in the map is exported (`EventuallyReported`). Two streams show the
independence of map slots, two requests per stream are what it takes to
overwrite, mix up or answer late; the proofs lift all five safety properties to
any number of both.

**Receive window.** The bytes reach the reader in order and none twice for
every segmentation (`InOrder`), and nothing that was captured and acknowledged
is left out unless a segment was recut from the same byte on (`Complete`). The
ring with its moving start, its shifting and its doubling implements the list
(`ImplementsPacketWindow`), started at one slot so that the ring is full,
wrapped and doubled within five packets; `InOrder` and `Complete` are checked
of the ring itself, and proved of it for any stream. The runs stay away from the wrap-around of sequence
numbers, where the comparison is wrong (section 4); 5 bits leave room for
streams of up to six bytes beside the window of three.

**HttpConnection.** Dispatching a packet always ends when acknowledgments
confirm one packet (`MainKeepsRunning`), a handler ends after its connection
is finished whichever stream it was reading (`HandlerEnds`), timeouts and
simulated EOFs never attach a response to another request (as long as the
capture is complete) nor report an exchange twice or out of order
(`PairedWithOwnResponse`, `OnceInOrder`), and with large enough channels
nothing goes unreported (`AllReported`). Two exchanges, one with an upload and
one with a download, are the least with which messages of either direction can
be mixed up; channel sizes 1, 2 and 4 are fewer than, equal to and more than
the packets of a direction.

**TCPAssembler.** The channels of a connection are closed exactly when it
leaves the dictionary and only once (`FinishedIffGone`), so neither a send on a
closed channel nor a second close can panic; the flush forgets every pair
that has ended, whatever the capture missed (`EndedIsForgotten`).

**HarProcessors.** In every interleaving of the goroutines, with failing
processors and `Stop` at any moment, each application's transactions reach each
non-failing processor once and in order (`ConservedInOrder`), with their
application (`SeesItsApp`), in hars that have entries (`EntriesNotEmpty`);
`Stop` returns although the two goroutines may take each other's stop message
(`StopReturns`), and until then every transaction is exported, through s3 as
far as the bucket (`ExportedEventually`). Whatever uploads fail and however
ticker and exporter alternate, an entry is in the holder or in one object that
was stored, under its own application (`HeldOrStored`), and no more is held
than the maximum after an upload that succeeded (`HolderBounded`). Paced cycles
overwrite no file (`HarsKept`). The CSV files add up although they are printed
next to the counting (`PrintedAddsUp`): both additions of a har are under one
mutex, and so are both size files. The sites' total is the sum of its hosts
whatever write fails; the two size files are of the same transactions whenever
the last print had no error. A transaction and a warning go into exactly one
call of `PutMetric` for each metric, which publishes them or fails, unless they
fall between reading and resetting a total (`IntervalsHold`); an interval has no
more samples than its rate, and one that was drawn before its tick and printed
after it.
Three transactions are the least with which a har has two entries and another
application comes between them, a holder of one is exceeded by the second, and
one failure suffices for an upload to be retried by size and by time.

**Pipeline.** Records are never mixed with what is printed between them, and
only whole ones reach the correlator (`RecordsIntact`); the order line, bulk,
correlator, exporter in which `EntryPoint.Run` stops the stages is one in which
every blocked send gets through (`Terminates`; the reversed order deadlocks);
and a request that bulk was given is exported although every channel may be full
at once and other records are dropped (`ReadIsExported`), provided that a
response that converts comes between it and the next request of its stream
(`AnsweredFirst`): otherwise the correlator overwrites it, and without this
hypothesis TLC finds the third record lost. Six records fill
the channels and the goroutines between the reader and the exporter, and let a
request be answered, be overwritten, and follow one that was.

**CloudWatchHook.** In whatever order the goroutines of `sendBatch` get the
mutex, an event is in one batch and a batch is sent once (`SentOnce`), and no
batch is refused for its token or its length (`NoneRefused`); an event that is
too big by itself is. Logging returns also while the service is silent
(`WriteReturns`), and when it answers every event is stored or its batch is
refused (`StoredOrRefused`). After a lost answer every later batch is refused
and dropped: the code keeps the old token. Five events make two batches that
wait together, one of them closed by length and one by size.

**DropReport.** A start panics only over a file that a process left between
creating and writing, or to which a write failed (`PanicsOnlyTorn`); what is
published is the last report that was written in full (`PublishesReports`),
and both metrics of it are put, the second one also when CloudWatch refuses the
first (`Published`). Four starts are enough for a report to be
replaced, a torn line to be continued, and the outcome to be published.

Every property of a passing run has a mutant in `PROJECT.json`: a definition of
the model with a plausible bug in it, which makes TLC find the property
violated.

## 4. Where the code departs from its documents

Four runs expect a violation; each quotes the sentence it contradicts in
`PROJECT.json`.

1. **Lost response** (`MCCorrelator_ResponseLost`). The map has one slot per
   stream. If the capture misses a response, the client, which has it, sends the
   next request, and that overwrites the outstanding one, which is never
   exported. A pipelining client does the same without any loss.
2. **Recut retransmission** (`MCReceiveWindow_Resegmented`). `insert` takes
   equality of the first sequence number for equality of the segment; the
   tail of a longer retransmission is dropped.
3. **Burst of acknowledged packets** (`MCHttpConnection_Burst`).
   `waitForChannelSpace` checks for one free slot, `confirm` may send many; the
   main goroutine blocks for good when the handler is not reading that stream.
4. **Reset** (`MCTCPAssembler_Reset`). A RST closes only the stream it came
   from; the next connection of the same endpoints is fed into the old object.

A fifth is a theorem: around 2^32 `compareTCPSeq` never reports the earlier
number as earlier, for every pair (`WrapReverses`, section 6).

Further exceptions appear as hypotheses of the properties above:

- `OnceInOrder` excludes requests with `Expect: 100-continue`:
  `http_traffic_handler.go` reports such a request at line 83 with the interim
  response and at line 100 with the final one.
- `AllReported` requires channels larger than what a direction sends
  (`ChannelsSuffice`): the handler reads the response before the request's
  body, so an upload longer than the channel looks like the loss that
  `network_stream.go:87` tests for, although nothing was lost.
- `EntriesNotEmpty` excludes a single har with health checks: with
  `-split-by-host=false` a cycle of nothing but health checks gives the
  processors a har without entries, and those that read `Entries[0]` panic.
- `SeesItsApp` and `HarsKept` exclude processors that come after s3:
  `s3.go:60` empties the application id behind a pointer that all processors
  share, so the hars of one cycle get the same file name.
- `HarsKept` further excludes cycles within one second, whose files have the
  same name, and `-split-by-host` without `-split-by-appid`, where the hars of
  one cycle do.
- `HolderBounded` speaks of the time after an upload that succeeded: while
  uploads fail the holder grows without bound.
- `IntervalsHold` allows for the entries (`late`) that are counted between
  `cloud_watch_sites_stats.go` reading a total and resetting it, and between
  the two locks of `aggregated_log.go`: they are in no metric. It also allows
  for those whose `PutMetric` fails (`lost`): both files ignore its error and
  reset the totals all the same, so the values of that interval are gone. And
  it allows one sample above the rate, taken from the counter before a tick
  (`sample_transactions.go:31`) and printed after it.
- `PrintedAddsUp` excludes the size files after a print with an error:
  `transactions_sizes.go:72` swallows it, and the file may be truncated, or be
  the one of an earlier print, next to a new one, until a print succeeds.
- `ReadIsExported` excludes a request that the next one of its stream may
  overwrite, because the response between them was dropped, not captured or
  not yet sent: the first item of this section, in the engine.
- `WriteReturns` needs `LockedHooks`: without logrus's lock two goroutines may
  both find `err` set, and the second dereferences nil.
- `NoneRefused` excludes a stream found by a prefix of its name that belongs
  to another process: no stream is created then and every batch is refused.
- `PanicsOnlyTorn` allows a start to panic over a torn file; nothing repairs
  the file, so every later start does until someone removes it.
- A record without `ip.dst` (IPv6), or with a time that lacks a part, ends
  the process (`ParsePanics`); `ReadIsExported` excludes that too.

## 5. Fairness

Weak fairness stands for "this goroutine is scheduled", strong fairness for
"Go's `select` picks among ready cases at random, so it does not pass over one
for ever". Nothing is assumed of the environment: clients, servers, the
capture, callers of `Queue` and the signal may stop at any moment.

| Module | Assumed | Because |
|---|---|---|
| `Correlator` | WF time, SF `UpdateEntry`, SF `CheckTimeouts` | the clock advances; two cases of one `select` |
| `HttpConnection` | WF main goroutine, WF handler goroutine | both are scheduled; the timers of `waitForChannelSpace` and `Read` fire |
| `TCPAssembler` | WF time, WF `FlushOlderThan` | the flush ticker of `RunHttpDump` |
| `Exporter` | WF both goroutines, SF taking the stop message, WF the rest of `Stop` | as above; a caller inside `Stop` goes on, nobody has to call it |
| `HarProcessors` | the same of the composed steps; WF `S3Timer`, WF `Clock` | the purge ticker of `S3Client` ticks and an upload ends one way or the other (failures are bounded); time passes; a print of the size files ends (WF), and Go's mutex, which hands itself to who has waited too long, does not keep a call out for ever (SF `SizesProcess`). The other tickers owe nothing |
| `Pipeline` | WF every stage and the exporter's goroutines, SF the timeout case, SF that some stage takes its stop message | as above; `Signal`, `ReadLine` and `ReadFails` owe nothing |
| `CloudWatchHook` | WF each goroutine in `Write`, WF `Collect`, WF `Tick` | goroutines run. That the service answers (WF `Send`) is a hypothesis of `StoredOrRefused` alone, so `WriteReturns` holds without it |
| `DropReport` | WF the reporter | its goroutine runs while the process lives; nothing is assumed of `Exit` and `Start` |

Deadlock checking is off (`CHECK_DEADLOCK FALSE`) where the environment may
come to an end and the system then has nothing to do. It is on for
`ReceiveWindow`, where the capture can always show another segment.

## 6. The proofs

Every safety invariant that a passing run checks is a theorem, for every value
of the constants, and so are three refinements: of the list by the ring, of the
exporter by its har processors and by the tshark engine. TLC checks each of them on a small
instance, where it also shows that the hypotheses are not empty.

| Theorem | States | For every |
|---|---|---|
| **`Correlator_proofs`** | | set of streams, bound, channel capacity, timeout |
| `TypeCorrect`, `OnePlaceHolds`, `ExportedAtMostOnce` | `TypeOK`, `OnePlace`, `AtMostOnce` | traffic, pipelined and lost messages included |
| `NoRequestLost`, `OwnResponseOnly` | `Accounted`, `PairedWithOwnResponse` | stream that is orderly |
| **`PacketWindow_proofs`** | | width and wrap window with `2 * SeqWindow <= HalfModulus` |
| `OrderedAwayFromWrap`, `WrapReverses` | what `compareTCPSeq` makes of two numbers | pair less than half the space apart |
| `DeliveredInOrder`, `NothingConfirmedIsLost` | `InOrder`, `Complete` of the list | stream, segmentation, loss and retransmission, under `NoWrap` |
| **`ReceiveWindow_proofs`** | | initial length of the ring |
| `TypeCorrect`, `RingImplementsList` | `TypeOK`, `ImplementsPacketWindow` | stream, the wrap-around included |
| `DeliveredInOrder`, `NothingConfirmedIsLost` | `InOrder`, `Complete` of the ring | stream, under `NoWrap` |
| **`Httpdump_proofs`** | | |
| `TypeCorrect`, `FinishedWhenGone`, `NeverMixed` | `TypeOK`, `FinishedIffGone`, `OneIncarnation` | number of endpoints and connections, packets and flushes |
| `ReportedOnceInOrder` | `OnceInOrder` | wires, channel capacity, loss and silence |
| `ResponseOfItsRequest` | `PairedWithOwnResponse` | `WellFormed` wires captured in full |
| **`HarProcessors_proofs`** | | number of transactions, applications, processors; failures, settings |
| `ExporterPromise` | `TypeOK`, `ConservedInOrder`, `SeesItsApp`, `EntriesNotEmpty` of whatever takes only steps of `Exporter` | |
| `HarProcessorsRefine` | `HarProcessors` takes only steps of `Exporter` | |
| `TypeCorrect`, `NothingLostOrOvertaken`, `IdsEmptiedOnlyAfterS3`, `HarsHaveEntries` | the same four of `HarProcessors` | |
| `HarTypeCorrect` | `HarTypeOK` | |
| `HeldOrStoredOnceInS3`, `HolderStaysBounded` | `HeldOrStored`, `HolderBounded` | maximum, failed uploads |
| `FilesKeepHars` | `HarsKept` | failed writes |
| `StatisticsAddUp`, `CountedOnceInAnInterval` | `PrintedAddsUp`, `IntervalsHold` | number of hosts, rate of samples, writes and calls of `PutMetric` that fail |
| **`CloudWatchHook_proofs`** | | number of goroutines and events, limits, failed calls |
| `EventsSentOnce`, `NothingRefused` | `SentOnce`, `NoneRefused` | |
| **`Tshark_proofs`** | | |
| `RecordsStayIntact` | `RecordsIntact` | output that `PrintsRecords`, records, channel capacity, moment of the signal |
| `EngineUsesExporter` | `Pipeline` takes only steps of `Exporter` | |
| `PanicsOnlyOverTornFile`, `PublishesWholeReports` | `PanicsOnlyTorn`, `PublishesReports` | number of starts and failures |

*Assumptions.* Those named in the modules (`ConstantsAssumption`,
`SeqAssumption`, `WindowAssumption`, `RingAssumption`, `AssemblerAssumption`,
`ConnectionAssumption`, `ExporterAssumption`, `S3Assumption`,
`StatisticsAssumption`, `HarAssumption`, `PipelineAssumption`,
`HookAssumption`, `DropReportAssumption`), which TLC evaluates in the runs.
They give the constants their types: bounds are natural numbers, a channel has
room for one, the wrap window is at most a quarter of the space, a stream is
shorter than half of it. Some theorems have a hypothesis of their own.
`NoWrap`: the stream starts at a non-zero number and ends before the wrap
window; `WrapReverses` shows that the comparison fails without it. `WellFormed`:
the two peers of a connection speak HTTP/1.1; nothing that the code does could
otherwise tell whose response it reads. `PrintsRecords`: tshark prints a record
without interruption. `MCHttpConnection` and `MCPipeline` check the last two
of their wires and of their output.

### The inductive invariants

**Correlator.** `AtMostOnce` alone is not inductive: `Report` appends to
`reported[r]`, so one must know it is empty. That follows from `OnePlace`,
which says where a request is and that nothing of it is elsewhere; and
`OnePlace` needs the channel to hold a request only once (`QueuedOnce`). `Inv`
is `TypeOK /\ OnePlace /\ AtMostOnce`. `PairInv` adds, for an orderly
stream, that requests and responses alternate (`Alternating`): client and server
take turns, the channel holds the last messages of the stream in order and
without a gap (`InOrder`), and while a request is in the map its response is
still to be sent or comes next from the channel (`ResponseNext`). A response
can then meet no request but its own, and a request no occupied slot.

**The list of the receive window.** That the next delivery does not begin
before the end of the last one follows from `ExpectIsEnd` (`expectBegin` is
the sequence number of that end) and `PendingWellFormed` (a packet's number is
that of its first byte, and it is not empty). Away from the wrap-around
comparison and subtraction of sequence numbers are those of positions
(`SeqIsPosition`). For `Complete` the list must also be sorted (`Sorted`) and
made of segments (`AreSegments`), and every byte that was captured is
delivered or in it (`NothingLost`): `WholeInv`.

**The ring.** `RingInv` says that exactly the slots from the `idx`-th to the
`size`-th behind `start` hold packets, and that only a confirmation has `idx`
beyond the first. `Holds` relates a stretch of
the ring to a list; the loops of `insert`, that move packets up by one, and of
`expand`, that copies them, keep it (the move is by induction over the
number of packets moved). Each step is then `PacketWindow`'s, wrap-around or
not, and the list's theorems, instantiated with `Pending` for `pending`,
hold of the ring.

**Assembler.** `FinishedIffGone` needs to know of the object that the
dictionary has for a pair that it is not closed by both ends, and that it is as
it was created as long as it has seen no HTTP (`Serving`). `OneIncarnation`
needs `Following`: without loss such an object has seen the FINs that the
endpoints have sent and payload of the current connection alone, so that a new
connection finds the old one gone.

**HTTP connection.** For `OnceInOrder` the requests reported, the one in
hand and those still in channel, list and wire are in this order (`Ahead`,
`Behind`). `PairedWithOwnResponse` needs what the code does not keep, two
positions `u` and `w`, the number of pieces of each stream that the handler
has parsed (`Positioned`). `Rest` says what is left at a position: the rest of a
body or the next message; `Content` is what is captured and unread, and it
is the stream from the position on. Every action is one of three things to it:
it moves within it (`Moves`), it captures a piece more (`Captures`), or the
handler consumes one (`Consumes`). `Matching` says which numbers the request
and the response in hand have at each place of `handle`, also when one stream
was given up or has ended in the middle of a message.

**Exporter.** `ConservedInOrder` is nearly inductive: each step moves elements
within `Way(p)` and keeps the order within an application. It needs the shape
of the variables (`Typed`: between cycles there is no har, an aggregated
transaction is held only in "append"). `SeesItsApp` needs that what s3 has
emptied is no longer on the way to anyone else: the har of the moment and the
emptied ones have nothing in common with what comes behind (`Apart`).
`ExporterPromise` says this of every specification that takes only steps of
`Exporter`; `HarProcessorsRefine` and `EngineUsesExporter` say of
`HarProcessors` and of `Pipeline` that they do. A call that `HarProcessors`
makes in two parts is a stutter and then the exporter's `Process`.

**Har processors.** `HeldOrStored` counts: copies of an entry in the holder and
in the objects that are known to be stored, summed over keys and objects, are
the copies that s3 was given (`CopiesReceived`); in a call half done the har
counts as given (`Received`). What is in the holder under a key is of that
application (`KeyedInS3`), since a har has one application, of which the cycle
has nothing else, and no health check (`Grouped`). `SitesInv` and `SizesInv` say
what the counters and the CSV files add up to, in each part of a call and of a
print: a size file that was printed without an error is of a beginning of what
was counted, both files of the same one. `IntervalInv` says that the counts of
an interval, those published, those of a failed call and those that came late
are what was given; `FilesInv` that the names a cycle will still use
are free in this second (`NamesFree`), and that no file is of a later one
(`Dated`). `UnderWay` ties a mutex and an upload to
the call or the print that holds it.

**CloudWatchHook.** `SentOnce` needs every event in one place: loose (with a
goroutine that logs, in the channel or in the batch) once (`LooseOnce`), or in
one batch that was handed out (`HandedOnce`), which is called once
(`CalledOnce`), and all of them below `fired` (`Numbered`). `NoneRefused`
adds that batches fit (`Limits`) and that, until a call fails, whoever holds the
mutex has the token that the service expects (`Tokens`).

**tshark engine.** `Reading`: the first channel holds the lines after those
read, and the line processor has collected the lines of its record among those
(`LineOf`). When the record closes these are all there are, since it is
printed in one go. `Staged`: only whole records, and then only converted ones,
are under way, and a stage that sends has something to send.

**Drop report.** As long as no call of the file system has failed the file consists of whole lines
of which the last is what was persisted last (`Intact`); it is empty only if
its process has just created it, or ended there.

### How induction over data is done

The library's induction theorems take an operator as a parameter, which the
provers cannot instantiate. `SequenceLemmas` states induction for a *set* of
numbers (`UpTo`, from `NatMinimum`), of sequences (`SeqInduction`) and of finite
sets (`SubsetInduction`), and derives from these what the recursive functions
`Among`, and the sums of the community modules, compute.

### Only model-checked

Liveness: `EventuallyReported`, `MainKeepsRunning`, `HandlerEnds`,
`AllReported`, `EndedIsForgotten`, `StopReturns`, `ExportedEventually`,
`Terminates`, `ReadIsExported`, `WriteReturns`, `StoredOrRefused` and
`Published` rest on fairness, whose `ENABLED` the prover does not expand. The
four violations of section 4 are counterexamples, which is what a model
checker is for; that the comparison fails around 2^32 is proved
(`WrapReverses`).

## 7. What is not modelled

- Strings and formats: JSON, HAR fields, HTTP header syntax, object and file
  names beyond what makes them equal, log texts. A message, a record and a
  transaction are numbers; sizes are counts.
- The contents of the exporter's conversion: its content filters and the
  fields of an entry are a pure function of one transaction, which a unit
  test reaches. Only its warning about a query string is modelled.
- The times of transactions: `handle` reads `lastTimestamp` while the main
  goroutine writes it (`http_traffic_handler.go:51`), and the transactions it
  reports point to its two time variables, so those that wait for the export
  show the times of the latest one. No document says what the times are.
- The start of the statistics processors: `init` runs in a goroutine of its
  own, and an export before it has made its map would panic; the models start
  with the maps made.
- The snapshot log (`core/log.go`), whose timer writes empty lines, a
  sequential defect; the set-up of logrus and of the rotating file.
- Configuration, host names and the metrics client: parsing, formatting and
  one remote call. The flags that matter are constants or settings.
- The watchdog, which polls the health server that `entrypoint.go` no longer
  starts, and the other scripts. `CheckHealth` has no caller.
- libpcap, gopacket, tshark, AWS, logrus: external; modelled as far as the code
  uses them.

## 8. Plan

1. The engine as a whole: a request that the bulk processor has parsed is in one
   place between its channel and the exporter and is queued at most once; so
   that the bound on the exporter's transactions never holds up the correlator.
   With `EngineUsesExporter` and `ExporterPromise` this follows a record from
   tshark to the har processors.
2. `Pipeline`'s correlator as a refinement of `Correlator` without its clock.
3. What a step may never do, as action properties of the invariants that are
   proved: `expectBegin` and what was reported, stored or published only grow.
4. The time stamps of the httpdump engine's transactions, once a document says
   what they should be.

## 9. Running

    tlc -workers 2 -config MCCorrelator.cfg MCCorrelator
    tlapm Correlator_proofs.tla

A `.cfg` is named after its run; `PROJECT.json` lists runs, mutants, the map
from definitions to source lines, findings, hazards and theorems.
