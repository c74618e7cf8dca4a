---------------------------- MODULE CloudWatchHook ----------------------------
(***************************************************************************)
(* The log hook that batches (core/log/cloud_watch_hook.go).  Goroutines   *)
(* that log call Fire, which writes an event into a bounded channel.       *)
(* putBatches collects events from it and hands every batch to a goroutine *)
(* of its own; these take a mutex and send their batch with the sequence   *)
(* token of the answer before.                                             *)
(*                                                                         *)
(* External: logrus, which calls the hooks with its lock held or, in later *)
(* versions, without (LockedHooks); and CloudWatch Logs, which accepts a   *)
(* batch for an existing stream, within the limits and with the current    *)
(* token, and answers with the next token.  An answer may be lost.         *)
(***************************************************************************)
EXTENDS Naturals, Sequences, SequencesExt

CONSTANTS
  Loggers,       \* the goroutines that log
  LockedHooks,   \* whether logrus holds its lock while it calls a hook
  Size,          \* Size[e]: the size of event e, message and overhead
  MaxBatchSize,  \* 1048576; a batch is smaller
  MaxBatchLen,   \* 10000
  ChannelSize,   \* 10000
  MaxFailures    \* bound: calls of PutLogEvents that fail

Events == DOMAIN Size

ASSUME HookAssumption ==
  /\ Size \in Seq(Nat)
  /\ LockedHooks \in BOOLEAN
  /\ {MaxBatchSize, MaxBatchLen, ChannelSize} \subseteq Nat \ {0}
  /\ MaxFailures \in Nat

VARIABLES
  fired,     \* events that were logged, numbered in this order
  logger,    \* logger[l]: where goroutine l is, and the event it writes
  ch,        \* the channel of events
  batch,     \* the batch putBatches collects
  waiting,   \* batches whose goroutines wait for the mutex
  sending,   \* the batch of the one that holds it, and its token: none or one
  token,     \* nextSequenceToken
  err,       \* h.err is set
  stream,    \* the stream of this process: "created", "found" or, when another
             \* one was taken for it, "missing"
  expected,  \* the token the service expects for the stream
  stored,    \* the batches in the stream
  refused,   \* the batches whose call failed
  failures

callerVars == <<fired, logger>>
serviceVars == <<expected, stored, refused, failures>>
vars == <<callerVars, ch, batch, waiting, sending, token, err, stream, serviceVars>>

Idle == [at |-> "idle", event |-> 0]

\* NewBatchingHook: DescribeLogStreams finds the streams whose names begin with
\* this one's, which ends in the process id.  When the first is that of another
\* process, no stream is created and its token is taken.
Init ==
  /\ \/ stream = "created" /\ token = 0
     \/ stream = "found" /\ token = 1
     \/ stream = "missing" /\ token = 1
  /\ expected = token
  /\ fired = 0
  /\ logger = [l \in Loggers |-> Idle]
  /\ ch = <<>> /\ batch = <<>>
  /\ waiting = {} /\ sending = {}
  /\ err = FALSE
  /\ stored = <<>> /\ refused = <<>> /\ failures = 0

-----------------------------------------------------------------------------
(* Fire and Write.                                                         *)

Fire(l) ==
  /\ logger[l].at = "idle"
  /\ LockedHooks => \A k \in Loggers : logger[k].at = "idle"
  /\ fired < Len(Size)
  /\ fired' = fired + 1
  /\ logger' = [logger EXCEPT ![l] = [at |-> "send", event |-> fired + 1]]
  /\ UNCHANGED <<ch, batch, waiting, sending, token, err, stream, serviceVars>>

WriteSend(l) ==
  /\ logger[l].at = "send"
  /\ Len(ch) < ChannelSize
  /\ ch' = Append(ch, logger[l].event)
  /\ logger' = [logger EXCEPT ![l].at = "check"]
  /\ UNCHANGED <<fired, batch, waiting, sending, token, err, stream, serviceVars>>

\* h.err is read, then read again and cleared, then dereferenced.
WriteCheck(l) ==
  /\ logger[l].at = "check"
  /\ logger' = [logger EXCEPT ![l] = IF err THEN [@ EXCEPT !.at = "load"] ELSE Idle]
  /\ UNCHANGED <<fired, ch, batch, waiting, sending, token, err, stream, serviceVars>>

WriteLoad(l) ==
  /\ logger[l].at = "load"
  /\ logger' = [logger EXCEPT ![l].at = IF err THEN "clear" ELSE "panic"]
  /\ UNCHANGED <<fired, ch, batch, waiting, sending, token, err, stream, serviceVars>>

WriteClear(l) ==
  /\ logger[l].at = "clear"
  /\ err' = FALSE
  /\ logger' = [logger EXCEPT ![l] = Idle]
  /\ UNCHANGED <<fired, ch, batch, waiting, sending, token, stream, serviceVars>>

Write(l) == WriteSend(l) \/ WriteCheck(l) \/ WriteLoad(l) \/ WriteClear(l)

-----------------------------------------------------------------------------
(* putBatches.                                                             *)

SizeOf(b) ==
  LET size[n \in 0 .. Len(b)] == IF n = 0 THEN 0 ELSE size[n - 1] + Size[b[n]]
  IN size[Len(b)]

\* go sendBatch(batch); for an empty batch it takes the mutex and returns.
Launched(b) == waiting \union (IF b = <<>> THEN {} ELSE {b})

Full(e) == SizeOf(batch) + Size[e] >= MaxBatchSize \/ Len(batch) = MaxBatchLen

\* Bug seeded for checking: putBatches sends the batches itself.
CollectInline ==
  /\ waiting = {} /\ sending = {}
  /\ ch # <<>>
  /\ ch' = Tail(ch)
  /\ LET e == Head(ch)
     IN /\ waiting' = IF Full(e) THEN Launched(batch) ELSE waiting
        /\ batch' = IF Full(e) THEN <<e>> ELSE Append(batch, e)
  /\ UNCHANGED <<callerVars, sending, token, err, stream, serviceVars>>

\* Bug seeded for checking: the batch is reset after the event is in.
CollectResets ==
  /\ ch # <<>>
  /\ ch' = Tail(ch)
  /\ LET e == Head(ch)
     IN /\ waiting' = IF Full(e) THEN Launched(batch) ELSE waiting
        /\ batch' = IF Full(e) THEN <<>> ELSE Append(batch, e)
  /\ UNCHANGED <<callerVars, sending, token, err, stream, serviceVars>>

Collect ==
  /\ ch # <<>>
  /\ ch' = Tail(ch)
  /\ LET e == Head(ch)
     IN /\ waiting' = IF Full(e) THEN Launched(batch) ELSE waiting
        /\ batch' = IF Full(e) THEN <<e>> ELSE Append(batch, e)
  /\ UNCHANGED <<callerVars, sending, token, err, stream, serviceVars>>

\* Bug seeded for checking: the batch is kept.
TickKeepsBatch ==
  /\ batch # <<>>
  /\ waiting' = Launched(batch)
  /\ batch' = batch
  /\ UNCHANGED <<callerVars, ch, sending, token, err, stream, serviceVars>>

\* The tick; without a batch it changes nothing.
Tick ==
  /\ batch # <<>>
  /\ waiting' = Launched(batch)
  /\ batch' = <<>>
  /\ UNCHANGED <<callerVars, ch, sending, token, err, stream, serviceVars>>

-----------------------------------------------------------------------------
(* sendBatch, one goroutine for each batch, and the service.               *)

\* Bug seeded for checking: the token is read before the mutex is taken.
LockUnguarded(b) ==
  /\ waiting' = waiting \ {b}
  /\ sending' = sending \union {[batch |-> b, token |-> token]}
  /\ UNCHANGED <<callerVars, ch, batch, token, err, stream, serviceVars>>

Lock(b) ==
  /\ sending = {}
  /\ waiting' = waiting \ {b}
  /\ sending' = {[batch |-> b, token |-> token]}
  /\ UNCHANGED <<callerVars, ch, batch, token, err, stream, serviceVars>>

Acceptable(call) ==
  /\ stream # "missing"
  /\ call.token = expected
  /\ SizeOf(call.batch) < MaxBatchSize /\ Len(call.batch) <= MaxBatchLen

Accepted(call) ==
  /\ Acceptable(call)
  /\ stored' = Append(stored, call.batch)
  /\ expected' = expected + 1
  /\ token' = expected + 1
  /\ UNCHANGED <<err, refused, failures>>

\* The call fails: refused, not reached, or accepted with the answer lost.
Failed(call) ==
  /\ \/ ~Acceptable(call) /\ UNCHANGED <<stored, expected, failures>>
     \/ /\ failures < MaxFailures
        /\ failures' = failures + 1
        /\ UNCHANGED <<stored, expected>>
     \/ /\ failures < MaxFailures /\ Acceptable(call)
        /\ failures' = failures + 1
        /\ stored' = Append(stored, call.batch)
        /\ expected' = expected + 1
  /\ refused' = Append(refused, call.batch)
  /\ err' = TRUE
  /\ UNCHANGED token

PutLogEvents(call) ==
  /\ Accepted(call) \/ Failed(call)
  /\ sending' = sending \ {call}
  /\ UNCHANGED <<callerVars, ch, batch, waiting, stream>>

Send == (\E b \in waiting : Lock(b)) \/ (\E call \in sending : PutLogEvents(call))

Next ==
  \/ \E l \in Loggers : Fire(l) \/ Write(l)
  \/ Collect \/ Tick
  \/ Send

\* The goroutines of the program run.  Whether the service answers is left to
\* the properties.
Fairness ==
  /\ \A l \in Loggers : WF_vars(Write(l))
  /\ WF_vars(Collect) /\ WF_vars(Tick)

Spec == Init /\ [][Next]_vars /\ Fairness

-----------------------------------------------------------------------------
(* Properties.                                                             *)

Batches ==
  waiting \union {call.batch : call \in sending} \union ToSet(stored) \union ToSet(refused)

\* An event is in one batch at most, and in no batch while it is still in the
\* channel or being collected; no batch is sent twice, whatever answers are lost.
SentOnce ==
  /\ \A b, c \in Batches : b # c => ToSet(b) \intersect ToSet(c) = {}
  /\ \A b \in Batches : IsInjective(b) /\ ToSet(b) \intersect ToSet(ch \o batch) = {}
  /\ IsInjective(stored) /\ IsInjective(refused)

\* Unless a call fails on the way or the stream is another's, nothing is refused
\* but an event that is too big by itself: every batch is within the limits of
\* the service, and its goroutine uses each token once and in turn.
NoneRefused ==
  failures = 0 /\ stream # "missing" =>
    \A b \in ToSet(refused) : Len(b) = 1 /\ SizeOf(b) >= MaxBatchSize

\* Logging returns, also when the service does not answer: putBatches does not
\* wait for the batches it has handed out, and with locked hooks no goroutine
\* dereferences an error that another one has cleared.
WriteReturns ==
  LockedHooks => \A l \in Loggers : logger[l].at = "send" ~> logger[l].at = "idle"

InStream(e) == \E b \in ToSet(stored) : e \in ToSet(b)

\* When the service answers, every event is stored at last, or its batch fails.
StoredOrRefused ==
  WF_vars(Send) =>
    \A e \in Events :
      e \in ToSet(ch) ~> InStream(e) \/ \E b \in ToSet(refused) : e \in ToSet(b)
=============================================================================
