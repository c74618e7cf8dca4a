------------------------ MODULE CloudWatchHook_proofs -------------------------
(***************************************************************************)
(* Theorems about CloudWatchHook, for any number of goroutines that log,   *)
(* any events, any limits and any number of calls that fail.               *)
(***************************************************************************)
EXTENDS CloudWatchHook, SequenceLemmas

(***************************************************************************)
(* SentOnce.  The events that were logged are where they were put: with    *)
(* the goroutine that writes one, in the channel, in the batch that is     *)
(* being collected or in one that was handed out, and in one place only.   *)
(***************************************************************************)

Batch == Seq(Nat) \ {<<>>}

TypeOK ==
  /\ fired \in 0 .. Len(Size)
  /\ logger \in [Loggers -> [at : {"idle", "send", "check", "load", "clear", "panic"},
                             event : Nat]]
  /\ ch \in Seq(Nat) /\ batch \in Seq(Nat)
  /\ waiting \subseteq Batch
  /\ sending \subseteq [batch : Batch, token : Nat]
  /\ stored \in Seq(Batch) /\ refused \in Seq(Batch)
  /\ token \in Nat /\ expected \in Nat /\ failures \in Nat

\* The goroutines that have an event to write, and the events.
Senders == {l \in Loggers : logger[l].at = "send"}
Writing == {logger[l].event : l \in Senders}

\* The events that are in no batch that was handed out.
Loose == Writing \union ToSet(ch) \union ToSet(batch)

\* The events of the batches that were handed out.
Handed == UNION {ToSet(b) : b \in Batches}

\* The batches whose call was answered, or lost.
Done == ToSet(stored) \union ToSet(refused)

LooseOnce ==
  /\ \A k, l \in Senders : logger[k].event = logger[l].event => k = l
  /\ Writing \intersect (ToSet(ch) \union ToSet(batch)) = {}
  /\ ToSet(ch) \intersect ToSet(batch) = {}
  /\ IsInjective(ch) /\ IsInjective(batch)

Numbered == Loose \union Handed \subseteq 1 .. fired

HandedOnce ==
  /\ \A b \in Batches : IsInjective(b) /\ ToSet(b) \intersect Loose = {}
  /\ \A b, c \in Batches : b # c => ToSet(b) \intersect ToSet(c) = {}

\* A batch is waiting, being sent or done; one is being sent at a time.
CalledOnce ==
  /\ waiting \intersect Done = {}
  /\ \A call \in sending : call.batch \notin waiting \union Done
  /\ \A call, other \in sending : call = other
  /\ IsInjective(stored) /\ IsInjective(refused)

Inv == TypeOK /\ LooseOnce /\ Numbered /\ HandedOnce /\ CalledOnce

\* What the invariant says of the elements of the sequences.
LEMMA Elements ==
  ASSUME TypeOK
  PROVE  /\ ToSet(ch) \subseteq Nat /\ ToSet(batch) \subseteq Nat
         /\ ToSet(batch) = {} <=> batch = <<>>
         /\ Batches \subseteq Batch
         /\ \A b \in Batch : ToSet(b) # {} /\ ToSet(b) \subseteq Nat
<1>1. ToSet(stored) \subseteq Batch /\ ToSet(refused) \subseteq Batch
  BY ToSetType DEF TypeOK
<1>2. {call.batch : call \in sending} \subseteq Batch
  BY DEF TypeOK
<1>3. Batches \subseteq Batch
  BY <1>1, <1>2 DEF Batches, TypeOK
<1>4. \A b \in Batch : ToSet(b) # {} /\ ToSet(b) \subseteq Nat
  BY ToSetType DEF Batch
<1>5. ToSet(ch) \subseteq Nat /\ ToSet(batch) \subseteq Nat /\ (ToSet(batch) = {} <=> batch = <<>>)
  BY ToSetType DEF TypeOK
<1> QED
  BY <1>3, <1>4, <1>5

\* Logging an event: its number is new.
LEMMA InvFire ==
  ASSUME Inv, NEW l \in Loggers, Fire(l)
  PROVE  Inv'
<1>1. /\ fired' = fired + 1 /\ fired \in Nat
      /\ logger' = [logger EXCEPT ![l] = [at |-> "send", event |-> fired + 1]]
      /\ UNCHANGED <<ch, batch, waiting, sending, token, stored, refused, expected, failures>>
      /\ logger[l].at = "idle"
  BY DEF Fire, serviceVars, Inv, TypeOK
<1>2. Batches' = Batches /\ Done' = Done /\ Handed' = Handed
  BY <1>1 DEF Batches, Done, Handed
<1>3. TypeOK'
  <2>1. Len(Size) \in Nat /\ fired < Len(Size)
    BY HookAssumption, LenProperties DEF Fire
  <2>2. fired' \in 0 .. Len(Size)
    BY <1>1, <2>1
  <2> QED
    BY <1>1, <2>2 DEF Inv, TypeOK
<1>4. Senders' = Senders \union {l} /\ l \notin Senders
  BY <1>1 DEF Senders, Inv, TypeOK
<1>5. /\ \A k \in Senders : logger'[k].event = logger[k].event
      /\ logger'[l].event = fired + 1
  BY <1>1, <1>4 DEF Inv, TypeOK, Senders
<1>6. Writing' = Writing \union {fired + 1}
  BY <1>4, <1>5 DEF Writing
<1>7. Loose' = Loose \union {fired + 1}
  BY <1>1, <1>6 DEF Loose
<1>8. fired + 1 \notin Loose \union Handed
  BY <1>1 DEF Inv, Numbered
<1>9. \A k \in Senders : logger[k].event # fired + 1
  BY <1>8 DEF Loose, Writing
<1>10. LooseOnce'
  <2>1. \A k, j \in Senders' : logger'[k].event = logger'[j].event => k = j
    BY <1>4, <1>5, <1>9 DEF Inv, LooseOnce
  <2>2. fired + 1 \notin ToSet(ch) \union ToSet(batch)
    BY <1>8 DEF Loose
  <2> QED
    BY <1>1, <1>6, <2>1, <2>2 DEF Inv, LooseOnce
<1>11. Numbered'
  <2>1. \A n \in 1 .. fired : n \in 1 .. fired + 1
    BY <1>1
  <2>2. fired + 1 \in 1 .. fired + 1
    BY <1>1
  <2> QED
    BY <1>1, <1>2, <1>7, <2>1, <2>2 DEF Inv, Numbered
<1>12. HandedOnce'
  <2>1. \A b \in Batches : fired + 1 \notin ToSet(b)
    BY <1>8 DEF Handed
  <2> QED
    BY <1>2, <1>7, <2>1 DEF Inv, HandedOnce
<1>13. CalledOnce'
  BY <1>1, <1>2 DEF Inv, CalledOnce
<1> QED
  BY <1>3, <1>10, <1>11, <1>12, <1>13 DEF Inv

\* Writing to the channel: the event moves from the goroutine to the channel.
LEMMA InvWriteSend ==
  ASSUME Inv, NEW l \in Loggers, WriteSend(l)
  PROVE  Inv'
<1> DEFINE e == logger[l].event
<1>1. /\ logger[l].at = "send" /\ l \in Senders
      /\ ch' = Append(ch, e) /\ e \in Nat
      /\ logger' = [logger EXCEPT ![l].at = "check"]
      /\ UNCHANGED <<fired, batch, waiting, sending, token, stored, refused, expected, failures>>
  BY DEF WriteSend, serviceVars, Inv, TypeOK, Senders
<1>2. Batches' = Batches /\ Done' = Done /\ Handed' = Handed
  BY <1>1 DEF Batches, Done, Handed
<1>3. e \in Writing /\ e \notin ToSet(ch) /\ e \notin ToSet(batch)
  BY <1>1 DEF Inv, LooseOnce, Writing
<1>4. /\ ch' \in Seq(Nat) /\ ToSet(ch)' = ToSet(ch) \union {e}
      /\ IsInjective(ch')
  BY <1>1, <1>3, ToSetAppend DEF Inv, TypeOK, LooseOnce
<1>5. Senders' = Senders \ {l} /\ \A k \in Senders' : logger'[k].event = logger[k].event
  BY <1>1 DEF Senders, Inv, TypeOK
<1>6. \A k \in Senders' : logger[k].event # e
  BY <1>1, <1>5 DEF Inv, LooseOnce
<1>7. Writing' = Writing \ {e}
  BY <1>1, <1>5, <1>6 DEF Writing
<1>8. TypeOK'
  BY <1>1, <1>4 DEF Inv, TypeOK
<1>9. Loose' = Loose
  BY <1>1, <1>3, <1>4, <1>7 DEF Loose
<1>10. LooseOnce'
  BY <1>1, <1>3, <1>4, <1>5, <1>7 DEF Inv, LooseOnce
<1>11. Numbered' /\ HandedOnce'
  BY <1>1, <1>2, <1>9 DEF Inv, Numbered, HandedOnce
<1>12. CalledOnce'
  BY <1>1, <1>2 DEF Inv, CalledOnce
<1> QED
  BY <1>8, <1>10, <1>11, <1>12 DEF Inv

\* The rest of Write touches no event.
LEMMA InvWriteRest ==
  ASSUME Inv, NEW l \in Loggers, WriteCheck(l) \/ WriteLoad(l) \/ WriteClear(l)
  PROVE  Inv'
<1>1. /\ UNCHANGED <<fired, ch, batch, waiting, sending, token, stored, refused, expected, failures>>
      /\ logger[l].at # "send"
  BY DEF WriteCheck, WriteLoad, WriteClear, serviceVars
<1>2. /\ logger' \in [Loggers -> [at : {"idle", "send", "check", "load", "clear", "panic"},
                                  event : Nat]]
      /\ logger'[l].at # "send"
      /\ \A k \in Loggers \ {l} : logger'[k] = logger[k]
  <2> DEFINE at(a) == [logger[l] EXCEPT !.at = a]
  <2>1. \A a \in {"load", "clear", "panic"} :
          /\ at(a).at = a
          /\ at(a) \in [at : {"idle", "send", "check", "load", "clear", "panic"}, event : Nat]
    BY DEF Inv, TypeOK
  <2>2. Idle.at = "idle" /\ Idle \in [at : {"idle"}, event : Nat]
    BY DEF Idle
  <2>3. PICK w : logger' = [logger EXCEPT ![l] = w] /\ (w = Idle \/ \E a \in {"load", "clear", "panic"} : w = at(a))
    <3>1. CASE WriteCheck(l)
      BY <3>1 DEF WriteCheck
    <3>2. CASE WriteLoad(l)
      BY <3>2 DEF WriteLoad
    <3>3. CASE WriteClear(l)
      BY <3>3 DEF WriteClear
    <3> QED
      BY <3>1, <3>2, <3>3
  <2> HIDE DEF at
  <2>4. w \in [at : {"idle", "send", "check", "load", "clear", "panic"}, event : Nat] /\ w.at # "send"
    BY <2>1, <2>2, <2>3
  <2> QED
    BY <2>3, <2>4 DEF Inv, TypeOK
<1>3. Senders' = Senders /\ \A k \in Senders : logger'[k] = logger[k]
  BY <1>1, <1>2 DEF Senders
<1>4. Writing' = Writing
  BY <1>3 DEF Writing
<1>5. Batches' = Batches /\ Done' = Done /\ Handed' = Handed /\ Loose' = Loose
  BY <1>1, <1>4 DEF Batches, Done, Handed, Loose
<1>6. TypeOK'
  BY <1>1, <1>2 DEF Inv, TypeOK
<1>7. LooseOnce'
  BY <1>1, <1>3, <1>4 DEF Inv, LooseOnce
<1>8. Numbered' /\ HandedOnce' /\ CalledOnce'
  BY <1>1, <1>5 DEF Inv, Numbered, HandedOnce, CalledOnce
<1> QED
  BY <1>6, <1>7, <1>8 DEF Inv

\* Handing out what was collected: its events leave the loose ones.
LEMMA HandOut ==
  ASSUME Inv, waiting' = Launched(batch),
         UNCHANGED <<fired, logger, sending, stored, refused>>,
         ToSet(ch') \union ToSet(batch') = ToSet(ch)
  PROVE  Numbered' /\ HandedOnce' /\ CalledOnce' /\ waiting' \subseteq Batch
<1>1. Writing' = Writing /\ Done' = Done
  BY DEF Writing, Senders, Done
<1>2. Loose' = Writing \union ToSet(ch)
  BY <1>1 DEF Loose
<1>3. Loose' \intersect ToSet(batch) = {} /\ ToSet(batch) \subseteq Loose /\ Loose' \subseteq Loose
  BY <1>2 DEF Loose, Inv, LooseOnce
<1>4. CASE batch = <<>>
  <2>1. waiting' = waiting
    BY <1>4 DEF Launched
  <2>2. Batches' = Batches /\ Handed' = Handed
    BY <2>1 DEF Batches, Handed
  <2>3. Numbered'
    BY <1>3, <2>2 DEF Inv, Numbered
  <2>4. HandedOnce'
    BY <1>3, <2>2 DEF Inv, HandedOnce
  <2>5. CalledOnce' /\ waiting' \subseteq Batch
    BY <1>1, <2>1 DEF Inv, TypeOK, CalledOnce
  <2> QED
    BY <2>3, <2>4, <2>5
<1>5. CASE batch # <<>>
  <2>1. waiting' = waiting \union {batch} /\ batch \in Batch
    BY <1>5 DEF Launched, Inv, TypeOK, Batch
  <2>2. Batches' = Batches \union {batch}
    BY <2>1 DEF Batches
  <2>3. Handed' = Handed \union ToSet(batch)
    BY <2>2 DEF Handed
  <2>4. \A b \in Batches : ToSet(b) \intersect ToSet(batch) = {} /\ b # batch
    <3>1. \A b \in Batches : ToSet(b) \intersect ToSet(batch) = {}
      BY <1>3 DEF Inv, HandedOnce
    <3>2. ToSet(batch) # {}
      BY <1>5, Elements DEF Inv
    <3> QED
      BY <3>1, <3>2
  <2>5. Numbered'
    BY <1>3, <2>3 DEF Inv, Numbered
  <2>6. HandedOnce'
    <3>1. \A b \in Batches' : IsInjective(b) /\ ToSet(b) \intersect Loose' = {}
      BY <1>3, <2>2 DEF Inv, HandedOnce, LooseOnce
    <3>2. \A b, c \in Batches' : b # c => ToSet(b) \intersect ToSet(c) = {}
      BY <2>2, <2>4 DEF Inv, HandedOnce
    <3> QED
      BY <3>1, <3>2 DEF HandedOnce
  <2>7. batch \notin Done /\ \A call \in sending : call.batch # batch
    BY <2>4 DEF Batches, Done
  <2>8. CalledOnce' /\ waiting' \subseteq Batch
    BY <1>1, <2>1, <2>7 DEF Inv, TypeOK, CalledOnce
  <2> QED
    BY <2>5, <2>6, <2>8
<1> QED
  BY <1>4, <1>5

\* Collecting: the event joins the batch or, when that is full, a new one.
LEMMA InvCollect == Inv /\ Collect => Inv'
<1> SUFFICES ASSUME Inv, Collect PROVE Inv'
  OBVIOUS
<1> DEFINE e == Head(ch)
<1>1. /\ ch # <<>> /\ ch' = Tail(ch)
      /\ waiting' = IF Full(e) THEN Launched(batch) ELSE waiting
      /\ batch' = IF Full(e) THEN <<e>> ELSE Append(batch, e)
      /\ UNCHANGED <<fired, logger, sending, token, stored, refused, expected, failures>>
  BY DEF Collect, callerVars, serviceVars
<1>2. /\ e \in Nat /\ ch' \in Seq(Nat)
      /\ ToSet(ch) = ToSet(ch') \union {e}
      /\ IsInjective(ch') /\ e \notin ToSet(ch')
  BY <1>1, ToSetTail DEF Inv, TypeOK, LooseOnce
<1>3. Senders' = Senders /\ Writing' = Writing /\ Done' = Done
  BY <1>1 DEF Senders, Writing, Done
<1>4. e \notin ToSet(batch) /\ e \notin Writing
  BY <1>2 DEF Inv, LooseOnce
<1>5. CASE ~Full(e)
  <2>1. waiting' = waiting /\ batch' = Append(batch, e)
    BY <1>1, <1>5
  <2>2. /\ batch' \in Seq(Nat) /\ ToSet(batch') = ToSet(batch) \union {e}
        /\ IsInjective(batch')
    BY <1>2, <1>4, <2>1, ToSetAppend DEF Inv, TypeOK, LooseOnce
  <2>3. Batches' = Batches /\ Handed' = Handed
    BY <1>1, <2>1 DEF Batches, Handed
  <2>4. Loose' = Loose
    BY <1>2, <1>3, <2>2 DEF Loose
  <2>5. TypeOK'
    BY <1>1, <1>2, <2>1, <2>2 DEF Inv, TypeOK
  <2>6. LooseOnce'
    BY <1>1, <1>2, <1>3, <1>4, <2>2 DEF Inv, LooseOnce
  <2>7. Numbered' /\ HandedOnce'
    BY <1>1, <2>3, <2>4 DEF Inv, Numbered, HandedOnce
  <2>8. CalledOnce'
    BY <1>1, <1>3, <2>1 DEF Inv, CalledOnce
  <2> QED
    BY <2>5, <2>6, <2>7, <2>8 DEF Inv
<1>6. CASE Full(e)
  <2>1. waiting' = Launched(batch) /\ batch' = <<e>>
    BY <1>1, <1>6
  <2>2. batch' \in Seq(Nat) /\ ToSet(batch') = {e} /\ IsInjective(batch')
    BY <1>2, <2>1, ToSetSingle
  <2>3. Numbered' /\ HandedOnce' /\ CalledOnce' /\ waiting' \subseteq Batch
    BY <1>1, <1>2, <2>1, <2>2, HandOut
  <2>4. TypeOK'
    BY <1>1, <1>2, <2>2, <2>3 DEF Inv, TypeOK
  <2>5. LooseOnce'
    BY SMTT(30), <1>1, <1>2, <1>3, <1>4, <2>2 DEF Inv, LooseOnce
  <2> QED
    BY <2>3, <2>4, <2>5 DEF Inv
<1> QED
  BY <1>5, <1>6

\* The tick: the batch is handed out and a new one begun.
LEMMA InvTick == Inv /\ Tick => Inv'
<1> SUFFICES ASSUME Inv, Tick PROVE Inv'
  OBVIOUS
<1>1. /\ waiting' = Launched(batch) /\ batch' = <<>>
      /\ UNCHANGED <<fired, logger, ch, sending, token, stored, refused, expected, failures>>
  BY DEF Tick, callerVars, serviceVars
<1>2. batch' \in Seq(Nat) /\ ToSet(batch') = {} /\ IsInjective(batch')
  BY <1>1 DEF ToSet, IsInjective
<1>3. Numbered' /\ HandedOnce' /\ CalledOnce' /\ waiting' \subseteq Batch
  BY <1>1, <1>2, HandOut
<1>4. TypeOK'
  BY <1>1, <1>2, <1>3 DEF Inv, TypeOK
<1>5. LooseOnce'
  BY <1>1, <1>2 DEF Inv, LooseOnce, Senders, Writing
<1> QED
  BY <1>3, <1>4, <1>5 DEF Inv

\* Taking the mutex: a batch that was waiting is being sent.
LEMMA InvLock ==
  ASSUME Inv, NEW b \in waiting, Lock(b)
  PROVE  Inv'
<1> DEFINE call == [batch |-> b, token |-> token]
<1>1. /\ sending = {} /\ waiting' = waiting \ {b} /\ sending' = {call}
      /\ UNCHANGED <<fired, logger, ch, batch, token, stored, refused, expected, failures>>
  BY DEF Lock, callerVars, serviceVars
<1>2. call \in [batch : Batch, token : Nat] /\ call.batch = b
  BY DEF Inv, TypeOK
<1> HIDE DEF call
<1>3. Batches' = Batches /\ Done' = Done
  BY <1>1, <1>2 DEF Batches, Done
<1>4. Handed' = Handed /\ Loose' = Loose /\ Senders' = Senders /\ Writing' = Writing
  BY <1>1, <1>3 DEF Handed, Loose, Writing, Senders
<1>5. TypeOK'
  BY <1>1, <1>2 DEF Inv, TypeOK
<1>6. LooseOnce'
  BY <1>1, <1>4 DEF Inv, LooseOnce
<1>7. Numbered' /\ HandedOnce'
  BY <1>1, <1>3, <1>4 DEF Inv, Numbered, HandedOnce
<1>8. CalledOnce'
  BY <1>1, <1>2, <1>3 DEF Inv, CalledOnce
<1> QED
  BY <1>5, <1>6, <1>7, <1>8 DEF Inv

\* The answer, or its loss: the batch that was being sent is done, once.
LEMMA InvPutLogEvents ==
  ASSUME Inv, NEW call \in sending, PutLogEvents(call)
  PROVE  Inv'
<1> DEFINE b == call.batch
<1>1. /\ sending' = {}
      /\ UNCHANGED <<fired, logger, ch, batch, waiting>>
      /\ b \in Batch /\ b \in Batches
      /\ b \notin waiting \union Done
  BY DEF PutLogEvents, callerVars, Inv, TypeOK, CalledOnce, Batches
<1>2. /\ stored' \in {stored, Append(stored, b)}
      /\ refused' \in {refused, Append(refused, b)}
      /\ token' \in {token, expected + 1} /\ expected' \in {expected, expected + 1}
      /\ failures' \in {failures, failures + 1}
  <2>1. CASE Accepted(call)
    BY <2>1, Zenon DEF Accepted
  <2>2. CASE Failed(call)
    BY <2>2, Zenon DEF Failed
  <2> QED
    BY <2>1, <2>2 DEF PutLogEvents
<1>3. /\ token' \in Nat /\ expected' \in Nat /\ failures' \in Nat
  BY <1>2 DEF Inv, TypeOK
<1>4. /\ stored' \in Seq(Batch) /\ IsInjective(stored')
      /\ ToSet(stored') \subseteq ToSet(stored) \union {b}
  <2>1. stored \in Seq(Batch) /\ IsInjective(stored) /\ b \notin ToSet(stored)
    BY <1>1 DEF Inv, TypeOK, CalledOnce, Done
  <2>2. /\ Append(stored, b) \in Seq(Batch) /\ IsInjective(Append(stored, b))
        /\ ToSet(Append(stored, b)) = ToSet(stored) \union {b}
    BY <1>1, <2>1, ToSetAppend
  <2> QED
    BY <1>2, <2>1, <2>2
<1>5. /\ refused' \in Seq(Batch) /\ IsInjective(refused')
      /\ ToSet(refused') \subseteq ToSet(refused) \union {b}
  <2>1. refused \in Seq(Batch) /\ IsInjective(refused) /\ b \notin ToSet(refused)
    BY <1>1 DEF Inv, TypeOK, CalledOnce, Done
  <2>2. /\ Append(refused, b) \in Seq(Batch) /\ IsInjective(Append(refused, b))
        /\ ToSet(Append(refused, b)) = ToSet(refused) \union {b}
    BY <1>1, <2>1, ToSetAppend
  <2> QED
    BY <1>2, <2>1, <2>2
<1>6. Done' \subseteq Done \union {b}
  BY <1>4, <1>5 DEF Done
<1>7. Batches' \subseteq Batches
  BY <1>1, <1>4, <1>5 DEF Batches
<1>8. Loose' = Loose /\ Senders' = Senders /\ Writing' = Writing
  BY <1>1 DEF Loose, Writing, Senders
<1>9. TypeOK'
  BY <1>1, <1>3, <1>4, <1>5 DEF Inv, TypeOK
<1>10. LooseOnce'
  BY <1>1, <1>8 DEF Inv, LooseOnce
<1>11. Numbered'
  <2>1. Handed' \subseteq Handed
    BY <1>7 DEF Handed
  <2> QED
    BY <1>1, <1>8, <2>1 DEF Inv, Numbered
<1>12. HandedOnce'
  BY <1>7, <1>8 DEF Inv, HandedOnce
<1>13. CalledOnce'
  BY <1>1, <1>4, <1>5, <1>6 DEF Inv, CalledOnce
<1> QED
  BY <1>9, <1>10, <1>11, <1>12, <1>13 DEF Inv

\* Every step preserves the invariant.
LEMMA InvInductive == Inv /\ [Next]_vars => Inv'
<1> SUFFICES ASSUME Inv, [Next]_vars PROVE Inv'
  OBVIOUS
<1>1. ASSUME NEW l \in Loggers, Write(l) PROVE Inv'
  BY <1>1, InvWriteSend, InvWriteRest DEF Write
<1>2. CASE UNCHANGED vars
  BY <1>2 DEF vars, callerVars, serviceVars, Inv, TypeOK, LooseOnce, Numbered, HandedOnce,
              CalledOnce, Senders, Writing, Loose, Handed, Batches, Done
<1> QED
  BY <1>1, <1>2, InvFire, InvCollect, InvTick, InvLock, InvPutLogEvents DEF Next, Send

\* The invariant holds before anything is logged.
LEMMA InvInit == Init => Inv
<1> SUFFICES ASSUME Init PROVE Inv
  OBVIOUS
<1>1. /\ token \in Nat /\ expected \in Nat /\ fired = 0 /\ failures = 0
      /\ ch = <<>> /\ batch = <<>> /\ waiting = {} /\ sending = {}
      /\ stored = <<>> /\ refused = <<>>
  BY DEF Init
<1>2. Idle.at = "idle" /\ Idle \in [at : {"idle"}, event : Nat]
  BY DEF Idle
<1>3. Senders = {}
  BY <1>2 DEF Init, Senders
<1>4. ToSet(<<>>) = {} /\ IsInjective(<<>>)
  BY DEF ToSet, IsInjective
<1>5. Batches = {} /\ Loose = {} /\ Done = {} /\ Handed = {}
  BY <1>1, <1>3, <1>4 DEF Batches, Loose, Writing, Done, Handed
<1>6. TypeOK
  BY <1>1, <1>2 DEF Init, TypeOK
<1> QED
  BY <1>1, <1>3, <1>4, <1>5, <1>6
     DEF Inv, LooseOnce, Numbered, HandedOnce, CalledOnce, Writing

\* An event is in one batch at most, in none while it is in the channel or
\* collected, and no batch is sent twice, whatever answers are lost.
THEOREM EventsSentOnce == Spec => []SentOnce
<1>1. Inv => SentOnce
  <2> SUFFICES ASSUME Inv PROVE SentOnce
    OBVIOUS
  <2>1. ToSet(ch \o batch) = ToSet(ch) \union ToSet(batch)
    BY ToSetConcat DEF Inv, TypeOK
  <2> QED
    BY <2>1 DEF Inv, HandedOnce, CalledOnce, Loose, SentOnce
<1> QED
  BY <1>1, InvInit, InvInductive, PTL DEF Spec

(***************************************************************************)
(* NoneRefused.  SizeOf is a recursive function: what it adds up for a     *)
(* batch and an event more follows by induction over the batch.            *)
(***************************************************************************)

\* The sizes of the events of a batch, as the values that SizeOf adds up.
LEMMA SizeOfAdds ==
  ASSUME NEW b \in Seq(Events)
  PROVE  LET v == [i \in 1 .. Len(b) |-> Size[b[i]]]
         IN v \in [1 .. Len(b) -> Nat] /\ \E s : Adds(Len(b), v, s) /\ SizeOf(b) = s[Len(b)]
<1> DEFINE n == Len(b)
           v == [i \in 1 .. n |-> Size[b[i]]]
           Q(f) == f = [i \in 0 .. n |-> IF i = 0 THEN 0 ELSE f[i - 1] + Size[b[i]]]
           s == CHOOSE f : Q(f)
<1>1. n \in Nat
  BY LenProperties
<1>2. v \in [1 .. n -> Nat]
  <2>1. \A e \in Events : Size[e] \in Nat
    BY HookAssumption, LenProperties, ElementOfSeq DEF Events
  <2> QED
    BY <2>1, ElementOfSeq
<1>3. \A f : Adds(n, v, f) <=> Q(f)
  <2> SUFFICES ASSUME NEW f PROVE Adds(n, v, f) <=> Q(f)
    OBVIOUS
  <2>1. [i \in 0 .. n |-> IF i = 0 THEN 0 ELSE f[i - 1] + v[i]]
          = [i \in 0 .. n |-> IF i = 0 THEN 0 ELSE f[i - 1] + Size[b[i]]]
    BY <1>1
  <2> QED
    BY <2>1 DEF Adds
<1>4. \E f : Adds(n, v, f)
  <2> HIDE DEF v, n
  <2> QED
    BY <1>1, <1>2, AddsExist
<1>5. Q(s)
  <2>1. \E f : Q(f)
    <3> HIDE DEF Q, v, n
    <3> QED
      BY <1>3, <1>4
  <2> HIDE DEF Q
  <2> QED
    BY <2>1
<1>6. SizeOf(b) = s[n]
  BY DEF SizeOf
<1>7. Adds(n, v, s)
  <2> HIDE DEF Q, v, n, s
  <2> QED
    BY <1>3, <1>5
<1> HIDE DEF Q, s
<1> QED
  BY <1>2, <1>6, <1>7

\* An empty batch has no size.
LEMMA SizeOfEmpty == SizeOf(<<>>) = 0
<1> DEFINE v == [i \in 1 .. Len(<<>>) |-> Size[<<>>[i]]]
<1>1. <<>> \in Seq(Events) /\ Len(<<>>) = 0
  OBVIOUS
<1>2. PICK s : v \in [1 .. Len(<<>>) -> Nat] /\ Adds(Len(<<>>), v, s) /\ SizeOf(<<>>) = s[Len(<<>>)]
  BY <1>1, SizeOfAdds
<1> HIDE DEF v
<1>3. v \in [1 .. 0 -> Nat] /\ Adds(0, v, s) /\ SizeOf(<<>>) = s[0] /\ 0 \in Nat
  BY <1>1, <1>2
<1>4. s[0] = 0
  BY <1>3, AddsDef
<1> QED
  BY <1>3, <1>4

\* An event more adds its own size.
LEMMA SizeOfAppend ==
  ASSUME NEW b \in Seq(Events), NEW e \in Events
  PROVE  /\ SizeOf(b) \in Nat /\ Size[e] \in Nat
         /\ SizeOf(Append(b, e)) = SizeOf(b) + Size[e]
<1> DEFINE n == Len(b)
           c == Append(b, e)
           v == [i \in 1 .. n |-> Size[b[i]]]
           w == [i \in 1 .. n + 1 |-> Size[c[i]]]
<1>1. /\ n \in Nat /\ n + 1 \in Nat
      /\ c \in Seq(Events) /\ Len(c) = n + 1
      /\ \A i \in 1 .. n : c[i] = b[i]
      /\ c[n + 1] = e
  BY AppendProperties, LenProperties
<1>2. PICK s : v \in [1 .. n -> Nat] /\ Adds(n, v, s) /\ SizeOf(b) = s[n]
  BY SizeOfAdds
<1>3. PICK t : w \in [1 .. n + 1 -> Nat] /\ Adds(n + 1, w, t) /\ SizeOf(c) = t[n + 1]
  <2> HIDE DEF c, n
  <2> QED
    BY <1>1, SizeOfAdds
<1>4. (\A i \in 1 .. n : w[i] = v[i]) /\ w[n + 1] = Size[e]
  <2> HIDE DEF c, n
  <2> QED
    BY <1>1
<1>5. s[n] \in Nat
  <2> HIDE DEF v, n
  <2> QED
    BY SMTT(30), <1>1, <1>2, AddsDef
<1>6. t[n + 1] = s[n] + w[n + 1]
  <2> HIDE DEF v, w, n
  <2> QED
    BY SMTT(30), <1>1, <1>2, <1>3, <1>4, AddsExtend
<1>7. Size[e] \in Nat
  BY HookAssumption, LenProperties, ElementOfSeq DEF Events
<1> QED
  BY <1>2, <1>3, <1>4, <1>5, <1>6, <1>7

\* A batch that putBatches may collect: the service takes it, unless it is one
\* event that is too big by itself.
Fits(b) == Len(b) <= MaxBatchLen /\ (SizeOf(b) < MaxBatchSize \/ Len(b) = 1)

Limits == \A b \in Batches \union {batch} : Fits(b)

\* Unless a call failed on the way, the goroutine that holds the mutex has the
\* token the service expects, and what was refused was too big.
Tokens ==
  failures = 0 /\ stream # "missing" =>
    /\ token = expected
    /\ \A call \in sending : call.token = expected
    /\ \A b \in ToSet(refused) : SizeOf(b) >= MaxBatchSize

\* A sequence of logged events.
LEMMA LoggedSeq ==
  ASSUME TypeOK, NEW s \in Seq(Nat), ToSet(s) \subseteq 1 .. fired
  PROVE  s \in Seq(Events)
<1>1. 1 .. fired \subseteq Events
  BY HookAssumption, LenProperties DEF TypeOK, Events
<1>2. Len(s) \in Nat /\ s \in [1 .. Len(s) -> Nat]
  BY LenProperties
<1>3. s \in [1 .. Len(s) -> Events]
  BY <1>1, <1>2 DEF ToSet
<1> QED
  BY <1>2, <1>3, FunctionIsSeq

\* What is collected is of logged events.
LEMMA Collected ==
  ASSUME Inv
  PROVE  /\ ch \in Seq(Events) /\ batch \in Seq(Events)
         /\ ch # <<>> => Head(ch) \in Events
<1>1. ToSet(ch) \subseteq 1 .. fired /\ ToSet(batch) \subseteq 1 .. fired
  BY DEF Inv, Numbered, Loose
<1> QED
  BY <1>1, LoggedSeq, HeadTailProperties DEF Inv, TypeOK

\* What was handed out is of logged events, too, and has a size.
LEMMA HandedSize ==
  ASSUME Inv, NEW b \in Batches
  PROVE  SizeOf(b) \in Nat
<1>1. b \in Seq(Nat) /\ ToSet(b) \subseteq 1 .. fired
  BY Elements DEF Inv, Numbered, Handed, Batch
<1>2. b \in Seq(Events)
  BY <1>1, LoggedSeq DEF Inv
<1>3. PICK i \in DOMAIN b : b[i] \in Events
  <2>1. b # <<>> /\ Len(b) \in Nat /\ DOMAIN b = 1 .. Len(b)
    BY <1>1, Elements, LenProperties DEF Inv, Batch
  <2>2. 1 \in DOMAIN b
    BY <2>1, <1>1, EmptySeq
  <2> QED
    BY <1>2, <2>1, <2>2, ElementOfSeq
<1> QED
  BY <1>2, <1>3, SizeOfAppend

\* Batches keep within the limits.
LEMMA LimitsInductive ==
  ASSUME Inv, Limits, [Next]_vars
  PROVE  Limits'
<1>1. CASE Collect
  <2> DEFINE e == Head(ch)
  <2>1. /\ e \in Events /\ batch \in Seq(Events)
        /\ waiting' = IF Full(e) THEN Launched(batch) ELSE waiting
        /\ batch' = IF Full(e) THEN <<e>> ELSE Append(batch, e)
        /\ UNCHANGED <<sending, stored, refused>>
    BY <1>1, Collected DEF Collect, callerVars, serviceVars
  <2>2. Batches' \subseteq Batches \union {batch}
    BY <2>1 DEF Batches, Launched
  <2>3. SizeOf(batch) \in Nat /\ Size[e] \in Nat /\ Len(batch) \in Nat
    BY <2>1, SizeOfAppend, LenProperties
  <2>4. Fits(batch')
    <3>1. CASE Full(e)
      <4>1. Len(batch') = 1
        BY <2>1, <3>1
      <4> QED
        BY <4>1, HookAssumption DEF Fits
    <3>2. CASE ~Full(e)
      <4>1. batch' = Append(batch, e)
        BY <2>1, <3>2
      <4>2. Len(batch') = Len(batch) + 1
        BY <2>1, <4>1, AppendProperties
      <4>3. SizeOf(batch') = SizeOf(batch) + Size[e]
        BY <2>1, <4>1, SizeOfAppend
      <4>4. SizeOf(batch) + Size[e] < MaxBatchSize /\ Len(batch) # MaxBatchLen
        BY <2>3, <3>2, HookAssumption DEF Full
      <4> QED
        BY <2>3, <4>2, <4>3, <4>4, HookAssumption DEF Limits, Fits
    <3> QED
      BY <3>1, <3>2
  <2> QED
    BY <2>2, <2>4 DEF Limits
<1>2. CASE Tick
  <2>1. waiting' = Launched(batch) /\ batch' = <<>> /\ UNCHANGED <<sending, stored, refused>>
    BY <1>2 DEF Tick, serviceVars
  <2>2. Batches' \subseteq Batches \union {batch}
    BY <2>1 DEF Batches, Launched
  <2>3. Fits(<<>>)
    <3>1. SizeOf(<<>>) = 0
      BY SizeOfEmpty
    <3> QED
      BY <3>1, HookAssumption DEF Fits
  <2> QED
    BY <2>1, <2>2, <2>3 DEF Limits
<1>3. ASSUME NEW b \in waiting, Lock(b) PROVE Limits'
  <2>1. Batches' \subseteq Batches /\ batch' = batch
    BY <1>3 DEF Lock, Batches, serviceVars
  <2> QED
    BY <2>1 DEF Limits
<1>4. ASSUME NEW call \in sending, PutLogEvents(call) PROVE Limits'
  <2>1. /\ stored' \in {stored, Append(stored, call.batch)}
        /\ refused' \in {refused, Append(refused, call.batch)}
    <3>1. CASE Accepted(call)
      BY <3>1, Zenon DEF Accepted
    <3>2. CASE Failed(call)
      BY <3>2, Zenon DEF Failed
    <3> QED
      BY <1>4, <3>1, <3>2 DEF PutLogEvents
  <2>2. /\ ToSet(stored') \subseteq ToSet(stored) \union {call.batch}
        /\ ToSet(refused') \subseteq ToSet(refused) \union {call.batch}
    <3>1. stored \in Seq(Batch) /\ refused \in Seq(Batch) /\ call.batch \in Batch
      BY DEF Inv, TypeOK
    <3>2. /\ ToSet(Append(stored, call.batch)) = ToSet(stored) \union {call.batch}
          /\ ToSet(Append(refused, call.batch)) = ToSet(refused) \union {call.batch}
      BY <3>1, ToSetAppend
    <3> QED
      BY <2>1, <3>2
  <2>3. Batches' \subseteq Batches /\ batch' = batch
    BY <1>4, <2>2 DEF PutLogEvents, Batches
  <2> QED
    BY <2>3 DEF Limits
<1>5. CASE UNCHANGED <<batch, waiting, sending, stored, refused>>
  BY <1>5 DEF Limits, Batches, Fits
<1>6. ASSUME NEW l \in Loggers, Fire(l) \/ Write(l)
      PROVE  UNCHANGED <<batch, waiting, sending, stored, refused>>
  BY <1>6 DEF Fire, Write, WriteSend, WriteCheck, WriteLoad, WriteClear, serviceVars
<1> QED
  BY <1>1, <1>2, <1>3, <1>4, <1>5, <1>6 DEF Next, Send, vars, serviceVars

\* The token is handed from one call to the next.
LEMMA TokensInductive ==
  ASSUME Inv, Limits, Tokens, [Next]_vars
  PROVE  Tokens'
<1>1. CASE UNCHANGED <<token, sending, stream, expected, refused, failures>>
  BY <1>1 DEF Tokens
<1>2. ASSUME NEW b \in waiting, Lock(b) PROVE Tokens'
  BY <1>2 DEF Lock, Tokens, serviceVars
<1>3. ASSUME NEW call \in sending, PutLogEvents(call) PROVE Tokens'
  <2> SUFFICES ASSUME failures' = 0, stream' # "missing"
               PROVE  /\ token' = expected' /\ sending' = {}
                      /\ \A b \in ToSet(refused') : SizeOf(b) >= MaxBatchSize
    BY DEF Tokens
  <2>0. failures + 1 # 0 /\ stream # "missing" /\ sending' = {}
    BY <1>3 DEF PutLogEvents, Inv, TypeOK, CalledOnce
  <2>1. CASE Accepted(call)
    <3>1. failures = 0 /\ token' = expected' /\ refused' = refused
      BY <2>1 DEF Accepted
    <3> QED
      BY <2>0, <3>1 DEF Tokens
  <2>2. CASE Failed(call)
    <3>1. /\ failures = 0 /\ ~Acceptable(call)
          /\ expected' = expected /\ token' = token
          /\ refused' = Append(refused, call.batch)
      BY <2>0, <2>2, Zenon DEF Failed
    <3>2. call.token = expected /\ token = expected
      BY <2>0, <3>1 DEF Tokens
    <3>3. call.batch \in Batches /\ Fits(call.batch) /\ SizeOf(call.batch) \in Nat
      BY HandedSize DEF Batches, Limits
    <3>4. SizeOf(call.batch) >= MaxBatchSize
      BY <2>0, <3>1, <3>2, <3>3, HookAssumption DEF Acceptable, Fits
    <3>5. ToSet(refused') = ToSet(refused) \union {call.batch}
      BY <3>1, ToSetAppend DEF Inv, TypeOK
    <3> QED
      BY <2>0, <3>1, <3>2, <3>4, <3>5 DEF Tokens
  <2> QED
    BY <1>3, <2>1, <2>2 DEF PutLogEvents
<1>4. ASSUME (\E l \in Loggers : Fire(l) \/ Write(l)) \/ Collect \/ Tick
      PROVE  UNCHANGED <<token, sending, stream, expected, refused, failures>>
  BY <1>4 DEF Fire, Write, WriteSend, WriteCheck, WriteLoad, WriteClear, Collect, Tick, serviceVars
<1> QED
  BY <1>1, <1>2, <1>3, <1>4 DEF Next, Send, vars, serviceVars

\* Unless a call fails on the way or the stream is another's, the service
\* refuses nothing but an event that is too big by itself.
THEOREM NothingRefused == Spec => []NoneRefused
<1>1. Init => Limits /\ Tokens
  <2> SUFFICES ASSUME Init PROVE Limits /\ Tokens
    OBVIOUS
  <2>1. Batches = {} /\ batch = <<>> /\ sending = {} /\ ToSet(refused) = {} /\ token = expected
    BY DEF Init, Batches, ToSet
  <2>2. Fits(<<>>)
    BY SizeOfEmpty, HookAssumption DEF Fits
  <2> QED
    BY <2>1, <2>2 DEF Limits, Tokens
<1>2. Inv /\ Limits /\ Tokens /\ [Next]_vars => (Limits /\ Tokens)'
  BY LimitsInductive, TokensInductive
<1>3. Inv /\ Limits /\ Tokens => NoneRefused
  <2> SUFFICES ASSUME Inv, Limits, Tokens, failures = 0, stream # "missing",
                      NEW b \in ToSet(refused)
               PROVE  Len(b) = 1 /\ SizeOf(b) >= MaxBatchSize
    BY DEF NoneRefused
  <2>1. b \in Batches /\ Fits(b) /\ SizeOf(b) >= MaxBatchSize /\ SizeOf(b) \in Nat
    BY HandedSize DEF Batches, Limits, Tokens
  <2> QED
    BY <2>1, HookAssumption DEF Fits
<1> QED
  BY <1>1, <1>2, <1>3, InvInit, InvInductive, PTL DEF Spec
=============================================================================
