---------------------------- MODULE Tshark_proofs -----------------------------
(***************************************************************************)
(* Theorems about the tshark engine: the stages of Pipeline, for any       *)
(* output of tshark, any records and any capacity of the channels, and     *)
(* DropReport, for any number of starts and of failures.                   *)
(***************************************************************************)
EXTENDS Pipeline, DropReport, SequenceLemmas

(***************************************************************************)
(* Pipeline.                                                               *)
(***************************************************************************)

\* The lines that have left the first channel.
Read == next - 1 - Len(ch["line"])

\* The first channel holds the lines that follow, and the line processor has
\* collected those of the record it is in.
Reading ==
  /\ next \in 1 .. Len(Lines) + 1
  /\ ch["line"] \in Seq(ToSet(Lines)) /\ Read \in Nat
  /\ \A i \in 1 .. Len(ch["line"]) : ch["line"][i] = Lines[Read + i]
  /\ collect = InRecord(Read)
  /\ collected = IF collect THEN Among(SubSeq(Lines, 1, Read), LineOf(Lines[Read].rec))
                            ELSE <<>>

Wholes == {LinesOf[rec] : rec \in Records}
Converted == {rec \in Records : Outcome(rec) = "converted"}

\* What is under way between the stages, and that a sender has something to send.
Staged ==
  /\ DOMAIN ch = Stage /\ DOMAIN at = Stage /\ DOMAIN out = Stage
  /\ \A s \in Stage : at[s] = "send" => out[s] # <<>>
  /\ out["line"] \in Seq(Wholes) /\ ch["bulk"] \in Seq(Wholes)
  /\ out["bulk"] \in Seq(Converted) /\ ch["correlator"] \in Seq(Converted)

PipelineInv == Reading /\ Staged

\* The first n lines of an output, and the lines of a record among them.
LEMMA FirstLines ==
  ASSUME NEW n \in 0 .. Len(Lines)
  PROVE  /\ Lines \in Seq(ToSet(Lines)) /\ Len(Lines) \in Nat
         /\ DOMAIN Lines = 1 .. Len(Lines)
         /\ \A i \in DOMAIN Lines : Lines[i] \in ToSet(Lines)
         /\ SubSeq(Lines, 1, n) \in Seq(ToSet(Lines)) /\ Len(SubSeq(Lines, 1, n)) = n
         /\ \A i \in 1 .. n : SubSeq(Lines, 1, n)[i] = Lines[i]
<1>1. PICK S : Lines \in Seq(S)
  BY PipelineAssumption
<1>2. Len(Lines) \in Nat /\ DOMAIN Lines = 1 .. Len(Lines)
  BY <1>1, LenProperties
<1>3. \A i \in DOMAIN Lines : Lines[i] \in ToSet(Lines)
  BY DEF ToSet
<1>4. Lines \in Seq(ToSet(Lines))
  <2>1. Lines = [i \in 1 .. Len(Lines) |-> Lines[i]]
    BY <1>1
  <2>2. Lines \in [1 .. Len(Lines) -> ToSet(Lines)]
    BY <1>2, <1>3, <2>1
  <2> QED
    BY <1>2, <2>2, FunctionIsSeq
<1>5. /\ SubSeq(Lines, 1, n) \in Seq(ToSet(Lines)) /\ Len(SubSeq(Lines, 1, n)) = n
      /\ \A i \in 1 .. n : SubSeq(Lines, 1, n)[i] = Lines[i]
  BY <1>2, <1>4, SubSeqProperties
<1> QED
  BY <1>2, <1>3, <1>4, <1>5

\* One line more of the output: it comes last of the lines of its record.
LEMMA OneLineMore ==
  ASSUME NEW n \in 0 .. Len(Lines) - 1, NEW rec
  PROVE  Among(SubSeq(Lines, 1, n + 1), LineOf(rec)) =
           IF Lines[n + 1] \in LineOf(rec)
           THEN Append(Among(SubSeq(Lines, 1, n), LineOf(rec)), Lines[n + 1])
           ELSE Among(SubSeq(Lines, 1, n), LineOf(rec))
<1>1. /\ Len(Lines) \in Nat /\ n \in 0 .. Len(Lines) /\ n + 1 \in 1 .. Len(Lines)
  BY FirstLines, 0 \in 0 .. Len(Lines)
<1>2. Lines \in Seq(ToSet(Lines)) /\ SubSeq(Lines, 1, n) \in Seq(ToSet(Lines))
      /\ Lines[n + 1] \in ToSet(Lines)
  BY <1>1, FirstLines
<1>3. SubSeq(Lines, 1, n + 1) = Append(SubSeq(Lines, 1, n), Lines[n + 1])
  <2>1. /\ SubSeq(Lines, 1, n + 1) \in Seq(ToSet(Lines)) /\ Len(SubSeq(Lines, 1, n + 1)) = n + 1
        /\ \A i \in 1 .. n + 1 : SubSeq(Lines, 1, n + 1)[i] = Lines[i]
    BY <1>1, FirstLines
  <2>2. /\ Len(SubSeq(Lines, 1, n)) = n
        /\ \A i \in 1 .. n : SubSeq(Lines, 1, n)[i] = Lines[i]
    BY <1>1, FirstLines
  <2>3. /\ Append(SubSeq(Lines, 1, n), Lines[n + 1]) \in Seq(ToSet(Lines))
        /\ Len(Append(SubSeq(Lines, 1, n), Lines[n + 1])) = n + 1
        /\ \A i \in 1 .. n : Append(SubSeq(Lines, 1, n), Lines[n + 1])[i] = SubSeq(Lines, 1, n)[i]
        /\ Append(SubSeq(Lines, 1, n), Lines[n + 1])[n + 1] = Lines[n + 1]
    BY <1>2, <2>2, AppendProperties
  <2>4. \A i \in 1 .. n + 1 : SubSeq(Lines, 1, n + 1)[i] = Append(SubSeq(Lines, 1, n), Lines[n + 1])[i]
    BY <1>1, <2>1, <2>2, <2>3
  <2> QED
    BY <2>1, <2>3, <2>4, SeqEqual
<1> DEFINE s == SubSeq(Lines, 1, n)
           e == Lines[n + 1]
<1>4. s \in Seq(ToSet(Lines)) /\ e \in ToSet(Lines) /\ SubSeq(Lines, 1, n + 1) = Append(s, e)
  BY <1>2, <1>3
<1> HIDE DEF s, e
<1>5. Among(Append(s, e), LineOf(rec)) =
        IF e \in LineOf(rec) THEN Append(Among(s, LineOf(rec)), e) ELSE Among(s, LineOf(rec))
  BY <1>4, AmongAppend
<1> QED
  BY <1>4, <1>5 DEF s, e

\* Kinds of lines, and the record of one that belongs to one.
LEMMA LineFacts ==
  ASSUME PrintsRecords, NEW n \in 1 .. Len(Lines)
  PROVE  /\ Lines[n].kind \in {"open", "inside", "close", "other"}
         /\ Lines[n].kind # "other" => Lines[n].rec \in Records
         /\ \A rec : Lines[n] \in LineOf(rec) <=> Lines[n].kind # "other" /\ Lines[n].rec = rec
         /\ InRecord(n - 1) <=> Lines[n].kind \in {"inside", "close"}
         /\ InRecord(n - 1) => n # 1 /\ Lines[n].rec = Lines[n - 1].rec
<1>1. n \in DOMAIN Lines /\ Lines[n] \in ToSet(Lines)
  BY FirstLines, 0 \in 0 .. Len(Lines)
<1>2. Lines[n].kind \in {"open", "inside", "close", "other"}
  <2> DEFINE L == [kind : {"open", "inside", "close", "other"}, rec : Nat]
  <2>1. Lines \in Seq(L)
    BY PipelineAssumption
  <2> HIDE DEF L
  <2>2. Lines[n] \in L
    BY <2>1, ElementOfSeq
  <2> QED
    BY <2>2 DEF L
<1>3. InRecord(n - 1) => n # 1
  BY DEF InRecord
<1> QED
  BY <1>1, <1>2, <1>3 DEF PrintsRecords, LineOf

\* Before the line that opens a record there is none of its lines.
LEMMA NoneBeforeOpen ==
  ASSUME PrintsRecords, NEW n \in 0 .. Len(Lines) - 1, Lines[n + 1].kind = "open"
  PROVE  Among(SubSeq(Lines, 1, n), LineOf(Lines[n + 1].rec)) = <<>>
<1> DEFINE s == SubSeq(Lines, 1, n)
<1>1. Len(Lines) \in Nat /\ n \in 0 .. Len(Lines) /\ n + 1 \in DOMAIN Lines /\ n + 1 - 1 = n
  BY FirstLines, 0 \in 0 .. Len(Lines)
<1>2. s \in Seq(ToSet(Lines)) /\ Len(s) = n /\ \A i \in 1 .. n : s[i] = Lines[i]
  BY <1>1, FirstLines
<1> HIDE DEF s
<1>3. \A i \in 1 .. n : Lines[i] \notin LineOf(Lines[n + 1].rec)
  BY <1>1 DEF PrintsRecords
<1>4. ToSet(s) \intersect LineOf(Lines[n + 1].rec) = {}
  <2>1. DOMAIN s = 1 .. n
    BY <1>2, LenProperties
  <2> QED
    BY <1>2, <1>3, <2>1 DEF ToSet
<1> QED
  BY <1>2, <1>4, AmongNoneOrAll DEF s

\* Up to the line that closes it all the lines of a record are there.
LEMMA AllAtClose ==
  ASSUME PrintsRecords, NEW n \in 1 .. Len(Lines), Lines[n].kind = "close"
  PROVE  /\ Lines[n].rec \in Records
         /\ Among(SubSeq(Lines, 1, n), LineOf(Lines[n].rec)) = LinesOf[Lines[n].rec]
<1> DEFINE N == Len(Lines)
           rec == Lines[n].rec
           front == SubSeq(Lines, 1, n)
           back == SubSeq(Lines, n + 1, N)
<1>1. /\ N \in Nat /\ n \in 0 .. N /\ DOMAIN Lines = 1 .. N /\ Lines \in Seq(ToSet(Lines))
      /\ \A i \in 1 .. N : Lines[i] \in ToSet(Lines)
  BY FirstLines, 0 \in 0 .. N
<1>2. rec \in Records /\ Lines[n] \in LineOf(rec)
  BY LineFacts
<1>3. front \in Seq(ToSet(Lines))
  BY <1>1, FirstLines
<1>4. /\ back \in Seq(ToSet(Lines)) /\ Len(back) = N - n
      /\ \A i \in 1 .. N - n : back[i] = Lines[n + i]
  <2>1. n + 1 \in Int /\ N \in Int /\ \A i \in n + 1 .. N : Lines[i] \in ToSet(Lines)
    BY <1>1
  <2>2. Len(back) = IF n + 1 <= N THEN N - (n + 1) + 1 ELSE 0
    BY <2>1, SubSeqProperties
  <2>3. back \in Seq(ToSet(Lines)) /\ \A i \in 1 .. N - (n + 1) + 1 : back[i] = Lines[n + 1 + i - 1]
    BY <2>1, SubSeqProperties
  <2> HIDE DEF back
  <2>4. Len(back) = N - n
    <3>1. CASE n + 1 <= N
      <4>1. N - (n + 1) + 1 = N - n
        BY <1>1
      <4> QED
        BY <2>2, <3>1, <4>1, Zenon
    <3>2. CASE ~(n + 1 <= N)
      <4>0. n \in Nat /\ N \in Nat /\ n <= N
        BY <1>1
      <4>1. N - n = 0
        BY <3>2, <4>0
      <4> QED
        BY <2>2, <3>2, <4>1, Zenon
    <3> QED
      BY <3>1, <3>2
  <2>5. ASSUME NEW i \in 1 .. N - n PROVE back[i] = Lines[n + i]
    <3>1. i \in 1 .. N - (n + 1) + 1 /\ n + 1 + i - 1 = n + i
      BY <1>1
    <3>2. back[i] = Lines[n + 1 + i - 1]
      BY <2>3, <3>1
    <3> QED
      BY <3>1, <3>2
  <2> QED
    BY <2>3, <2>4, <2>5
<1>5. Lines = front \o back
  <2>1. 1 \in 1 .. N + 1 /\ n \in 1 - 1 .. N /\ N \in n .. N
    BY <1>1
  <2>2. front \o back = SubSeq(Lines, 1, N)
    BY <1>1, <2>1, ConcatAdjacentSubSeq
  <2> QED
    BY <1>1, <2>2, SubSeqFull
<1>6. Among(back, LineOf(rec)) = <<>>
  <2>1. ASSUME NEW i \in 1 .. N - n PROVE back[i] \notin LineOf(rec)
    <3>0. n + i \in 1 .. N /\ n \in 1 .. (n + i) - 1
      BY <1>1
    <3>1. n + i \in 1 .. N /\ n \in 1 .. (n + i) - 1 /\ back[i] = Lines[n + i]
      BY <1>4, <3>0
    <3> SUFFICES ASSUME Lines[n + i] \in LineOf(rec) PROVE FALSE
      BY <3>1
    <3>2. Lines[n + i].kind # "other" /\ Lines[n + i].rec = rec
      BY <3>1, LineFacts
    <3> QED
      BY <1>1, <1>2, <3>1, <3>2 DEF PrintsRecords
  <2>2. DOMAIN back = 1 .. N - n
    BY <1>4, LenProperties
  <2>3. ToSet(back) \intersect LineOf(rec) = {}
    BY <2>1, <2>2 DEF ToSet
  <2> HIDE DEF back
  <2> QED
    BY <1>4, <2>3, AmongNoneOrAll
<1>7. Among(front, LineOf(rec)) \in Seq(ToSet(Lines))
  BY <1>3, AmongType
<1> HIDE DEF front, back, rec
<1>8. Among(Lines, LineOf(rec)) = Among(front, LineOf(rec)) \o Among(back, LineOf(rec))
  BY <1>3, <1>4, <1>5, AmongConcat
<1>9. Among(Lines, LineOf(rec)) = Among(front, LineOf(rec))
  BY <1>6, <1>7, <1>8, ConcatEmptySeq
<1> QED
  BY <1>2, <1>9 DEF LinesOf, front, rec

\* One line through the line processor: what it has collected is what it should,
\* and what it sends, if the line closes a record, is the record.
LEMMA CollectOne ==
  ASSUME PrintsRecords, Reading, NEW n \in 0 .. Len(Lines) - 1, n = Read,
         Collect(Lines[n + 1])
  PROVE  /\ collect' = InRecord(n + 1)
         /\ collected' = IF collect' THEN Among(SubSeq(Lines, 1, n + 1), LineOf(Lines[n + 1].rec))
                                     ELSE <<>>
         /\ \E results \in Seq(Wholes) : Handles("line", results)
<1> DEFINE line == Lines[n + 1]
           rec == line.rec
           on == collect \/ line.kind = "open"
           all == IF on THEN Append(collected, line) ELSE collected
<1>1. /\ Len(Lines) \in Nat /\ n + 1 \in 1 .. Len(Lines) /\ (n + 1) - 1 = n /\ n + 1 # 0
      /\ n \in 0 .. Len(Lines)
  BY FirstLines, 0 \in 0 .. Len(Lines)
<1>2. /\ line.kind \in {"open", "inside", "close", "other"}
      /\ line \in LineOf(rec) <=> line.kind # "other"
      /\ collect <=> line.kind \in {"inside", "close"}
      /\ collect => rec = Lines[n].rec
  BY <1>1, LineFacts DEF Reading
<1>3. /\ collected' = IF line.kind = "close" THEN <<>> ELSE all
      /\ collect' = (on /\ line.kind # "close")
      /\ Handles("line", IF line.kind = "close" THEN <<all>> ELSE <<>>)
  BY Zenon DEF Collect
<1>4. collect' = InRecord(n + 1)
  <2>1. InRecord(n + 1) <=> line.kind \in {"open", "inside"}
    BY <1>1 DEF InRecord
  <2>2. InRecord(n + 1) \in BOOLEAN
    BY DEF InRecord
  <2> QED
    BY <1>2, <1>3, <2>1, <2>2
<1>5. line.kind # "other" => all = Among(SubSeq(Lines, 1, n + 1), LineOf(rec))
  <2> SUFFICES ASSUME line.kind # "other"
               PROVE  all = Among(SubSeq(Lines, 1, n + 1), LineOf(rec))
    OBVIOUS
  <2>1. Among(SubSeq(Lines, 1, n + 1), LineOf(rec)) =
          Append(Among(SubSeq(Lines, 1, n), LineOf(rec)), line)
    BY <1>2, OneLineMore
  <2>2. collected = Among(SubSeq(Lines, 1, n), LineOf(rec))
    <3>1. CASE line.kind = "open"
      BY <1>2, <3>1, NoneBeforeOpen DEF Reading
    <3>2. CASE line.kind # "open"
      <4>1. collect /\ collected = Among(SubSeq(Lines, 1, n), LineOf(Lines[n].rec))
        BY <1>2, <3>2 DEF Reading
      <4> QED
        BY <1>2, <4>1
    <3> QED
      BY <3>1, <3>2
  <2>3. on
    BY <1>2
  <2> QED
    BY <2>1, <2>2, <2>3
<1>6. collected' = IF collect' THEN Among(SubSeq(Lines, 1, n + 1), LineOf(rec)) ELSE <<>>
  <2>1. CASE line.kind = "close"
    BY <1>3, <2>1
  <2>2. CASE line.kind = "other"
    <3>1. ~on /\ collected = <<>>
      BY <1>2, <2>2 DEF Reading
    <3> QED
      BY <1>3, <2>2, <3>1
  <2>3. CASE line.kind \in {"open", "inside"}
    <3>1. on /\ line.kind # "close" /\ line.kind # "other"
      BY <1>2, <2>3
    <3> QED
      BY <1>3, <1>5, <3>1
  <2> QED
    BY <1>2, <2>1, <2>2, <2>3
<1>7. (IF line.kind = "close" THEN <<all>> ELSE <<>>) \in Seq(Wholes)
  <2>1. CASE line.kind = "close"
    <3>1. all = LinesOf[rec] /\ rec \in Records
      BY <1>1, <1>5, <2>1, AllAtClose
    <3>2. all \in Wholes
      BY <3>1 DEF Wholes
    <3> HIDE DEF all
    <3> QED
      BY <2>1, <3>2
  <2>2. CASE line.kind # "close"
    BY <2>2
  <2> QED
    BY <2>1, <2>2
<1> QED
  BY <1>3, <1>4, <1>6, <1>7

\* The sequence of a finite set has its elements only.
LEMMA SetToSeqType ==
  ASSUME NEW S, IsFiniteSet(S)
  PROVE  SetToSeq(S) \in Seq(S)
<1>1. Cardinality(S) \in Nat /\ ExistsBijection(1 .. Cardinality(S), S)
  BY FS_CardinalityType
<1>2. \E f \in [1 .. Cardinality(S) -> S] : IsInjective(f)
  BY <1>1 DEF ExistsBijection, Bijection, Injection, IsInjective
<1>3. SetToSeq(S) \in [1 .. Cardinality(S) -> S]
  BY <1>2 DEF SetToSeq
<1> QED
  BY <1>1, <1>3, FunctionIsSeq

\* What the action of a stage that hands results on does to the places.
LEMMA HandlesStaged ==
  ASSUME Staged, NEW s \in Stage, NEW results, Handles(s, results)
  PROVE  /\ DOMAIN at' = Stage /\ DOMAIN out' = Stage
         /\ \A t \in Stage : at'[t] = "send" => out'[t] # <<>>
         /\ out'[s] = results /\ \A t \in Stage \ {s} : out'[t] = out[t]
  BY DEF Staged, Handles

\* The lines of the first channel stay those that follow when its head is taken.
LEMMA TakenLine ==
  ASSUME Reading, ch["line"] # <<>>, DOMAIN ch = Stage, ch' = [ch EXCEPT !["line"] = Tail(@)],
         next' = next
  PROVE  /\ Read \in 0 .. Len(Lines) - 1 /\ Head(ch["line"]) = Lines[Read + 1]
         /\ Read' = Read + 1
         /\ next' \in 1 .. Len(Lines) + 1
         /\ ch'["line"] \in Seq(ToSet(Lines))
         /\ \A i \in 1 .. Len(ch'["line"]) : ch'["line"][i] = Lines[Read' + i]
<1> DEFINE c == ch["line"]
<1>1. /\ c \in Seq(ToSet(Lines)) /\ next \in 1 .. Len(Lines) + 1 /\ Read \in Nat
      /\ \A i \in 1 .. Len(c) : c[i] = Lines[Read + i]
      /\ Read = next - 1 - Len(c)
  BY DEF Reading, Read
<1>2. Len(Lines) \in Nat
  BY FirstLines, PipelineAssumption, LenProperties
<1>3. "line" \in Stage
  BY DEF Stage
<1>4. ch'["line"] = Tail(c)
  BY <1>3
<1> HIDE DEF c
<1>5. /\ Head(c) = c[1] /\ Tail(c) \in Seq(ToSet(Lines)) /\ Len(c) \in Nat \ {0}
      /\ Len(Tail(c)) = Len(c) - 1
      /\ \A i \in 1 .. Len(Tail(c)) : Tail(c)[i] = c[i + 1]
  BY <1>1, HeadTailProperties, EmptySeq DEF c
<1>6. Read' = Read + 1
  <2>1. Read' = next' - 1 - Len(Tail(c))
    BY <1>4 DEF Read
  <2> QED
    BY <1>1, <1>2, <1>5, <2>1
<1>7. ASSUME NEW i \in 1 .. Len(Tail(c)) PROVE Tail(c)[i] = Lines[Read' + i]
  <2>1. i + 1 \in 1 .. Len(c) /\ Read + (i + 1) = Read' + i
    BY <1>1, <1>5, <1>6
  <2> QED
    BY <1>1, <1>5, <2>1
<1>8. Read \in 0 .. Len(Lines) - 1 /\ 1 \in 1 .. Len(c)
  BY <1>1, <1>2, <1>5
<1> QED
  BY <1>1, <1>4, <1>5, <1>6, <1>7, <1>8 DEF c

\* The line processor reads the next line.
LEMMA CollectLineInv == PrintsRecords /\ PipelineInv /\ CollectLine => PipelineInv'
<1> SUFFICES ASSUME PrintsRecords, PipelineInv, CollectLine PROVE PipelineInv'
  OBVIOUS
<1>0. Stage = {"line", "bulk", "correlator"} /\ Reading /\ Staged
  BY DEF Stage, PipelineInv
<1>1. /\ ch["line"] # <<>> /\ ch' = [ch EXCEPT !["line"] = Tail(@)]
      /\ Collect(Head(ch["line"])) /\ next' = next
  BY DEF CollectLine, Receives
<1>2. /\ Read \in 0 .. Len(Lines) - 1 /\ Head(ch["line"]) = Lines[Read + 1]
      /\ Read' = Read + 1
      /\ next' \in 1 .. Len(Lines) + 1
      /\ ch'["line"] \in Seq(ToSet(Lines))
      /\ \A i \in 1 .. Len(ch'["line"]) : ch'["line"][i] = Lines[Read' + i]
  BY <1>0, <1>1, TakenLine DEF Staged
<1> DEFINE n == Read
<1>3. n \in 0 .. Len(Lines) - 1 /\ n = Read /\ Collect(Lines[n + 1])
  BY <1>1, <1>2
<1>4. PICK m : m \in 0 .. Len(Lines) - 1 /\ m = Read
  BY <1>2
<1>5. /\ collect' = InRecord(m + 1)
      /\ collected' = IF collect' THEN Among(SubSeq(Lines, 1, m + 1), LineOf(Lines[m + 1].rec))
                                  ELSE <<>>
      /\ \E results \in Seq(Wholes) : Handles("line", results)
  <2>1. Collect(Lines[m + 1])
    BY <1>1, <1>2, <1>4
  <2> QED
    BY <1>0, <1>4, <2>1, CollectOne
<1>6. Reading'
  <2>1. m + 1 = Read' /\ Read' \in Nat
    BY <1>2, <1>4
  <2> QED
    BY <1>2, <1>5, <2>1 DEF Reading
<1>7. Staged'
  <2>1. PICK results \in Seq(Wholes) : Handles("line", results)
    BY <1>5
  <2>2. /\ DOMAIN at' = Stage /\ DOMAIN out' = Stage
        /\ \A t \in Stage : at'[t] = "send" => out'[t] # <<>>
        /\ out'["line"] = results /\ out'["bulk"] = out["bulk"]
    BY <1>0, <2>1, HandlesStaged
  <2>3. DOMAIN ch' = Stage /\ ch'["bulk"] = ch["bulk"] /\ ch'["correlator"] = ch["correlator"]
    BY <1>0, <1>1 DEF Staged
  <2> QED
    BY <1>0, <2>2, <2>3 DEF Staged
<1> QED
  BY <1>6, <1>7 DEF PipelineInv

\* A step that leaves reading and the first channel alone.
LEMMA ReadingStays ==
  ASSUME Reading, next' = next, collect' = collect, collected' = collected,
         ch'["line"] = ch["line"]
  PROVE  Reading'
  BY DEF Reading, Read

\* What a step of another stage or of streamRead does to reading and queues.
LEMMA StageSteps ==
  ASSUME PipelineInv, \/ ReadLine \/ SendOn("line") \/ SendOn("bulk") \/ ParseJson
                      \/ UpdateEntry \/ CheckTimeouts \/ Export
  PROVE  PipelineInv'
<1>0. Stage = {"line", "bulk", "correlator"} /\ Reading /\ Staged
  BY DEF Stage, PipelineInv
<1>1. CASE ReadLine
  <2> DEFINE c == ch["line"]
  <2>1. /\ next <= Len(Lines) /\ next' = next + 1 /\ ch'["line"] = Append(c, Lines[next])
        /\ DOMAIN ch' = Stage /\ ch'["bulk"] = ch["bulk"] /\ ch'["correlator"] = ch["correlator"]
        /\ UNCHANGED <<at, out, collect, collected>>
    BY <1>0, <1>1 DEF ReadLine, Staged
  <2>2. /\ c \in Seq(ToSet(Lines)) /\ next \in 1 .. Len(Lines) + 1 /\ Read \in Nat
        /\ \A i \in 1 .. Len(c) : c[i] = Lines[Read + i]
        /\ Read = next - 1 - Len(c)
    BY <1>0 DEF Reading, Read
  <2>3. Len(Lines) \in Nat /\ next \in 1 .. Len(Lines) /\ Lines[next] \in ToSet(Lines)
    BY <2>1, <2>2, FirstLines, 0 \in 0 .. Len(Lines)
  <2> HIDE DEF c
  <2>4. /\ Append(c, Lines[next]) \in Seq(ToSet(Lines)) /\ Len(c) \in Nat
        /\ Len(Append(c, Lines[next])) = Len(c) + 1
        /\ \A i \in 1 .. Len(c) : Append(c, Lines[next])[i] = c[i]
        /\ Append(c, Lines[next])[Len(c) + 1] = Lines[next]
    BY <2>2, <2>3, AppendProperties, LenProperties
  <2>5. Read' = Read
    <3>1. Read' = next' - 1 - Len(Append(c, Lines[next]))
      BY <2>1 DEF Read
    <3> QED
      BY <2>1, <2>2, <2>3, <2>4, <3>1
  <2>6. ASSUME NEW i \in 1 .. Len(c) + 1 PROVE Append(c, Lines[next])[i] = Lines[Read + i]
    <3>1. CASE i = Len(c) + 1
      <4>1. Read + i = next
        BY <2>2, <2>3, <2>4, <3>1
      <4> QED
        BY <2>4, <3>1, <4>1
    <3>2. CASE i \in 1 .. Len(c)
      BY <2>2, <2>4, <3>2
    <3> QED
      BY <2>4, <3>1, <3>2
  <2>7. next' \in 1 .. Len(Lines) + 1
    BY <2>1, <2>3
  <2>8. Reading'
    BY <1>0, <2>1, <2>2, <2>4, <2>5, <2>6, <2>7 DEF Reading
  <2>9. Staged'
    BY <1>0, <2>1 DEF Staged
  <2> QED
    BY <2>8, <2>9 DEF PipelineInv
<1>2. ASSUME NEW s \in {"line", "bulk"}, NEW S,
             SendOn(s), out[s] \in Seq(S), ch[NextStage[s]] \in Seq(S)
      PROVE  /\ Reading'
             /\ DOMAIN ch' = Stage /\ DOMAIN at' = Stage /\ DOMAIN out' = Stage
             /\ \A t \in Stage : at'[t] = "send" => out'[t] # <<>>
             /\ out'[s] \in Seq(S) /\ ch'[NextStage[s]] \in Seq(S)
             /\ \A t \in Stage \ {s} : out'[t] = out[t]
             /\ \A t \in Stage \ {NextStage[s]} : ch'[t] = ch[t]
  <2>1. /\ at[s] = "send" /\ ch' = [ch EXCEPT ![NextStage[s]] = Append(@, Head(out[s]))]
        /\ Handles(s, Tail(out[s])) /\ UNCHANGED <<next, collect, collected>>
    BY <1>2 DEF SendOn
  <2>2. NextStage[s] \in Stage \ {"line"} /\ s \in Stage
    BY <1>0 DEF NextStage
  <2>3. out[s] # <<>>
    BY <1>0, <2>1, <2>2 DEF Staged
  <2>4. Head(out[s]) \in S /\ Tail(out[s]) \in Seq(S)
    BY <1>2, <2>3, HeadTailProperties
  <2>5. /\ DOMAIN at' = Stage /\ DOMAIN out' = Stage
        /\ \A t \in Stage : at'[t] = "send" => out'[t] # <<>>
        /\ out'[s] = Tail(out[s]) /\ \A t \in Stage \ {s} : out'[t] = out[t]
    BY <1>0, <2>1, <2>2, HandlesStaged
  <2>6. /\ DOMAIN ch' = Stage /\ ch'[NextStage[s]] = Append(ch[NextStage[s]], Head(out[s]))
        /\ \A t \in Stage \ {NextStage[s]} : ch'[t] = ch[t]
    BY <1>0, <2>1, <2>2 DEF Staged
  <2>7. ch'[NextStage[s]] \in Seq(S)
    BY <1>2, <2>4, <2>6, AppendProperties
  <2>8. ch'["line"] = ch["line"]
    BY <1>0, <2>2, <2>6
  <2>9. Reading'
    BY <1>0, <2>1, <2>8, ReadingStays
  <2> QED
    BY <2>4, <2>5, <2>6, <2>7, <2>9
<1>3. CASE SendOn("line")
  <2>1. NextStage["line"] = "bulk"
    BY DEF NextStage
  <2>2. out["line"] \in Seq(Wholes) /\ ch["bulk"] \in Seq(Wholes)
    BY <1>0 DEF Staged
  <2>3. /\ Reading'
        /\ DOMAIN ch' = Stage /\ DOMAIN at' = Stage /\ DOMAIN out' = Stage
        /\ \A t \in Stage : at'[t] = "send" => out'[t] # <<>>
        /\ out'["line"] \in Seq(Wholes) /\ ch'["bulk"] \in Seq(Wholes)
        /\ \A t \in Stage \ {"line"} : out'[t] = out[t]
        /\ \A t \in Stage \ {"bulk"} : ch'[t] = ch[t]
    BY <1>2, <1>3, <2>1, <2>2
  <2> QED
    BY <1>0, <2>3 DEF PipelineInv, Staged
<1>4. CASE SendOn("bulk")
  <2>1. NextStage["bulk"] = "correlator"
    BY DEF NextStage
  <2>2. out["bulk"] \in Seq(Converted) /\ ch["correlator"] \in Seq(Converted)
    BY <1>0 DEF Staged
  <2>3. /\ Reading'
        /\ DOMAIN ch' = Stage /\ DOMAIN at' = Stage /\ DOMAIN out' = Stage
        /\ \A t \in Stage : at'[t] = "send" => out'[t] # <<>>
        /\ out'["bulk"] \in Seq(Converted) /\ ch'["correlator"] \in Seq(Converted)
        /\ \A t \in Stage \ {"bulk"} : out'[t] = out[t]
        /\ \A t \in Stage \ {"correlator"} : ch'[t] = ch[t]
    BY <1>2, <1>4, <2>1, <2>2
  <2> QED
    BY <1>0, <2>3 DEF PipelineInv, Staged
<1>5. CASE ParseJson
  <2> DEFINE W == WithOutcome(Head(ch["bulk"]), "converted")
  <2>1. /\ ch["bulk"] # <<>> /\ ch' = [ch EXCEPT !["bulk"] = Tail(@)]
        /\ Handles("bulk", SetToSeq(W)) /\ UNCHANGED <<next, collect, collected>>
    BY <1>5 DEF ParseJson, Receives
  <2>2. W \subseteq Converted /\ IsFiniteSet(W)
    <3>1. W \subseteq Converted /\ W \subseteq Records
      BY DEF WithOutcome, Converted
    <3> QED
      BY <3>1, PipelineAssumption, FS_Subset
  <2> HIDE DEF W
  <2>3. SetToSeq(W) \in Seq(Converted)
    BY <2>2, SetToSeqType, SeqMonotonic
  <2>4. /\ DOMAIN at' = Stage /\ DOMAIN out' = Stage
        /\ \A t \in Stage : at'[t] = "send" => out'[t] # <<>>
        /\ out'["bulk"] = SetToSeq(W) /\ out'["line"] = out["line"]
    BY <1>0, <2>1, HandlesStaged
  <2>5. /\ DOMAIN ch' = Stage /\ ch'["line"] = ch["line"]
        /\ ch'["bulk"] = Tail(ch["bulk"]) /\ ch'["correlator"] = ch["correlator"]
    BY <1>0, <2>1 DEF Staged
  <2>6. Tail(ch["bulk"]) \in Seq(Wholes)
    BY <1>0, <2>1, HeadTailProperties DEF Staged
  <2>7. Reading'
    BY <1>0, <2>1, <2>5, ReadingStays
  <2> QED
    BY <1>0, <2>3, <2>4, <2>5, <2>6, <2>7 DEF PipelineInv, Staged
<1>6. ASSUME NEW results, Handles("correlator", results), UNCHANGED <<next, collect, collected>>,
             \/ ch' = ch
             \/ ch["correlator"] # <<>> /\ ch' = [ch EXCEPT !["correlator"] = Tail(@)]
      PROVE  PipelineInv'
  <2>1. /\ DOMAIN at' = Stage /\ DOMAIN out' = Stage
        /\ \A t \in Stage : at'[t] = "send" => out'[t] # <<>>
        /\ out'["line"] = out["line"] /\ out'["bulk"] = out["bulk"]
    BY <1>0, <1>6, HandlesStaged
  <2>2. ch["correlator"] # <<>> => Tail(ch["correlator"]) \in Seq(Converted)
    BY <1>0, HeadTailProperties DEF Staged
  <2>3. /\ DOMAIN ch' = Stage /\ ch'["line"] = ch["line"] /\ ch'["bulk"] = ch["bulk"]
        /\ ch'["correlator"] \in Seq(Converted)
    BY <1>0, <1>6, <2>2 DEF Staged
  <2>4. Reading'
    BY <1>0, <1>6, <2>3, ReadingStays
  <2> QED
    BY <1>0, <2>1, <2>3, <2>4 DEF PipelineInv, Staged
<1>7. CASE UpdateEntry
  <2>1. /\ ch["correlator"] # <<>> /\ ch' = [ch EXCEPT !["correlator"] = Tail(@)]
        /\ UNCHANGED <<next, collect, collected>>
        /\ \E results : Handles("correlator", results)
    BY <1>7 DEF UpdateEntry, Receives
  <2> QED
    BY <1>6, <2>1
<1>8. CASE CheckTimeouts
  <2>1. ch' = ch /\ UNCHANGED <<next, collect, collected>> /\ \E results : Handles("correlator", results)
    BY <1>8 DEF CheckTimeouts, SendExpired
  <2> QED
    BY <1>6, <2>1
<1>9. CASE Export
  <2>1. ch' = ch /\ UNCHANGED <<next, collect, collected>> /\ \E results : Handles("correlator", results)
    BY <1>9 DEF Export
  <2> QED
    BY <1>6, <2>1
<1> QED
  BY <1>1, <1>3, <1>4, <1>5, <1>7, <1>8, <1>9

\* Every step preserves the invariant.
LEMMA PipelineInductive == PrintsRecords /\ PipelineInv /\ [Next]_vars => PipelineInv'
<1> SUFFICES ASSUME PrintsRecords, PipelineInv, [Next]_vars PROVE PipelineInv'
  OBVIOUS
<1>1. CASE LineStep
  BY <1>1, CollectLineInv, StageSteps DEF LineStep
<1>2. ASSUME UNCHANGED stageVars PROVE PipelineInv'
  BY <1>2 DEF stageVars, PipelineInv, Reading, Read, Staged
<1>3. CASE BulkStep
  <2>1. CASE ParsePanics
    BY <1>2, <2>1 DEF ParsePanics
  <2> QED
    BY <1>3, <2>1, StageSteps DEF BulkStep
<1>4. CASE CorrelatorStep
  BY <1>4, StageSteps DEF CorrelatorStep
<1>5. CASE ReadLine
  BY <1>5, StageSteps
<1>6. CASE ReadFails \/ AggregateStep \/ ExportStep \/ Signal \/ StopExporter
  BY <1>2, <1>6 DEF ReadFails, AggregateStep, ExportStep, Signal, StopExporter
<1>7. ASSUME NEW s \in Stage, StopStage(s) PROVE PipelineInv'
  <2>1. at' = [at EXCEPT ![s] = "done"] /\ UNCHANGED <<next, ch, out, collect, collected>>
    BY <1>7 DEF StopStage
  <2>2. DOMAIN at' = Stage /\ \A t \in Stage : at'[t] = "send" => at[t] = "send"
    BY <2>1 DEF PipelineInv, Staged
  <2> QED
    BY <2>1, <2>2 DEF PipelineInv, Reading, Read, Staged
<1>8. CASE UNCHANGED vars
  BY <1>2, <1>8 DEF vars
<1> QED
  BY <1>1, <1>3, <1>4, <1>5, <1>6, <1>7, <1>8 DEF Next

\* The invariant holds at the start.
LEMMA PipelineStart == Init => PipelineInv
<1> SUFFICES ASSUME Init PROVE PipelineInv
  OBVIOUS
<1>1. Len(Lines) \in Nat
  BY PipelineAssumption, LenProperties
<1>2. /\ next = 1 /\ collect = FALSE /\ collected = <<>>
      /\ ch = [s \in Stage |-> <<>>] /\ out = [s \in Stage |-> <<>>]
      /\ at = [s \in Stage |-> "select"]
  BY DEF Init
<1>3. Stage = {"line", "bulk", "correlator"}
  BY DEF Stage
<1>4. Reading
  <2>1. ch["line"] = <<>> /\ <<>> \in Seq(ToSet(Lines)) /\ Len(ch["line"]) = 0
    BY <1>2, <1>3
  <2>2. next = 1 /\ collect = FALSE /\ collected = <<>>
    BY <1>2
  <2>3. Read = 0
    <3>1. next = 1 /\ Len(ch["line"]) = 0
      BY <2>1, <2>2
    <3>2. \A a, b : a = 1 /\ b = 0 => a - 1 - b = 0
      OBVIOUS
    <3> QED
      BY <3>1, <3>2, Zenon DEF Read
  <2>4. next \in 1 .. Len(Lines) + 1
    BY <1>1, <2>2
  <2>5. \A i \in 1 .. Len(ch["line"]) : ch["line"][i] = Lines[Read + i]
    BY <2>1
  <2>6. ~InRecord(Read)
    BY <2>3 DEF InRecord
  <2>7. InRecord(Read) \in BOOLEAN
    BY DEF InRecord
  <2> QED
    BY <2>1, <2>2, <2>3, <2>4, <2>5, <2>6, <2>7, Zenon DEF Reading
<1>5. Staged
  BY <1>2, <1>3 DEF Staged
<1> QED
  BY <1>4, <1>5 DEF PipelineInv

\* What reaches the bulk processor are whole records, with nothing of what is
\* printed between them, for any output in which records are printed in one go,
\* any capacity of the channels and any moment of the signal; what it hands on
\* has every field that convert reads.
THEOREM RecordsStayIntact == PrintsRecords => (Spec => []RecordsIntact)
<1> SUFFICES ASSUME PrintsRecords PROVE Spec => []RecordsIntact
  OBVIOUS
<1>1. PipelineInv => RecordsIntact
  <2> SUFFICES ASSUME PipelineInv PROVE RecordsIntact
    OBVIOUS
  <2>1. ToSet(ch["bulk"]) \subseteq Wholes /\ ToSet(out["line"]) \subseteq Wholes
    BY ToSetType DEF PipelineInv, Staged
  <2>2. ToSet(ch["correlator"]) \subseteq Converted /\ ToSet(out["bulk"]) \subseteq Converted
    BY ToSetType DEF PipelineInv, Staged
  <2> QED
    BY <2>1, <2>2 DEF RecordsIntact, Wholes, Converted
<1>2. PipelineInv /\ [Next]_vars => PipelineInv'
  BY PipelineInductive
<1> QED
  BY <1>1, <1>2, PipelineStart, PTL DEF Spec

\* The engine uses the exporter as Exporter says: what any goroutine of the
\* engine does is a step of it or leaves it as it is.
THEOREM EngineUsesExporter == Spec => Exporter!Init /\ [][Exporter!Next]_(Exporter!vars)
<1>1. Init => Exporter!Init
  BY DEF Init
<1>2. [Next]_vars => [Exporter!Next]_(Exporter!vars)
  <2> SUFFICES ASSUME [Next]_vars PROVE [Exporter!Next]_(Exporter!vars)
    OBVIOUS
  <2>1. exporterVars' = exporterVars => Exporter!vars' = Exporter!vars
    BY DEF exporterVars, Exporter!vars, Exporter!exportVars
  <2>2. CASE LineStep
    <3>1. exporterVars' = exporterVars
      BY <2>2 DEF LineStep, CollectLine, SendOn
    <3> QED
      BY <2>1, <3>1
  <2>3. CASE BulkStep
    <3>1. exporterVars' = exporterVars
      BY <2>3 DEF BulkStep, ParseJson, ParsePanics, SendOn
    <3> QED
      BY <2>1, <3>1
  <2>4. CASE CorrelatorStep
    <3>1. exporterVars' = exporterVars \/ Exporter!Queue
      BY <2>4 DEF CorrelatorStep, UpdateEntry, CheckTimeouts, Export
    <3> QED
      BY <2>1, <3>1 DEF Exporter!Next
  <2>5. CASE AggregateStep \/ ExportStep
    BY <2>5 DEF AggregateStep, ExportStep, Exporter!Next
  <2>6. CASE StopExporter
    BY <2>6 DEF StopExporter, Exporter!Next
  <2>7. CASE ReadLine \/ ReadFails \/ Signal \/ \E s \in Stage : StopStage(s)
    <3>1. exporterVars' = exporterVars
      BY <2>7 DEF ReadLine, ReadFails, Signal, StopStage
    <3> QED
      BY <2>1, <3>1
  <2>8. CASE UNCHANGED vars
    BY <2>1, <2>8 DEF vars
  <2> QED
    BY <2>2, <2>3, <2>4, <2>5, <2>6, <2>7, <2>8 DEF Next
<1> QED
  BY <1>1, <1>2, PTL DEF Spec

(***************************************************************************)
(* DropReport.                                                             *)
(***************************************************************************)

\* A line that was written in full.
Whole == [says : Reports, ended : {TRUE}]

Counters ==
  /\ starts \in 0 .. MaxStarts /\ failures \in Nat
  /\ up => starts # 0

\* As long as no call has failed: the lines of the file are whole and the last
\* one is the report persisted last; a file without a line is one that the
\* reader has just created, or that its process left behind; and what has been
\* or will be published was in the file.
Intact ==
  /\ file \in Seq(Whole)
  /\ persisted = IF file = <<>> THEN 0 ELSE Last(file).says
  /\ persisted <= starts
  /\ exists /\ file = <<>> => torn \/ (up /\ reader = "write")
  /\ panicked # {} => torn
  /\ \A m \in published : m[2] \in 1 .. persisted
  /\ reporter.at \in Metrics => /\ reporter.line \in 1 .. persisted
                                /\ up => reporter.line = persisted \/ persisted = starts

DropInv == Counters /\ (failures = 0 => Intact)

\* The last line of a file of whole lines is whole.
LEMMA LastWhole ==
  ASSUME file \in Seq(Whole), file # <<>>
  PROVE  Last(file).says \in Reports /\ Last(file).ended = TRUE
<1>1. Len(file) \in 1 .. Len(file)
  BY EmptySeq
<1>2. Last(file) \in Whole
  BY <1>1, ElementOfSeq DEF Last
<1> QED
  BY <1>2 DEF Whole

\* A line appended to whole lines is a line of its own.
LEMMA WithTextWhole ==
  ASSUME file \in Seq(Whole), NEW n \in Reports
  PROVE  /\ WithText(n, TRUE) \in Seq(Whole)
         /\ WithText(n, TRUE) # <<>>
         /\ Last(WithText(n, TRUE)).says = n
<1> DEFINE l == [says |-> n, ended |-> TRUE]
           f == Append(file, l)
<1>1. WithText(n, TRUE) = f
  BY LastWhole DEF WithText
<1>2. l \in Whole /\ l.says = n
  BY DEF Whole
<1> HIDE DEF l
<1>3. f \in Seq(Whole) /\ Len(f) = Len(file) + 1 /\ f[Len(file) + 1] = l
  BY <1>2, AppendProperties
<1>4. Last(f) = l /\ f # <<>>
  <2>1. Last(f) = l
    BY <1>3 DEF Last
  <2>2. f # <<>>
    BY <1>3, EmptySeq, LenProperties
  <2> QED
    BY <2>1, <2>2
<1> QED
  BY <1>1, <1>2, <1>3, <1>4

\* Every step preserves the invariant.
LEMMA DropInvInductive == DropInv /\ [DropNext]_dropVars => DropInv'
<1> SUFFICES ASSUME DropInv, [DropNext]_dropVars PROVE DropInv'
  OBVIOUS
<1>0. /\ MaxStarts \in Nat /\ Reports = 1 .. MaxStarts
      /\ NoPipe = MaxStarts + 1 /\ NoParen = MaxStarts + 2
      /\ Metrics = {"received", "dropped"}
      /\ starts \in 0 .. MaxStarts /\ failures \in Nat
      BY DropReportAssumption DEF Reports, NoPipe, NoParen, Metrics, DropInv, Counters
<1>1. failures = 0 =>
        /\ persisted \in 0 .. starts
        /\ file # <<>> => Last(file).says \in Reports /\ persisted = Last(file).says
        /\ file = <<>> => persisted = 0
  <2> SUFFICES ASSUME failures = 0
               PROVE  /\ persisted \in 0 .. starts
                      /\ file # <<>> => Last(file).says \in Reports /\ persisted = Last(file).says
                      /\ file = <<>> => persisted = 0
    OBVIOUS
  <2>1. /\ file \in Seq(Whole) /\ persisted <= starts
        /\ persisted = IF file = <<>> THEN 0 ELSE Last(file).says
    BY DEF DropInv, Intact
  <2>2. file # <<>> => Last(file).says \in Reports
    BY <2>1, LastWhole
  <2> QED
    BY <1>0, <2>1, <2>2
<1>2. CASE Start
  <2>1. Counters'
    BY <1>0, <1>2 DEF Start, Counters, fileVars
  <2>2. failures' = 0 => Intact'
    BY <1>0, <1>1, <1>2 DEF Start, DropInv, Intact, fileVars, At
  <2> QED
    BY <2>1, <2>2 DEF DropInv
<1>3. CASE Exit
  <2>1. Counters'
    BY <1>0, <1>3 DEF Exit, Counters, fileVars
  <2>2. failures' = 0 => Intact'
    BY <1>0, <1>3 DEF Exit, DropInv, Intact, fileVars
  <2> QED
    BY <2>1, <2>2 DEF DropInv
<1>4. CASE ReadReport
  <2>1. Counters'
    BY <1>0, <1>4 DEF ReadReport, DropInv, Counters, fileVars
  <2>2. failures' = 0 => Intact'
    BY <1>4 DEF ReadReport, DropInv, Intact, fileVars
  <2> QED
    BY <2>1, <2>2 DEF DropInv
<1>5. CASE OpenFile
  <2>1. Counters'
    BY <1>0, <1>5 DEF OpenFile, DropInv, Counters
  <2>2. failures' = 0 => Intact'
    BY <1>0, <1>5 DEF OpenFile, DropInv, Intact
  <2> QED
    BY <2>1, <2>2 DEF DropInv
<1>6. CASE WriteString
  <2>0. failures + 1 \in Nat \ {0}
    BY <1>0
  <2>1. /\ up /\ UNCHANGED <<up, starts, reporter, exists, published, torn, panicked>>
        /\ \/ file' = WithText(starts, TRUE) /\ persisted' = starts /\ failures' = failures
           \/ failures' = failures + 1
    BY <1>6, Zenon DEF WriteString
  <2>2. starts \in Reports
    BY <1>0, <2>1 DEF DropInv, Counters
  <2>3. Counters'
    <3>1. failures' \in Nat
      BY <1>0, <2>0, <2>1, Zenon
    <3>2. starts' = starts /\ (up' => up)
      BY <2>1
    <3> QED
      BY <3>1, <3>2 DEF DropInv, Counters
  <2>4. ASSUME failures' = 0 PROVE Intact'
    <3>1. failures = 0 /\ file' = WithText(starts, TRUE) /\ persisted' = starts
      <4>1. failures' # failures + 1
        BY <2>0, <2>4
      <4> QED
        BY <2>1, <2>4, <4>1, Zenon
    <3>2. file' \in Seq(Whole) /\ file' # <<>> /\ Last(file').says = starts
      BY <2>2, <3>1, WithTextWhole DEF DropInv, Intact
    <3>3. \A n \in 1 .. persisted : n \in 1 .. persisted'
      BY <1>0, <1>1, <3>1
    <3>4. \A m \in published' : m[2] \in 1 .. persisted'
      BY <2>1, <3>1, <3>3 DEF DropInv, Intact
    <3>5. reporter'.at \in Metrics => reporter'.line \in 1 .. persisted'
      BY <2>1, <3>1, <3>3 DEF DropInv, Intact
    <3>6. persisted' <= starts' /\ persisted' = starts' /\ (panicked' # {} => torn')
      BY <1>0, <2>1, <3>1 DEF DropInv, Intact
    <3> QED
      BY <2>1, <3>1, <3>2, <3>4, <3>5, <3>6 DEF Intact
  <2> QED
    BY <2>3, <2>4 DEF DropInv
<1>7. CASE ReadLines
  <2>1. Counters'
    BY <1>0, <1>7 DEF ReadLines, DropInv, Counters, fileVars
  <2>2. ASSUME failures' = 0 PROVE Intact'
    <3>1. /\ failures = 0 /\ Readable /\ up
          /\ reporter' = IF ~exists \/ LastLine = NoPipe THEN At("done")
                         ELSE [at |-> "received", line |-> LastLine]
          /\ UNCHANGED <<up, starts, reader, fileVars, published, torn, panicked>>
      BY <1>0, <1>7, <2>2 DEF ReadLines
    <3>2. reporter'.at \in Metrics => file # <<>> /\ reporter'.line = Last(file).says
      BY <1>0, <3>1 DEF At, Readable, LastLine
    <3>3. reporter'.at \in Metrics => reporter'.line \in 1 .. persisted /\ reporter'.line = persisted
      BY <1>0, <1>1, <3>1, <3>2
    <3> QED
      BY <3>1, <3>3 DEF DropInv, Intact, fileVars
  <2> QED
    BY <2>1, <2>2 DEF DropInv
<1>8. CASE ReadPanics
  <2>1. Counters'
    BY <1>0, <1>8 DEF ReadPanics, DropInv, Counters, fileVars
  <2>2. ASSUME failures' = 0 PROVE Intact'
    <3>1. /\ failures = 0 /\ up /\ ~Readable /\ up' = FALSE
          /\ torn' = (torn \/ (reader = "write" /\ file = <<>>))
          /\ UNCHANGED <<starts, reader, reporter, fileVars, published>>
      BY <1>8, <2>2 DEF ReadPanics
    <3>2. exists /\ file = <<>>
      BY <1>0, <1>1, <3>1 DEF Readable, LastLine
    <3>3. torn'
      BY <3>1, <3>2 DEF DropInv, Intact
    <3> QED
      BY <3>1, <3>3 DEF DropInv, Intact, fileVars
  <2> QED
    BY <2>1, <2>2 DEF DropInv
<1>9. CASE PutMetric
  <2>1. Counters'
    BY <1>0, <1>9 DEF PutMetric, DropInv, Counters, fileVars
  <2>2. ASSUME failures' = 0 PROVE Intact'
    <3>1. /\ failures = 0 /\ reporter.at \in Metrics
          /\ published' \subseteq published \union {Datum}
          /\ reporter'.line = reporter.line
          /\ UNCHANGED <<up, starts, reader, fileVars, torn, panicked>>
      BY <1>0, <1>9, <2>2 DEF PutMetric
    <3>2. \A m \in published' : m[2] \in 1 .. persisted
      BY <3>1 DEF Datum, DropInv, Intact
    <3> QED
      BY <3>1, <3>2 DEF DropInv, Intact, fileVars
  <2> QED
    BY <2>1, <2>2 DEF DropInv
<1>10. CASE UNCHANGED dropVars
  BY <1>10 DEF dropVars, fileVars, DropInv, Counters, Intact
<1> QED
  BY <1>2, <1>3, <1>4, <1>5, <1>6, <1>7, <1>8, <1>9, <1>10 DEF DropNext, ReaderStep, ReporterStep

\* The invariant holds before the first start.
LEMMA DropInvInit == DropInit => DropInv
<1> SUFFICES ASSUME DropInit PROVE DropInv
  OBVIOUS
<1>1. Counters
  BY DropReportAssumption DEF DropInit, Counters
<1>2. Intact
  BY EmptySeq DEF DropInit, Intact, At, Metrics
<1> QED
  BY <1>1, <1>2 DEF DropInv

\* The invariant holds in every reachable state.
THEOREM DropInvHolds == DropSpec => []DropInv
BY DropInvInit, DropInvInductive, PTL DEF DropSpec

\* A start panics over the file only when a call has failed or a process ended,
\* or was overtaken, between creating the file and writing its line.
THEOREM PanicsOnlyOverTornFile == DropSpec => []PanicsOnlyTorn
<1>1. DropInv => PanicsOnlyTorn
  BY DEF DropInv, Counters, Intact, PanicsOnlyTorn
<1> QED
  BY <1>1, DropInvHolds, PTL

\* Unless a call failed, the file ends with the report persisted last and a
\* start publishes whole reports only, the last one that was there before its own.
THEOREM PublishesWholeReports == DropSpec => []PublishesReports
<1>1. DropInv => PublishesReports
  BY DEF DropInv, Counters, Intact, PublishesReports
<1> QED
  BY <1>1, DropInvHolds, PTL
=============================================================================
