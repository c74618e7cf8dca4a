------------------------------ MODULE S3Client ------------------------------
(***************************************************************************)
(* The s3 processor (exporters/s3.go).  Process, called by the exporter,   *)
(* adds the entries of a har to dataHolder under the application id of its *)
(* first entry, and uploads everything when it holds too many; a ticker    *)
(* goroutine uploads what is there from time to time.  Both hold the mutex *)
(* during the upload.  S3 is external: PutObject stores and answers, or    *)
(* refuses, or stores and its answer is lost.                              *)
(***************************************************************************)
EXTENDS Naturals, Sequences, SequencesExt, Subsequences

CONSTANTS
  Keys,             \* the strings that GetAppId may return
  MaxNumOfEntries,  \* flag s3-exporter-max-num-of-entries-to-hold
  MaxFailures       \* bound: uploads that fail

ASSUME S3Assumption == MaxNumOfEntries \in Nat /\ MaxFailures \in Nat

VARIABLES
  dataHolder,  \* dataHolder[k]: the entries held under key k
  uploading,   \* "no", or why the holder of the mutex uploads: "Size", "Time"
  bucket,      \* the objects stored: data, and whether the code knows of it
  lastUpload,  \* how the last upload ended for the code: "ok" or "failed"
  failures

s3Vars == <<dataHolder, uploading, bucket, lastUpload, failures>>

EmptyHolder == [k \in Keys |-> <<>>]

S3Init ==
  /\ dataHolder = EmptyHolder
  /\ uploading = "no"
  /\ bucket = <<>>
  /\ lastUpload = "ok"
  /\ failures = 0

getNumOfEntries(data) == MapThenSumSet(LAMBDA k : Len(data[k]), Keys)

-----------------------------------------------------------------------------

\* Bug seeded for checking: the entries are counted before the new ones are in.
HoldCountsBefore(key, entries) ==
  /\ uploading = "no"
  /\ dataHolder' = [dataHolder EXCEPT ![key] = @ \o entries]
  /\ uploading' = IF getNumOfEntries(dataHolder) > MaxNumOfEntries THEN "Size" ELSE "no"
  /\ UNCHANGED <<bucket, lastUpload, failures>>

\* Process, up to the upload if it needs one.
Hold(key, entries) ==
  /\ uploading = "no"
  /\ dataHolder' = [dataHolder EXCEPT ![key] = @ \o entries]
  /\ uploading' = IF getNumOfEntries(dataHolder') > MaxNumOfEntries THEN "Size" ELSE "no"
  /\ UNCHANGED <<bucket, lastUpload, failures>>

\* The ticker of init: doExportWrapper(Time).  Nothing held, nothing done.
PurgeTick ==
  /\ uploading = "no"
  /\ getNumOfEntries(dataHolder) > 0
  /\ uploading' = "Time"
  /\ UNCHANGED <<dataHolder, bucket, lastUpload, failures>>

\* Bug seeded for checking: the holder is emptied whether or not it was stored.
doExportEmpties(stored, answered) ==
  /\ bucket' = IF stored THEN Append(bucket, [data |-> dataHolder, answered |-> answered])
                         ELSE bucket
  /\ dataHolder' = EmptyHolder
  /\ lastUpload' = IF answered THEN "ok" ELSE "failed"
  /\ failures' = IF answered THEN failures ELSE failures + 1
  /\ uploading' = "no"

\* doExport, from PutObject on.  It gives up at the first error; the holder is
\* emptied after success only.
doExport(stored, answered) ==
  /\ bucket' = IF stored THEN Append(bucket, [data |-> dataHolder, answered |-> answered])
                         ELSE bucket
  /\ dataHolder' = IF answered THEN EmptyHolder ELSE dataHolder
  /\ lastUpload' = IF answered THEN "ok" ELSE "failed"
  /\ failures' = IF answered THEN failures ELSE failures + 1
  /\ uploading' = "no"

\* The outcomes of PutObject.
Uploaded == doExport(TRUE, TRUE)
UploadFails == failures < MaxFailures /\ \E stored \in BOOLEAN : doExport(stored, FALSE)

-----------------------------------------------------------------------------
(* Properties, of the entries in the set taken.                            *)

S3TypeOK ==
  /\ DOMAIN dataHolder = Keys
  /\ uploading \in {"no", "Size", "Time"}
  /\ lastUpload \in {"ok", "failed"}
  /\ failures \in 0 .. MaxFailures

Copies(e, data) == MapThenSumSet(LAMBDA k : Len(Among(data[k], {e})), Keys)

\* The copies of entry e in the objects that the code knows to be stored.
CopiesStored(e) ==
  MapThenSumSet(LAMBDA i : Copies(e, bucket[i].data),
                {i \in DOMAIN bucket : bucket[i].answered})

\* Every entry is held or was stored, and never both or twice, except in
\* objects whose answer was lost.
HeldOrStoredOnce(taken) ==
  \A e \in taken : Copies(e, dataHolder) + CopiesStored(e) = 1

\* The entry is in the bucket.
Stored(e) == \E i \in DOMAIN bucket : Copies(e, bucket[i].data) > 0
=============================================================================
