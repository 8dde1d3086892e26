------------------------------ MODULE CsvImport ------------------------------
(***************************************************************************)
(* The module import: a CSV file is uploaded and validated to a preview,   *)
(* and the preview is confirmed, which writes the valid rows to the items  *)
(* of the evaluations batch by batch.  No part of it runs in a             *)
(* transaction: every statement is a step, and the process may restart     *)
(* between any two of them.                                                *)
(*                                                                         *)
(* A job is named by the upload that inserts it.  Its counts of valid and  *)
(* invalid rows are those of its rows: validation fixes which are INVALID. *)
(***************************************************************************)
EXTENDS Naturals, FiniteSets

CONSTANTS
    Uploads,        \* requests of POST /imports/csv
    Confirmations,  \* requests of POST /imports/:id/confirm in flight
    RowNos,         \* the rows a file may have: 1..n
    Items,          \* items of evaluations of the cycle
    FileOf,         \* FileOf[u]: the hash of the file
    KeyOf,          \* KeyOf[u]: the idempotency key
    NoKey,          \* a request without one
    ItemOf,         \* ItemOf[i]: the item row i is about
    ImportBatch,    \* rows in a batch of processJobAsync
    MaxMishaps      \* bound on failing statements and restarts

ASSUME CsvAssumption ==
    /\ RowNos = 1..Cardinality(RowNos) /\ IsFiniteSet(RowNos)
    /\ ItemOf \in [RowNos -> Items]
    /\ DOMAIN FileOf = Uploads /\ DOMAIN KeyOf = Uploads
    /\ ImportBatch \in Nat \ {0} /\ MaxMishaps \in Nat

VARIABLES
    jobStatus,     \* import_job.status, "NONE" before the insert
    rowStatus,     \* import_row.status, "NONE" before the insert
    upload,        \* the progress of every upload
    confirmation,  \* the local state of every confirmation
    openItems,     \* the items whose evaluation is not locked
    cycleLocked,   \* the cycle of the file is locked
    starts,        \* history: confirmations that have started to import the job
    written,       \* history: the rows <<u, i>> whose item was updated
    mishaps        \* failing statements and restarts so far

csvVars == <<jobStatus, rowStatus, upload, confirmation, openItems, cycleLocked, starts, written, mishaps>>
jobVars == <<jobStatus, rowStatus>>
lockVars == <<openItems, cycleLocked>>
traceVars == <<starts, written>>

JobStatuses == {"NONE", "UPLOADED", "PREVIEW", "IMPORTING", "COMPLETED", "PARTIALLY_COMPLETED", "FAILED"}
RowStatuses == {"NONE", "VALID", "INVALID", "IMPORTED", "SKIPPED"}
UploadSteps == {"new", "insert", "parse", "preview", "over"}
NotConfirming == [at |-> "idle"]
ConfirmSteps == {"refuse", "check", "start", "fetch", "evaluations", "row", "mark", "skip",
                 "finish", "notify", "fail"}
Confirming == [at : ConfirmSteps, job : Uploads, strict : BOOLEAN, offset : Nat,
               rows : SUBSET RowNos, open : SUBSET Items, errors : BOOLEAN]

CsvTypeOK ==
    /\ jobStatus \in [Uploads -> JobStatuses]
    /\ rowStatus \in [Uploads -> [RowNos -> RowStatuses]]
    /\ upload \in [Uploads -> UploadSteps]
    /\ confirmation \in [Confirmations -> Confirming \cup {NotConfirming}]
    /\ openItems \subseteq Items
    /\ cycleLocked \in BOOLEAN
    /\ starts \in [Uploads -> Nat]
    /\ written \subseteq Uploads \X RowNos
    /\ mishaps \in 0..MaxMishaps

CsvInit ==
    /\ jobStatus = [u \in Uploads |-> "NONE"]
    /\ rowStatus = [u \in Uploads |-> [i \in RowNos |-> "NONE"]]
    /\ upload = [u \in Uploads |-> "new"]
    /\ confirmation = [c \in Confirmations |-> NotConfirming]
    /\ openItems = Items
    /\ cycleLocked = FALSE
    /\ starts = [u \in Uploads |-> 0]
    /\ written = {}
    /\ mishaps = 0

-----------------------------------------------------------------------------
(* processUpload                                                           *)

UploadMoves(u, from, to) ==
    /\ upload[u] = from
    /\ upload' = [upload EXCEPT ![u] = to]

Inserted == {u \in Uploads : jobStatus[u] # "NONE"}
SameKey(u) == {v \in Inserted : KeyOf[v] = KeyOf[u] /\ KeyOf[u] # NoKey}
SameFile(u) == {v \in Inserted : FileOf[v] = FileOf[u]}

(* The request ends when a job with its key or of its file is there, or    *)
(* when there is no such cycle or no active template of a file.            *)
LookUp(u) ==
    /\ \E next \in {"over", "insert"} :
          /\ SameKey(u) \cup SameFile(u) # {} => next = "over"
          /\ UploadMoves(u, "new", next)
    /\ UNCHANGED <<jobVars, confirmation, lockVars, traceVars, mishaps>>

(* The unique constraints of import_job; the fault trusts the look-ups. *)
LookedUp(u) == TRUE
Unique(u) == SameFile(u) = {} /\ SameKey(u) = {}

CreateImportJob(u) ==
    /\ UploadMoves(u, "insert", IF Unique(u) THEN "parse" ELSE "over")
    /\ jobStatus' = [jobStatus EXCEPT ![u] = IF Unique(u) THEN "UPLOADED" ELSE @]
    /\ UNCHANGED <<rowStatus, confirmation, lockVars, traceVars, mishaps>>

(* validateRow refuses the second row of an item; the fault lets it pass. *)
AnyRow(i) == TRUE
FirstOfItem(i) == \A j \in RowNos : j < i => ItemOf[j] # ItemOf[i]

(* The file is parsed and its n rows are validated and inserted; a file    *)
(* that cannot be parsed leaves the job as it is.                          *)
InsertRows(u) ==
    \/ /\ UploadMoves(u, "parse", "preview")
       /\ \E n \in RowNos : \E valid \in SUBSET {i \in 1..n : FirstOfItem(i)} :
             rowStatus' = [rowStatus EXCEPT ![u] = [i \in RowNos |->
                IF i > n THEN "NONE" ELSE IF i \in valid THEN "VALID" ELSE "INVALID"]]
       /\ UNCHANGED <<jobStatus, confirmation, lockVars, traceVars, mishaps>>
    \/ /\ UploadMoves(u, "parse", "over")
       /\ UNCHANGED <<jobVars, confirmation, lockVars, traceVars, mishaps>>

Preview(u) ==
    /\ UploadMoves(u, "preview", "over")
    /\ jobStatus' = [jobStatus EXCEPT ![u] = "PREVIEW"]
    /\ UNCHANGED <<rowStatus, confirmation, lockVars, traceVars, mishaps>>

-----------------------------------------------------------------------------
(* confirmImport                                                           *)

RowsIn(u, s) == {i \in RowNos : rowStatus[u][i] = s}
ErrorRows(u) == Cardinality(RowsIn(u, "INVALID"))
TotalRows(u) == Cardinality(RowNos) - Cardinality(RowsIn(u, "NONE"))
TargetRows(c) == IF confirmation[c].strict THEN TotalRows(confirmation[c].job)
                 ELSE TotalRows(confirmation[c].job) - ErrorRows(confirmation[c].job)

ConfirmImport(c, u, strict) ==
    /\ confirmation[c] = NotConfirming
    /\ jobStatus[u] = "PREVIEW"
    /\ confirmation' = [confirmation EXCEPT ![c] =
          [at |-> IF strict /\ ErrorRows(u) > 0 THEN "refuse" ELSE "check", job |-> u,
           strict |-> strict, offset |-> 0, rows |-> {}, open |-> {}, errors |-> FALSE]]
    /\ UNCHANGED <<jobVars, upload, lockVars, traceVars, mishaps>>

Becomes(c, s) == jobStatus' = [jobStatus EXCEPT ![confirmation[c].job] = s]
Ends(c) == confirmation' = [confirmation EXCEPT ![c] = NotConfirming]
GoesTo(c, at) == confirmation' = [confirmation EXCEPT ![c].at = at]

(* A strict confirmation of a job with an invalid row. *)
RefuseStrict(c) ==
    /\ confirmation[c].at = "refuse"
    /\ Becomes(c, "FAILED") /\ Ends(c)
    /\ UNCHANGED <<rowStatus, upload, lockVars, traceVars, mishaps>>

CheckCycleLock(c) ==
    /\ confirmation[c].at = "check"
    /\ IF cycleLocked THEN Ends(c) ELSE GoesTo(c, "start")
    /\ UNCHANGED <<jobVars, upload, lockVars, traceVars, mishaps>>

(* The update names the job and nothing else.  More than 500 rows are      *)
(* processed after the answer, which changes nothing here.                 *)
StartImport(c) ==
    /\ confirmation[c].at = "start"
    /\ IF TargetRows(c) = 0 THEN Becomes(c, "COMPLETED") /\ Ends(c)
                            ELSE Becomes(c, "IMPORTING") /\ GoesTo(c, "fetch")
    /\ starts' = [starts EXCEPT ![confirmation[c].job] = @ + 1]
    /\ UNCHANGED <<rowStatus, upload, lockVars, written, mishaps>>

-----------------------------------------------------------------------------
(* processJobAsync and processJobBatch                                     *)

Lowest(S, n) == {i \in S : Cardinality({j \in S : j < i}) < n}
Skipping(S, n) == {i \in S : Cardinality({j \in S : j < i}) >= n}

(* getImportRows: the rows that are VALID now, from an offset that counts  *)
(* the rows of the batches before as if they still were; they are taken by *)
(* their numbers.  The fault counts batches from one.                      *)
Page(c, offset) == Lowest(Skipping(RowsIn(confirmation[c].job, "VALID"), offset), ImportBatch)
NextPage(c) == Page(c, confirmation[c].offset + ImportBatch)
Batch(c) == Page(c, confirmation[c].offset)

FetchBatch(c) ==
    /\ confirmation[c].at = "fetch"
    /\ confirmation' = [confirmation EXCEPT
          ![c].at = IF Batch(c) = {} THEN "finish" ELSE "evaluations", ![c].rows = Batch(c)]
    /\ UNCHANGED <<jobVars, upload, lockVars, traceVars, mishaps>>

(* The evaluations of the batch that are not locked, read once for it. *)
ReadEvaluations(c) ==
    /\ confirmation[c].at = "evaluations"
    /\ confirmation' = [confirmation EXCEPT ![c].at = "row", ![c].open = openItems]
    /\ UNCHANGED <<jobVars, upload, lockVars, traceVars, mishaps>>

(* The next row of the batch. *)
IsNext(c, i) == i \in confirmation[c].rows /\ \A j \in confirmation[c].rows : i <= j

(* The item is updated whatever happened to its evaluation since. *)
WriteItem(c) ==
    /\ confirmation[c].at = "row"
    /\ \E i \in RowNos :
          /\ IsNext(c, i) /\ ItemOf[i] \in confirmation[c].open
          /\ written' = written \cup {<<confirmation[c].job, i>>}
    /\ GoesTo(c, "mark")
    /\ UNCHANGED <<jobVars, upload, lockVars, starts, mishaps>>

(* What is done with a row whose evaluation was locked; the fault marks it *)
(* imported like the others.                                               *)
MarkAnyway(c) == "mark"
LockedRow(c) == "skip"

NoActiveEvaluation(c) ==
    /\ confirmation[c].at = "row"
    /\ \E i \in RowNos : IsNext(c, i) /\ ItemOf[i] \notin confirmation[c].open
    /\ GoesTo(c, LockedRow(c))
    /\ UNCHANGED <<jobVars, upload, lockVars, traceVars, mishaps>>

(* A row ends, and with it may end the batch: the evaluations are          *)
(* recalculated, whose failures are ignored.                               *)
AfterRow(work, i, error) ==
    LET left == work.rows \ {i}
        failed == work.errors \/ error
    IN  [work EXCEPT !.at = IF left # {} THEN "row"
                            ELSE IF work.strict /\ failed THEN "fail" ELSE "fetch",
                     !.rows = left, !.errors = failed,
                     !.offset = IF left = {} THEN @ + ImportBatch ELSE @]

MarkRow(c, s, error) ==
    \E i \in RowNos :
        /\ IsNext(c, i)
        /\ rowStatus' = [rowStatus EXCEPT ![confirmation[c].job][i] = s]
        /\ confirmation' = [confirmation EXCEPT ![c] = AfterRow(confirmation[c], i, error)]

MarkImported(c) ==
    /\ confirmation[c].at = "mark"
    /\ MarkRow(c, "IMPORTED", FALSE)
    /\ UNCHANGED <<jobStatus, upload, lockVars, traceVars, mishaps>>

MarkSkipped(c) ==
    /\ confirmation[c].at = "skip"
    /\ MarkRow(c, "SKIPPED", TRUE)
    /\ UNCHANGED <<jobStatus, upload, lockVars, traceVars, mishaps>>

(* The status at the end; the fault uses the status of the module          *)
(* evaluation-data-import.                                                 *)
StatusOfDataImport(c) == IF confirmation[c].errors THEN "PARTIALLY_APPLIED" ELSE "COMPLETED"
FinalStatus(c) == IF confirmation[c].errors THEN "PARTIALLY_COMPLETED" ELSE "COMPLETED"

FinishJob(c) ==
    /\ confirmation[c].at = "finish"
    /\ Becomes(c, FinalStatus(c))
    /\ IF FinalStatus(c) = "COMPLETED" THEN GoesTo(c, "notify") ELSE Ends(c)
    /\ UNCHANGED <<rowStatus, upload, lockVars, traceVars, mishaps>>

(* The mail of a completed job is prepared and enqueued, in the same try:  *)
(* when that fails the job becomes FAILED after all.                       *)
NotifyImporter(c) ==
    /\ confirmation[c].at = "notify"
    /\ Ends(c)
    /\ UNCHANGED <<jobVars, upload, lockVars, traceVars, mishaps>>

(* The handler of what was thrown; the fault leaves the job as it is. *)
Untouched(c) == UNCHANGED jobStatus
Failed(c) == Becomes(c, "FAILED")

FailJob(c) ==
    /\ confirmation[c].at = "fail"
    /\ Failed(c) /\ Ends(c)
    /\ UNCHANGED <<rowStatus, upload, lockVars, traceVars, mishaps>>

-----------------------------------------------------------------------------
(* What happens around an import.                                          *)

LockItem(k) ==
    /\ openItems' = openItems \ {k}
    /\ UNCHANGED <<jobVars, upload, confirmation, cycleLocked, traceVars, mishaps>>

(* lockCycle locks the evaluations of the cycle with it. *)
LockImportCycle ==
    /\ cycleLocked' = TRUE
    /\ openItems' = {}
    /\ UNCHANGED <<jobVars, upload, confirmation, traceVars, mishaps>>

Mishap ==
    /\ mishaps < MaxMishaps
    /\ mishaps' = mishaps + 1

(* A statement of a request is rejected: the request ends, a row is        *)
(* skipped, or the job fails; the update that fails a job is the last.     *)
ConfirmationFails(c) ==
    /\ confirmation[c] # NotConfirming
    /\ Mishap
    /\ CASE confirmation[c].at \in {"row", "mark"} -> GoesTo(c, "skip")
         [] confirmation[c].at \in {"fetch", "evaluations", "skip", "finish", "notify"} -> GoesTo(c, "fail")
         [] OTHER -> Ends(c)
    /\ UNCHANGED <<jobVars, upload, lockVars, traceVars>>

UploadFails(u) ==
    /\ upload[u] # "over"
    /\ Mishap
    /\ upload' = [upload EXCEPT ![u] = "over"]
    /\ UNCHANGED <<jobVars, confirmation, lockVars, traceVars>>

(* Nothing resumes an upload or an import after a restart. *)
CsvRestart ==
    /\ Mishap
    /\ upload' = [u \in Uploads |-> IF upload[u] = "new" THEN "new" ELSE "over"]
    /\ confirmation' = [c \in Confirmations |-> NotConfirming]
    /\ UNCHANGED <<jobVars, lockVars, traceVars>>

UploadStep(u) ==
    LookUp(u) \/ CreateImportJob(u) \/ InsertRows(u) \/ Preview(u)

ConfirmStep(c) ==
    \/ RefuseStrict(c) \/ CheckCycleLock(c) \/ StartImport(c)
    \/ FetchBatch(c) \/ ReadEvaluations(c) \/ WriteItem(c) \/ NoActiveEvaluation(c)
    \/ MarkImported(c) \/ MarkSkipped(c)
    \/ FinishJob(c) \/ NotifyImporter(c) \/ FailJob(c)

CsvNext ==
    \/ \E u \in Uploads : UploadStep(u) \/ UploadFails(u)
    \/ \E c \in Confirmations, u \in Uploads, strict \in BOOLEAN : ConfirmImport(c, u, strict)
    \/ \E c \in Confirmations : ConfirmStep(c) \/ ConfirmationFails(c)
    \/ \E k \in Items : LockItem(k)
    \/ LockImportCycle
    \/ CsvRestart

(* A confirmation that has begun goes on: the promises it awaits settle. *)
CsvFairness == \A c \in Confirmations : WF_csvVars(ConfirmStep(c))

CsvSpec == CsvInit /\ [][CsvNext]_csvVars /\ CsvFairness

-----------------------------------------------------------------------------
(* However the look-ups of two uploads race, a file has one job in the     *)
(* cycle and a request that is repeated with its key has one job.          *)
OneJobPerFile ==
    \A u, v \in Inserted :
        FileOf[u] = FileOf[v] \/ (KeyOf[u] = KeyOf[v] /\ KeyOf[u] # NoKey) => u = v

(* A row says IMPORTED only when its value has reached the item, whatever  *)
(* statement failed or whoever else processed the row.                     *)
ImportedWasWritten ==
    \A u \in Uploads, i \in RowNos : rowStatus[u][i] = "IMPORTED" => <<u, i>> \in written

(* No two rows of a file ever write the same item: the result does not     *)
(* depend on the order of the rows.                                        *)
ItemWrittenByOneRow ==
    \A u \in Uploads, i, j \in RowNos :
        {<<u, i>>, <<u, j>>} \subseteq written /\ ItemOf[i] = ItemOf[j] => i = j

(* A job that one confirmation has processed does not say COMPLETED of a   *)
(* row that was skipped.                                                   *)
SkippedIsReported ==
    \A u \in Uploads : jobStatus[u] = "COMPLETED" /\ starts[u] = 1 => RowsIn(u, "SKIPPED") = {}

(* While the process stays up and its statements succeed, a job that is    *)
(* being imported ends.                                                    *)
ImportsEnd ==
    \A u \in Uploads : jobStatus[u] = "IMPORTING" ~> jobStatus[u] # "IMPORTING" \/ mishaps > 0

(* A job that fits in one batch is imported as a whole: when it ends, no   *)
(* valid row is left behind, whoever else was importing it.  Of a longer   *)
(* job this is not true: a row that is imported leaves the list the offset *)
(* of the next batch counts in.                                            *)
OneBatchLeavesNone ==
    \A u \in Uploads :
        /\ jobStatus[u] \in {"COMPLETED", "PARTIALLY_COMPLETED"}
        /\ TotalRows(u) - ErrorRows(u) <= ImportBatch
        => RowsIn(u, "VALID") = {}
=============================================================================
