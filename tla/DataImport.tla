------------------------------ MODULE DataImport ------------------------------
(***************************************************************************)
(* The module evaluation-data-import and the transaction in which the      *)
(* staging of a crawl fills it.  An import is created by an administrator  *)
(* or staged by a crawl, its records are reviewed one by one, and it is    *)
(* applied to the items of evaluations or rejected.                        *)
(*                                                                         *)
(* The review of a crawled record runs in a transaction; the review of any *)
(* other record is four statements with nothing locked between them.  An   *)
(* application begins in a transaction and goes on outside it.  A staging  *)
(* reads the records of the other sources at the beginning of its          *)
(* transaction, without a lock, and writes them at the end.                *)
(*                                                                         *)
(* The values of the records are left out, and with them what decides      *)
(* whether two records of one subject conflict; so are the checks of roles *)
(* and teams.  An import has no more records than fit in one chunk.        *)
(***************************************************************************)
EXTENDS Naturals, FiniteSets

CONSTANTS
    Imports,     \* evaluation_data_import
    Crawled,     \* the imports staged by a crawl
    Records,     \* evaluation_data_import_record
    Subjects,    \* an employee and a KPI, of one cycle
    Handlers,    \* requests and stagings in flight
    ImportOf,    \* ImportOf[r]: import_id
    SubjectOf,   \* SubjectOf[r]: cycle_id, employee_code and kpi_code
    SourceOf,    \* SourceOf[i]: source_system
    MaxImports,  \* bound on the imports created or staged
    MaxFaults,   \* bound on failing statements and restarts
    MaxCalls     \* bound on the requests that review or apply

ASSUME DataAssumption ==
    /\ Crawled \subseteq Imports
    /\ ImportOf \in [Records -> Imports] /\ SubjectOf \in [Records -> Subjects]
    /\ DOMAIN SourceOf = Imports
    /\ MaxImports \in Nat /\ MaxFaults \in Nat /\ MaxCalls \in Nat

VARIABLES
    importStatus,  \* evaluation_data_import.status, "NONE" before the insert
    recordStatus,  \* evaluation_data_import_record.status, "NONE" before the insert
    commented,     \* reviewer_comment has 20 characters or more, of crawled records
    handler,       \* the local state of every request
    closed,        \* the subjects whose evaluation is published or locked
    itemWrites,    \* history: the records whose value was written to an item
    scored,        \* history: the records marked by the application of a score
    uncommented,   \* history: the crawled records taken up to be written without a comment
    mergedLate,    \* history: the records merged after the check of an application, before its read
    faults,        \* failing statements and restarts so far
    calls          \* requests that review or apply so far

historyVars == <<itemWrites, scored, uncommented, mergedLate>>
importVars == <<importStatus, recordStatus, commented>>
dataVars == <<importVars, handler, closed, historyVars, faults, calls>>

ImportStatuses == {"NONE", "READY", "CONFLICT", "PENDING_REVIEW", "APPLYING",
                   "APPLIED", "PARTIALLY_APPLIED", "FAILED", "REJECTED"}
RecordStatuses == {"NONE", "VALID", "INVALID", "CONFLICT", "PENDING_REVIEW", "APPLIED", "REJECTED"}

Resting == [op |-> "none"]
Reviewing == [op : {"review"}, at : {"write", "count", "status"}, rec : Records,
              status : RecordStatuses, explained : BOOLEAN, sum : ImportStatuses]
Applying == [op : {"apply"}, at : {"read", "chunk", "mark", "undo", "final"}, imp : Imports,
             rows : SUBSET Records, applied : SUBSET Records, rejected : SUBSET Records,
             some : BOOLEAN, errors : BOOLEAN]
Staging == [op : {"stage"}, imp : Imports, found : SUBSET Records]

DataImportTypeOK ==
    /\ importStatus \in [Imports -> ImportStatuses]
    /\ recordStatus \in [Records -> RecordStatuses]
    /\ commented \in [Records -> BOOLEAN]
    /\ handler \in [Handlers -> Reviewing \cup Applying \cup Staging \cup {Resting}]
    /\ closed \subseteq Subjects
    /\ itemWrites \subseteq Records /\ scored \subseteq Records
    /\ uncommented \subseteq Records /\ mergedLate \subseteq Records
    /\ faults \in 0..MaxFaults
    /\ calls \in 0..MaxCalls

DataInit ==
    /\ importStatus = [i \in Imports |-> "NONE"]
    /\ recordStatus = [r \in Records |-> "NONE"]
    /\ commented = [r \in Records |-> FALSE]
    /\ handler = [h \in Handlers |-> Resting]
    /\ closed = {}
    /\ itemWrites = {} /\ scored = {} /\ uncommented = {} /\ mergedLate = {}
    /\ faults = 0
    /\ calls = 0

Call == calls < MaxCalls /\ calls' = calls + 1

RecordsOf(i) == {r \in Records : ImportOf[r] = i}
Having(i, s) == {r \in RecordsOf(i) : recordStatus[r] = s}
IsCrawled(r) == ImportOf[r] \in Crawled
At(h, step) == handler[h].op = "apply" /\ handler[h].at = step
Stages(h, i) == handler[h].op = "stage" /\ handler[h].imp = i

(* An import that is not there yet, within the bound. *)
New(i) ==
    /\ importStatus[i] = "NONE"
    /\ Cardinality({j \in Imports : importStatus[j] # "NONE" \/ \E h \in Handlers : Stages(h, j)} \cup {i})
          <= MaxImports

-----------------------------------------------------------------------------
(* createImport: a record is VALID, INVALID, or in CONFLICT with a record  *)
(* of the same subject, in this import or in one that was not finished     *)
(* when it was looked for.                                                 *)

Duplicates(i) ==
    {r \in RecordsOf(i) : \E s \in RecordsOf(i) \ {r} : SubjectOf[s] = SubjectOf[r]}
Pending(i) ==
    {r \in RecordsOf(i) : \E s \in Records \ RecordsOf(i) :
        SubjectOf[s] = SubjectOf[r] /\ recordStatus[s] # "NONE"}

(* A duplicate is counted as a conflict before its employee is looked for, *)
(* whose absence makes it INVALID.                                         *)
CreateImport(i) ==
    /\ i \notin Crawled /\ New(i)
    /\ \E bad \in SUBSET RecordsOf(i) : \E conflicts \in SUBSET (Duplicates(i) \cup (Pending(i) \ bad)) :
          /\ recordStatus' = [r \in Records |->
                IF ImportOf[r] # i THEN recordStatus[r]
                ELSE IF r \in bad THEN "INVALID" ELSE IF r \in conflicts THEN "CONFLICT" ELSE "VALID"]
          /\ importStatus' = [importStatus EXCEPT ![i] =
                IF conflicts # {} THEN "CONFLICT" ELSE IF bad = RecordsOf(i) THEN "FAILED" ELSE "READY"]
    /\ UNCHANGED <<commented, handler, closed, historyVars, faults, calls>>

-----------------------------------------------------------------------------
(* CrawlStagingService.stage, its transaction.                             *)

(* The records another source has staged, imported or applied for the      *)
(* subjects of an import, and one of them for each of these subjects.      *)
StagedBefore(i) ==
    {s \in Records \ RecordsOf(i) :
        /\ recordStatus[s] \in {"VALID", "PENDING_REVIEW", "CONFLICT", "APPLIED"}
        /\ \E r \in RecordsOf(i) : SubjectOf[r] = SubjectOf[s]}
OneOfEach(found, S) ==
    /\ \A s \in S : \E t \in found : SubjectOf[t] = SubjectOf[s]
    /\ \A s, t \in found : SubjectOf[s] = SubjectOf[t] => s = t

(* The advisory lock of the cycle keeps other stagings out, nobody else. *)
BeginStaging(h, i) ==
    /\ i \in Crawled /\ New(i)
    /\ handler[h] = Resting /\ \A g \in Handlers : handler[g].op # "stage"
    /\ \E found \in SUBSET StagedBefore(i) :
          /\ OneOfEach(found, StagedBefore(i))
          /\ handler' = [handler EXCEPT ![h] = [op |-> "stage", imp |-> i, found |-> found]]
    /\ UNCHANGED <<importVars, closed, historyVars, faults, calls>>

(* The rows somebody staged before, and the records found whose value is   *)
(* merged with that of a row because they come from another source.        *)
Known(work, output) ==
    {r \in RecordsOf(work.imp) :
        output[r] # "INVALID" /\ \E s \in work.found : SubjectOf[s] = SubjectOf[r]}
Merged(work, output) ==
    {s \in work.found : /\ SourceOf[ImportOf[s]] # SourceOf[work.imp]
                        /\ \E r \in Known(work, output) : SubjectOf[s] = SubjectOf[r]}

(* The record found becomes VALID with the merged value, whatever has been *)
(* done with it since it was read, and so does the new one.                *)
StagedStatus(work, output, r) ==
    LET merges == \E s \in Merged(work, output) : SubjectOf[s] = SubjectOf[r]
    IN  CASE ImportOf[r] # work.imp -> IF r \in Merged(work, output) THEN "VALID" ELSE recordStatus[r]
          [] r \in Known(work, output) -> IF merges THEN "VALID" ELSE "CONFLICT"
          [] OTHER -> output[r]

(* The updates and inserts, seen by others when they are committed.  What  *)
(* the output is worth was decided before; nothing looks at it until now.  *)
CommitStaging(h) ==
    /\ handler[h].op = "stage" /\ importStatus[handler[h].imp] = "NONE"
    /\ \E output \in [RecordsOf(handler[h].imp) -> {"INVALID", "PENDING_REVIEW", "CONFLICT"}] :
          /\ recordStatus' = [r \in Records |-> StagedStatus(handler[h], output, r)]
          /\ mergedLate' = mergedLate \cup
                {s \in Merged(handler[h], output) :
                    \E g \in Handlers : At(g, "read") /\ handler[g].imp = ImportOf[s]}
    /\ importStatus' = [importStatus EXCEPT ![handler[h].imp] = "PENDING_REVIEW"]
    /\ handler' = [handler EXCEPT ![h] = Resting]
    /\ UNCHANGED <<commented, closed, itemWrites, scored, uncommented, faults, calls>>

-----------------------------------------------------------------------------
(* updateDraft                                                             *)

(* The status a review gives a record, from what was read of the record: *)
(* its status and whether it had a comment.                              *)
ReviewedStatus(work, resolution, comment) ==
    LET resolved == CASE resolution = "accept" -> "VALID"
                      [] resolution = "reject" -> "REJECTED"
                      [] resolution = "none" -> work.status
        explained == comment \/ work.explained
    IN  CASE IsCrawled(work.rec) /\ work.status = "PENDING_REVIEW" /\ explained -> "VALID"
          [] IsCrawled(work.rec) /\ work.status = "CONFLICT" /\ resolution # "none" /\ ~explained -> "CONFLICT"
          [] OTHER -> resolved

(* The status of an import whose records have the statuses of S.  The      *)
(* faults forget the records not yet reviewed, or answer with the status   *)
(* of a record.                                                            *)
ConflictsOnly(i, S) ==
    IF \E r \in RecordsOf(i) : S[r] = "CONFLICT" THEN "CONFLICT" ELSE "READY"
ValidRecords(i, S) ==
    IF \E r \in RecordsOf(i) : S[r] = "CONFLICT" THEN "CONFLICT" ELSE "VALID"
StatusOfRecords(i, S) ==
    LET statuses == {S[r] : r \in RecordsOf(i)}
    IN  CASE "PENDING_REVIEW" \in statuses -> "PENDING_REVIEW"
          [] "PENDING_REVIEW" \notin statuses /\ "CONFLICT" \in statuses -> "CONFLICT"
          [] statuses \subseteq {"INVALID"} -> "FAILED"
          [] OTHER -> "READY"

ReadDraft(h, r) ==
    /\ Call /\ handler[h] = Resting
    /\ recordStatus[r] # "NONE"
    /\ importStatus[ImportOf[r]] \notin {"APPLIED", "APPLYING"}
    /\ handler' = [handler EXCEPT ![h] =
          [op |-> "review", at |-> "write", rec |-> r,
           status |-> recordStatus[r], explained |-> commented[r], sum |-> "NONE"]]
    /\ UNCHANGED <<importVars, closed, historyVars, faults>>

WriteRecord(h) ==
    LET work == handler[h]
    IN  \E resolution \in {"none", "accept", "reject"}, comment \in BOOLEAN :
            /\ recordStatus' = [recordStatus EXCEPT ![work.rec] = ReviewedStatus(work, resolution, comment)]
            /\ commented' = [commented EXCEPT ![work.rec] = @ \/ (comment /\ IsCrawled(work.rec))]

(* The transaction locks the import and refuses one that is finished or    *)
(* being applied; the fault trusts what was read before it.                *)
AnyStatus == ImportStatuses
ReviewableStatuses == ImportStatuses \ {"APPLIED", "PARTIALLY_APPLIED", "APPLYING", "REJECTED"}

ReviewCrawled(h) ==
    /\ handler[h].op = "review" /\ IsCrawled(handler[h].rec)
    /\ LET i == ImportOf[handler[h].rec]
       IN  IF importStatus[i] \in ReviewableStatuses
           THEN /\ WriteRecord(h)
                /\ importStatus' = [importStatus EXCEPT ![i] = StatusOfRecords(i, recordStatus')]
           ELSE UNCHANGED importVars
    /\ handler' = [handler EXCEPT ![h] = Resting]
    /\ UNCHANGED <<closed, historyVars, faults, calls>>

UpdateRecordDraft(h) ==
    /\ handler[h].op = "review" /\ handler[h].at = "write" /\ ~IsCrawled(handler[h].rec)
    /\ WriteRecord(h)
    /\ handler' = [handler EXCEPT ![h].at = "count"]
    /\ UNCHANGED <<importStatus, closed, historyVars, faults, calls>>

CountRecords(h) ==
    /\ handler[h].op = "review" /\ handler[h].at = "count"
    /\ handler' = [handler EXCEPT ![h].at = "status",
          ![h].sum = StatusOfRecords(ImportOf[handler[h].rec], recordStatus)]
    /\ UNCHANGED <<importVars, closed, historyVars, faults, calls>>

UpdateImportStatus(h) ==
    /\ handler[h].op = "review" /\ handler[h].at = "status"
    /\ importStatus' = [importStatus EXCEPT ![ImportOf[handler[h].rec]] = handler[h].sum]
    /\ handler' = [handler EXCEPT ![h] = Resting]
    /\ UNCHANGED <<recordStatus, commented, closed, historyVars, faults, calls>>

-----------------------------------------------------------------------------
(* applyImport                                                             *)

(* What a crawled import must be for its application to begin; the fault   *)
(* does not ask for the comments of the reviewer.                          *)
ReviewedUncommented(i) ==
    i \in Crawled => /\ Having(i, "PENDING_REVIEW") = {} /\ Having(i, "CONFLICT") = {}
                     /\ Having(i, "VALID") # {}
Reviewed(i) ==
    i \in Crawled => /\ Having(i, "PENDING_REVIEW") = {} /\ Having(i, "CONFLICT") = {}
                     /\ Having(i, "VALID") # {}
                     /\ \A r \in Having(i, "VALID") : commented[r]

(* The fault lets an application begin while another one goes on. *)
ApplicableOrApplying == {"READY", "PARTIALLY_APPLIED", "APPLYING"}
ApplicableStatuses == {"READY", "PARTIALLY_APPLIED"}

BeginApply(h, i) ==
    /\ Call /\ handler[h] = Resting
    /\ importStatus[i] \in ApplicableStatuses
    /\ Reviewed(i)
    /\ importStatus' = [importStatus EXCEPT ![i] = "APPLYING"]
    /\ handler' = [handler EXCEPT ![h] =
          [op |-> "apply", at |-> "read", imp |-> i, rows |-> {}, applied |-> {}, rejected |-> {},
           some |-> FALSE, errors |-> FALSE]]
    /\ UNCHANGED <<recordStatus, commented, closed, historyVars, faults>>

ReadRecords(h) ==
    /\ At(h, "read")
    /\ LET rows == Having(handler[h].imp, "VALID") \cup Having(handler[h].imp, "CONFLICT")
       IN  /\ handler' = [handler EXCEPT ![h].at = IF rows = {} THEN "final" ELSE "chunk", ![h].rows = rows]
           /\ uncommented' = uncommented \cup {r \in rows : IsCrawled(r) /\ ~commented[r]}
    /\ UNCHANGED <<importVars, closed, itemWrites, scored, mergedLate, faults, calls>>

(* applyImportedKpiData: one transaction, which refuses the records of     *)
(* evaluations that are published or locked.                               *)
ApplyImportedKpiData(h) ==
    /\ At(h, "chunk")
    /\ LET refused == {r \in handler[h].rows : SubjectOf[r] \in closed}
           written == handler[h].rows \ refused
       IN  /\ itemWrites' = itemWrites \cup written
           /\ handler' = [handler EXCEPT
                 ![h].at = "mark", ![h].applied = written, ![h].rejected = refused]
    /\ UNCHANGED <<importVars, closed, scored, uncommented, mergedLate, faults, calls>>

(* updateRecordApplied, then updateRecordRejected, record by record.  The  *)
(* fault marks what was refused like what was written.                     *)
AllApplied(h, r) == "APPLIED"
OutcomeOf(h, r) == IF r \in handler[h].applied THEN "APPLIED" ELSE "REJECTED"

Marked(work, r) ==
    [work EXCEPT !.applied = @ \ {r}, !.rejected = @ \ {r},
                 !.some = @ \/ r \in work.applied, !.errors = @ \/ r \in work.rejected,
                 !.at = IF work.applied \cup work.rejected = {r} THEN "final" ELSE "mark"]

MarkRecord(h) ==
    /\ At(h, "mark")
    /\ \E r \in IF handler[h].applied # {} THEN handler[h].applied ELSE handler[h].rejected :
          /\ recordStatus' = [recordStatus EXCEPT ![r] = OutcomeOf(h, r)]
          /\ handler' = [handler EXCEPT ![h] = Marked(@, r)]
    /\ UNCHANGED <<importStatus, commented, closed, historyVars, faults, calls>>

(* The handler of what was thrown marks every record of the chunk, one by  *)
(* one.                                                                    *)
RejectChunk(h) ==
    /\ At(h, "undo")
    /\ \E r \in handler[h].rows :
          /\ recordStatus' = [recordStatus EXCEPT ![r] = "REJECTED"]
          /\ handler' = [handler EXCEPT ![h].at = IF handler[h].rows = {r} THEN "final" ELSE "undo",
                                        ![h].rows = @ \ {r}, ![h].errors = TRUE]
    /\ UNCHANGED <<importStatus, commented, closed, historyVars, faults, calls>>

(* Written whatever the status of the import is by now. *)
FinishApply(h) ==
    /\ At(h, "final")
    /\ importStatus' = [importStatus EXCEPT ![handler[h].imp] =
          IF ~handler[h].errors THEN "APPLIED"
          ELSE IF handler[h].some THEN "PARTIALLY_APPLIED" ELSE "FAILED"]
    /\ handler' = [handler EXCEPT ![h] = Resting]
    /\ UNCHANGED <<recordStatus, commented, closed, historyVars, faults, calls>>

(* rejectCrawlImport: one transaction, which lets an import that is being  *)
(* applied pass.                                                           *)
RejectCrawlImport(i) ==
    /\ i \in Crawled
    /\ importStatus[i] \notin {"NONE", "APPLIED", "PARTIALLY_APPLIED", "REJECTED"}
    /\ LET rows == {r \in RecordsOf(i) : recordStatus[r] \notin {"APPLIED", "REJECTED"}}
       IN  /\ recordStatus' = [r \in Records |-> IF r \in rows THEN "REJECTED" ELSE recordStatus[r]]
           /\ commented' = [r \in Records |-> r \in rows \/ commented[r]]
    /\ importStatus' = [importStatus EXCEPT ![i] = "REJECTED"]
    /\ UNCHANGED <<handler, closed, historyVars, faults, calls>>

-----------------------------------------------------------------------------
(* What happens around an import.                                          *)

(* CrawlScoringService.applyToEvaluation, its transaction: the score of a  *)
(* row was approved, with or without a comment, or adjusted with one.  The *)
(* record is marked whatever its status is and nothing is written to an    *)
(* item.                                                                   *)
ApplyScore(r) ==
    /\ IsCrawled(r) /\ recordStatus[r] # "NONE" /\ Call
    /\ recordStatus' = [recordStatus EXCEPT ![r] = "APPLIED"]
    /\ \E comment \in BOOLEAN : commented' = [commented EXCEPT ![r] = comment]
    /\ scored' = scored \cup {r}
    /\ UNCHANGED <<importStatus, handler, closed, itemWrites, uncommented, mergedLate, faults>>

(* The evaluation of a subject is published or locked. *)
CloseSubject(k) ==
    /\ k \notin closed
    /\ closed' = closed \cup {k}
    /\ UNCHANGED <<importVars, handler, historyVars, faults, calls>>

Fault ==
    /\ faults < MaxFaults
    /\ faults' = faults + 1

(* What a request does when a statement of it fails: an application goes   *)
(* on to reject the chunk, unless that or what surrounds it is what fails. *)
AfterFailure(h) ==
    IF At(h, "chunk") \/ At(h, "mark") THEN [handler[h] EXCEPT !.at = "undo"] ELSE Resting

HandlerFails(h) ==
    /\ handler[h] # Resting
    /\ Fault
    /\ handler' = [handler EXCEPT ![h] = AfterFailure(h)]
    /\ UNCHANGED <<importVars, closed, historyVars, calls>>

DataRestart ==
    /\ Fault
    /\ handler' = [h \in Handlers |-> Resting]
    /\ UNCHANGED <<importVars, closed, historyVars, calls>>

HandlerStep(h) ==
    \/ ReviewCrawled(h) \/ UpdateRecordDraft(h) \/ CountRecords(h) \/ UpdateImportStatus(h)
    \/ ReadRecords(h) \/ ApplyImportedKpiData(h) \/ MarkRecord(h) \/ RejectChunk(h) \/ FinishApply(h)
    \/ CommitStaging(h)

DataNext ==
    \/ \E i \in Imports : CreateImport(i) \/ RejectCrawlImport(i)
    \/ \E h \in Handlers, r \in Records : ReadDraft(h, r)
    \/ \E h \in Handlers, i \in Imports : BeginApply(h, i) \/ BeginStaging(h, i)
    \/ \E h \in Handlers : HandlerStep(h) \/ HandlerFails(h)
    \/ \E r \in Records : ApplyScore(r)
    \/ \E k \in Subjects : CloseSubject(k)
    \/ DataRestart

DataSpec == DataInit /\ [][DataNext]_dataVars

-----------------------------------------------------------------------------
(* What an application checks at its beginning is true of the records it   *)
(* reads afterwards: whatever is reviewed, rejected, merged or scored in   *)
(* between, it takes up no crawled record without the comment of a         *)
(* reviewer, but for those a staging has merged between the two.           *)
ReviewedBeforeApplied == uncommented \subseteq mergedLate

(* A crawled import is applied by one request at a time, and while it is,  *)
(* it says so or has been rejected in the meantime.                        *)
OneApplier ==
    \A g, h \in Handlers :
        LET i == handler[h].imp
        IN  handler[h].op = "apply" /\ i \in Crawled =>
                /\ importStatus[i] \in {"APPLYING", "REJECTED"}
                /\ handler[g].op = "apply" /\ handler[g].imp = i => g = h

(* A record is APPLIED only when its value has reached the item, whatever  *)
(* statement failed on the way, unless a score was applied to it.          *)
AppliedWasWritten ==
    \A r \in Records : recordStatus[r] = "APPLIED" => r \in itemWrites \cup scored

(* However reviews, merges, rejections and applications interleave, a      *)
(* crawled import that is READY has no record left to review.              *)
ReadyIsResolved ==
    \A i \in Crawled : importStatus[i] = "READY" =>
        Having(i, "PENDING_REVIEW") = {} /\ Having(i, "CONFLICT") = {}

(* A crawled import that was applied is never reviewed, rejected or        *)
(* applied again.                                                          *)
AppliedIsFinal ==
    [][\A i \in Crawled : importStatus[i] = "APPLIED" => importStatus'[i] = "APPLIED"]_dataVars
=============================================================================
